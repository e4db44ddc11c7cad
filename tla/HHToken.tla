------------------------------ MODULE HHToken ------------------------------
(***************************************************************************)
(* The HeadHunter token: tools/hh_auth.py, the 403 self-heal of            *)
(* tools/hh_tools.py and the OAuth routes of app.py, as several processes  *)
(* (gunicorn workers and job runners) run them over one token file.        *)
(*                                                                         *)
(* HeadHunter's side is external and modelled from what the code and its   *)
(* comments rely on: a refresh token is single-use and replaced by the     *)
(* answer; an application token is not issued while the last one is alive  *)
(* ("too early"); an authorization code is single-use; a 403 answers a     *)
(* dead or missing token, and an application token that asks for resumes.  *)
(*                                                                         *)
(* A user token's refresh token is named by the token's own id.  The       *)
(* configuration is the documented one: client id and secret are set,      *)
(* HH_ACCESS_TOKEN is not.                                                 *)
(***************************************************************************)
EXTENDS Naturals

CONSTANTS
  Proc,       \* the processes that use the token
  NoProc,
  Login,      \* OAuth states minted by new_state(), one per login
  NoLogin,
  MaxTokens,  \* bound on the tokens HeadHunter issues
  MaxFaults   \* bound on lost answers and process deaths

ASSUME TokenAssumption ==
  /\ NoProc \notin Proc
  /\ NoLogin \notin Login
  /\ MaxTokens \in Nat
  /\ MaxFaults \in Nat

VARIABLES
  file,       \* config/hh_token.json
  lock,       \* the holder of config/.hh_token.lock
  stateFile,  \* config/hh_oauth_state.json: the one pending login
  minted,     \* the states new_state() has handed out: each is fresh
  req,        \* [Proc -> Request]  the call each process is in
  hh,         \* HeadHunter: what it issued, and what of it still works
  lost,       \* history: refresh tokens spent for an answer that was lost
  faults

vars == <<file, lock, stateFile, minted, req, hh, lost, faults>>

\* dated: the answer carried expires_in, so the file says when it expires.
Token == [id : Nat, kind : {"none", "app", "user"}, dated : BOOLEAN]

\* {}: no file, or one json.load() rejects.
NoToken == [id |-> 0, kind |-> "none", dated |-> FALSE]

\* A token file with a refresh token in it is the longer one.
Size(t) == CASE t.kind = "none" -> 0 [] t.kind = "app" -> 1 [] t.kind = "user" -> 2

PCs == {"idle",
        "load", "lockRefresh", "lockMint", "refresh", "mint",  \* load_access_token
        "send", "heal", "remint",                              \* _get
        "consume", "exchange",                                 \* hh_callback
        "open", "write"}                                       \* _save

Request == [pc      : PCs,
            wants   : {"any", "resumes"},
            attempt : 0..2,
            tok     : Token,
            spent   : Nat,
            login   : Login \cup {NoLogin}]

HeadHunter == [issued : Nat, app : Nat, dead : SUBSET Nat,
               refreshable : SUBSET Nat, redeemed : SUBSET (Login \cup {NoLogin})]

TypeOK ==
  /\ file \in [token : Token, size : 0..2]
  /\ lock \in Proc \cup {NoProc}
  /\ stateFile \in Login \cup {NoLogin}
  /\ minted \subseteq Login
  /\ req \in [Proc -> Request]
  /\ hh \in HeadHunter
  /\ lost \subseteq Nat
  /\ faults \in 0..MaxFaults

Idle == [pc |-> "idle", wants |-> "any", attempt |-> 0, tok |-> NoToken,
         spent |-> 0, login |-> NoLogin]

Init ==
  /\ file = [token |-> NoToken, size |-> 0]
  /\ lock = NoProc
  /\ stateFile = NoLogin
  /\ minted = {}
  /\ req = [p \in Proc |-> Idle]
  /\ hh = [issued |-> 0, app |-> 0, dead |-> {}, refreshable |-> {}, redeemed |-> {}]
  /\ lost = {}
  /\ faults = 0

At(p, pc) == req[p].pc = pc

Finish(p) == req' = [req EXCEPT ![p] = Idle]

Go(p, pc, tok) == req' = [req EXCEPT ![p].pc = pc, ![p].tok = tok]

\* The next attempt of _get's loop: the headers are built again.
Retry(p, attempt) ==
  req' = [req EXCEPT ![p].pc = "load", ![p].attempt = attempt]

\* A mutant of Return: an early return that forgets the lock.
ReturnKeepingLock(p, tok) == Go(p, "send", tok) /\ UNCHANGED lock

\* load_access_token() returns tok; the lock, if p holds it, is released.
Return(p, tok) ==
  /\ Go(p, "send", tok)
  /\ lock' = IF lock = p THEN NoProc ELSE lock

-----------------------------------------------------------------------------
(* load_access_token().                                                    *)

\* _read(): the stored token, or {} while a save is under way.
Stored == file.token

\* It is there and, if its expiry is known, not expired.
Usable(t) == t # NoToken /\ ~(t.dated /\ t.id \in hh.dead)

\* The hot path, without the lock.
Load(p) ==
  /\ At(p, "load")
  /\ \/ Usable(Stored) /\ Go(p, "send", Stored)
     \/ Stored # NoToken /\ ~Usable(Stored) /\ Go(p, "lockRefresh", Stored)
     \/ Stored = NoToken /\ Go(p, "lockMint", NoToken)
  /\ UNCHANGED <<file, lock, stateFile, minted, hh, lost, faults>>

\* A mutant of LockRefresh: it goes on with the token it read without the lock.
LockRefreshNoReread(p) ==
  /\ At(p, "lockRefresh")
  /\ lock = NoProc
  /\ lock' = p
  /\ Go(p, IF req[p].tok.kind = "user" THEN "refresh" ELSE "mint", req[p].tok)
  /\ UNCHANGED <<file, stateFile, minted, hh, lost, faults>>

\* Another: the lock is a lock of this process only (a threading.Lock).
LockRefreshInProcess(p) ==
  /\ At(p, "lockRefresh")
  /\ Stored.kind = "user" /\ ~Usable(Stored)
  /\ Go(p, "refresh", Stored)
  /\ lock' = p
  /\ UNCHANGED <<file, stateFile, minted, hh, lost, faults>>

\* Under the lock the file is read again: another process may have been faster.
LockRefresh(p) ==
  /\ At(p, "lockRefresh")
  /\ lock = NoProc
  /\ \/ /\ Usable(Stored) \/ Stored = NoToken
        /\ Return(p, Stored)
     \/ /\ Stored.kind = "user" /\ ~Usable(Stored)
        /\ Go(p, "refresh", Stored)
        /\ lock' = p
     \/ /\ Stored.kind = "app" /\ ~Usable(Stored)
        /\ Go(p, "mint", Stored)
        /\ lock' = p
  /\ UNCHANGED <<file, stateFile, minted, hh, lost, faults>>

\* Nothing was stored: a token another process has stored since is taken as it
\* is, otherwise an application token is minted.
LockMint(p) ==
  /\ At(p, "lockMint")
  /\ lock = NoProc
  /\ \/ Stored # NoToken /\ Return(p, Stored)
     \/ Stored = NoToken /\ Go(p, "mint", NoToken) /\ lock' = p
  /\ UNCHANGED <<file, stateFile, minted, hh, lost, faults>>

-----------------------------------------------------------------------------
(* The requests to HeadHunter's token endpoint.  HeadHunter or the network *)
(* can always refuse; a lost answer is a fault.                            *)

CanIssue == hh.issued < MaxTokens

NewId == hh.issued + 1

NewUser == [id |-> NewId, kind |-> "user", dated |-> TRUE]
NewApp(dated) == [id |-> NewId, kind |-> "app", dated |-> dated]

Issue(used) ==
  [hh EXCEPT !.issued = NewId, !.refreshable = (@ \ used) \cup {NewId}]

AppAlive == hh.app # 0 /\ hh.app \notin hh.dead

\* _refresh().
Refresh(p) ==
  LET r == req[p].tok.id IN
  /\ At(p, "refresh")
  /\ \/ /\ CanIssue /\ r \in hh.refreshable          \* answered: save it
        /\ hh' = Issue({r})
        /\ req' = [req EXCEPT ![p].pc = "open", ![p].tok = NewUser, ![p].spent = r]
        /\ UNCHANGED <<lock, lost, faults>>
     \/ /\ CanIssue /\ r \in hh.refreshable          \* the answer is lost
        /\ faults < MaxFaults
        /\ hh' = Issue({r})
        /\ lost' = lost \cup {r}
        /\ faults' = faults + 1
        /\ Return(p, req[p].tok)
     \/ /\ Return(p, req[p].tok)                     \* refused: the expired token
        /\ UNCHANGED <<hh, lost, faults>>
  /\ UNCHANGED <<file, stateFile, minted>>

\* get_app_token(), up to its save: issued, "too early", or failed.
AppIssued(p) ==
  /\ CanIssue /\ ~AppAlive
  /\ hh' = [hh EXCEPT !.issued = NewId, !.app = NewId]
  /\ \E dated \in BOOLEAN : Go(p, "open", NewApp(dated))

TooEarly == AppAlive /\ Stored.kind = "app"

\* ... under the lock, from load_access_token().
Mint(p) ==
  /\ At(p, "mint")
  /\ \/ AppIssued(p) /\ UNCHANGED lock
     \/ TooEarly /\ Return(p, Stored) /\ UNCHANGED hh
     \/ Return(p, req[p].tok) /\ UNCHANGED hh
  /\ UNCHANGED <<file, stateFile, minted, lost, faults>>

\* ... without it, from _get(): the attempt is repeated if the token is new.
Remint(p) ==
  /\ At(p, "remint")
  /\ \/ AppIssued(p)
     \/ TooEarly /\ Stored # req[p].tok /\ Retry(p, 1) /\ UNCHANGED hh
     \/ Finish(p) /\ UNCHANGED hh
  /\ UNCHANGED <<file, lock, stateFile, minted, lost, faults>>

-----------------------------------------------------------------------------
(* _save(): open(TOKEN_FILE, "w") truncates, the write follows on close.   *)

SaveOpen(p) ==
  /\ At(p, "open")
  /\ file' = [token |-> NoToken, size |-> 0]
  /\ req' = [req EXCEPT ![p].pc = "write"]
  /\ UNCHANGED <<lock, stateFile, minted, hh, lost, faults>>

\* Two saves can overlap.  The later write starts at the beginning of the file
\* too, and leaves the tail of a longer one behind; two of the same kind differ
\* by the digits of expires_at, so either outcome is possible.
Written(t) ==
  LET clean   == [token |-> t, size |-> Size(t)]
      garbled == [token |-> NoToken, size |-> file.size]
  IN  CASE file.size < Size(t) -> {clean}
        [] file.size = Size(t) -> {clean, garbled}
        [] file.size > Size(t) -> {garbled}

\* What runs after the save depends on the caller: load_access_token, which
\* holds the lock, the self-heal, or the callback.
SaveWrite(p) ==
  /\ At(p, "write")
  /\ file' \in Written(req[p].tok)
  /\ \/ /\ lock = p
        /\ req' = [req EXCEPT ![p].pc = "send", ![p].spent = 0]
        /\ lock' = NoProc
     \/ /\ lock # p /\ req[p].tok.kind = "app"
        /\ Retry(p, 1)
        /\ UNCHANGED lock
     \/ /\ lock # p /\ req[p].tok.kind = "user"
        /\ Finish(p)
        /\ UNCHANGED lock
  /\ UNCHANGED <<stateFile, minted, hh, lost, faults>>

-----------------------------------------------------------------------------
(* _get(): up to three attempts.                                           *)

Begin(p) ==
  /\ At(p, "idle")
  /\ \E wants \in {"any", "resumes"} :
       req' = [req EXCEPT ![p] = [Idle EXCEPT !.pc = "load", !.wants = wants]]
  /\ UNCHANGED <<file, lock, stateFile, minted, hh, lost, faults>>

Forbidden(p) ==
  LET t == req[p].tok IN
  \/ t = NoToken
  \/ t.id \in hh.dead
  \/ t.kind = "app" /\ req[p].wants = "resumes"

\* A mutant of Send: a rate-limited call is tried once too often.
SendOnceMore(p) ==
  /\ At(p, "send")
  /\ \/ Finish(p)
     \/ Forbidden(p) /\ Go(p, "heal", req[p].tok)
     \/ req[p].attempt <= 2 /\ Retry(p, req[p].attempt + 1)
  /\ UNCHANGED <<file, lock, stateFile, minted, hh, lost, faults>>

\* Answered; forbidden; rate-limited (429), which is retried twice.
Send(p) ==
  /\ At(p, "send")
  /\ \/ Finish(p)
     \/ Forbidden(p) /\ Go(p, "heal", req[p].tok)
     \/ req[p].attempt < 2 /\ Retry(p, req[p].attempt + 1)
  /\ UNCHANGED <<file, lock, stateFile, minted, hh, lost, faults>>

\* After a 403: only on the first attempt, and only for an application token.
Heal(p) ==
  /\ At(p, "heal")
  /\ \/ req[p].attempt = 0 /\ Stored.kind = "app" /\ Go(p, "remint", Stored)
     \/ ~(req[p].attempt = 0 /\ Stored.kind = "app") /\ Finish(p)
  /\ UNCHANGED <<file, lock, stateFile, minted, hh, lost, faults>>

-----------------------------------------------------------------------------
(* The login: /hh/authorize, then HeadHunter's page, then /hh/callback.    *)

\* new_state(): a second login replaces the pending one.
Authorize(p, l) ==
  /\ At(p, "idle")
  /\ l \notin minted
  /\ stateFile' = l
  /\ minted' = minted \cup {l}
  /\ UNCHANGED <<file, lock, req, hh, lost, faults>>

\* consume_state(): the comparison, and then the removal of whatever is there.
\* A state that does not match, or is older than ten minutes, is refused.
CallbackRead(p, l) ==
  /\ At(p, "idle")
  /\ stateFile = l
  /\ req' = [req EXCEPT ![p].pc = "consume", ![p].login = l]
  /\ UNCHANGED <<file, lock, stateFile, minted, hh, lost, faults>>

CallbackRemove(p) ==
  /\ At(p, "consume")
  /\ stateFile' = NoLogin
  /\ req' = [req EXCEPT ![p].pc = "exchange"]
  /\ UNCHANGED <<file, lock, minted, hh, lost, faults>>

\* exchange_code(), up to its save.
Exchange(p) ==
  LET l == req[p].login IN
  /\ At(p, "exchange")
  /\ \/ /\ CanIssue /\ l \notin hh.redeemed
        /\ hh' = [Issue({}) EXCEPT !.redeemed = @ \cup {l}]
        /\ Go(p, "open", NewUser)
     \/ Finish(p) /\ UNCHANGED hh
  /\ UNCHANGED <<file, lock, stateFile, minted, lost, faults>>

-----------------------------------------------------------------------------
(* The surroundings.                                                       *)

\* A token expires, or enters the last minute before, which the code takes for
\* expired too; HeadHunter may then still answer it (the first case of Send).
Expire(id) ==
  /\ id \in 1..hh.issued \ hh.dead
  /\ hh' = [hh EXCEPT !.dead = @ \cup {id}]
  /\ UNCHANGED <<file, lock, stateFile, minted, req, lost, faults>>

\* A process dies: OOM, the worker timeout, a canceled job.  Its flock goes.
Die(p) ==
  /\ ~At(p, "idle")
  /\ faults < MaxFaults
  /\ faults' = faults + 1
  /\ lost' = lost \cup ({req[p].spent} \ {0})
  /\ lock' = IF lock = p THEN NoProc ELSE lock
  /\ Finish(p)
  /\ UNCHANGED <<file, stateFile, minted, hh>>

Next ==
  \/ \E p \in Proc : \/ Begin(p)
                     \/ Load(p)
                     \/ LockRefresh(p)
                     \/ LockMint(p)
                     \/ Refresh(p)
                     \/ Mint(p)
                     \/ Remint(p)
                     \/ SaveOpen(p)
                     \/ SaveWrite(p)
                     \/ Send(p)
                     \/ Heal(p)
                     \/ CallbackRemove(p)
                     \/ Exchange(p)
                     \/ Die(p)
                     \/ \E l \in Login : Authorize(p, l) \/ CallbackRead(p, l)
  \/ \E id \in 1..MaxTokens : Expire(id)

Spec == Init /\ [][Next]_vars

(* Fairness.  A process that has started a call goes on with it: HeadHunter *)
(* answers, refuses or times out (30 s).  flock() wakes a waiter when the   *)
(* lock is released, so a process that waits while the lock is freed again  *)
(* and again gets it.  Calls and logins need never begin, faults and expiry *)
(* never happen.                                                            *)
Step(p) == \/ Load(p)       \/ Refresh(p)   \/ Mint(p)  \/ Remint(p)
           \/ SaveOpen(p)   \/ SaveWrite(p) \/ Send(p)  \/ Heal(p)
           \/ CallbackRemove(p) \/ Exchange(p)

FairSpec ==
  /\ Spec
  /\ \A p \in Proc : /\ WF_vars(Step(p))
                     /\ SF_vars(LockRefresh(p))
                     /\ SF_vars(LockMint(p))

-----------------------------------------------------------------------------
(* Properties the code has.                                                *)

\* Refreshing is serialised: no process presents a refresh token that another
\* one has spent, so no dead token is persisted.  Only a token whose rotation
\* got lost on the way to the file can be presented again.
RefreshTokensAreFresh ==
  [][\A p \in Proc : Refresh(p) => req[p].tok.id \in hh.refreshable \cup lost]_vars

\* Every call to HeadHunter and every callback comes to its end: the retries
\* are bounded, and whoever takes the lock gives it back.
CallsEnd == \A p \in Proc : ~At(p, "idle") ~> At(p, "idle")

\* The inductive invariant.  Who holds the lock is between taking it and
\* returning; the stored user token is good, or is being replaced by the
\* holder; a user token on its way to the file is nowhere else yet.
Good == hh.refreshable \cup lost

InFlight(p) == req[p].pc \in {"open", "write"} /\ req[p].tok.kind = "user"

LockDiscipline ==
  \A p \in Proc :
    /\ req[p].pc \in {"refresh", "mint"} => lock = p
    /\ lock = p => req[p].pc \in {"refresh", "mint", "open", "write"}
    /\ req[p].spent # 0 => lock = p /\ req[p].pc \in {"open", "write"}

StoredTokenIsGood ==
  file.token.kind = "user" =>
    \/ file.token.id \in Good
    \/ \E p \in Proc : /\ lock = p
                       /\ file.token.id = req[p].spent
                       /\ req[p].spent # 0

TokensInFlight ==
  \A p \in Proc :
    /\ At(p, "refresh") => req[p].tok.kind = "user" /\ req[p].tok.id \in Good
    /\ InFlight(p) =>
         /\ req[p].tok.id \in hh.refreshable
         /\ req[p].tok.id # file.token.id
         /\ \A q \in Proc \ {p} :
              req[q].pc \in {"refresh", "open", "write"} =>
                req[q].tok.id # req[p].tok.id

IdsAreIssued ==
  /\ file.token.id <= hh.issued
  /\ \A p \in Proc : req[p].tok.id <= hh.issued
  /\ \A id \in hh.refreshable : id \in 1..hh.issued

TokenInv ==
  LockDiscipline /\ StoredTokenIsGood /\ TokensInFlight /\ IdsAreIssued

-----------------------------------------------------------------------------
(* What the comments and docs say and the code does not do.                *)

\* docs/DEVELOPER.md on the self-heal: "the user token is never overwritten".
\* The self-heal's save, the one of an application token that does without the
\* lock, never truncates a file that holds a user token.
HealSparesUserToken ==
  [][\A p \in Proc :
       SaveOpen(p) /\ lock # p /\ req[p].tok.kind = "app"
         => Stored.kind # "user"]_vars
=============================================================================
