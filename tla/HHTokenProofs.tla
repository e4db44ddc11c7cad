--------------------------- MODULE HHTokenProofs ---------------------------
(***************************************************************************)
(* Theorems about HHToken, for every number of processes, logins, tokens   *)
(* and faults: refreshing is serialised although the callback and the      *)
(* self-heal write the same file without the lock.                         *)
(***************************************************************************)
EXTENDS HHToken, TLAPS

\* The operators the actions are made of yield typed values.
LEMMA TokensTyped ==
  ASSUME TypeOK
  PROVE  /\ NoToken \in Token /\ NewUser \in Token
         /\ \A dated \in BOOLEAN : NewApp(dated) \in Token
         /\ Stored \in Token
         /\ \A p \in Proc : req[p] \in Request /\ req[p].tok \in Token
         /\ Idle \in Request
  BY DEF TypeOK, HeadHunter, NoToken, NewUser, NewApp, NewId, Stored, Token, Request, Idle, PCs

LEMMA RequestsTyped ==
  ASSUME TypeOK, NEW p \in Proc
  PROVE  /\ Finish(p) => req' \in [Proc -> Request]
         /\ \A pc \in PCs, tok \in Token :
              Go(p, pc, tok) => req' \in [Proc -> Request]
         /\ \A a \in 0..2 : Retry(p, a) => req' \in [Proc -> Request]
         /\ \A tok \in Token :
              Return(p, tok) => /\ req' \in [Proc -> Request]
                                /\ lock' \in Proc \cup {NoProc}
<1>1. req \in [Proc -> Request] /\ req[p] \in Request
  BY DEF TypeOK
<1>2. Finish(p) => req' \in [Proc -> Request]
  BY <1>1, TokensTyped DEF Finish
<1>3. ASSUME NEW pc \in PCs, NEW tok \in Token, Go(p, pc, tok)
      PROVE  req' \in [Proc -> Request]
  <2>1. [req[p] EXCEPT !.pc = pc, !.tok = tok] \in Request
    BY <1>1 DEF Request
  <2>2. req' = [req EXCEPT ![p] = [req[p] EXCEPT !.pc = pc, !.tok = tok]]
    BY <1>1, <1>3 DEF Go, Request
  <2> QED
    BY <1>1, <2>1, <2>2
<1>4. ASSUME NEW a \in 0..2, Retry(p, a) PROVE req' \in [Proc -> Request]
  BY <1>1, <1>4 DEF Retry, Request, PCs
<1>5. ASSUME NEW tok \in Token, Return(p, tok)
      PROVE  req' \in [Proc -> Request] /\ lock' \in Proc \cup {NoProc}
  BY <1>3, <1>5 DEF Return, TypeOK, PCs
<1> QED
  BY <1>2, <1>3, <1>4, <1>5

LEMMA IssueTyped ==
  ASSUME TypeOK, NEW used PROVE Issue(used) \in HeadHunter
<1>1. hh \in HeadHunter
  BY DEF TypeOK
<1>2. hh.issued + 1 \in Nat /\ (hh.refreshable \ used) \cup {hh.issued + 1} \in SUBSET Nat
  BY <1>1 DEF HeadHunter
<1>3. Issue(used) = [hh EXCEPT !.issued = hh.issued + 1,
                       !.refreshable = (hh.refreshable \ used) \cup {hh.issued + 1}]
  BY <1>1 DEF Issue, NewId, HeadHunter
<1> QED
  BY <1>1, <1>2, <1>3 DEF HeadHunter

LEMMA InitTyped == Init => TypeOK
  BY TokenAssumption DEF Init, TypeOK, HeadHunter, Token, NoToken, Request, Idle, PCs

LEMMA NextTyped == TypeOK /\ [Next]_vars => TypeOK'
<1> SUFFICES ASSUME TypeOK, [Next]_vars PROVE TypeOK'
  OBVIOUS
<1> USE TokenAssumption, TokensTyped, RequestsTyped
<1>1. CASE UNCHANGED vars
  BY <1>1 DEF vars, TypeOK
<1>2. ASSUME NEW p \in Proc, Begin(p) PROVE TypeOK'
  <2>1. ASSUME NEW wants \in {"any", "resumes"}
        PROVE  [Idle EXCEPT !.pc = "load", !.wants = wants] \in Request
    BY DEF Request, PCs
  <2> QED
    BY <1>2, <2>1 DEF Begin, TypeOK
<1>3. ASSUME NEW p \in Proc, Load(p) PROVE TypeOK'
  BY <1>3 DEF Load, TypeOK, PCs
<1>4. ASSUME NEW p \in Proc, LockRefresh(p) PROVE TypeOK'
  BY <1>4 DEF LockRefresh, TypeOK, PCs
<1>5. ASSUME NEW p \in Proc, LockMint(p) PROVE TypeOK'
  BY <1>5 DEF LockMint, TypeOK, PCs
<1>6. ASSUME NEW p \in Proc, Refresh(p) PROVE TypeOK'
  <2>1. hh' = hh \/ hh' = Issue({req[p].tok.id})
    BY <1>6 DEF Refresh
  <2>2. hh' \in HeadHunter
    BY <2>1, IssueTyped DEF TypeOK
  <2>3. req[p].tok.id \in Nat
    BY DEF TypeOK, Request, Token
  <2>4. req' \in [Proc -> Request]
    <3>1. CASE req' = [req EXCEPT ![p].pc = "open", ![p].tok = NewUser,
                                  ![p].spent = req[p].tok.id]
      <4>1. [req[p] EXCEPT !.pc = "open", !.tok = NewUser,
                           !.spent = req[p].tok.id] \in Request
        BY <2>3 DEF Request, PCs
      <4> QED
        BY <3>1, <4>1 DEF TypeOK
    <3>2. CASE Return(p, req[p].tok)
      BY <3>2
    <3> QED
      BY <1>6, <3>1, <3>2 DEF Refresh
  <2>5. /\ lost' \subseteq Nat
        /\ faults' \in 0..MaxFaults
        /\ lock' \in Proc \cup {NoProc}
    BY <1>6, <2>3 DEF Refresh, TypeOK
  <2> QED
    BY <1>6, <2>2, <2>4, <2>5 DEF Refresh, TypeOK
<1>7. ASSUME NEW p \in Proc, AppIssued(p)
      PROVE  req' \in [Proc -> Request] /\ hh' \in HeadHunter
  <2>1. hh' \in HeadHunter
    <3>1. hh \in HeadHunter /\ NewId \in Nat
      BY DEF TypeOK, HeadHunter, NewId
    <3>2. hh' = [hh EXCEPT !.issued = NewId, !.app = NewId]
      BY <1>7 DEF AppIssued
    <3> QED
      BY <3>1, <3>2 DEF HeadHunter
  <2>2. req' \in [Proc -> Request]
    BY <1>7 DEF AppIssued, PCs
  <2> QED
    BY <2>1, <2>2
<1>8. ASSUME NEW p \in Proc, Mint(p) PROVE TypeOK'
  BY <1>7, <1>8 DEF Mint, TypeOK
<1>9. ASSUME NEW p \in Proc, Remint(p) PROVE TypeOK'
  BY <1>7, <1>9 DEF Remint, TypeOK
<1>10. ASSUME NEW p \in Proc, SaveOpen(p) PROVE TypeOK'
  BY SMTT(30), <1>10 DEF SaveOpen, TypeOK, Request, PCs
<1>11. ASSUME NEW p \in Proc, SaveWrite(p) PROVE TypeOK'
  <2>1. file' \in [token : Token, size : 0..2]
    BY <1>11 DEF SaveWrite, Written, Size, TypeOK, Token
  <2>2. req' \in [Proc -> Request]
    BY <1>11 DEF SaveWrite, TypeOK, Request, PCs
  <2> QED
    BY <1>11, <2>1, <2>2 DEF SaveWrite, TypeOK
<1>12. ASSUME NEW p \in Proc, Send(p) PROVE TypeOK'
  <2>1. req' \in [Proc -> Request]
    BY <1>12 DEF Send, TypeOK, Request, PCs
  <2> QED
    BY <1>12, <2>1 DEF Send, TypeOK
<1>13. ASSUME NEW p \in Proc, Heal(p) PROVE TypeOK'
  BY <1>13 DEF Heal, TypeOK, PCs
<1>14. ASSUME NEW p \in Proc, CallbackRemove(p) PROVE TypeOK'
  BY <1>14 DEF CallbackRemove, TypeOK, Request, PCs
<1>15. ASSUME NEW p \in Proc, Exchange(p) PROVE TypeOK'
  <2>1. CASE req' = [req EXCEPT ![p] = Idle] /\ hh' = hh
    BY <1>15, <2>1 DEF Exchange, TypeOK, Finish
  <2>2. CASE /\ hh' = [Issue({}) EXCEPT !.redeemed = @ \cup {req[p].login}]
             /\ Go(p, "open", NewUser)
    <3>1. req[p].login \in Login \cup {NoLogin}
      BY DEF Request
    <3>2. hh' \in HeadHunter
      BY <2>2, <3>1, IssueTyped DEF HeadHunter
    <3>3. req' \in [Proc -> Request]
      BY <2>2 DEF PCs
    <3> QED
      BY <1>15, <3>2, <3>3 DEF Exchange, TypeOK
  <2> QED
    BY <1>15, <2>1, <2>2 DEF Exchange, Finish
<1>16. ASSUME NEW p \in Proc, Die(p) PROVE TypeOK'
  <2>1. req[p].spent \in Nat
    BY DEF Request
  <2>2. lost' \subseteq Nat
    BY <1>16, <2>1 DEF Die, TypeOK
  <2>3. faults' \in 0..MaxFaults
    BY <1>16 DEF Die, TypeOK
  <2> QED
    BY <1>16, <2>2, <2>3 DEF Die, TypeOK
<1>17. ASSUME NEW p \in Proc, NEW l \in Login, Authorize(p, l) \/ CallbackRead(p, l)
       PROVE  TypeOK'
  BY <1>17 DEF Authorize, CallbackRead, TypeOK, Request, PCs
<1>18. ASSUME NEW id \in 1..MaxTokens, Expire(id) PROVE TypeOK'
  BY <1>18 DEF Expire, TypeOK, HeadHunter
<1> QED
  BY <1>1, <1>2, <1>3, <1>4, <1>5, <1>6, <1>8, <1>9, <1>10, <1>11, <1>12, <1>13,
     <1>14, <1>15, <1>16, <1>17, <1>18 DEF Next

\* Type correctness of HHToken.
THEOREM TokenTypes == Spec => []TypeOK
<1> QED
  BY InitTyped, NextTyped, PTL DEF Spec

-----------------------------------------------------------------------------
(* The inductive invariant.                                                *)

LEMMA InitInv == Init => TokenInv
  BY TokenAssumption
  DEF Init, TokenInv, LockDiscipline, StoredTokenIsGood, TokensInFlight, IdsAreIssued,
      At, InFlight, Idle, NoToken, Good

\* p moves to, or stays at, a place where it neither holds the lock nor has a
\* token under way.
LEMMA Quiet ==
  ASSUME TypeOK, TokenInv, TypeOK',
         NEW p \in Proc, NEW r \in Request,
         req' = [req EXCEPT ![p] = r],
         r.pc \notin {"refresh", "mint", "open", "write"},
         r.spent = 0,
         r.tok.id <= hh.issued,
         lock' = IF lock = p THEN NoProc ELSE lock,
         file' = file,
         hh'.issued = hh.issued,
         hh'.refreshable = hh.refreshable,
         lost \subseteq lost',
         lock = p /\ req[p].spent # 0 => req[p].spent \in lost'
  PROVE  TokenInv'
<1>1. /\ req'[p] = r
      /\ \A q \in Proc \ {p} : req'[q] = req[q]
  BY DEF TypeOK
<1>2. LockDiscipline'
  BY <1>1, TokenAssumption DEF TokenInv, LockDiscipline
<1>3. StoredTokenIsGood'
  <2> SUFFICES ASSUME file.token.kind = "user", file.token.id \notin Good'
               PROVE  \E q \in Proc : /\ lock' = q
                                      /\ file.token.id = req'[q].spent
                                      /\ req'[q].spent # 0
    BY DEF StoredTokenIsGood
  <2>1. file.token.id \notin Good
    BY DEF Good
  <2>2. PICK q \in Proc : lock = q /\ file.token.id = req[q].spent /\ req[q].spent # 0
    BY <2>1 DEF TokenInv, StoredTokenIsGood
  <2>3. q # p
    BY <2>2 DEF Good
  <2> QED
    BY <1>1, <2>2, <2>3
<1>4. TokensInFlight'
  <2>1. Good \subseteq Good'
    BY DEF Good
  <2> QED
    BY <1>1, <2>1 DEF TokenInv, TokensInFlight, InFlight, At
<1>5. IdsAreIssued'
  BY <1>1 DEF TokenInv, IdsAreIssued
<1> QED
  BY <1>2, <1>3, <1>4, <1>5 DEF TokenInv

\* p, which has no lock, takes it to refresh the stored token or to mint one.
LEMMA Takes ==
  ASSUME TypeOK, TokenInv, TypeOK',
         NEW p \in Proc, NEW r \in Request,
         req' = [req EXCEPT ![p] = r],
         lock = NoProc, lock' = p,
         \/ r.pc = "mint"
         \/ r.pc = "refresh" /\ r.tok = file.token /\ r.tok.kind = "user",
         r.spent = 0,
         r.tok.id <= hh.issued,
         UNCHANGED <<file, hh, lost>>
  PROVE  TokenInv'
<1>1. /\ req'[p] = r
      /\ \A q \in Proc \ {p} : req'[q] = req[q]
  BY DEF TypeOK
<1>2. LockDiscipline'
  BY <1>1, TokenAssumption DEF TokenInv, LockDiscipline
<1>3. file.token.kind = "user" => file.token.id \in Good
  BY TokenAssumption DEF TokenInv, StoredTokenIsGood
<1>4. StoredTokenIsGood'
  BY <1>3 DEF StoredTokenIsGood, Good
<1>5. TokensInFlight'
  BY <1>1, <1>3 DEF TokenInv, TokensInFlight, InFlight, At, Good
<1>6. IdsAreIssued'
  BY <1>1 DEF TokenInv, IdsAreIssued
<1> QED
  BY <1>2, <1>4, <1>5, <1>6 DEF TokenInv

\* p gets a new token from HeadHunter, perhaps in exchange for its refresh
\* token, and goes on to save it.
LEMMA Gets ==
  ASSUME TypeOK, TokenInv, TypeOK',
         NEW p \in Proc, NEW r \in Request,
         req' = [req EXCEPT ![p] = r],
         req[p].spent = 0,
         r.pc = "open",
         r.tok.id = hh.issued + 1,
         hh'.issued = hh.issued + 1,
         r.tok.kind = "user" => hh.issued + 1 \in hh'.refreshable,
         hh'.refreshable \subseteq hh.refreshable \cup {hh.issued + 1},
         \/ /\ req[p].pc # "refresh"
            /\ r.spent = 0
            /\ hh.refreshable \subseteq hh'.refreshable
         \/ /\ req[p].pc = "refresh"
            /\ r.spent = req[p].tok.id
            /\ req[p].tok.id \in hh.refreshable
            /\ hh.refreshable \ {req[p].tok.id} \subseteq hh'.refreshable,
         lock # p => r.spent = 0,
         UNCHANGED <<file, lock, lost>>
  PROVE  TokenInv'
<1>1. /\ req'[p] = r
      /\ \A q \in Proc \ {p} : req'[q] = req[q]
  BY DEF TypeOK
<1>2. /\ hh.issued \in Nat
      /\ \A id \in hh.refreshable : id # 0
  BY DEF TypeOK, HeadHunter, TokenInv, IdsAreIssued
<1>3. LockDiscipline'
  BY <1>1 DEF TokenInv, LockDiscipline
<1>4. StoredTokenIsGood'
  <2> SUFFICES ASSUME file.token.kind = "user", file.token.id \notin Good'
               PROVE  \E q \in Proc : /\ lock = q
                                      /\ file.token.id = req'[q].spent
                                      /\ req'[q].spent # 0
    BY DEF StoredTokenIsGood
  <2>1. CASE file.token.id \in Good
    <3>1. /\ file.token.id \in hh.refreshable
          /\ file.token.id = r.spent
          /\ req[p].pc = "refresh"
      BY <2>1 DEF Good
    <3>2. lock = p
      BY <3>1 DEF TokenInv, LockDiscipline
    <3> QED
      BY <1>1, <1>2, <3>1, <3>2
  <2>2. CASE file.token.id \notin Good
    <3>1. PICK q \in Proc : lock = q /\ file.token.id = req[q].spent /\ req[q].spent # 0
      BY <2>2 DEF TokenInv, StoredTokenIsGood
    <3> QED
      BY <1>1, <3>1 DEF TokenInv, LockDiscipline
  <2> QED
    BY <2>1, <2>2
<1>5. TokensInFlight'
  <2>1. ASSUME NEW q \in Proc \ {p}, InFlight(q)
        PROVE  req[q].tok.id \in hh'.refreshable
    BY <2>1 DEF TokenInv, TokensInFlight, InFlight
  <2>2. ASSUME NEW q \in Proc, req[q].tok.id = hh.issued + 1 PROVE FALSE
    BY <1>2, <2>2 DEF TokenInv, IdsAreIssued, TypeOK, Request, Token
  <2>3. file.token.id # hh.issued + 1
    BY <1>2 DEF TokenInv, IdsAreIssued, TypeOK, Token
  <2>4. ASSUME NEW q \in Proc \ {p}, req[q].pc = "refresh"
        PROVE  req[q].tok.kind = "user" /\ req[q].tok.id \in Good'
    <3>1. hh.refreshable \subseteq hh'.refreshable
      BY <2>4 DEF TokenInv, LockDiscipline
    <3> QED
      BY <2>4, <3>1 DEF TokenInv, TokensInFlight, At, Good
  <2> QED
    BY <1>1, <2>1, <2>2, <2>3, <2>4 DEF TokenInv, TokensInFlight, InFlight, At
<1>6. IdsAreIssued'
  <2>1. \A n \in Nat : n <= hh.issued => n <= hh.issued + 1
    BY <1>2
  <2>2. /\ file'.token.id <= hh'.issued
        /\ \A q \in Proc : req'[q].tok.id <= hh'.issued
    BY <1>1, <1>2, <2>1 DEF TokenInv, IdsAreIssued, TypeOK, Request, Token
  <2>3. \A id \in hh'.refreshable : id \in 1..hh'.issued
    BY <1>2 DEF TokenInv, IdsAreIssued
  <2> QED
    BY <2>2, <2>3 DEF IdsAreIssued
<1> QED
  BY <1>3, <1>4, <1>5, <1>6 DEF TokenInv

\* What the lemmas ask of a request: it is a record, and ids are issued ones.
LEMMA RequestFacts ==
  ASSUME TypeOK, TokenInv, NEW p \in Proc
  PROVE  /\ req[p] \in Request
         /\ req[p].tok.id <= hh.issued
         /\ Stored.id <= hh.issued
         /\ NoToken.id <= hh.issued
         /\ NoToken.kind = "none"
         /\ req[p].pc \in {"refresh", "mint"} => lock = p /\ req[p].spent = 0
         /\ lock = p => req[p].pc \in {"refresh", "mint", "open", "write"}
         /\ req[p].pc \notin {"open", "write"} => req[p].spent = 0
         /\ lock # p => req[p].spent = 0
<1>1. req[p] \in Request /\ hh.issued \in Nat
  BY DEF TypeOK, HeadHunter
<1>2. req[p].tok.id <= hh.issued /\ Stored.id <= hh.issued
  BY DEF TokenInv, IdsAreIssued, Stored
<1>3. NoToken.id <= hh.issued /\ NoToken.kind = "none"
  BY <1>1 DEF NoToken
<1>4. /\ req[p].pc \in {"refresh", "mint"} => lock = p
      /\ lock = p => req[p].pc \in {"refresh", "mint", "open", "write"}
      /\ req[p].spent # 0 => lock = p /\ req[p].pc \in {"open", "write"}
  BY DEF TokenInv, LockDiscipline
<1> QED
  BY <1>1, <1>2, <1>3, <1>4

\* The operators that move a process, as updates of its record.
LEMMA Moves ==
  ASSUME TypeOK, NEW p \in Proc
  PROVE  /\ Finish(p) => req' = [req EXCEPT ![p] = Idle]
         /\ \A pc \in PCs, tok \in Token :
              Go(p, pc, tok) => req' = [req EXCEPT ![p] = [req[p] EXCEPT !.pc = pc, !.tok = tok]]
         /\ \A a \in 0..2 :
              Retry(p, a) => req' = [req EXCEPT ![p] = [req[p] EXCEPT !.pc = "load", !.attempt = a]]
  BY ZenonT(60) DEF Finish, Go, Retry, TypeOK, Request

LEMMA Finishes ==
  ASSUME TypeOK, TokenInv, TypeOK', NEW p \in Proc, Finish(p),
         lock' = IF lock = p THEN NoProc ELSE lock,
         file' = file, hh' = hh, lost \subseteq lost',
         lock = p /\ req[p].spent # 0 => req[p].spent \in lost'
  PROVE  TokenInv'
<1>1. Idle \in Request
  BY TokensTyped
<1>2. Idle.tok.id <= hh.issued
  BY RequestFacts DEF Idle
<1>3. Idle.pc = "idle" /\ Idle.spent = 0
  BY DEF Idle
<1> QED
  BY <1>1, <1>2, <1>3, Moves, Quiet

LEMMA GoesOn ==
  ASSUME TypeOK, TokenInv, TypeOK', NEW p \in Proc,
         NEW pc \in PCs \ {"refresh", "mint", "open", "write"},
         NEW tok \in Token, tok.id <= hh.issued,
         Go(p, pc, tok),
         req[p].spent = 0,
         lock' = IF lock = p THEN NoProc ELSE lock,
         file' = file, hh'.issued = hh.issued, hh'.refreshable = hh.refreshable,
         lost \subseteq lost'
  PROVE  TokenInv'
<1> DEFINE r == [req[p] EXCEPT !.pc = pc, !.tok = tok]
<1>1. r \in Request
  BY RequestFacts DEF Request
<1>2. r.pc = pc /\ r.tok = tok /\ r.spent = 0
  BY RequestFacts DEF Request
<1>3. req' = [req EXCEPT ![p] = r]
  BY RequestFacts DEF Go, TypeOK, Request
<1> HIDE DEF r
<1> QED
  BY <1>1, <1>2, <1>3, Quiet

LEMMA Retries ==
  ASSUME TypeOK, TokenInv, TypeOK', NEW p \in Proc, NEW a \in 0..2,
         Retry(p, a),
         req[p].spent = 0,
         lock # p, lock' = lock,
         file' = file, hh' = hh, lost' = lost
  PROVE  TokenInv'
<1> DEFINE r == [req[p] EXCEPT !.pc = "load", !.attempt = a]
<1>1. r \in Request
  BY RequestFacts DEF Request, PCs
<1>2. r.pc = "load" /\ r.tok = req[p].tok /\ r.spent = 0
  BY SMTT(30), RequestFacts DEF Request
<1>3. req' = [req EXCEPT ![p] = r]
  BY Moves
<1> HIDE DEF r
<1> QED
  BY <1>1, <1>2, <1>3, Quiet, RequestFacts

\* The two ways to move on that the loads and the requests share.
LEMMA Returns ==
  ASSUME TypeOK, TokenInv, TypeOK', NEW p \in Proc,
         NEW tok \in Token, tok.id <= hh.issued,
         Return(p, tok),
         req[p].spent = 0,
         file' = file, hh'.issued = hh.issued, hh'.refreshable = hh.refreshable,
         lost' = lost
  PROVE  TokenInv'
  BY GoesOn DEF Return, PCs

LEMMA AppTokens ==
  ASSUME TypeOK, TokenInv, TypeOK', NEW p \in Proc,
         AppIssued(p), req[p].pc \in {"mint", "remint"},
         UNCHANGED <<file, lock, lost>>
  PROVE  TokenInv'
<1>1. PICK dated \in BOOLEAN : Go(p, "open", NewApp(dated))
  BY DEF AppIssued
<1> DEFINE r == [req[p] EXCEPT !.pc = "open", !.tok = NewApp(dated)]
<1>2. r \in Request
  BY RequestFacts, TokensTyped DEF Request, PCs
<1>3. r.pc = "open" /\ r.tok = NewApp(dated) /\ r.spent = 0
  BY RequestFacts DEF Request
<1>4. r.tok.id = hh.issued + 1 /\ r.tok.kind = "app"
  BY <1>3 DEF NewApp, NewId
<1>5. req' = [req EXCEPT ![p] = r]
  BY <1>1, RequestFacts DEF Go, TypeOK, Request
<1>6. hh'.issued = hh.issued + 1 /\ hh'.refreshable = hh.refreshable
  BY DEF AppIssued, TypeOK, HeadHunter, NewId
<1>7. req[p].spent = 0 /\ req[p].pc # "refresh"
  BY RequestFacts
<1> HIDE DEF r
<1> QED
  BY <1>2, <1>3, <1>4, <1>5, <1>6, <1>7, Gets

\* HeadHunter spent the refresh token and the answer did not arrive.
LEMMA RefreshLost ==
  ASSUME TypeOK, TokenInv, TypeOK', NEW p \in Proc,
         lock = p, req[p].pc = "refresh", req[p].spent = 0,
         req[p].tok.id \in hh.refreshable,
         hh' = Issue({req[p].tok.id}),
         lost' = lost \cup {req[p].tok.id},
         Return(p, req[p].tok),
         file' = file
  PROVE  TokenInv'
<1>1. /\ lock' = NoProc
      /\ req'[p].pc = "send" /\ req'[p].tok = req[p].tok /\ req'[p].spent = 0
      /\ \A q \in Proc \ {p} : req'[q] = req[q]
  BY DEF Return, Go, TypeOK, Request
<1>2. /\ hh.issued \in Nat
      /\ hh'.issued = hh.issued + 1
      /\ hh'.refreshable = (hh.refreshable \ {req[p].tok.id}) \cup {hh.issued + 1}
  BY DEF Issue, NewId, TypeOK, HeadHunter
<1>3. Good \subseteq Good'
  BY <1>2 DEF Good
<1>4. LockDiscipline'
  BY <1>1, TokenAssumption DEF TokenInv, LockDiscipline
<1>5. StoredTokenIsGood'
  BY <1>3 DEF TokenInv, StoredTokenIsGood
<1>6. TokensInFlight'
  <2>1. ASSUME NEW q \in Proc \ {p}, InFlight(q)
        PROVE  req[q].tok.id \in hh'.refreshable
    BY <1>2, <2>1 DEF TokenInv, TokensInFlight, InFlight
  <2> QED
    BY ZenonT(60), <1>1, <1>3, <2>1 DEF TokenInv, TokensInFlight, InFlight, At
<1>7. IdsAreIssued'
  <2>1. /\ file.token.id <= hh.issued /\ file.token.id \in Nat
        /\ \A q \in Proc : req'[q].tok.id <= hh.issued /\ req'[q].tok.id \in Nat
    BY <1>1 DEF TokenInv, IdsAreIssued, TypeOK, Request, Token
  <2>2. \A id \in hh.refreshable : id \in 1..(hh.issued + 1)
    BY <1>2 DEF TokenInv, IdsAreIssued
  <2>3. \A id \in hh'.refreshable : id \in 1..hh'.issued
    <3>1. hh.issued + 1 \in 1..(hh.issued + 1)
      BY <1>2
    <3>2. \A id \in hh'.refreshable : id \in hh.refreshable \/ id = hh.issued + 1
      BY <1>2
    <3> QED
      BY <1>2, <2>2, <3>1, <3>2
  <2>4. file'.token.id <= hh'.issued
    BY <1>2, <2>1
  <2>5. \A q \in Proc : req'[q].tok.id <= hh'.issued
    BY <1>2, <2>1
  <2> QED
    BY <2>3, <2>4, <2>5 DEF IdsAreIssued
<1> QED
  BY <1>4, <1>5, <1>6, <1>7 DEF TokenInv

\* The file is truncated.
LEMMA Opens ==
  ASSUME TypeOK, TokenInv, TypeOK', NEW p \in Proc, SaveOpen(p)
  PROVE  TokenInv'
<1>1. /\ req[p].pc = "open"
      /\ req'[p].pc = "write" /\ req'[p].tok = req[p].tok /\ req'[p].spent = req[p].spent
      /\ \A q \in Proc \ {p} : req'[q] = req[q]
  BY DEF SaveOpen, At, TypeOK, Request
<1>2. UNCHANGED <<lock, hh, lost>> /\ file'.token = NoToken
  BY DEF SaveOpen
<1>3. LockDiscipline'
  BY <1>1, <1>2 DEF TokenInv, LockDiscipline
<1>4. StoredTokenIsGood'
  BY <1>2, RequestFacts DEF StoredTokenIsGood
<1>5. TokensInFlight'
  <2>1. 0 \notin hh.refreshable
    BY DEF TokenInv, IdsAreIssued, TypeOK, HeadHunter
  <2>2. file'.token.id = 0
    BY <1>2 DEF NoToken
  <2> QED
    BY <1>1, <1>2, <2>1, <2>2 DEF TokenInv, TokensInFlight, InFlight, At, Good
<1>6. IdsAreIssued'
  BY <1>1, <1>2, RequestFacts DEF TokenInv, IdsAreIssued
<1> QED
  BY <1>3, <1>4, <1>5, <1>6 DEF TokenInv

\* The file holds the new token, or nothing that can be read.
LEMMA Writes ==
  ASSUME TypeOK, TokenInv, TypeOK', NEW p \in Proc, SaveWrite(p)
  PROVE  TokenInv'
<1>1. /\ req[p].pc = "write"
      /\ req'[p].pc \in {"send", "load", "idle"}
      /\ req'[p].tok.id = req[p].tok.id \/ req'[p].tok.id = 0
      /\ req'[p].spent = 0
      /\ lock' = IF lock = p THEN NoProc ELSE lock
      /\ \A q \in Proc \ {p} : req'[q] = req[q]
  <2>1. req[p].pc = "write" /\ lock' = IF lock = p THEN NoProc ELSE lock
    BY DEF SaveWrite, At
  <2>2. CASE lock = p
    BY <2>1, <2>2 DEF SaveWrite, TypeOK, Request
  <2>3. CASE lock # p /\ Retry(p, 1)
    BY <2>1, <2>3, RequestFacts DEF Retry, TypeOK, Request
  <2>4. CASE lock # p /\ Finish(p)
    BY <2>1, <2>4 DEF Finish, Idle, NoToken, TypeOK
  <2> QED
    BY <2>1, <2>2, <2>3, <2>4 DEF SaveWrite
<1>2. file'.token \in {req[p].tok, NoToken}
  <2> DEFINE clean == [token |-> req[p].tok, size |-> Size(req[p].tok)]
             garbled == [token |-> NoToken, size |-> file.size]
  <2>1. file' \in {clean, garbled}
    BY DEF SaveWrite, Written, Size, TypeOK, Request, Token
  <2> QED
    BY <2>1
<1>3. UNCHANGED <<hh, lost>>
  BY DEF SaveWrite
<1>4. LockDiscipline'
  BY <1>1, TokenAssumption DEF TokenInv, LockDiscipline
<1>5. StoredTokenIsGood'
  BY <1>1, <1>2, <1>3, RequestFacts
  DEF TokenInv, StoredTokenIsGood, TokensInFlight, InFlight, Good
<1>6. TokensInFlight'
  <2>1. 0 \notin hh.refreshable /\ NoToken.id = 0
    BY DEF TokenInv, IdsAreIssued, TypeOK, HeadHunter, NoToken
  <2>2. ASSUME NEW q \in Proc \ {p}, InFlight(q)
        PROVE  /\ req[q].tok.id \in hh.refreshable
               /\ req[q].tok.id # file'.token.id
    BY <1>1, <1>2, <2>1, <2>2 DEF TokenInv, TokensInFlight, InFlight
  <2> QED
    BY <1>1, <1>3, <2>2 DEF TokenInv, TokensInFlight, InFlight, At, Good
<1>7. IdsAreIssued'
  <2>1. req'[p].tok.id <= hh.issued
    BY <1>1, RequestFacts DEF NoToken
  <2> QED
    BY <1>1, <1>2, <1>3, <2>1, RequestFacts DEF TokenInv, IdsAreIssued
<1> QED
  BY <1>4, <1>5, <1>6, <1>7 DEF TokenInv

LEMMA NextInv == TypeOK /\ TypeOK' /\ TokenInv /\ [Next]_vars => TokenInv'
<1> SUFFICES ASSUME TypeOK, TypeOK', TokenInv, [Next]_vars PROVE TokenInv'
  OBVIOUS
<1> USE TokensTyped, RequestFacts
<1>1. CASE UNCHANGED vars
  BY <1>1
  DEF vars, TokenInv, LockDiscipline, StoredTokenIsGood, TokensInFlight, IdsAreIssued,
      Good, InFlight, At
<1>2. ASSUME NEW p \in Proc, Begin(p) PROVE TokenInv'
  <2>1. PICK wants \in {"any", "resumes"} :
          req' = [req EXCEPT ![p] = [Idle EXCEPT !.pc = "load", !.wants = wants]]
    BY <1>2 DEF Begin
  <2> DEFINE r == [Idle EXCEPT !.pc = "load", !.wants = wants]
  <2>2. r \in Request
    BY DEF Request, PCs
  <2>3. r.pc = "load" /\ r.spent = 0 /\ r.tok = NoToken
    BY DEF Idle
  <2>4. lock # p
    BY <1>2 DEF Begin, At
  <2>5. UNCHANGED <<file, lock, hh, lost>>
    BY <1>2 DEF Begin
  <2>6. req' = [req EXCEPT ![p] = r]
    BY <2>1
  <2> HIDE DEF r
  <2> QED
    BY <2>2, <2>3, <2>4, <2>5, <2>6, Quiet
<1>3. ASSUME NEW p \in Proc, Load(p) PROVE TokenInv'
  <2>1. lock # p /\ req[p].spent = 0
    BY <1>3 DEF Load, At
  <2>2. PICK pc \in {"send", "lockRefresh", "lockMint"} : \E tok \in {Stored, NoToken} :
          Go(p, pc, tok)
    BY <1>3 DEF Load
  <2> QED
    BY <1>3, <2>1, <2>2, GoesOn DEF Load, PCs
<1>4. ASSUME NEW p \in Proc, LockRefresh(p) PROVE TokenInv'
  <2>1. lock = NoProc /\ lock # p /\ req[p].spent = 0
    BY <1>4, TokenAssumption DEF LockRefresh, At
  <2>2. CASE Return(p, Stored)
    BY <1>4, <2>1, <2>2, Returns DEF LockRefresh
  <2>3. CASE /\ \/ Stored.kind = "user" /\ Go(p, "refresh", Stored)
                \/ Go(p, "mint", Stored)
             /\ lock' = p
    <3>1. PICK pc \in {"refresh", "mint"} :
            Go(p, pc, Stored) /\ (pc = "refresh" => Stored.kind = "user")
      BY <2>3
    <3> DEFINE r == [req[p] EXCEPT !.pc = pc, !.tok = Stored]
    <3>2. r \in Request
      BY DEF Request, PCs
    <3>3. r.pc = pc /\ r.tok = file.token /\ r.spent = 0
      BY <2>1 DEF Request, Stored
    <3>4. req' = [req EXCEPT ![p] = r]
      BY <3>1 DEF Go, TypeOK, Request
    <3>5. UNCHANGED <<file, hh, lost>>
      BY <1>4 DEF LockRefresh
    <3>6. pc = "refresh" => file.token.kind = "user"
      BY <3>1 DEF Stored
    <3>7. file.token.id <= hh.issued
      BY DEF Stored
    <3> HIDE DEF r
    <3> QED
      BY <2>1, <2>3, <3>2, <3>3, <3>4, <3>5, <3>6, <3>7, Takes
  <2> QED
    BY <1>4, <2>2, <2>3 DEF LockRefresh
<1>5. ASSUME NEW p \in Proc, LockMint(p) PROVE TokenInv'
  <2>1. lock = NoProc /\ lock # p /\ req[p].spent = 0
    BY <1>5, TokenAssumption DEF LockMint, At
  <2>2. CASE Return(p, Stored)
    BY <1>5, <2>1, <2>2, Returns DEF LockMint
  <2>3. CASE Go(p, "mint", NoToken) /\ lock' = p
    <3> DEFINE r == [req[p] EXCEPT !.pc = "mint", !.tok = NoToken]
    <3>1. r \in Request
      BY DEF Request, PCs
    <3>2. r.pc = "mint" /\ r.tok = NoToken /\ r.spent = 0
      BY <2>1 DEF Request
    <3>3. req' = [req EXCEPT ![p] = r]
      BY <2>3 DEF Go, TypeOK, Request
    <3>4. UNCHANGED <<file, hh, lost>>
      BY <1>5 DEF LockMint
    <3> HIDE DEF r
    <3> QED
      BY <2>1, <2>3, <3>1, <3>2, <3>3, <3>4, Takes
  <2> QED
    BY <1>5, <2>2, <2>3 DEF LockMint
<1>6. ASSUME NEW p \in Proc, Refresh(p) PROVE TokenInv'
  <2> DEFINE used == {req[p].tok.id}
  <2>1. lock = p /\ req[p].spent = 0 /\ req[p].pc = "refresh"
    BY <1>6 DEF Refresh, At
  <2>2. CASE Return(p, req[p].tok) /\ UNCHANGED <<hh, lost>>
    BY <1>6, <2>1, <2>2, Returns DEF Refresh
  <2>3. CASE /\ req[p].tok.id \in hh.refreshable
             /\ hh' = Issue(used)
             /\ req' = [req EXCEPT ![p].pc = "open", ![p].tok = NewUser,
                                   ![p].spent = req[p].tok.id]
             /\ UNCHANGED <<lock, lost>>
    <3> DEFINE r == [req[p] EXCEPT !.pc = "open", !.tok = NewUser,
                                   !.spent = req[p].tok.id]
    <3>1. r \in Request
      BY ZenonT(60) DEF Request, PCs, Token
    <3>2. r.pc = "open" /\ r.tok = NewUser /\ r.spent = req[p].tok.id
      BY DEF Request
    <3>3. r.tok.id = hh.issued + 1
      BY <3>2 DEF NewUser, NewId
    <3>4. req' = [req EXCEPT ![p] = r]
      BY <2>3 DEF TypeOK, Request
    <3>5. /\ hh'.issued = hh.issued + 1
          /\ hh'.refreshable = (hh.refreshable \ used) \cup {hh.issued + 1}
      BY <2>3 DEF Issue, NewId, TypeOK, HeadHunter
    <3>6. file' = file
      BY <1>6 DEF Refresh
    <3> HIDE DEF r
    <3> QED
      BY <2>1, <2>3, <3>1, <3>2, <3>3, <3>4, <3>5, <3>6, Gets
  <2>4. CASE /\ req[p].tok.id \in hh.refreshable
             /\ hh' = Issue(used)
             /\ lost' = lost \cup used
             /\ Return(p, req[p].tok)
    BY <1>6, <2>1, <2>4, RefreshLost DEF Refresh
  <2> QED
    BY <1>6, <2>2, <2>3, <2>4 DEF Refresh
<1>7. ASSUME NEW p \in Proc, Mint(p) PROVE TokenInv'
  <2>1. lock = p /\ req[p].spent = 0 /\ req[p].pc = "mint"
    BY <1>7 DEF Mint, At
  <2> QED
    BY <1>7, <2>1, AppTokens, Returns DEF Mint
<1>8. ASSUME NEW p \in Proc, Remint(p) PROVE TokenInv'
  <2>1. lock # p /\ req[p].spent = 0 /\ req[p].pc = "remint"
    BY <1>8 DEF Remint, At
  <2>2. CASE Retry(p, 1) /\ hh' = hh
    BY <1>8, <2>1, <2>2, Retries DEF Remint
  <2> QED
    BY <1>8, <2>1, <2>2, AppTokens, Finishes DEF Remint
<1>9. ASSUME NEW p \in Proc, SaveOpen(p) PROVE TokenInv'
  BY <1>9, Opens
<1>10. ASSUME NEW p \in Proc, SaveWrite(p) PROVE TokenInv'
  BY <1>10, Writes
<1>11. ASSUME NEW p \in Proc, Send(p) PROVE TokenInv'
  <2>1. lock # p /\ req[p].spent = 0
    BY <1>11 DEF Send, At
  <2>2. CASE Finish(p)
    BY <1>11, <2>1, <2>2, Finishes DEF Send
  <2>3. CASE Go(p, "heal", req[p].tok)
    BY <1>11, <2>1, <2>3, GoesOn DEF Send, PCs
  <2>4. CASE req[p].attempt < 2 /\ Retry(p, req[p].attempt + 1)
    <3>1. req[p].attempt + 1 \in 0..2
      BY <2>4 DEF Request
    <3> QED
      BY <1>11, <2>1, <2>4, <3>1, Retries DEF Send
  <2> QED
    BY <1>11, <2>2, <2>3, <2>4 DEF Send
<1>12. ASSUME NEW p \in Proc, Heal(p) PROVE TokenInv'
  <2>1. lock # p /\ req[p].spent = 0
    BY <1>12 DEF Heal, At
  <2>2. CASE Finish(p)
    BY <1>12, <2>1, <2>2, Finishes DEF Heal
  <2>3. CASE Go(p, "remint", Stored)
    BY <1>12, <2>1, <2>3, GoesOn DEF Heal, PCs
  <2> QED
    BY <1>12, <2>2, <2>3 DEF Heal
<1>13. ASSUME NEW p \in Proc, NEW l \in Login, CallbackRead(p, l) PROVE TokenInv'
  <2> DEFINE r == [req[p] EXCEPT !.pc = "consume", !.login = l]
  <2>1. lock # p /\ req[p].spent = 0
    BY <1>13 DEF CallbackRead, At
  <2>2. r \in Request
    BY DEF Request, PCs
  <2>3. r.pc = "consume" /\ r.tok = req[p].tok /\ r.spent = 0
    BY <2>1 DEF Request
  <2>4. req' = [req EXCEPT ![p] = r]
    BY <1>13 DEF CallbackRead, TypeOK, Request
  <2>5. UNCHANGED <<file, lock, hh, lost>>
    BY <1>13 DEF CallbackRead
  <2> HIDE DEF r
  <2> QED
    BY <2>1, <2>2, <2>3, <2>4, <2>5, Quiet
<1>14. ASSUME NEW p \in Proc, CallbackRemove(p) PROVE TokenInv'
  <2> DEFINE r == [req[p] EXCEPT !.pc = "exchange"]
  <2>1. lock # p /\ req[p].spent = 0
    BY <1>14 DEF CallbackRemove, At
  <2>2. r \in Request
    BY DEF Request, PCs
  <2>3. r.pc = "exchange" /\ r.tok = req[p].tok /\ r.spent = 0
    BY <2>1 DEF Request
  <2>4. req' = [req EXCEPT ![p] = r]
    BY <1>14 DEF CallbackRemove, TypeOK, Request
  <2>5. UNCHANGED <<file, lock, hh, lost>>
    BY <1>14 DEF CallbackRemove
  <2> HIDE DEF r
  <2> QED
    BY <2>1, <2>2, <2>3, <2>4, <2>5, Quiet
<1>15. ASSUME NEW p \in Proc, Exchange(p) PROVE TokenInv'
  <2>1. lock # p /\ req[p].spent = 0 /\ req[p].pc = "exchange"
    BY <1>15 DEF Exchange, At
  <2>2. CASE Finish(p) /\ hh' = hh
    BY <1>15, <2>1, <2>2, Finishes DEF Exchange
  <2>3. CASE /\ hh' = [Issue({}) EXCEPT !.redeemed = @ \cup {req[p].login}]
             /\ Go(p, "open", NewUser)
    <3> DEFINE r == [req[p] EXCEPT !.pc = "open", !.tok = NewUser]
    <3>1. r \in Request
      BY DEF Request, PCs
    <3>2. r.pc = "open" /\ r.tok = NewUser /\ r.spent = 0
      BY <2>1 DEF Request
    <3>3. r.tok.id = hh.issued + 1
      BY <3>2 DEF NewUser, NewId
    <3>4. req' = [req EXCEPT ![p] = r]
      BY <2>3 DEF Go, TypeOK, Request
    <3>5. /\ hh'.issued = hh.issued + 1
          /\ hh'.refreshable = hh.refreshable \cup {hh.issued + 1}
      BY <2>3 DEF Issue, NewId, TypeOK, HeadHunter
    <3>6. UNCHANGED <<file, lock, lost>>
      BY <1>15 DEF Exchange
    <3> HIDE DEF r
    <3> QED
      BY <2>1, <3>1, <3>2, <3>3, <3>4, <3>5, <3>6, Gets
  <2> QED
    BY <1>15, <2>2, <2>3 DEF Exchange
<1>16. ASSUME NEW p \in Proc, Die(p) PROVE TokenInv'
  <2>1. /\ Finish(p)
        /\ lock' = IF lock = p THEN NoProc ELSE lock
        /\ lost' = lost \cup ({req[p].spent} \ {0})
        /\ UNCHANGED <<file, hh>>
    BY <1>16 DEF Die
  <2>2. req[p].spent # 0 => req[p].spent \in lost'
    BY <2>1
  <2> QED
    BY <2>1, <2>2, Finishes
<1>17. ASSUME NEW p \in Proc, NEW l \in Login, Authorize(p, l) PROVE TokenInv'
  BY <1>17
  DEF Authorize, TokenInv, LockDiscipline, StoredTokenIsGood, TokensInFlight, IdsAreIssued,
      Good, InFlight, At
<1>18. ASSUME NEW id \in 1..MaxTokens, Expire(id) PROVE TokenInv'
  <2>1. hh'.issued = hh.issued /\ hh'.refreshable = hh.refreshable
    BY <1>18 DEF Expire, TypeOK, HeadHunter
  <2>2. UNCHANGED <<file, lock, req, lost>>
    BY <1>18 DEF Expire
  <2> QED
    BY <2>1, <2>2
    DEF TokenInv, LockDiscipline, StoredTokenIsGood, TokensInFlight, IdsAreIssued,
        Good, InFlight, At
<1> QED
  BY <1>1, <1>2, <1>3, <1>4, <1>5, <1>6, <1>7, <1>8, <1>9, <1>10, <1>11, <1>12, <1>13,
     <1>14, <1>15, <1>16, <1>17, <1>18 DEF Next

\* The stored user token can be refreshed, or its replacement is on the way.
THEOREM TokensAreSound == Spec => []TokenInv
<1> QED
  BY InitTyped, NextTyped, InitInv, NextInv, PTL DEF Spec

\* Refreshing is serialised, for any number of processes: a refresh token is
\* presented twice only if the answer to the first time was lost.
THEOREM RefreshIsSerialised == Spec => RefreshTokensAreFresh
<1>1. TokenInv /\ [Next]_vars
        => [\A p \in Proc : Refresh(p) => req[p].tok.id \in hh.refreshable \cup lost]_vars
  BY DEF TokenInv, TokensInFlight, Refresh, Good
<1> QED
  BY <1>1, TokensAreSound, PTL DEF Spec, RefreshTokensAreFresh
=============================================================================
