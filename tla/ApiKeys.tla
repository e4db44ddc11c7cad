------------------------------ MODULE ApiKeys ------------------------------
(***************************************************************************)
(* The API-key store: tools/api_keys.py, its two callers (the check before *)
(* each request of api_v1.py and scripts/apikeys.py) and the one file      *)
(* config/api_keys.json they share.  Writers hold an exclusive flock from  *)
(* the read to the os.replace(); readers hold nothing.                     *)
(*                                                                         *)
(* A key stands for its key_id, its secret and its hash; the key_ids drawn *)
(* (32 random bits) are taken as distinct.                                 *)
(***************************************************************************)
EXTENDS Naturals

CONSTANTS
  Proc,      \* gunicorn workers and runs of scripts/apikeys.py
  NoProc,
  Key,       \* the keys create_key() can mint
  NoKey,
  MaxFaults  \* bound on I/O errors and process deaths

ASSUME KeysAssumption ==
  /\ NoProc \notin Proc
  /\ NoKey \notin Key
  /\ MaxFaults \in Nat

VARIABLES
  file,     \* config/api_keys.json
  tmp,      \* config/api_keys.json.tmp, one name for every writer
  lock,     \* the holder of config/.api_keys.lock
  req,      \* [Proc -> Request]  the call each process is in
  minted,   \* the keys create_key() has drawn
  created,  \* history: keys create_key() has returned
  dead,     \* history: keys revoke_key() has returned True for
  blind,    \* history: some writer took an unreadable file for an empty one
  faults

vars == <<file, tmp, lock, req, minted, created, dead, blind, faults>>

\* used: last_used_at is set.
Record == [st : {"none", "live", "revoked"}, used : BOOLEAN]

Store == [Key -> Record]

\* whole = FALSE: open(tmp, "w") has emptied the file and the dump is not done.
File == [whole : BOOLEAN, keys : Store]

NoKeys == [k \in Key |-> [st |-> "none", used |-> FALSE]]

Content(f) == IF f.whole THEN f.keys ELSE NoKeys

Critical == {"read", "open", "dump", "replace", "unlock"}

Request == [pc    : {"idle", "lock", "served"} \cup Critical,
            op    : {"none", "create", "touch", "revoke"},
            key   : Key \cup {NoKey},
            data  : Store,
            found : BOOLEAN]

Idle == [pc |-> "idle", op |-> "none", key |-> NoKey, data |-> NoKeys, found |-> FALSE]

TypeOK ==
  /\ file \in File
  /\ tmp \in File
  /\ lock \in Proc \cup {NoProc}
  /\ req \in [Proc -> Request]
  /\ minted \subseteq Key
  /\ created \subseteq minted
  /\ dead \subseteq minted
  /\ blind \in BOOLEAN
  /\ faults \in 0..MaxFaults

Init ==
  /\ file = [whole |-> FALSE, keys |-> NoKeys]
  /\ tmp = [whole |-> FALSE, keys |-> NoKeys]
  /\ lock = NoProc
  /\ req = [p \in Proc |-> Idle]
  /\ minted = {}
  /\ created = {}
  /\ dead = {}
  /\ blind = FALSE
  /\ faults = 0

At(p, pc) == req[p].pc = pc

Go(p, pc) == req' = [req EXCEPT ![p].pc = pc]

\* A call that goes through _locked().
Enter(p, op, k) ==
  req' = [req EXCEPT ![p] = [Idle EXCEPT !.pc = "lock", !.op = op, !.key = k]]

Fault == faults < MaxFaults /\ faults' = faults + 1

\* A mutant of Release: the lock is not given back.
ReleaseNever(p) == UNCHANGED lock

Release(p) == lock' = IF lock = p THEN NoProc ELSE lock
----------------------------------------------------------------------------
\* A mutant of CreateKey: the key drawn is not a fresh one.
CreateKeyAgain(p, k) ==
  /\ At(p, "idle")
  /\ Enter(p, "create", k)
  /\ UNCHANGED <<file, tmp, lock, minted, created, dead, blind, faults>>

CreateKey(p, k) ==
  /\ At(p, "idle")
  /\ k \notin minted
  /\ minted' = minted \cup {k}
  /\ Enter(p, "create", k)
  /\ UNCHANGED <<file, tmp, lock, created, dead, blind, faults>>

RevokeKey(p, k) ==
  /\ At(p, "idle")
  /\ k \in minted
  /\ Enter(p, "revoke", k)
  /\ UNCHANGED <<file, tmp, lock, minted, created, dead, blind, faults>>

\* A mutant of Verified: the revoked flag is not looked at.
VerifiedThoughRevoked(rec) == rec.st # "none"

\* verify_key() of the key's own secret.
Verified(rec) == rec.st = "live"

\* A keyed request is admitted: unless last_used_at is recent, it is written
\* before the request goes on.  A refused request (401: no key, no record, a
\* wrong secret) changes nothing, nor does an open path or a preflight.
Admit(p, k) ==
  /\ At(p, "idle")
  /\ Verified(Content(file)[k])
  /\ \/ /\ Content(file)[k].used
        /\ req' = [req EXCEPT ![p] = [Idle EXCEPT !.pc = "served", !.key = k]]
     \/ Enter(p, "touch", k)
  /\ UNCHANGED <<file, tmp, lock, minted, created, dead, blind, faults>>

\* The request is answered.
Leave(p) ==
  /\ At(p, "served")
  /\ req' = [req EXCEPT ![p] = Idle]
  /\ UNCHANGED <<file, tmp, lock, minted, created, dead, blind, faults>>
----------------------------------------------------------------------------
\* A mutant of Free: the lock is taken in shared mode.
FreeShared == TRUE

Free == lock = NoProc

Acquire(p) ==
  /\ At(p, "lock")
  /\ Free
  /\ lock' = p
  /\ Go(p, "read")
  /\ UNCHANGED <<file, tmp, minted, created, dead, blind, faults>>

\* A mutant of Apply: touch writes back the record verify_key() has seen.
ApplyStale(op, k, keys) ==
  CASE op = "create" -> [keys EXCEPT ![k] = [st |-> "live", used |-> FALSE]]
    [] op = "touch"  -> [keys EXCEPT ![k] = [st |-> "live", used |-> TRUE]]
    [] op = "revoke" -> [keys EXCEPT ![k].st = "revoked"]

\* The three transactions: what each does to the keys it has read.
Apply(op, k, keys) ==
  CASE op = "create" -> [keys EXCEPT ![k] = [st |-> "live", used |-> FALSE]]
    [] op = "touch"  -> IF keys[k].st = "none" THEN keys
                        ELSE [keys EXCEPT ![k].used = TRUE]
    [] op = "revoke" -> IF keys[k].st # "live" THEN keys
                        ELSE [keys EXCEPT ![k].st = "revoked"]

Transact(p, keys) ==
  req' = [req EXCEPT ![p].pc = "open",
                     ![p].data = Apply(req[p].op, req[p].key, keys),
                     ![p].found = req[p].op = "revoke" /\ keys[req[p].key].st = "live"]

ReadKeys(p) ==
  /\ At(p, "read")
  /\ Transact(p, Content(file))
  /\ UNCHANGED <<file, tmp, lock, minted, created, dead, blind, faults>>

\* _read() turns an OSError into an empty store, which is then written.
ReadBlind(p) ==
  /\ At(p, "read")
  /\ Fault
  /\ Transact(p, NoKeys)
  /\ blind' = TRUE
  /\ UNCHANGED <<file, tmp, lock, minted, created, dead>>

OpenTmp(p) ==
  /\ At(p, "open")
  /\ tmp' = [tmp EXCEPT !.whole = FALSE]
  /\ Go(p, "dump")
  /\ UNCHANGED <<file, lock, minted, created, dead, blind, faults>>

DumpTmp(p) ==
  /\ At(p, "dump")
  /\ tmp' = [whole |-> TRUE, keys |-> req[p].data]
  /\ Go(p, "replace")
  /\ UNCHANGED <<file, lock, minted, created, dead, blind, faults>>

Replace(p) ==
  /\ At(p, "replace")
  /\ file' = tmp
  /\ Go(p, "unlock")
  /\ UNCHANGED <<tmp, lock, minted, created, dead, blind, faults>>

\* _locked() is over: create_key() and revoke_key() return, a touched request
\* is served.
Resume(p) ==
  req' = [req EXCEPT ![p] =
            IF req[p].op = "touch" THEN [Idle EXCEPT !.pc = "served", !.key = req[p].key]
            ELSE Idle]

Unlock(p) ==
  /\ At(p, "unlock")
  /\ Release(p)
  /\ Resume(p)
  /\ created' = IF req[p].op = "create" THEN created \cup {req[p].key} ELSE created
  /\ dead' = IF req[p].found THEN dead \cup {req[p].key} ELSE dead
  /\ UNCHANGED <<file, tmp, minted, blind, faults>>

\* An OSError of the lock file, of tmp or of os.replace(): touch logs it and
\* the request is served all the same; create_key() and revoke_key() raise.
WriteFails(p) ==
  /\ req[p].pc \in {"lock", "open", "dump", "replace"}
  /\ Fault
  /\ Release(p)
  /\ Resume(p)
  /\ UNCHANGED <<file, tmp, minted, created, dead, blind>>

\* The process dies where it stands; the kernel drops its lock.
Die(p) ==
  /\ ~At(p, "idle")
  /\ Fault
  /\ Release(p)
  /\ req' = [req EXCEPT ![p] = Idle]
  /\ UNCHANGED <<file, tmp, minted, created, dead, blind>>
----------------------------------------------------------------------------
Step(p) ==
  \/ Acquire(p)
  \/ ReadKeys(p)
  \/ OpenTmp(p)
  \/ DumpTmp(p)
  \/ Replace(p)
  \/ Unlock(p)
  \/ Leave(p)

Next ==
  \E p \in Proc :
    \/ \E k \in Key : CreateKey(p, k) \/ RevokeKey(p, k) \/ Admit(p, k)
    \/ Step(p)
    \/ ReadBlind(p)
    \/ WriteFails(p)
    \/ Die(p)

\* A process goes on with the call it is in.  flock() queues its waiters, so a
\* process that waits while the lock keeps becoming free gets it.
Fairness ==
  \A p \in Proc : WF_vars(Step(p)) /\ SF_vars(Acquire(p))

Spec == Init /\ [][Next]_vars /\ Fairness
----------------------------------------------------------------------------
(***************************************************************************)
(* Properties.                                                             *)
(***************************************************************************)

\* Once revoke_key() has returned True, no reader ever finds the key working
\* again: last_used_at writes of requests it had let in do not revive it
\* (tools/api_keys.py: "Takes effect on the next request").
RevokedStaysRevoked == \A k \in dead : Content(file)[k].st # "live"

\* A key that create_key() has returned stays in the store, whatever other
\* writers, dead processes and half-written tmp files do, as long as no writer
\* took an unreadable file for an empty one.
CreatedKeysSurvive ==
  blind \/ \A k \in created : Content(file)[k].st # "none"

\* The store itself is never a half-written file once a key is in it: readers
\* hold no lock and must never see one.
StoreIsNeverTorn == created # {} => file.whole

\* The store is what KeyRegistry promises: each step of a writer is invisible
\* but the os.replace(), a request is admitted by a key that works at that
\* moment, and a revoked or lost key never works again.
Registry == INSTANCE KeyRegistry WITH
  status  <- [k \in Key |-> Content(file)[k].st],
  minted  <- minted,
  serving <- [p \in Proc |-> IF req[p].op \in {"none", "touch"} THEN req[p].key ELSE NoKey],
  lossy   <- blind

IsARegistry == Registry!Spec

\* Every call ends: nobody waits for the lock for ever, though its holders fail
\* and die.
CallsEnd == \A p \in Proc : ~At(p, "idle") ~> At(p, "idle")
=============================================================================
