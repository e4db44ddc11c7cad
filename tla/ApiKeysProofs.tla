--------------------------- MODULE ApiKeysProofs ---------------------------
(***************************************************************************)
(* Proofs about ApiKeys, for every set of processes and keys and every     *)
(* number of faults: its types, its lock, what a writer holds in its       *)
(* hands, the three safety invariants, and that it is a KeyRegistry.       *)
(***************************************************************************)
EXTENDS ApiKeys, TLAPS

Calling == {"lock"} \cup Critical

Ops == {"create", "touch", "revoke"}

\* The lock is held exactly inside the critical section.
LockInv == \A p \in Proc : req[p].pc \in Critical <=> lock = p

\* What a process has in its hands outside the critical section.
CallInv ==
  \A p \in Proc :
    /\ req[p].pc = "idle" => req[p] = Idle
    /\ req[p].pc = "served" => req[p].op = "none" /\ req[p].key \in Key
    /\ req[p].pc \in Calling => req[p].op \in Ops /\ req[p].key \in minted

\* p is about to write what its transaction makes of base.
Writes(p, base) ==
  /\ req[p].data = Apply(req[p].op, req[p].key, base)
  /\ req[p].found = (req[p].op = "revoke" /\ base[req[p].key].st = "live")

WriterInv ==
  \A p \in Proc :
    /\ req[p].pc \in {"open", "dump", "replace"} =>
         \/ Writes(p, Content(file))
         \/ blind /\ Writes(p, NoKeys)
    /\ req[p].pc = "replace" => tmp = [whole |-> TRUE, keys |-> req[p].data]
    /\ req[p].pc = "unlock" =>
         /\ file.whole
         /\ req[p].op = "create" => Content(file)[req[p].key].st = "live"
         /\ req[p].found => Content(file)[req[p].key].st = "revoked"

Creating(p) == req[p].op = "create" /\ req[p].pc \in Calling \ {"unlock"}

\* Only its creator knows a key that is being created.
FreshInv ==
  \A p \in Proc : Creating(p) =>
    /\ Content(file)[req[p].key].st = "none"
    /\ req[p].key \notin created \cup dead
    /\ \A q \in Proc \ {p} : req[q].op = "create" => req[q].key # req[p].key

MintedInv == \A k \in Key : Content(file)[k].st # "none" => k \in minted

StoreInv ==
  /\ TypeOK
  /\ LockInv
  /\ CallInv
  /\ WriterInv
  /\ FreshInv
  /\ MintedInv
  /\ RevokedStaysRevoked
  /\ CreatedKeysSurvive
  /\ StoreIsNeverTorn
----------------------------------------------------------------------------
(***************************************************************************)
(* The data.                                                               *)
(***************************************************************************)

\* What the store reads as is a store, and so is the empty one.
LEMMA Stores ==
  ASSUME TypeOK
  PROVE  /\ Content(file) \in Store
         /\ NoKeys \in Store
         /\ \A k \in Key : NoKeys[k] = [st |-> "none", used |-> FALSE]
  BY DEF TypeOK, File, Store, Record, NoKeys, Content

LEMMA IdleIsARequest == Idle \in Request
  BY DEF Idle, Request, NoKeys, Store, Record

\* A transaction touches its own key only, and that one as its name says.
LEMMA Transactions ==
  ASSUME NEW op \in Ops, NEW k \in Key, NEW base \in Store
  PROVE  /\ Apply(op, k, base) \in Store
         /\ \A j \in Key \ {k} : Apply(op, k, base)[j] = base[j]
         /\ op = "create" => Apply(op, k, base)[k].st = "live"
         /\ op = "touch" => Apply(op, k, base)[k].st = base[k].st
         /\ op = "revoke" => Apply(op, k, base)[k].st =
                               IF base[k].st = "live" THEN "revoked" ELSE base[k].st
  <1>1. base \in [Key -> Record]  BY DEF Store
  <1>2. CASE op = "create"
    <2>1. Apply(op, k, base) = [base EXCEPT ![k] = [st |-> "live", used |-> FALSE]]
      BY <1>2 DEF Apply
    <2> DEFINE new == [st |-> "live", used |-> FALSE]
    <2>2. new \in Record /\ new.st = "live"  BY DEF Record
    <2>3. Apply(op, k, base) = [base EXCEPT ![k] = new]  BY <2>1
    <2> HIDE DEF new
    <2> QED  BY <1>1, <1>2, <2>2, <2>3 DEF Store
  <1>3. CASE op = "touch"
    <2>1. Apply(op, k, base) = IF base[k].st = "none" THEN base
                               ELSE [base EXCEPT ![k].used = TRUE]
      BY <1>3 DEF Apply
    <2>2. base[k].used \in BOOLEAN /\ base[k].st \in {"none", "live", "revoked"}
      BY <1>1 DEF Record
    <2>3. CASE base[k].st = "none"  BY <1>3, <2>1, <2>3
    <2>4. CASE base[k].st # "none"
      <3> DEFINE new == [base[k] EXCEPT !.used = TRUE]
      <3>1. new \in Record /\ new.st = base[k].st  BY <1>1 DEF Record
      <3>2. Apply(op, k, base) = [base EXCEPT ![k] = new]  BY <2>1, <2>4
      <3> HIDE DEF new
      <3> QED  BY <1>1, <1>3, <3>1, <3>2 DEF Store
    <2> QED  BY <2>3, <2>4
  <1>4. CASE op = "revoke"
    <2>1. Apply(op, k, base) = IF base[k].st # "live" THEN base
                               ELSE [base EXCEPT ![k].st = "revoked"]
      BY <1>4 DEF Apply
    <2> QED  BY <1>1, <1>4, <2>1 DEF Store, Record
  <1> QED  BY <1>2, <1>3, <1>4 DEF Ops
----------------------------------------------------------------------------
(***************************************************************************)
(* The steps.                                                              *)
(***************************************************************************)

\* A step that writes no file, ends no transaction and leaves the lock alone: a
\* process begins a call, or ends one that is served.
LEMMA Beginning ==
  ASSUME StoreInv, NEW p \in Proc, NEW r \in Request,
         req[p].pc \in {"idle", "served"},
         req' = [req EXCEPT ![p] = r],
         r.pc = "idle" => r = Idle,
         r.pc = "served" => r.op = "none" /\ r.key \in Key,
         r.pc \in {"idle", "served", "lock"},
         r.pc = "lock" => r.op \in Ops /\ r.key \in minted',
         r.op = "create" => r.key \notin minted,
         minted \subseteq minted', minted' \subseteq Key,
         UNCHANGED <<file, tmp, lock, created, dead, blind, faults>>
  PROVE  StoreInv'
  <1> USE DEF StoreInv
  <1>1. TypeOK'  BY DEF TypeOK
  <1>2. /\ req'[p] = r
        /\ \A q \in Proc \ {p} : req'[q] = req[q]
    BY DEF TypeOK
  <1>3. LockInv'  BY <1>2 DEF LockInv, Critical
  <1>4. CallInv'  BY <1>2 DEF CallInv, Calling, Critical
  <1>5. WriterInv'  BY <1>2 DEF WriterInv, Writes, Content
  <1>6. FreshInv'
    <2>1. \A k \in Key \ minted : Content(file)[k].st = "none" /\ k \notin created \cup dead
      BY Stores DEF MintedInv, TypeOK, Store, Record
    <2>2. \A q \in Proc : req[q].op = "create" => req[q].key \in minted
      BY DEF CallInv, Calling, Critical, TypeOK, Request, Idle
    <2>3. r.key \in Key \/ r.op # "create"
      BY DEF TypeOK, Calling, Idle
    <2> QED  BY <1>2, <2>1, <2>2 DEF FreshInv, Creating, Content, Calling, Critical, TypeOK, Request
  <1>7. MintedInv'  BY DEF MintedInv, Content
  <1>8. RevokedStaysRevoked' /\ CreatedKeysSurvive' /\ StoreIsNeverTorn'
    BY DEF RevokedStaysRevoked, CreatedKeysSurvive, StoreIsNeverTorn, Content
  <1> QED  BY <1>1, <1>3, <1>4, <1>5, <1>6, <1>7, <1>8

LEMMA CreateKeyKeeps ==
  ASSUME StoreInv, NEW p \in Proc, NEW k \in Key, CreateKey(p, k)
  PROVE  StoreInv'
  <1> DEFINE r == [Idle EXCEPT !.pc = "lock", !.op = "create", !.key = k]
  <1>1. /\ r \in Request
        /\ r.pc = "lock" /\ r.op = "create" /\ r.key = k
    BY IdleIsARequest DEF Idle, Request, Critical
  <1>2. req' = [req EXCEPT ![p] = r]  BY DEF CreateKey, Enter
  <1>3. req[p].pc = "idle" /\ k \notin minted  BY DEF CreateKey, At
  <1>4. minted' = minted \cup {k} /\ UNCHANGED <<file, tmp, lock, created, dead, blind, faults>>
    BY DEF CreateKey
  <1> HIDE DEF r
  <1>5. minted \subseteq minted' /\ minted' \subseteq Key
    BY <1>4 DEF StoreInv, TypeOK
  <1>6. r.op \in Ops /\ k \in minted'  BY <1>1, <1>4 DEF Ops
  <1> QED  BY <1>1, <1>2, <1>3, <1>4, <1>5, <1>6, Beginning

LEMMA RevokeKeyKeeps ==
  ASSUME StoreInv, NEW p \in Proc, NEW k \in Key, RevokeKey(p, k)
  PROVE  StoreInv'
  <1> DEFINE r == [Idle EXCEPT !.pc = "lock", !.op = "revoke", !.key = k]
  <1>1. /\ r \in Request
        /\ r.pc = "lock" /\ r.op = "revoke" /\ r.key = k
    BY IdleIsARequest DEF Idle, Request, Critical
  <1>2. req' = [req EXCEPT ![p] = r]  BY DEF RevokeKey, Enter
  <1>3. /\ req[p].pc = "idle"
        /\ k \in minted
        /\ UNCHANGED <<file, tmp, lock, minted, created, dead, blind, faults>>
    BY DEF RevokeKey, At
  <1> HIDE DEF r
  <1>4. minted' \subseteq Key /\ r.op \in Ops  BY <1>1, <1>3 DEF StoreInv, TypeOK, Ops
  <1> QED  BY <1>1, <1>2, <1>3, <1>4, Beginning

LEMMA AdmitKeeps ==
  ASSUME StoreInv, NEW p \in Proc, NEW k \in Key, Admit(p, k)
  PROVE  StoreInv'
  <1>1. /\ req[p].pc = "idle"
        /\ UNCHANGED <<file, tmp, lock, minted, created, dead, blind, faults>>
    BY DEF Admit, At
  <1>2. k \in minted  BY DEF Admit, Verified, StoreInv, MintedInv
  <1>3. minted' \subseteq Key  BY <1>1 DEF StoreInv, TypeOK
  <1>4. CASE Enter(p, "touch", k)
    <2> DEFINE r == [Idle EXCEPT !.pc = "lock", !.op = "touch", !.key = k]
    <2>1. r \in Request /\ r.pc = "lock" /\ r.op = "touch" /\ r.key = k
      BY IdleIsARequest DEF Idle, Request, Critical
    <2>2. req' = [req EXCEPT ![p] = r]  BY <1>4 DEF Enter
    <2>3. r.op \in Ops  BY <2>1 DEF Ops
    <2> HIDE DEF r
    <2> QED  BY <1>1, <1>2, <1>3, <2>1, <2>2, <2>3, Beginning
  <1>5. CASE req' = [req EXCEPT ![p] = [Idle EXCEPT !.pc = "served", !.key = k]]
    <2> DEFINE r == [Idle EXCEPT !.pc = "served", !.key = k]
    <2>1. r \in Request /\ r.pc = "served" /\ r.op = "none" /\ r.key = k
      BY IdleIsARequest DEF Idle, Request, Critical
    <2>2. req' = [req EXCEPT ![p] = r]  BY <1>5
    <2> HIDE DEF r
    <2> QED  BY <1>1, <1>3, <2>1, <2>2, Beginning
  <1> QED  BY <1>4, <1>5 DEF Admit

LEMMA LeaveKeeps ==
  ASSUME StoreInv, NEW p \in Proc, Leave(p)
  PROVE  StoreInv'
  <1>1. /\ req[p].pc = "served"
        /\ req' = [req EXCEPT ![p] = Idle]
        /\ UNCHANGED <<file, tmp, lock, minted, created, dead, blind, faults>>
    BY DEF Leave, At
  <1>2. Idle.pc = "idle" /\ Idle.op = "none"  BY DEF Idle
  <1>3. minted' \subseteq Key  BY <1>1 DEF StoreInv, TypeOK
  <1> QED  BY <1>1, <1>2, <1>3, IdleIsARequest, Beginning

LEMMA AcquireKeeps ==
  ASSUME StoreInv, NEW p \in Proc, Acquire(p)
  PROVE  StoreInv'
  <1> USE DEF StoreInv
  <1> DEFINE r == [req[p] EXCEPT !.pc = "read"]
  <1>1. /\ req[p].pc = "lock" /\ lock = NoProc /\ lock' = p
        /\ req' = [req EXCEPT ![p] = r]
        /\ UNCHANGED <<file, tmp, minted, created, dead, blind, faults>>
    BY DEF Acquire, At, Free, Go
  <1>2. /\ r \in Request
        /\ r.pc = "read" /\ r.op = req[p].op /\ r.key = req[p].key
    BY DEF TypeOK, Request, Critical
  <1> HIDE DEF r
  <1>3. /\ req'[p] = r
        /\ \A q \in Proc \ {p} : req'[q] = req[q]
    BY <1>1 DEF TypeOK
  <1>4. TypeOK'  BY <1>1, <1>2 DEF TypeOK
  <1>5. LockInv'  BY <1>1, <1>2, <1>3, KeysAssumption DEF LockInv, Critical
  <1>6. CallInv'  BY <1>1, <1>2, <1>3 DEF CallInv, Calling, Critical
  <1>7. WriterInv'  BY <1>1, <1>2, <1>3 DEF WriterInv, Writes, Content
  <1>8. FreshInv'  BY <1>1, <1>2, <1>3 DEF FreshInv, Creating, Content, Calling, Critical
  <1>9. MintedInv'  BY <1>1 DEF MintedInv, Content
  <1>10. RevokedStaysRevoked' /\ CreatedKeysSurvive' /\ StoreIsNeverTorn'
    BY <1>1 DEF RevokedStaysRevoked, CreatedKeysSurvive, StoreIsNeverTorn, Content
  <1> QED  BY <1>4, <1>5, <1>6, <1>7, <1>8, <1>9, <1>10

\* The transaction on what was read, which is the store unless the read failed.
LEMMA Reading ==
  ASSUME StoreInv, NEW p \in Proc, req[p].pc = "read", NEW base \in Store,
         Transact(p, base),
         base = Content(file) \/ (blind' /\ base = NoKeys),
         blind' \in BOOLEAN, blind => blind', faults' \in 0..MaxFaults,
         UNCHANGED <<file, tmp, lock, minted, created, dead>>
  PROVE  StoreInv'
  <1> USE DEF StoreInv
  <1> DEFINE data == Apply(req[p].op, req[p].key, base)
             found == (req[p].op = "revoke" /\ base[req[p].key].st = "live")
             r == [req[p] EXCEPT !.pc = "open", !.data = data, !.found = found]
  <1>1. req[p].op \in Ops /\ req[p].key \in Key /\ req[p] \in Request
    BY DEF CallInv, Calling, Critical, TypeOK
  <1>2. data \in Store  BY <1>1, Transactions
  <1>3. req' = [req EXCEPT ![p] = r]  BY <1>1 DEF Transact, TypeOK
  <1>4. found \in BOOLEAN  OBVIOUS
  <1> HIDE DEF found
  <1>5. /\ r \in Request /\ r.pc = "open" /\ r.op = req[p].op /\ r.key = req[p].key
        /\ r.data = data /\ r.found = found
    BY <1>1, <1>2, <1>4 DEF Request, Critical
  <1> HIDE DEF r, data
  <1>6. /\ req'[p] = r
        /\ \A q \in Proc \ {p} : req'[q] = req[q]
    BY <1>3 DEF TypeOK
  <1>7. TypeOK'  BY <1>3, <1>5 DEF TypeOK
  <1>8. LockInv'  BY <1>5, <1>6 DEF LockInv, Critical
  <1>9. CallInv'  BY <1>5, <1>6 DEF CallInv, Calling, Critical
  <1>10. WriterInv'
    <2>1. \/ Writes(p, Content(file))'
          \/ blind' /\ Writes(p, NoKeys)'
      BY <1>5, <1>6 DEF Writes, Content, data, found
    <2>2. \A q \in Proc \ {p} : req[q].pc \notin Critical
      BY DEF LockInv, Critical
    <2> QED  BY <1>5, <1>6, <2>1, <2>2 DEF WriterInv, Critical
  <1>11. FreshInv'  BY <1>5, <1>6 DEF FreshInv, Creating, Content, Calling, Critical
  <1>12. MintedInv'  BY DEF MintedInv, Content
  <1>13. RevokedStaysRevoked' /\ CreatedKeysSurvive' /\ StoreIsNeverTorn'
    BY DEF RevokedStaysRevoked, CreatedKeysSurvive, StoreIsNeverTorn, Content
  <1> QED  BY <1>7, <1>8, <1>9, <1>10, <1>11, <1>12, <1>13

LEMMA ReadKeysKeeps ==
  ASSUME StoreInv, NEW p \in Proc, ReadKeys(p)
  PROVE  StoreInv'
  <1>1. Content(file) \in Store  BY Stores DEF StoreInv
  <1> QED  BY <1>1, Reading DEF ReadKeys, At, StoreInv, TypeOK

LEMMA ReadBlindKeeps ==
  ASSUME StoreInv, NEW p \in Proc, ReadBlind(p)
  PROVE  StoreInv'
  <1>1. NoKeys \in Store  BY Stores DEF StoreInv
  <1>2. faults' \in 0..MaxFaults
    BY KeysAssumption DEF ReadBlind, Fault, StoreInv, TypeOK
  <1> QED  BY <1>1, <1>2, Reading DEF ReadBlind, At

LEMMA OpenTmpKeeps ==
  ASSUME StoreInv, NEW p \in Proc, OpenTmp(p)
  PROVE  StoreInv'
  <1> USE DEF StoreInv
  <1> DEFINE r == [req[p] EXCEPT !.pc = "dump"]
  <1>1. /\ req[p].pc = "open"
        /\ tmp' = [tmp EXCEPT !.whole = FALSE]
        /\ req' = [req EXCEPT ![p] = r]
        /\ UNCHANGED <<file, lock, minted, created, dead, blind, faults>>
    BY DEF OpenTmp, At, Go
  <1>2. /\ r \in Request
        /\ r.pc = "dump" /\ r.op = req[p].op /\ r.key = req[p].key
        /\ r.data = req[p].data /\ r.found = req[p].found
    BY DEF TypeOK, Request, Critical
  <1> HIDE DEF r
  <1>3. /\ req'[p] = r
        /\ \A q \in Proc \ {p} : req'[q] = req[q]
    BY <1>1 DEF TypeOK
  <1>4. TypeOK'  BY <1>1, <1>2 DEF TypeOK, File
  <1>5. LockInv'  BY <1>1, <1>2, <1>3 DEF LockInv, Critical
  <1>6. CallInv'  BY <1>1, <1>2, <1>3 DEF CallInv, Calling, Critical
  <1>7. WriterInv'
    <2>1. \A q \in Proc \ {p} : req[q].pc \notin Critical
      BY <1>1 DEF LockInv, Critical
    <2> QED  BY <1>1, <1>2, <1>3, <2>1 DEF WriterInv, Writes, Content, Critical
  <1>8. FreshInv'  BY <1>1, <1>2, <1>3 DEF FreshInv, Creating, Content, Calling, Critical
  <1>9. MintedInv'  BY <1>1 DEF MintedInv, Content
  <1>10. RevokedStaysRevoked' /\ CreatedKeysSurvive' /\ StoreIsNeverTorn'
    BY <1>1 DEF RevokedStaysRevoked, CreatedKeysSurvive, StoreIsNeverTorn, Content
  <1> QED  BY <1>4, <1>5, <1>6, <1>7, <1>8, <1>9, <1>10

LEMMA DumpTmpKeeps ==
  ASSUME StoreInv, NEW p \in Proc, DumpTmp(p)
  PROVE  StoreInv'
  <1> USE DEF StoreInv
  <1> DEFINE r == [req[p] EXCEPT !.pc = "replace"]
  <1>1. /\ req[p].pc = "dump"
        /\ tmp' = [whole |-> TRUE, keys |-> req[p].data]
        /\ req' = [req EXCEPT ![p] = r]
        /\ UNCHANGED <<file, lock, minted, created, dead, blind, faults>>
    BY DEF DumpTmp, At, Go
  <1>2. /\ r \in Request /\ req[p].data \in Store
        /\ r.pc = "replace" /\ r.op = req[p].op /\ r.key = req[p].key
        /\ r.data = req[p].data /\ r.found = req[p].found
    BY DEF TypeOK, Request, Critical
  <1> HIDE DEF r
  <1>3. /\ req'[p] = r
        /\ \A q \in Proc \ {p} : req'[q] = req[q]
    BY <1>1 DEF TypeOK
  <1>4. TypeOK'  BY <1>1, <1>2 DEF TypeOK, File
  <1>5. LockInv'  BY <1>1, <1>2, <1>3 DEF LockInv, Critical
  <1>6. CallInv'  BY <1>1, <1>2, <1>3 DEF CallInv, Calling, Critical
  <1>7. WriterInv'
    <2>1. \A q \in Proc \ {p} : req[q].pc \notin Critical
      BY <1>1 DEF LockInv, Critical
    <2>2. \/ Writes(p, Content(file))'
          \/ blind' /\ Writes(p, NoKeys)'
      BY <1>1, <1>2, <1>3 DEF WriterInv, Writes, Content
    <2>3. tmp' = [whole |-> TRUE, keys |-> req'[p].data]  BY <1>1, <1>2, <1>3
    <2> HIDE DEF StoreInv
    <2> QED  BY <1>2, <1>3, <2>1, <2>2, <2>3 DEF WriterInv, Critical
  <1>8. FreshInv'  BY <1>1, <1>2, <1>3 DEF FreshInv, Creating, Content, Calling, Critical
  <1>9. MintedInv'  BY <1>1 DEF MintedInv, Content
  <1>10. RevokedStaysRevoked' /\ CreatedKeysSurvive' /\ StoreIsNeverTorn'
    BY <1>1 DEF RevokedStaysRevoked, CreatedKeysSurvive, StoreIsNeverTorn, Content
  <1> QED  BY <1>4, <1>5, <1>6, <1>7, <1>8, <1>9, <1>10

\* What the os.replace() of p makes of the store: its transaction, applied to
\* the store as it is or to nothing.
LEMMA Replacing ==
  ASSUME StoreInv, NEW p \in Proc, Replace(p)
  PROVE  /\ req[p].op \in Ops /\ req[p].key \in minted /\ req[p].key \in Key
         /\ file'.whole /\ file' \in File
         /\ \E base \in Store :
              /\ base = Content(file) \/ (blind /\ base = NoKeys)
              /\ Content(file)' = Apply(req[p].op, req[p].key, base)
              /\ req[p].found = (req[p].op = "revoke" /\ base[req[p].key].st = "live")
  <1> USE DEF StoreInv
  <1>1. req[p].pc = "replace" /\ file' = tmp  BY DEF Replace, At
  <1>2. req[p].op \in Ops /\ req[p].key \in minted /\ req[p].key \in Key
    BY <1>1 DEF CallInv, Calling, Critical, TypeOK
  <1>3. file' = [whole |-> TRUE, keys |-> req[p].data]  BY <1>1 DEF WriterInv
  <1>4. Content(file)' = req[p].data  BY <1>3 DEF Content
  <1>5. file' \in File /\ file'.whole  BY <1>1, <1>3 DEF TypeOK
  <1>6. Writes(p, Content(file)) \/ (blind /\ Writes(p, NoKeys))
    BY <1>1 DEF WriterInv
  <1>7. Content(file) \in Store /\ NoKeys \in Store  BY Stores
  <1> QED  BY <1>2, <1>4, <1>5, <1>6, <1>7 DEF Writes

LEMMA ReplaceKeeps ==
  ASSUME StoreInv, NEW p \in Proc, Replace(p)
  PROVE  StoreInv'
  <1> USE DEF StoreInv
  <1> DEFINE r == [req[p] EXCEPT !.pc = "unlock"]
             op == req[p].op
             key == req[p].key
             old == Content(file)
             new == Content(file')
  <1>1. /\ req[p].pc = "replace"
        /\ req' = [req EXCEPT ![p] = r]
        /\ UNCHANGED <<tmp, lock, minted, created, dead, blind, faults>>
    BY DEF Replace, At, Go
  <1>2. /\ r \in Request
        /\ r.pc = "unlock" /\ r.op = op /\ r.key = key /\ r.found = req[p].found
    BY DEF TypeOK, Request, Critical
  <1>3. PICK base \in Store :
          /\ base = old \/ (blind /\ base = NoKeys)
          /\ new = Apply(op, key, base)
          /\ req[p].found = (op = "revoke" /\ base[key].st = "live")
    BY Replacing DEF Content
  <1>4. op \in Ops /\ key \in minted /\ key \in Key /\ file'.whole /\ file' \in File
    BY Replacing
  <1>5. /\ \A j \in Key \ {key} : new[j] = base[j]
        /\ op = "create" => new[key].st = "live"
        /\ op = "touch" => new[key].st = base[key].st
        /\ op = "revoke" => new[key].st = IF base[key].st = "live" THEN "revoked"
                                          ELSE base[key].st
    BY <1>3, <1>4, Transactions
  <1>6. \A j \in Key : base[j].st = old[j].st \/ (blind /\ base[j].st = "none")
    BY <1>3, Stores
  <1>7. /\ req'[p] = r
        /\ \A q \in Proc \ {p} : req'[q] = req[q]
    BY <1>1 DEF TypeOK
  <1>8. \A q \in Proc \ {p} : req[q].pc \notin Critical
    BY <1>1 DEF LockInv, Critical
  <1>9. op = "create" => key \notin created \cup dead
    BY <1>1 DEF FreshInv, Creating, Calling, Critical
  <1>10. Content(file)' = new  BY DEF Content
  <1> HIDE DEF r, op, key, old, new
  <1>11. TypeOK'  BY <1>1, <1>2, <1>4 DEF TypeOK
  <1>12. LockInv'  BY <1>1, <1>2, <1>7 DEF LockInv, Critical
  <1>13. CallInv'  BY <1>1, <1>2, <1>7 DEF CallInv, Calling, Critical, op, key
  <1>14. WriterInv'
    <2>1. req[p].found => new[key].st = "revoked"  BY <1>3, <1>5
    <2> QED  BY <1>2, <1>4, <1>5, <1>7, <1>8, <1>10, <2>1 DEF WriterInv, Critical
  <1>15. FreshInv'
    <2> SUFFICES ASSUME NEW q \in Proc, Creating(q)'
                 PROVE  /\ new[req'[q].key].st = "none"
                        /\ req'[q].key \notin created \cup dead
                        /\ \A o \in Proc \ {q} : req'[o].op = "create" => req'[o].key # req'[q].key
      BY <1>1, <1>10 DEF FreshInv
    <2>1. q # p /\ req'[q] = req[q] /\ Creating(q)
      BY <1>2, <1>7 DEF Creating
    <2>2. /\ old[req[q].key].st = "none"
          /\ req[q].key \notin created \cup dead
          /\ \A o \in Proc \ {q} : req[o].op = "create" => req[o].key # req[q].key
          /\ req[q].key \in Key
      BY <2>1 DEF FreshInv, old, CallInv, Creating, TypeOK
    <2>3. new[req[q].key].st = "none"
      BY <1>4, <1>5, <1>6, <2>1, <2>2 DEF op, key, Ops
    <2> QED  BY <1>2, <1>7, <2>1, <2>2, <2>3 DEF op, key
  <1>16. MintedInv'
    BY <1>1, <1>4, <1>5, <1>6, <1>10 DEF MintedInv, old, Ops
  <1>17. RevokedStaysRevoked'
    BY <1>1, <1>4, <1>5, <1>6, <1>9, <1>10 DEF RevokedStaysRevoked, old, Ops, TypeOK
  <1>18. CreatedKeysSurvive'
    BY <1>1, <1>4, <1>5, <1>6, <1>10 DEF CreatedKeysSurvive, old, Ops, TypeOK
  <1>19. StoreIsNeverTorn'  BY <1>4 DEF StoreIsNeverTorn
  <1> QED  BY <1>11, <1>12, <1>13, <1>14, <1>15, <1>16, <1>17, <1>18, <1>19

\* A step that ends a transaction, or the process in it: the lock comes free,
\* and at most a call that got to its end is remembered.
LEMMA Ending ==
  ASSUME StoreInv, NEW p \in Proc, NEW r \in Request,
         req' = [req EXCEPT ![p] = r],
         r = Idle \/ (r.pc = "served" /\ r.op = "none" /\ r.key \in Key),
         Release(p),
         created' \subseteq minted, dead' \subseteq minted, created \subseteq created',
         \A k \in created' \ created :
           req[p].pc = "unlock" /\ req[p].op = "create" /\ k = req[p].key,
         \A k \in dead' \ dead :
           req[p].pc = "unlock" /\ req[p].found /\ k = req[p].key,
         faults' \in 0..MaxFaults,
         UNCHANGED <<file, tmp, minted, blind>>
  PROVE  StoreInv'
  <1> USE DEF StoreInv
  <1>1. /\ req'[p] = r
        /\ \A q \in Proc \ {p} : req'[q] = req[q]
    BY DEF TypeOK
  <1>2. r.pc \in {"idle", "served"} /\ r.op = "none" /\ Idle.pc = "idle"  BY DEF Idle
  <1>3. TypeOK'  BY DEF TypeOK, Release
  <1>4. LockInv'  BY <1>1, <1>2, KeysAssumption DEF LockInv, Critical, Release, TypeOK
  <1>5. CallInv'  BY <1>1, <1>2 DEF CallInv, Calling, Critical
  <1>6. WriterInv'  BY <1>1, <1>2 DEF WriterInv, Writes, Content
  <1>7. FreshInv'
    <2> SUFFICES ASSUME NEW q \in Proc, Creating(q)'
                 PROVE  /\ Content(file)[req'[q].key].st = "none"
                        /\ req'[q].key \notin created' \cup dead'
                        /\ \A o \in Proc \ {q} : req'[o].op = "create" => req'[o].key # req'[q].key
      BY DEF FreshInv, Content
    <2>1. q # p /\ req'[q] = req[q] /\ Creating(q)
      BY <1>1, <1>2 DEF Creating
    <2>2. /\ Content(file)[req[q].key].st = "none"
          /\ req[q].key \notin created \cup dead
          /\ \A o \in Proc \ {q} : req[o].op = "create" => req[o].key # req[q].key
      BY <2>1 DEF FreshInv
    <2>3. req[q].key \notin dead'  BY <2>2 DEF WriterInv
    <2>4. req[q].key \notin created'  BY <2>1, <2>2
    <2> QED  BY <1>1, <1>2, <2>1, <2>2, <2>3, <2>4
  <1>8. MintedInv'  BY DEF MintedInv, Content
  <1>9. RevokedStaysRevoked'
    BY DEF RevokedStaysRevoked, Content, WriterInv
  <1>10. CreatedKeysSurvive'
    BY DEF CreatedKeysSurvive, Content, WriterInv
  <1>11. StoreIsNeverTorn'
    BY DEF StoreIsNeverTorn, WriterInv
  <1> QED  BY <1>3, <1>4, <1>5, <1>6, <1>7, <1>8, <1>9, <1>10, <1>11

LEMMA Resuming ==
  ASSUME StoreInv, NEW p \in Proc, req[p].pc \in Calling, Resume(p)
  PROVE  \E r \in Request :
           /\ req' = [req EXCEPT ![p] = r]
           /\ r = Idle \/ (r.pc = "served" /\ r.op = "none" /\ r.key \in Key)
           /\ req[p].op = "touch" => r.pc = "served" /\ r.key = req[p].key
           /\ req[p].op # "touch" => r = Idle
  <1>1. req[p].key \in Key  BY DEF StoreInv, CallInv, TypeOK
  <1>2. CASE req[p].op = "touch"
    <2> DEFINE r == [Idle EXCEPT !.pc = "served", !.key = req[p].key]
    <2>1. r \in Request /\ r.pc = "served" /\ r.op = "none" /\ r.key = req[p].key
      BY <1>1, IdleIsARequest DEF Idle, Request, Critical
    <2>2. req' = [req EXCEPT ![p] = r]  BY <1>2 DEF Resume
    <2> HIDE DEF r
    <2> QED  BY <1>1, <1>2, <2>1, <2>2
  <1>3. CASE req[p].op # "touch"
    <2>1. req' = [req EXCEPT ![p] = Idle]  BY <1>3 DEF Resume
    <2> QED  BY <1>3, <2>1, IdleIsARequest
  <1> QED  BY <1>2, <1>3

LEMMA UnlockKeeps ==
  ASSUME StoreInv, NEW p \in Proc, Unlock(p)
  PROVE  StoreInv'
  <1>1. req[p].pc = "unlock"  BY DEF Unlock, At
  <1>2. req[p].pc \in Calling /\ req[p].key \in minted
    BY <1>1 DEF Calling, Critical, StoreInv, CallInv
  <1>3. PICK r \in Request :
          /\ req' = [req EXCEPT ![p] = r]
          /\ r = Idle \/ (r.pc = "served" /\ r.op = "none" /\ r.key \in Key)
    BY <1>2, Resuming DEF Unlock
  <1>4. /\ created' = IF req[p].op = "create" THEN created \cup {req[p].key} ELSE created
        /\ dead' = IF req[p].found THEN dead \cup {req[p].key} ELSE dead
        /\ Release(p)
        /\ UNCHANGED <<file, tmp, minted, blind, faults>>
    BY DEF Unlock
  <1>5. created' \subseteq minted /\ dead' \subseteq minted /\ created \subseteq created'
    BY <1>2, <1>4 DEF StoreInv, TypeOK
  <1>6. /\ \A k \in created' \ created : req[p].op = "create" /\ k = req[p].key
        /\ \A k \in dead' \ dead : req[p].found /\ k = req[p].key
    BY <1>4
  <1>7. faults' \in 0..MaxFaults  BY <1>4 DEF StoreInv, TypeOK
  <1> QED  BY <1>1, <1>3, <1>4, <1>5, <1>6, <1>7, Ending

LEMMA WriteFailsKeeps ==
  ASSUME StoreInv, NEW p \in Proc, WriteFails(p)
  PROVE  StoreInv'
  <1>1. req[p].pc \in Calling  BY DEF WriteFails, Calling, Critical
  <1>2. PICK r \in Request :
          /\ req' = [req EXCEPT ![p] = r]
          /\ r = Idle \/ (r.pc = "served" /\ r.op = "none" /\ r.key \in Key)
    BY <1>1, Resuming DEF WriteFails
  <1>3. Release(p) /\ UNCHANGED <<file, tmp, minted, created, dead, blind>>
    BY DEF WriteFails
  <1>4. faults' \in 0..MaxFaults
    BY KeysAssumption DEF WriteFails, Fault, StoreInv, TypeOK
  <1>5. created' \subseteq minted /\ dead' \subseteq minted
    BY <1>3 DEF StoreInv, TypeOK
  <1> QED  BY <1>2, <1>3, <1>4, <1>5, Ending

LEMMA DieKeeps ==
  ASSUME StoreInv, NEW p \in Proc, Die(p)
  PROVE  StoreInv'
  <1>1. /\ req' = [req EXCEPT ![p] = Idle]
        /\ Release(p)
        /\ UNCHANGED <<file, tmp, minted, created, dead, blind>>
    BY DEF Die
  <1>2. faults' \in 0..MaxFaults
    BY KeysAssumption DEF Die, Fault, StoreInv, TypeOK
  <1>3. created' \subseteq minted /\ dead' \subseteq minted
    BY <1>1 DEF StoreInv, TypeOK
  <1> QED  BY <1>1, <1>2, <1>3, IdleIsARequest, Ending
----------------------------------------------------------------------------
(***************************************************************************)
(* The theorems.                                                           *)
(***************************************************************************)

LEMMA InitStoreInv == Init => StoreInv
  <1> SUFFICES ASSUME Init  PROVE StoreInv
    OBVIOUS
  <1> USE DEF Init
  <1>1. TypeOK
    <2>1. NoKeys \in Store  BY DEF NoKeys, Store, Record
    <2>2. [whole |-> FALSE, keys |-> NoKeys] \in File  BY <2>1 DEF File
    <2>3. req \in [Proc -> Request]  BY IdleIsARequest
    <2>4. 0 \in 0..MaxFaults  BY KeysAssumption
    <2> HIDE DEF Init
    <2> QED  BY <2>2, <2>3, <2>4 DEF TypeOK, Init
  <1>2. LockInv  BY KeysAssumption DEF LockInv, Idle, Critical
  <1>3. CallInv  BY DEF CallInv, Idle, Calling, Critical
  <1>4. WriterInv  BY DEF WriterInv, Idle
  <1>5. FreshInv  BY DEF FreshInv, Creating, Idle
  <1>6. MintedInv  BY DEF MintedInv, Content, NoKeys
  <1>7. RevokedStaysRevoked /\ CreatedKeysSurvive /\ StoreIsNeverTorn
    BY DEF RevokedStaysRevoked, CreatedKeysSurvive, StoreIsNeverTorn
  <1> QED  BY <1>1, <1>2, <1>3, <1>4, <1>5, <1>6, <1>7 DEF StoreInv

LEMMA NextStoreInv == StoreInv /\ [Next]_vars => StoreInv'
  <1> SUFFICES ASSUME StoreInv, [Next]_vars  PROVE StoreInv'
    OBVIOUS
  <1>1. CASE UNCHANGED vars
    BY <1>1 DEF vars, StoreInv, TypeOK, LockInv, CallInv, WriterInv, Writes, FreshInv,
                Creating, MintedInv, Content, RevokedStaysRevoked, CreatedKeysSurvive,
                StoreIsNeverTorn
  <1>2. CASE Next
    <2> SUFFICES ASSUME NEW p \in Proc,
                        \/ \E k \in Key : CreateKey(p, k) \/ RevokeKey(p, k) \/ Admit(p, k)
                        \/ Step(p)
                        \/ ReadBlind(p)
                        \/ WriteFails(p)
                        \/ Die(p)
                 PROVE  StoreInv'
      BY <1>2 DEF Next
    <2>1. ASSUME NEW k \in Key, CreateKey(p, k)  PROVE StoreInv'
      BY <2>1, CreateKeyKeeps
    <2>2. ASSUME NEW k \in Key, RevokeKey(p, k)  PROVE StoreInv'
      BY <2>2, RevokeKeyKeeps
    <2>3. ASSUME NEW k \in Key, Admit(p, k)  PROVE StoreInv'
      BY <2>3, AdmitKeeps
    <2>4. CASE Step(p)
      BY <2>4, AcquireKeeps, ReadKeysKeeps, OpenTmpKeeps, DumpTmpKeeps, ReplaceKeeps,
         UnlockKeeps, LeaveKeeps DEF Step
    <2>5. CASE ReadBlind(p)  BY <2>5, ReadBlindKeeps
    <2>6. CASE WriteFails(p)  BY <2>6, WriteFailsKeeps
    <2>7. CASE Die(p)  BY <2>7, DieKeeps
    <2> QED  BY <2>1, <2>2, <2>3, <2>4, <2>5, <2>6, <2>7
  <1> QED  BY <1>1, <1>2

\* The inductive invariant: the lock is held exactly inside its critical
\* section, a writer's hands hold its transaction applied to the store as it
\* still is, and only its creator knows a key that is being created.
THEOREM StoreDiscipline == Spec => []StoreInv
  BY InitStoreInv, NextStoreInv, PTL DEF Spec

\* Every reachable state of the key store is well typed.
THEOREM KeyTypes == Spec => []TypeOK
  <1>1. StoreInv => TypeOK  BY DEF StoreInv
  <1> QED  BY <1>1, StoreDiscipline, PTL

\* A key that revoke_key() has reported revoked never works again
\* (tools/api_keys.py, revoke_key and _touch_last_used).
THEOREM RevocationIsFinal == Spec => []RevokedStaysRevoked
  <1>1. StoreInv => RevokedStaysRevoked  BY DEF StoreInv
  <1> QED  BY <1>1, StoreDiscipline, PTL

\* A key that create_key() has returned is not lost, unless a writer could not
\* read the store (tools/api_keys.py, _locked and _write).
THEOREM KeysAreKept == Spec => []CreatedKeysSurvive
  <1>1. StoreInv => CreatedKeysSurvive  BY DEF StoreInv
  <1> QED  BY <1>1, StoreDiscipline, PTL

\* Readers without the lock never see a half-written store (tools/api_keys.py,
\* _write).
THEOREM NeverTorn == Spec => []StoreIsNeverTorn
  <1>1. StoreInv => StoreIsNeverTorn  BY DEF StoreInv
  <1> QED  BY <1>1, StoreDiscipline, PTL
----------------------------------------------------------------------------
(***************************************************************************)
(* ApiKeys implements KeyRegistry.                                         *)
(***************************************************************************)

Status == [k \in Key |-> Content(file)[k].st]

Serving == [p \in Proc |-> IF req[p].op \in {"none", "touch"} THEN req[p].key ELSE NoKey]

\* A step that the registry does not see.
LEMMA Unseen ==
  ASSUME Status' = Status, Serving' = Serving, minted' = minted, blind' = blind
  PROVE  UNCHANGED Registry!vars
  BY DEF Status, Serving, Registry!vars

\* What a step of p does to the keys served.
LEMMA ServingOf ==
  ASSUME StoreInv, NEW p \in Proc, NEW r \in Request, req' = [req EXCEPT ![p] = r]
  PROVE  Serving' = [Serving EXCEPT ![p] = IF r.op \in {"none", "touch"} THEN r.key ELSE NoKey]
  BY DEF Serving, StoreInv, TypeOK

LEMMA ReplaceRefines ==
  ASSUME StoreInv, NEW p \in Proc, Replace(p)
  PROVE  [Registry!Next]_Registry!vars
  <1>0. PICK key \in Key : key = req[p].key  BY Replacing
  <1> DEFINE op == req[p].op
             old == Content(file)
             new == Content(file')
  <1>1. req[p].pc = "replace" /\ UNCHANGED <<tmp, lock, minted, created, dead, blind, faults>>
    BY DEF Replace, At
  <1>2. PICK base \in Store :
          /\ base = old \/ (blind /\ base = NoKeys)
          /\ new = Apply(op, key, base)
    BY <1>0, Replacing DEF Content
  <1>3. op \in Ops /\ key \in minted  BY <1>0, Replacing
  <1>4. /\ \A j \in Key \ {key} : new[j] = base[j]
        /\ op = "create" => new[key].st = "live"
        /\ op = "touch" => new[key].st = base[key].st
        /\ op = "revoke" => new[key].st = IF base[key].st = "live" THEN "revoked"
                                          ELSE base[key].st
    BY <1>2, <1>3, Transactions
  <1>5. op = "create" => old[key].st = "none"
    BY <1>0, <1>1 DEF StoreInv, FreshInv, Creating, Calling, Critical
  <1>6. Serving' = Serving
    <2>1. /\ [req[p] EXCEPT !.pc = "unlock"] \in Request
          /\ [req[p] EXCEPT !.pc = "unlock"].op = op
          /\ [req[p] EXCEPT !.pc = "unlock"].key = key
          /\ req' = [req EXCEPT ![p] = [req[p] EXCEPT !.pc = "unlock"]]
      BY <1>0 DEF Replace, Go, StoreInv, TypeOK, Request, Critical
    <2>2. Serving' = [Serving EXCEPT ![p] = IF op \in {"none", "touch"} THEN key ELSE NoKey]
      BY <2>1, ServingOf
    <2> QED  BY <1>0, <2>2 DEF Serving
  <1>7. /\ Status = [k \in Key |-> old[k].st]
        /\ Status' = [k \in Key |-> new[k].st]
    BY DEF Status, Content
  <1> HIDE DEF op, old, new
  <1>8. CASE base = old
    <2>1. CASE op = "create"
      <3>1. Status' = [Status EXCEPT ![key] = "live"] /\ Status[key] = "none"
        BY <1>3, <1>4, <1>5, <1>7, <1>8, <2>1
      <3>2. Registry!Activate(key)
        BY <1>1, <1>3, <1>6, <3>1 DEF Registry!Activate, Status, Serving
      <3> QED  BY <1>3, <3>2 DEF Registry!Next
    <2>2. CASE op = "revoke" /\ old[key].st = "live"
      <3>1. Status' = [Status EXCEPT ![key] = "revoked"] /\ Status[key] = "live"
        BY <1>3, <1>4, <1>7, <1>8, <2>2
      <3>2. Registry!Revoke(key)
        BY <1>1, <1>6, <3>1 DEF Registry!Revoke, Status, Serving
      <3> QED  BY <1>3, <3>2 DEF Registry!Next
    <2>3. CASE op = "touch" \/ (op = "revoke" /\ old[key].st # "live")
      <3>1. Status' = Status
        BY <1>3, <1>4, <1>7, <1>8, <2>3
      <3> QED  BY <1>1, <1>6, <3>1, Unseen
    <2> QED  BY <1>3, <2>1, <2>2, <2>3 DEF Ops
  <1>9. CASE blind /\ base = NoKeys
    <2> DEFINE kept == IF op = "create" THEN {key} ELSE {}
    <2>1. \A k \in Key : base[k].st = "none"  BY <1>9, Stores DEF StoreInv
    <2>2. Status' = [k \in Key |-> IF k \in kept THEN "live" ELSE "none"]
      BY <1>3, <1>4, <1>7, <2>1 DEF Ops
    <2>3. kept \in SUBSET minted /\ \A k \in kept : Status[k] # "revoked"
      BY <1>3, <1>5, <1>7
    <2> HIDE DEF kept
    <2>4. Registry!Forget
      BY <1>1, <1>6, <1>9, <2>2, <2>3 DEF Registry!Forget, Status, Serving
    <2> QED  BY <2>4 DEF Registry!Next
  <1> QED  BY <1>2, <1>8, <1>9

\* A step that writes nothing shows in the keys served and minted, if at all.
LEMMA StepRefines == StoreInv /\ [Next]_vars => [Registry!Next]_Registry!vars
  <1> SUFFICES ASSUME StoreInv, [Next]_vars  PROVE [Registry!Next]_Registry!vars
    OBVIOUS
  <1>1. CASE UNCHANGED vars
    <2>1. Status' = Status /\ Serving' = Serving
      BY <1>1 DEF vars, Status, Serving, Content
    <2> QED  BY <1>1, <2>1, Unseen DEF vars
  <1>2. ASSUME NEW p \in Proc, NEW k \in Key, CreateKey(p, k)
        PROVE  Registry!Next
    <2> DEFINE r == [Idle EXCEPT !.pc = "lock", !.op = "create", !.key = k]
    <2>1. r \in Request /\ r.op = "create"
      BY IdleIsARequest DEF Idle, Request, Critical
    <2>2. req' = [req EXCEPT ![p] = r] /\ req[p].pc = "idle"
      BY <1>2 DEF CreateKey, Enter, At
    <2> HIDE DEF r
    <2>3. Serving[p] = NoKey
      BY <2>2 DEF Serving, StoreInv, CallInv, Idle
    <2>4. Serving' = Serving
      <3>1. Serving' = [Serving EXCEPT ![p] = NoKey]  BY <2>1, <2>2, ServingOf
      <3> QED  BY <2>3, <3>1 DEF Serving
    <2>5. Status' = Status  BY <1>2 DEF CreateKey, Status, Content
    <2>6. Registry!Mint(k)
      BY <1>2, <2>4, <2>5 DEF CreateKey, Registry!Mint, Status, Serving
    <2> QED  BY <2>6 DEF Registry!Next
  <1>3. ASSUME NEW p \in Proc, NEW k \in Key, RevokeKey(p, k)
        PROVE  UNCHANGED Registry!vars
    <2> DEFINE r == [Idle EXCEPT !.pc = "lock", !.op = "revoke", !.key = k]
    <2>1. r \in Request /\ r.op = "revoke"
      BY <1>3, IdleIsARequest DEF Idle, Request, Critical
    <2>2. req' = [req EXCEPT ![p] = r] /\ req[p].pc = "idle"
      BY <1>3 DEF RevokeKey, Enter, At
    <2> HIDE DEF r
    <2>3. Serving[p] = NoKey
      BY <2>2 DEF Serving, StoreInv, CallInv, Idle
    <2>4. Serving' = Serving
      <3>1. Serving' = [Serving EXCEPT ![p] = NoKey]  BY <2>1, <2>2, ServingOf
      <3> QED  BY <2>3, <3>1 DEF Serving
    <2>5. Status' = Status  BY <1>3 DEF RevokeKey, Status, Content
    <2> QED  BY <1>3, <2>4, <2>5, Unseen DEF RevokeKey
  <1>4. ASSUME NEW p \in Proc, NEW k \in Key, Admit(p, k)
        PROVE  Registry!Next
    <2>1. PICK r \in Request :
            /\ req' = [req EXCEPT ![p] = r]
            /\ r.op \in {"none", "touch"} /\ r.key = k
      <3>1. CASE Enter(p, "touch", k)
        <4> DEFINE r == [Idle EXCEPT !.pc = "lock", !.op = "touch", !.key = k]
        <4>1. r \in Request /\ r.op = "touch" /\ r.key = k
          BY IdleIsARequest DEF Idle, Request, Critical
        <4>2. req' = [req EXCEPT ![p] = r]  BY <3>1 DEF Enter
        <4> HIDE DEF r
        <4> QED  BY <4>1, <4>2
      <3>2. CASE req' = [req EXCEPT ![p] = [Idle EXCEPT !.pc = "served", !.key = k]]
        <4> DEFINE r == [Idle EXCEPT !.pc = "served", !.key = k]
        <4>1. r \in Request /\ r.op = "none" /\ r.key = k
          BY IdleIsARequest DEF Idle, Request, Critical
        <4>2. req' = [req EXCEPT ![p] = r]  BY <3>2
        <4> HIDE DEF r
        <4> QED  BY <4>1, <4>2
      <3> QED  BY <1>4, <3>1, <3>2 DEF Admit
    <2>2. Serving' = [Serving EXCEPT ![p] = k]  BY <2>1, ServingOf
    <2>3. Serving[p] = NoKey
      BY <1>4 DEF Admit, At, Serving, StoreInv, CallInv, Idle
    <2>4. Status' = Status /\ Status[k] = "live"
      BY <1>4 DEF Admit, Verified, Status, Content
    <2>5. Registry!Admit(p, k)
      BY <1>4, <2>2, <2>3, <2>4 DEF Admit, Registry!Admit, Status, Serving
    <2> QED  BY <2>5 DEF Registry!Next
  \* The process serves no key any more.
  <1>5. ASSUME NEW p \in Proc, req' = [req EXCEPT ![p] = Idle], minted' = minted,
               blind' = blind, file' = file
        PROVE  Registry!Next
    <2>1. Serving' = [Serving EXCEPT ![p] = NoKey]
      <3>1. Serving' = [Serving EXCEPT ![p] = IF Idle.op \in {"none", "touch"} THEN Idle.key ELSE NoKey]
        BY <1>5, IdleIsARequest, ServingOf
      <3> QED  BY <3>1 DEF Idle
    <2>2. Status' = Status  BY <1>5 DEF Status, Content
    <2>3. Registry!Leave(p)
      BY <1>5, <2>1, <2>2 DEF Registry!Leave, Status, Serving
    <2> QED  BY <2>3 DEF Registry!Next
  \* The process goes on with its call.
  <1>6. ASSUME NEW p \in Proc, NEW r \in Request, req' = [req EXCEPT ![p] = r],
               r.op = req[p].op, r.key = req[p].key, file' = file, minted' = minted
        PROVE  Serving' = Serving /\ Status' = Status
    <2>1. Serving' = [Serving EXCEPT ![p] = IF r.op \in {"none", "touch"} THEN r.key ELSE NoKey]
      BY <1>6, ServingOf
    <2>2. Serving' = Serving  BY <1>6, <2>1 DEF Serving
    <2> QED  BY <1>6, <2>2 DEF Status, Content
  <1>7. ASSUME NEW p \in Proc, Acquire(p) \/ OpenTmp(p) \/ DumpTmp(p)
        PROVE  UNCHANGED Registry!vars
    <2>1. PICK pc \in Critical : Go(p, pc)
      BY <1>7 DEF Acquire, OpenTmp, DumpTmp, Critical
    <2> DEFINE r == [req[p] EXCEPT !.pc = pc]
    <2>2. r \in Request /\ r.op = req[p].op /\ r.key = req[p].key
      BY <2>1 DEF StoreInv, TypeOK, Request, Critical
    <2>3. req' = [req EXCEPT ![p] = r]  BY <2>1 DEF Go
    <2> HIDE DEF r
    <2>4. UNCHANGED <<file, minted, blind>>
      BY <1>7 DEF Acquire, OpenTmp, DumpTmp
    <2>5. Serving' = Serving /\ Status' = Status  BY <1>6, <2>2, <2>3, <2>4
    <2> QED  BY <2>4, <2>5, Unseen
  <1>8. ASSUME NEW p \in Proc, req[p].pc = "read", NEW base \in Store, Transact(p, base),
               UNCHANGED <<file, minted>>
        PROVE  Serving' = Serving /\ Status' = Status
    <2> DEFINE data == Apply(req[p].op, req[p].key, base)
               found == (req[p].op = "revoke" /\ base[req[p].key].st = "live")
               r == [req[p] EXCEPT !.pc = "open", !.data = data, !.found = found]
    <2>1. req[p].op \in Ops /\ req[p].key \in Key /\ req[p] \in Request
      BY <1>8 DEF StoreInv, CallInv, Calling, Critical, TypeOK
    <2>2. data \in Store /\ found \in BOOLEAN  BY <2>1, Transactions
    <2>3. req' = [req EXCEPT ![p] = r]  BY <1>8, <2>1 DEF Transact, StoreInv, TypeOK
    <2> HIDE DEF data, found
    <2>4. r \in Request /\ r.op = req[p].op /\ r.key = req[p].key
      BY <2>1, <2>2 DEF Request, Critical
    <2> HIDE DEF r
    <2> QED  BY <1>6, <1>8, <2>3, <2>4
  <1>9. ASSUME NEW p \in Proc, ReadKeys(p)
        PROVE  UNCHANGED Registry!vars
    <2>1. Content(file) \in Store  BY Stores DEF StoreInv
    <2>2. Serving' = Serving /\ Status' = Status
      BY <1>8, <1>9, <2>1 DEF ReadKeys, At
    <2> QED  BY <1>9, <2>2, Unseen DEF ReadKeys
  <1>10. ASSUME NEW p \in Proc, ReadBlind(p)
         PROVE  Registry!Next
    <2>1. NoKeys \in Store  BY Stores DEF StoreInv
    <2>2. Serving' = Serving /\ Status' = Status
      BY <1>8, <1>10, <2>1 DEF ReadBlind, At
    <2>3. Registry!Degrade
      BY <1>10, <2>2 DEF ReadBlind, Registry!Degrade, Status, Serving
    <2> QED  BY <2>3 DEF Registry!Next
  \* The end of a transaction: create and revoke served no key before either.
  <1>11. ASSUME NEW p \in Proc, req[p].pc \in Calling, Resume(p),
                UNCHANGED <<file, minted, blind>>
         PROVE  UNCHANGED Registry!vars
    <2>1. PICK r \in Request :
            /\ req' = [req EXCEPT ![p] = r]
            /\ r = Idle \/ (r.pc = "served" /\ r.op = "none" /\ r.key \in Key)
            /\ req[p].op = "touch" => r.pc = "served" /\ r.key = req[p].key
            /\ req[p].op # "touch" => r = Idle
      BY <1>11, Resuming
    <2>2. r.op = "none" /\ (r = Idle => r.key = NoKey)  BY <2>1 DEF Idle
    <2>3. Serving' = [Serving EXCEPT ![p] = r.key]  BY <2>1, <2>2, ServingOf
    <2>4. req[p].op \in Ops  BY <1>11 DEF StoreInv, CallInv
    <2>5. Serving[p] = r.key  BY <2>1, <2>2, <2>4 DEF Serving, Ops
    <2>6. Serving' = Serving  BY <2>3, <2>5 DEF Serving
    <2>7. Status' = Status  BY <1>11 DEF Status, Content
    <2> QED  BY <1>11, <2>6, <2>7, Unseen
  <1>12. ASSUME NEW p \in Proc, Unlock(p)
         PROVE  UNCHANGED Registry!vars
    <2>1. req[p].pc \in Calling  BY <1>12 DEF Unlock, At, Calling, Critical
    <2> QED  BY <1>11, <1>12, <2>1 DEF Unlock
  <1>13. ASSUME NEW p \in Proc, WriteFails(p)
         PROVE  UNCHANGED Registry!vars
    <2>1. req[p].pc \in Calling  BY <1>13 DEF WriteFails, Calling, Critical
    <2> QED  BY <1>11, <1>13, <2>1 DEF WriteFails
  <1>14. ASSUME NEW p \in Proc, Leave(p) \/ Die(p)
         PROVE  Registry!Next
    BY <1>5, <1>14 DEF Leave, Die
  <1>15. CASE Next
    <2> SUFFICES ASSUME NEW p \in Proc,
                        \/ \E k \in Key : CreateKey(p, k) \/ RevokeKey(p, k) \/ Admit(p, k)
                        \/ Step(p)
                        \/ ReadBlind(p)
                        \/ WriteFails(p)
                        \/ Die(p)
                 PROVE  [Registry!Next]_Registry!vars
      BY <1>15 DEF Next
    <2>1. CASE \E k \in Key : CreateKey(p, k) \/ RevokeKey(p, k) \/ Admit(p, k)
      BY <1>2, <1>3, <1>4, <2>1
    <2>2. CASE Step(p)
      BY <1>7, <1>9, <1>12, <1>14, <2>2, ReplaceRefines DEF Step
    <2>3. CASE ReadBlind(p) \/ WriteFails(p) \/ Die(p)
      BY <1>10, <1>13, <1>14, <2>3
    <2> QED  BY <2>1, <2>2, <2>3
  <1> QED  BY <1>1, <1>15

LEMMA InitRefines == Init => Registry!Init
  <1> SUFFICES ASSUME Init  PROVE Registry!Init
    OBVIOUS
  <1>1. Status = [k \in Key |-> "none"]
    BY DEF Init, Status, Content, NoKeys
  <1>2. Serving = [p \in Proc |-> NoKey]
    BY DEF Init, Serving, Idle
  <1> QED  BY <1>1, <1>2 DEF Init, Registry!Init, Status, Serving

\* The files, the lock and the processes implement the registry that the
\* docstrings of tools/api_keys.py promise.
THEOREM KeysRefine == Spec => IsARegistry
  BY InitRefines, StepRefines, StoreDiscipline, PTL DEF Spec, IsARegistry, Registry!Spec
=============================================================================
