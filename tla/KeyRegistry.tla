---------------------------- MODULE KeyRegistry ----------------------------
(***************************************************************************)
(* What the API-key store promises (the docstrings of tools/api_keys.py):  *)
(* a key is minted once, works until it is revoked, and is revoked for     *)
(* good; a request is let in only by a key that works at that moment.      *)
(* Keys are lost only after a read of the store has failed.                *)
(***************************************************************************)
CONSTANTS Proc, Key, NoKey

VARIABLES
  status,   \* [Key -> {"none", "live", "revoked"}]
  minted,   \* the keys ever handed out: each is fresh
  serving,  \* [Proc -> Key \cup {NoKey}]  the key each process serves
  lossy     \* a read of the store has failed

vars == <<status, minted, serving, lossy>>

Init ==
  /\ status = [k \in Key |-> "none"]
  /\ minted = {}
  /\ serving = [p \in Proc |-> NoKey]
  /\ lossy = FALSE

Mint(k) ==
  /\ k \notin minted
  /\ minted' = minted \cup {k}
  /\ UNCHANGED <<status, serving, lossy>>

\* Only a minted key appears, and only once: it is never live again after
\* it was revoked or lost.
Activate(k) ==
  /\ k \in minted
  /\ status[k] = "none"
  /\ status' = [status EXCEPT ![k] = "live"]
  /\ UNCHANGED <<minted, serving, lossy>>

Revoke(k) ==
  /\ status[k] = "live"
  /\ status' = [status EXCEPT ![k] = "revoked"]
  /\ UNCHANGED <<minted, serving, lossy>>

Admit(p, k) ==
  /\ serving[p] = NoKey
  /\ status[k] = "live"
  /\ serving' = [serving EXCEPT ![p] = k]
  /\ UNCHANGED <<status, minted, lossy>>

Leave(p) ==
  /\ serving' = [serving EXCEPT ![p] = NoKey]
  /\ UNCHANGED <<status, minted, lossy>>

Degrade ==
  /\ lossy' = TRUE
  /\ UNCHANGED <<status, minted, serving>>

\* The store is rewritten from nothing: at most the key being created is in it.
Forget ==
  /\ lossy
  /\ \E kept \in SUBSET minted :
       /\ \A k \in kept : status[k] # "revoked"
       /\ status' = [k \in Key |-> IF k \in kept THEN "live" ELSE "none"]
  /\ UNCHANGED <<minted, serving, lossy>>

Next ==
  \/ \E k \in Key : Mint(k) \/ Activate(k) \/ Revoke(k)
  \/ \E p \in Proc : Leave(p) \/ \E k \in Key : Admit(p, k)
  \/ Degrade
  \/ Forget

Spec == Init /\ [][Next]_vars
=============================================================================
