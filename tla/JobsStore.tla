----------------------------- MODULE JobsStore -----------------------------
(***************************************************************************)
(* The record kept in jobs/<job_id>/status.json and the mutations that     *)
(* jobs_store.py and job_runner.py apply to it.                            *)
(*                                                                         *)
(* Each mutation below is the callback handed to update_status(): it runs  *)
(* between the read and the atomic replace of status.json, both made under *)
(* the job's flock, so it is one operator from the old record to the new   *)
(* one (ApiKeys has a lock and a replace of this kind in their steps).     *)
(*                                                                         *)
(* Abstractions.  The timestamps are kept as one bit: old says that the    *)
(* time limit the code compares the record's clock with has passed -- 300  *)
(* seconds since created_at for a queued job (active_count), the TTL since *)
(* finished_at for a finished one (sweep).  result says whether an answer  *)
(* is stored and error where a failure came from, not what they say.       *)
(***************************************************************************)
EXTENDS Naturals

\* The pid field of a record whose runner has not started: None.
NoPid == 0

FinishedStates == {"succeeded", "failed", "canceled"}
StoredStates   == {"queued", "running"} \cup FinishedStates

\* "absent": the id was never handed out; "swept": its directory was removed.
States  == StoredStates \cup {"absent", "swept"}

Results == {"none", "reply"}
Errors  == {"none", "died", "reported"}

StatusRecord == [state  : States,
                 pid    : Nat,
                 result : Results,
                 error  : Errors,
                 old    : BOOLEAN]

Blank(state) == [state |-> state, pid |-> NoPid, result |-> "none",
                 error |-> "none", old |-> FALSE]

Queued == Blank("queued")

-----------------------------------------------------------------------------
(* Mutants: a plausible slip in each of the mutations below.  Nothing refers *)
(* to them; substituted for the operator of the same stem, each breaks one   *)
(* of the properties of AgentJobs.                                           *)

\* The runner forgets to store its pid.
MarkRunningWithoutPid(s, pid) ==
  IF s.state \in StoredStates
    THEN [s EXCEPT !.state = "running", !.old = FALSE]
    ELSE s

\* The runner forks once more and stores the pid of that child.
MarkRunningForked(s, pid) == MarkRunningWithoutPid([s EXCEPT !.pid = pid + 1], pid)

\* The finish write stores the result and ignores the error.
FinishIgnoringError(s, outcome) ==
  IF s.state \in {"queued", "running"}
    THEN [s EXCEPT !.state = "succeeded", !.result = "reply", !.old = FALSE]
    ELSE s

\* A cancel does not notice that the job has finished meanwhile.
MarkCanceledUnchecked(s) ==
  IF s.state \in StoredStates
    THEN [s EXCEPT !.state = "canceled", !.old = FALSE]
    ELSE s

\* The heal trusts the unlocked read and does not look at the record again.
MarkDiedUnchecked(s, pidAlive) ==
  IF s.state \in StoredStates
    THEN [s EXCEPT !.state = "failed", !.error = "died", !.old = FALSE]
    ELSE s

\* The heal writes a state the API does not have.
MarkDiedMisspelt(s, pidAlive) ==
  IF s.state = "running" /\ ~pidAlive
    THEN [s EXCEPT !.state = "died", !.error = "died", !.old = FALSE]
    ELSE s

-----------------------------------------------------------------------------
\* The runner's first write: unconditional, whatever the stored state is.
MarkRunning(s, pid) ==
  IF s.state \in StoredStates
    THEN [s EXCEPT !.state = "running", !.pid = pid, !.old = FALSE]
    ELSE s

\* The runner's last write: a finished record is left alone.
Finish(s, outcome) ==
  IF s.state \in {"queued", "running"}
    THEN IF outcome = "error"
           THEN [s EXCEPT !.state = "failed", !.error = "reported", !.old = FALSE]
           ELSE [s EXCEPT !.state = "succeeded", !.result = "reply", !.old = FALSE]
    ELSE s

\* cancel(): a finished record is left alone.
MarkCanceled(s) ==
  IF s.state \in {"queued", "running"}
    THEN [s EXCEPT !.state = "canceled", !.old = FALSE]
    ELSE s

\* read_status(): the record is re-checked under the lock, its pid included.
MarkDied(s, pidAlive) ==
  IF s.state = "running" /\ ~pidAlive
    THEN [s EXCEPT !.state = "failed", !.error = "died", !.old = FALSE]
    ELSE s

\* sweep(): the directories of finished jobs past the TTL are removed.
Swept(s) ==
  IF s.state \in FinishedStates /\ s.old THEN Blank("swept") ELSE s
=============================================================================
