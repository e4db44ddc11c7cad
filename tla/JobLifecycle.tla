---------------------------- MODULE JobLifecycle ----------------------------
(***************************************************************************)
(* What the jobs API promises about one job, whatever the workers, the     *)
(* files and the pids behind it do (jobs_store.py, line 19, and            *)
(* docs/DEVELOPER.md on the jobs API):                                     *)
(*                                                                         *)
(*     queued --> running --> succeeded | failed | canceled --> swept      *)
(*                                                                         *)
(* tied to the life of the job's one runner process: a job starts to run   *)
(* by a step of its runner, only a runner at work can settle a job, and a  *)
(* job is declared dead only when its runner is.                           *)
(*                                                                         *)
(* The one step outside the documented machine is Revive, which the code   *)
(* does take: the runner of a job that was canceled before it started      *)
(* starts all the same.                                                    *)
(***************************************************************************)
CONSTANT Job

VARIABLES
  state,   \* [Job -> State]   what a client is told
  runner   \* [Job -> Runner]  unborn, booting, at work or dead

lifecycleVars == <<state, runner>>

State  == {"absent", "queued", "running", "succeeded", "failed", "canceled",
           "swept"}
Runner == {"unborn", "booting", "working", "dead"}

LifecycleTypeOK ==
  /\ state \in [Job -> State]
  /\ runner \in [Job -> Runner]

LifecycleInit ==
  /\ state = [j \in Job |-> "absent"]
  /\ runner = [j \in Job |-> "unborn"]

Finished(j) == state[j] \in {"succeeded", "failed", "canceled"}

\* A new job; finished jobs may be swept along with it.
Submit(j, expired) ==
  /\ state[j] = "absent"
  /\ \A k \in expired : Finished(k)
  /\ state' = [k \in Job |-> IF k = j THEN "queued"
                             ELSE IF k \in expired THEN "swept"
                             ELSE state[k]]
  /\ UNCHANGED runner

Launch(j) ==
  /\ state[j] \in {"queued", "canceled"}
  /\ runner[j] = "unborn"
  /\ runner' = [runner EXCEPT ![j] = "booting"]
  /\ UNCHANGED state

Begin(j) ==
  /\ runner[j] = "booting"
  /\ state[j] = "queued"
  /\ state' = [state EXCEPT ![j] = "running"]
  /\ runner' = [runner EXCEPT ![j] = "working"]

Revive(j) ==
  /\ runner[j] = "booting"
  /\ state[j] = "canceled"
  /\ state' = [state EXCEPT ![j] = "running"]
  /\ runner' = [runner EXCEPT ![j] = "working"]

\* The runner settles the job with its last step, unless it was canceled.
Settle(j, end) ==
  /\ runner[j] = "working"
  /\ \/ state[j] = "running" /\ state' = [state EXCEPT ![j] = end]
     \/ state[j] = "canceled" /\ UNCHANGED state
  /\ runner' = [runner EXCEPT ![j] = "dead"]

Cancel(j) ==
  /\ state[j] \in {"queued", "running"}
  /\ state' = [state EXCEPT ![j] = "canceled"]
  /\ UNCHANGED runner

\* Processes die: one killed or crashed, or all of them with the container.
Die(dying) ==
  /\ \A j \in dying : runner[j] # "unborn"
  /\ runner' = [j \in Job |-> IF j \in dying THEN "dead" ELSE runner[j]]
  /\ UNCHANGED state

Heal(j) ==
  /\ state[j] = "running"
  /\ runner[j] = "dead"
  /\ state' = [state EXCEPT ![j] = "failed"]
  /\ UNCHANGED runner

LifecycleNext ==
  \/ \E j \in Job :
       \/ \E expired \in SUBSET Job : Submit(j, expired)
       \/ Launch(j)
       \/ Begin(j)
       \/ Revive(j)
       \/ \E end \in {"succeeded", "failed"} : Settle(j, end)
       \/ Cancel(j)
       \/ Heal(j)
  \/ \E dying \in SUBSET Job : Die(dying)

LifecycleSpec == LifecycleInit /\ [][LifecycleNext]_lifecycleVars
=============================================================================
