-------------------------- MODULE AgentJobsProofs --------------------------
(***************************************************************************)
(* Theorems about AgentJobs, for every set of jobs and workers, every      *)
(* capacity and every number of worker deaths and container restarts.      *)
(***************************************************************************)
EXTENDS AgentJobs, TLAPS

\* The mutations of a status record yield status records.
LEMMA MutationsTyped ==
  ASSUME NEW s \in StatusRecord, NEW p \in Nat, NEW o, NEW b
  PROVE  /\ MarkRunning(s, p) \in StatusRecord
         /\ Finish(s, o) \in StatusRecord
         /\ MarkCanceled(s) \in StatusRecord
         /\ MarkDied(s, b) \in StatusRecord
         /\ Swept(s) \in StatusRecord
         /\ [s EXCEPT !.old = TRUE] \in StatusRecord
  BY DEF MarkRunning, Finish, MarkCanceled, MarkDied, Swept, Blank, NoPid,
         StatusRecord, States, StoredStates, FinishedStates, Results, Errors

\* Waiting for a process leaves a runner record.
LEMMA GoneTyped ==
  ASSUME NEW r \in RunnerRecord PROVE Gone(r) \in RunnerRecord
  BY DEF Gone, RunnerRecord

\* The type invariant, initially and step by step.
LEMMA InitTyped == Init => TypeOK
  BY JobsAssumption
  DEF Init, TypeOK, Blank, NoRunner, Idle, NoPid, StatusRecord, RunnerRecord,
      WorkerRecord, States, StoredStates, FinishedStates, Results, Errors,
      LivePCs

LEMMA NextTyped == TypeOK /\ [Next]_vars => TypeOK'
<1> SUFFICES ASSUME TypeOK, [Next]_vars PROVE TypeOK'
  OBVIOUS
<1> USE JobsAssumption DEF TypeOK
<1>1. CASE UNCHANGED vars
  BY <1>1 DEF vars
<1>2. ASSUME NEW w \in Worker, Admit(w) PROVE TypeOK'
  BY <1>2 DEF Admit, WorkerRecord
<1>3. ASSUME NEW w \in Worker, Create(w) PROVE TypeOK'
  <2>1. PICK j \in Job :
          /\ status' = [k \in Job |-> IF k = j THEN Queued ELSE Swept(status[k])]
          /\ wk' = [wk EXCEPT ![w] = [pc |-> "created", job |-> j, pid |-> NoPid]]
    BY <1>3 DEF Create
  <2>2. Queued \in StatusRecord
    BY DEF Queued, Blank, NoPid, StatusRecord, States, StoredStates,
           FinishedStates, Results, Errors
  <2>3. status' \in [Job -> StatusRecord]
    BY <2>1, <2>2, MutationsTyped
  <2>4. wk' \in [Worker -> WorkerRecord]
    BY <2>1 DEF WorkerRecord, NoPid
  <2> QED
    BY <1>3, <2>3, <2>4 DEF Create
<1>4. ASSUME NEW w \in Worker PROVE Reaped(w) \in [Job -> RunnerRecord]
  BY GoneTyped DEF Reaped
<1>5. ASSUME NEW w \in Worker, Spawn(w) PROVE TypeOK'
  <2>1. [NoRunner EXCEPT !.pc = "boot", !.pid = nextPid, !.parent = w]
          \in RunnerRecord
    BY DEF NoRunner, RunnerRecord, LivePCs
  <2>2. run' \in [Job -> RunnerRecord]
    BY <1>4, <1>5, <2>1 DEF Spawn
  <2>3. wk' \in [Worker -> WorkerRecord]
    BY <1>5 DEF Spawn, Idle, WorkerRecord, NoPid
  <2> QED
    BY <1>5, <2>2, <2>3 DEF Spawn, NoPid
<1>6. ASSUME NEW w \in Worker, SpawnFails(w) PROVE TypeOK'
  BY <1>4, <1>6 DEF SpawnFails, Idle, WorkerRecord, NoPid
<1>7. ASSUME NEW w \in Worker, NEW j \in Job, GetRead(w, j) PROVE TypeOK'
  BY <1>7 DEF GetRead, WorkerRecord, StatusRecord
<1>8. ASSUME NEW w \in Worker, GetHeal(w) PROVE TypeOK'
  <2> DEFINE j == wk[w].job
             healed == MarkDied(status[j], PidAlive(status[j].pid))
  <2>0. j \in Job => healed \in StatusRecord
    BY MutationsTyped, 0 \in Nat
  <2>1. status' \in [Job -> StatusRecord]
    <3>1. status' = status \/ status' = [status EXCEPT ![j] = healed]
      BY <1>8 DEF GetHeal
    <3> HIDE DEF healed
    <3> QED
      BY <2>0, <3>1
  <2> QED
    BY <1>8, <2>1 DEF GetHeal, Idle, WorkerRecord, NoPid
<1>9. ASSUME NEW w \in Worker, NEW j \in Job, CancelRead(w, j) PROVE TypeOK'
  BY <1>9 DEF CancelRead, WorkerRecord, StatusRecord
<1>10. ASSUME NEW w \in Worker, CancelKill(w) PROVE TypeOK'
  <2>1. run' \in [Job -> RunnerRecord]
    BY ZenonT(60), <1>10 DEF CancelKill, RunnerRecord
  <2>2. wk' \in [Worker -> WorkerRecord]
    BY <1>10 DEF CancelKill, WorkerRecord
  <2> QED
    BY <1>10, <2>1, <2>2 DEF CancelKill
<1>11. ASSUME NEW w \in Worker, CancelMark(w) PROVE TypeOK'
  <2>1. status' \in [Job -> StatusRecord]
    BY <1>11, MutationsTyped DEF CancelMark, NoPid
  <2> QED
    BY <1>11, <2>1 DEF CancelMark, Idle, WorkerRecord, NoPid
<1>12. ASSUME NEW j \in Job, RunnerStart(j) PROVE TypeOK'
  <2>1. status' \in [Job -> StatusRecord]
    BY <1>12, MutationsTyped DEF RunnerStart, RunnerRecord
  <2>2. run' \in [Job -> RunnerRecord]
    BY ZenonT(60), <1>12 DEF RunnerStart, RunnerRecord, LivePCs
  <2> QED
    BY <1>12, <2>1, <2>2 DEF RunnerStart
<1>13. ASSUME NEW j \in Job,
              NEW o \in {"reply", "error"}, NEW a \in {run[j].alarm, "fired"},
              Settle(j, o, a)
       PROVE  TypeOK'
  <2>1. a \in {"off", "armed", "fired"}
    BY DEF RunnerRecord
  <2>2. run' \in [Job -> RunnerRecord]
    BY ZenonT(60), <1>13, <2>1 DEF Settle, RunnerRecord, LivePCs
  <2> QED
    BY <1>13, <2>2 DEF Settle
<1>14. ASSUME NEW j \in Job, AlarmInTool(j) PROVE TypeOK'
  BY <1>14 DEF AlarmInTool, RunnerRecord
<1>15. ASSUME NEW j \in Job, RunnerFinish(j) PROVE TypeOK'
  <2>1. status' \in [Job -> StatusRecord]
    BY <1>15, MutationsTyped DEF RunnerFinish, NoPid
  <2> QED
    BY <1>15, <2>1 DEF RunnerFinish, RunnerRecord
<1>16. ASSUME NEW j \in Job, RunnerDies(j) PROVE TypeOK'
  BY <1>16 DEF RunnerDies, RunnerRecord
<1>17. ASSUME NEW w \in Worker, ChatPopen(w) PROVE TypeOK'
  BY <1>4, <1>17 DEF ChatPopen
<1>18. ASSUME NEW w \in Worker, WorkerDies(w) PROVE TypeOK'
  <2>1. run' \in [Job -> RunnerRecord]
    BY <1>18 DEF WorkerDies, RunnerRecord
  <2>2. wk' \in [Worker -> WorkerRecord]
    BY <1>18 DEF WorkerDies, Idle, WorkerRecord, NoPid
  <2> QED
    BY <1>18, <2>1, <2>2 DEF WorkerDies
<1>19. ASSUME NEW j \in Job, InitReaps(j) PROVE TypeOK'
  BY <1>19, GoneTyped DEF InitReaps
<1>20. CASE ContainerRestart
  <2>1. run' \in [Job -> RunnerRecord]
    BY <1>20, GoneTyped DEF ContainerRestart
  <2>2. wk' \in [Worker -> WorkerRecord]
    BY <1>20 DEF ContainerRestart, Idle, WorkerRecord, NoPid
  <2> QED
    BY <1>20, <2>1, <2>2 DEF ContainerRestart, NoPid
<1>21. ASSUME NEW j \in Job, Ages(j) PROVE TypeOK'
  <2>1. [status[j] EXCEPT !.old = TRUE] \in StatusRecord
    BY MutationsTyped, 0 \in Nat
  <2>2. status' = [status EXCEPT ![j] = [status[j] EXCEPT !.old = TRUE]]
    BY <1>21 DEF Ages
  <2>3. status' \in [Job -> StatusRecord]
    BY <2>1, <2>2
  <2> QED
    BY <1>21, <2>3 DEF Ages
<1> QED
  BY <1>1, <1>2, <1>3, <1>5, <1>6, <1>7, <1>8, <1>9, <1>10, <1>11, <1>12,
     <1>13, <1>14, <1>15, <1>16, <1>17, <1>18, <1>19, <1>20, <1>21
  DEF Next, PipelineYields, PipelineRaises, AlarmInRunner, AlarmInPipeline

\* Type correctness of the jobs machinery.
THEOREM TypeCorrect == Spec => []TypeOK
<1>1. Init => TypeOK
  BY InitTyped
<1>2. TypeOK /\ [Next]_vars => TypeOK'
  BY NextTyped
<1> QED
  BY <1>1, <1>2, PTL DEF Spec

-----------------------------------------------------------------------------
(* The inductive invariant.  Each action changes the record or the runner  *)
(* of the jobs it touches; Coherent is shown for every job, then Spawning. *)

LEMMA InitCoherent == Init => CoherenceInv
  BY DEF Init, CoherenceInv, Coherent, Spawning, Blank, NoRunner, Idle

LEMMA NextCoherent == TypeOK /\ CoherenceInv /\ [Next]_vars => CoherenceInv'
<1> SUFFICES ASSUME TypeOK, CoherenceInv, [Next]_vars PROVE CoherenceInv'
  OBVIOUS
<1> USE JobsAssumption
<1>1. CASE UNCHANGED vars
  BY <1>1 DEF vars, CoherenceInv, Spawning
<1>2. ASSUME NEW w \in Worker, Admit(w) PROVE CoherenceInv'
  BY <1>2 DEF Admit, TypeOK, CoherenceInv, Spawning
<1>3. ASSUME NEW w \in Worker, Create(w) PROVE CoherenceInv'
  <2>1. PICK j \in Job :
          /\ status[j].state = "absent"
          /\ status' = [k \in Job |-> IF k = j THEN Queued ELSE Swept(status[k])]
          /\ wk' = [wk EXCEPT ![w] = [pc |-> "created", job |-> j, pid |-> NoPid]]
    BY <1>3 DEF Create
  <2>2. run' = run
    BY <1>3 DEF Create
  <2>3. ASSUME NEW k \in Job PROVE Coherent(status'[k], run'[k])
    <3>1. CASE k = j
      BY <2>1, <2>2, <3>1 DEF CoherenceInv, Coherent, Queued, Blank
    <3>2. CASE k # j
      BY <2>1, <2>2, <3>2
      DEF CoherenceInv, Coherent, Swept, Blank, FinishedStates, LivePCs
    <3> QED
      BY <3>1, <3>2
  <2>4. ASSUME NEW v \in Worker PROVE Spawning(v)'
    <3>1. CASE v = w
      BY <2>1, <2>2, <3>1
      DEF TypeOK, CoherenceInv, Coherent, Spawning, Queued, Blank
    <3>2. CASE v # w
      BY <2>1, <2>2, <3>2
      DEF TypeOK, CoherenceInv, Spawning, Swept, FinishedStates
    <3> QED
      BY <3>1, <3>2
  <2>5. ASSUME NEW v \in Worker, wk'[v].pc \in {"heal", "kill", "mark"}
        PROVE  wk'[v].job \in Job
    BY <2>1, <2>5 DEF TypeOK, CoherenceInv
  <2> QED
    BY <2>3, <2>4, <2>5 DEF CoherenceInv
<1>4. ASSUME NEW w \in Worker, NEW j \in Job
      PROVE  /\ Reaped(w)[j] = run[j] \/ Reaped(w)[j] = Gone(run[j])
             /\ run[j].pc # "zombie" => Reaped(w)[j] = run[j]
             /\ Coherent(status[j], Reaped(w)[j])
  BY DEF TypeOK, CoherenceInv, Coherent, Reaped, Gone, RunnerRecord, LivePCs
<1>5. ASSUME NEW w \in Worker, Spawn(w) PROVE CoherenceInv'
  <2> DEFINE j == wk[w].job
             child == [NoRunner EXCEPT !.pc = "boot", !.pid = nextPid, !.parent = w]
  <2>1. /\ j \in Job
        /\ run[j].pc = "none"
        /\ status[j].state \in {"queued", "canceled"}
        /\ status[j].state = "canceled" => ~status[j].old
    BY <1>5 DEF Spawn, CoherenceInv, Spawning
  <2>2. /\ status' = status
        /\ wk' = [wk EXCEPT ![w] = Idle]
        /\ run' = [Reaped(w) EXCEPT ![j] = child]
    BY <1>5 DEF Spawn
  <2>3. run' = [k \in Job |-> IF k = j THEN child ELSE Reaped(w)[k]]
    BY <2>2 DEF Reaped
  <2>4. Coherent(status[j], child)
    BY <2>1 DEF TypeOK, CoherenceInv, Coherent, NoRunner, StatusRecord
  <2>5. ASSUME NEW k \in Job PROVE Coherent(status'[k], run'[k])
    BY <1>4, <2>2, <2>3, <2>4
  <2>6. ASSUME NEW v \in Worker PROVE Spawning(v)'
    BY <1>4, <1>5, <2>2, <2>3 DEF Spawn, TypeOK, CoherenceInv, Spawning, Idle
  <2>7. ASSUME NEW v \in Worker, wk'[v].pc \in {"heal", "kill", "mark"}
        PROVE  wk'[v].job \in Job
    BY <2>2, <2>7 DEF TypeOK, CoherenceInv, Idle
  <2> QED
    BY <2>5, <2>6, <2>7 DEF CoherenceInv
<1>6. ASSUME NEW w \in Worker, SpawnFails(w) PROVE CoherenceInv'
  <2>1. /\ status' = status
        /\ wk' = [wk EXCEPT ![w] = Idle]
        /\ run' = run \/ run' = Reaped(w)
    BY <1>6 DEF SpawnFails
  <2>2. ASSUME NEW k \in Job PROVE Coherent(status'[k], run'[k])
    BY <1>4, <2>1 DEF CoherenceInv
  <2>3. ASSUME NEW v \in Worker PROVE Spawning(v)'
    BY <1>4, <2>1 DEF TypeOK, CoherenceInv, Spawning, Idle
  <2>4. ASSUME NEW v \in Worker, wk'[v].pc \in {"heal", "kill", "mark"}
        PROVE  wk'[v].job \in Job
    BY <2>1, <2>4 DEF TypeOK, CoherenceInv, Idle
  <2> QED
    BY <2>2, <2>3, <2>4 DEF CoherenceInv
<1>7. ASSUME NEW w \in Worker, NEW j \in Job, GetRead(w, j) PROVE CoherenceInv'
  BY <1>7 DEF GetRead, TypeOK, CoherenceInv, Spawning
<1>8. ASSUME NEW w \in Worker, GetHeal(w) PROVE CoherenceInv'
  <2> DEFINE j == wk[w].job
             healed == MarkDied(status[j], PidAlive(status[j].pid))
  <2>1. j \in Job
    BY <1>8 DEF GetHeal, CoherenceInv
  <2>2. /\ run' = run
        /\ wk' = [wk EXCEPT ![w] = Idle]
        /\ status' = status \/ status' = [status EXCEPT ![j] = healed]
    BY <1>8 DEF GetHeal
  <2>3. Coherent(status[j], run[j])
    BY <2>1 DEF CoherenceInv
  <2>4. Coherent(healed, run[j])
    <3>1. CASE status[j].state = "running" /\ ~PidAlive(status[j].pid)
      <4>1. run[j].pc = "gone"
        BY <2>1, <2>3, <3>1 DEF TypeOK, Coherent, PidAlive, RunnerRecord, LivePCs
      <4> QED
        BY <2>1, <2>3, <3>1, <4>1
        DEF TypeOK, Coherent, MarkDied, StatusRecord, LivePCs
    <3>2. CASE ~(status[j].state = "running" /\ ~PidAlive(status[j].pid))
      BY <2>3, <3>2 DEF MarkDied
    <3> QED
      BY <3>1, <3>2
  <2>5. healed = status[j] \/ status[j].state = "running"
    BY DEF MarkDied
  <2> HIDE DEF healed
  <2>6. ASSUME NEW k \in Job PROVE Coherent(status'[k], run'[k])
    BY <2>1, <2>2, <2>4 DEF TypeOK, CoherenceInv
  <2>7. ASSUME NEW v \in Worker PROVE Spawning(v)'
    BY <1>8, <2>1, <2>2, <2>5 DEF GetHeal, TypeOK, CoherenceInv, Spawning, Idle
  <2>8. ASSUME NEW v \in Worker, wk'[v].pc \in {"heal", "kill", "mark"}
        PROVE  wk'[v].job \in Job
    BY <2>2, <2>8 DEF TypeOK, CoherenceInv, Idle
  <2> QED
    BY <2>6, <2>7, <2>8 DEF CoherenceInv
<1>9. ASSUME NEW w \in Worker, NEW j \in Job, CancelRead(w, j)
      PROVE  CoherenceInv'
  BY <1>9 DEF CancelRead, TypeOK, CoherenceInv, Spawning
<1>10. ASSUME NEW w \in Worker, CancelKill(w) PROVE CoherenceInv'
  <2>1. /\ status' = status
        /\ wk' = [wk EXCEPT ![w].pc = "mark"]
    BY <1>10 DEF CancelKill
  <2>2. ASSUME NEW k \in Job
        PROVE  \/ run'[k] = run[k]
               \/ /\ Live(k)
                  /\ run'[k] = [run[k] EXCEPT !.pc = "zombie",
                                              !.outcome = "killed"]
    BY <1>10 DEF CancelKill, Victims
  <2>3. ASSUME NEW k \in Job PROVE Coherent(status'[k], run'[k])
    <3> DEFINE killed == [run[k] EXCEPT !.pc = "zombie", !.outcome = "killed"]
    <3>1. CASE run'[k] = run[k]
      BY <2>1, <3>1 DEF CoherenceInv
    <3>2. CASE Live(k) /\ run'[k] = killed
      <4>1. /\ killed.pc = "zombie"
            /\ killed.pid = run[k].pid
            /\ killed.outcome = "killed"
        BY DEF TypeOK, RunnerRecord
      <4>2. Coherent(status[k], killed)
        BY <3>2, <4>1
        DEF TypeOK, CoherenceInv, Coherent, Live, LivePCs, StatusRecord, Errors
      <4> QED
        BY <2>1, <3>2, <4>2
    <3> QED
      BY <2>2, <3>1, <3>2
  <2>4. ASSUME NEW v \in Worker
        PROVE  /\ wk'[v].job = wk[v].job
               /\ wk'[v].pc = IF v = w THEN "mark" ELSE wk[v].pc
    BY <2>1 DEF TypeOK, WorkerRecord
  <2>5. ASSUME NEW k \in Job, run[k].pc = "none" PROVE run'[k] = run[k]
    BY <2>2, <2>5 DEF Live, LivePCs
  <2>6. ASSUME NEW v \in Worker PROVE Spawning(v)'
    BY <2>1, <2>4, <2>5 DEF CoherenceInv, Spawning
  <2>7. ASSUME NEW v \in Worker, wk'[v].pc \in {"heal", "kill", "mark"}
        PROVE  wk'[v].job \in Job
    BY <1>10, <2>4, <2>7 DEF CancelKill, CoherenceInv
  <2> QED
    BY <2>3, <2>6, <2>7 DEF CoherenceInv
<1>11. ASSUME NEW w \in Worker, CancelMark(w) PROVE CoherenceInv'
  <2> DEFINE j == wk[w].job
  <2>1. j \in Job
    BY <1>11 DEF CancelMark, CoherenceInv
  <2>2. /\ run' = run
        /\ wk' = [wk EXCEPT ![w] = Idle]
        /\ status' = [status EXCEPT ![j] = MarkCanceled(status[j])]
    BY <1>11 DEF CancelMark
  <2>3. Coherent(MarkCanceled(status[j]), run[j])
    BY <2>1 DEF TypeOK, CoherenceInv, Coherent, MarkCanceled, StatusRecord
  <2>4. \/ MarkCanceled(status[j]) = status[j]
        \/ /\ MarkCanceled(status[j]).state = "canceled"
           /\ ~MarkCanceled(status[j]).old
    BY <2>1 DEF MarkCanceled, TypeOK, StatusRecord
  <2>5. ASSUME NEW k \in Job PROVE Coherent(status'[k], run'[k])
    BY <2>1, <2>2, <2>3 DEF TypeOK, CoherenceInv
  <2>6. ASSUME NEW v \in Worker PROVE Spawning(v)'
    BY <2>1, <2>2, <2>4 DEF TypeOK, CoherenceInv, Spawning, Idle
  <2>7. ASSUME NEW v \in Worker, wk'[v].pc \in {"heal", "kill", "mark"}
        PROVE  wk'[v].job \in Job
    BY <2>2, <2>7 DEF TypeOK, CoherenceInv, Idle
  <2> QED
    BY <2>5, <2>6, <2>7 DEF CoherenceInv
<1>12. ASSUME NEW j \in Job, RunnerStart(j) PROVE CoherenceInv'
  <2> DEFINE started == MarkRunning(status[j], run[j].pid)
             working == [run[j] EXCEPT !.pc = "pipeline", !.alarm = "armed"]
  <2>1. /\ status' = [status EXCEPT ![j] = started]
        /\ run' = [run EXCEPT ![j] = working]
        /\ wk' = wk
        /\ run[j].pc = "boot"
    BY <1>12 DEF RunnerStart
  <2>2. status[j].state \in {"queued", "canceled"}
    BY <2>1 DEF TypeOK, CoherenceInv, Coherent, StatusRecord, States,
                StoredStates, FinishedStates, LivePCs
  <2>3. Coherent(started, working)
    BY <2>1, <2>2 DEF TypeOK, CoherenceInv, Coherent, MarkRunning, StatusRecord,
                      RunnerRecord, StoredStates, FinishedStates, LivePCs
  <2> HIDE DEF started, working
  <2>4. ASSUME NEW k \in Job PROVE Coherent(status'[k], run'[k])
    BY <2>1, <2>3 DEF TypeOK, CoherenceInv
  <2>5. ASSUME NEW v \in Worker PROVE Spawning(v)'
    BY <2>1 DEF TypeOK, CoherenceInv, Spawning
  <2> QED
    BY <2>1, <2>4, <2>5 DEF CoherenceInv
<1>13. ASSUME NEW j \in Job, NEW o \in {"reply", "error"}, NEW a, Settle(j, o, a)
       PROVE  CoherenceInv'
  <2> DEFINE settled == [run[j] EXCEPT !.pc = "finish", !.outcome = o, !.alarm = a]
  <2>1. /\ status' = status
        /\ run' = [run EXCEPT ![j] = settled]
        /\ wk' = wk
        /\ run[j].pc = "pipeline"
    BY <1>13 DEF Settle
  <2>2. Coherent(status[j], settled)
    BY <2>1 DEF TypeOK, CoherenceInv, Coherent, StatusRecord, Errors, RunnerRecord,
                LivePCs
  <2> HIDE DEF settled
  <2>3. ASSUME NEW k \in Job PROVE Coherent(status'[k], run'[k])
    BY <2>1, <2>2 DEF TypeOK, CoherenceInv
  <2>4. ASSUME NEW v \in Worker PROVE Spawning(v)'
    BY <2>1 DEF TypeOK, CoherenceInv, Spawning
  <2> QED
    BY <2>1, <2>3, <2>4 DEF CoherenceInv
<1>14. ASSUME NEW j \in Job, AlarmInTool(j) PROVE CoherenceInv'
  <2> DEFINE blunted == [run[j] EXCEPT !.alarm = "fired"]
  <2>1. /\ status' = status
        /\ run' = [run EXCEPT ![j] = blunted]
        /\ wk' = wk
        /\ run[j].pc = "pipeline"
    BY <1>14 DEF AlarmInTool
  <2>2. Coherent(status[j], blunted)
    BY DEF TypeOK, CoherenceInv, Coherent, RunnerRecord
  <2> HIDE DEF blunted
  <2>3. ASSUME NEW k \in Job PROVE Coherent(status'[k], run'[k])
    BY <2>1, <2>2 DEF TypeOK, CoherenceInv
  <2>4. ASSUME NEW v \in Worker PROVE Spawning(v)'
    BY <2>1 DEF TypeOK, CoherenceInv, Spawning
  <2> QED
    BY <2>1, <2>3, <2>4 DEF CoherenceInv
<1>15. ASSUME NEW j \in Job, RunnerFinish(j) PROVE CoherenceInv'
  <2> DEFINE ended == Finish(status[j], run[j].outcome)
             exited == [run[j] EXCEPT !.pc = "zombie"]
  <2>1. /\ status' = [status EXCEPT ![j] = ended]
        /\ run' = [run EXCEPT ![j] = exited]
        /\ wk' = wk
        /\ run[j].pc = "finish"
    BY <1>15 DEF RunnerFinish
  <2>2. Coherent(ended, exited)
    <3>1. /\ exited.pc = "zombie"
          /\ exited.pid = run[j].pid
          /\ exited.outcome = run[j].outcome
      BY DEF TypeOK, RunnerRecord
    <3>2. Coherent(status[j], run[j])
      BY DEF CoherenceInv
    <3>3. CASE status[j].state \notin {"queued", "running"}
      BY <2>1, <3>1, <3>2, <3>3 DEF Coherent, Finish, LivePCs
    <3>4. CASE status[j].state \in {"queued", "running"} /\ run[j].outcome = "error"
      BY <2>1, <3>1, <3>2, <3>4 DEF TypeOK, Coherent, Finish, StatusRecord, LivePCs
    <3>5. CASE status[j].state \in {"queued", "running"} /\ run[j].outcome # "error"
      BY <2>1, <3>1, <3>2, <3>5
      DEF TypeOK, CoherenceInv, Coherent, Finish, StatusRecord, LivePCs
    <3> QED
      BY <3>3, <3>4, <3>5
  <2> HIDE DEF ended, exited
  <2>3. ASSUME NEW k \in Job PROVE Coherent(status'[k], run'[k])
    BY <2>1, <2>2 DEF TypeOK, CoherenceInv
  <2>4. ASSUME NEW v \in Worker PROVE Spawning(v)'
    BY <2>1 DEF TypeOK, CoherenceInv, Spawning
  <2> QED
    BY <2>1, <2>3, <2>4 DEF CoherenceInv
<1>16. ASSUME NEW j \in Job, RunnerDies(j) PROVE CoherenceInv'
  <2> DEFINE exited == [run[j] EXCEPT !.pc = "zombie"]
  <2>1. /\ status' = status
        /\ run' = [run EXCEPT ![j] = exited]
        /\ wk' = wk
        /\ run[j].pc \in LivePCs
    BY <1>16 DEF RunnerDies, Live
  <2>2. Coherent(status[j], exited)
    BY <2>1 DEF TypeOK, CoherenceInv, Coherent, RunnerRecord, LivePCs
  <2> HIDE DEF exited
  <2>3. ASSUME NEW k \in Job PROVE Coherent(status'[k], run'[k])
    BY <2>1, <2>2 DEF TypeOK, CoherenceInv
  <2>4. ASSUME NEW v \in Worker PROVE Spawning(v)'
    BY <2>1 DEF TypeOK, CoherenceInv, Spawning, LivePCs
  <2> QED
    BY <2>1, <2>3, <2>4 DEF CoherenceInv
<1>17. ASSUME NEW w \in Worker, ChatPopen(w) PROVE CoherenceInv'
  BY <1>4, <1>17 DEF ChatPopen, TypeOK, CoherenceInv, Spawning
<1>18. ASSUME NEW w \in Worker, WorkerDies(w) PROVE CoherenceInv'
  <2>1. /\ status' = status
        /\ wk' = [wk EXCEPT ![w] = Idle]
    BY <1>18 DEF WorkerDies
  <2>2. ASSUME NEW k \in Job
        PROVE  run'[k] = run[k] \/ run'[k] = [run[k] EXCEPT !.parent = Init1]
    BY <1>18 DEF WorkerDies
  <2>3. ASSUME NEW k \in Job PROVE Coherent(status'[k], run'[k])
    BY <2>1, <2>2 DEF TypeOK, CoherenceInv, Coherent, RunnerRecord
  <2>4. ASSUME NEW v \in Worker PROVE Spawning(v)'
    <3>1. ASSUME NEW k \in Job PROVE run'[k].pc = run[k].pc
      BY ZenonT(60), <2>2 DEF TypeOK, RunnerRecord
    <3> QED
      BY <2>1, <3>1 DEF TypeOK, CoherenceInv, Spawning, Idle
  <2>5. ASSUME NEW v \in Worker, wk'[v].pc \in {"heal", "kill", "mark"}
        PROVE  wk'[v].job \in Job
    BY <2>1, <2>5 DEF TypeOK, CoherenceInv, Idle
  <2> QED
    BY <2>3, <2>4, <2>5 DEF CoherenceInv
<1>19. ASSUME NEW j \in Job, InitReaps(j) PROVE CoherenceInv'
  <2>1. /\ status' = status
        /\ run' = [run EXCEPT ![j] = Gone(run[j])]
        /\ wk' = wk
        /\ run[j].pc = "zombie"
    BY <1>19 DEF InitReaps
  <2>2. Coherent(status[j], Gone(run[j]))
    BY <2>1 DEF TypeOK, CoherenceInv, Coherent, Gone, RunnerRecord, LivePCs
  <2>3. ASSUME NEW k \in Job PROVE Coherent(status'[k], run'[k])
    BY <2>1, <2>2 DEF TypeOK, CoherenceInv
  <2>4. ASSUME NEW v \in Worker PROVE Spawning(v)'
    BY <2>1 DEF TypeOK, CoherenceInv, Spawning
  <2> QED
    BY <2>1, <2>3, <2>4 DEF CoherenceInv
<1>20. CASE ContainerRestart
  <2>1. /\ status' = status
        /\ wk' = [w \in Worker |-> Idle]
    BY <1>20 DEF ContainerRestart
  <2>2. ASSUME NEW k \in Job
        PROVE  \/ run'[k] = run[k] /\ run[k].pc = "none"
               \/ run'[k] = Gone(run[k]) /\ run[k].pc # "none"
    BY <1>20 DEF ContainerRestart
  <2>3. ASSUME NEW k \in Job PROVE Coherent(status'[k], run'[k])
    <3>1. /\ Gone(run[k]).pc = "gone"
          /\ Gone(run[k]).pid = run[k].pid
          /\ Gone(run[k]).outcome = run[k].outcome
      BY DEF TypeOK, Gone, RunnerRecord
    <3>2. Coherent(status[k], run[k])
      BY DEF CoherenceInv
    <3>3. CASE run'[k] = run[k]
      BY <2>1, <3>2, <3>3
    <3>4. CASE run'[k] = Gone(run[k]) /\ run[k].pc # "none"
      <4>1. Coherent(status[k], Gone(run[k]))
        BY <3>1, <3>2, <3>4 DEF Coherent, LivePCs
      <4> QED
        BY <2>1, <3>4, <4>1
    <3> QED
      BY <2>2, <3>3, <3>4
  <2>4. ASSUME NEW v \in Worker PROVE wk'[v].pc = "idle"
    BY <2>1 DEF Idle
  <2> QED
    BY <2>3, <2>4 DEF CoherenceInv, Spawning
<1>21. ASSUME NEW j \in Job, Ages(j) PROVE CoherenceInv'
  <2> DEFINE aged == [status[j] EXCEPT !.old = TRUE]
  <2>1. /\ status' = [status EXCEPT ![j] = aged]
        /\ run' = run
        /\ wk' = wk
        /\ status[j].state = "queued" \/ /\ ~Live(j)
                                         /\ \A w \in Worker : wk[w].job # j
    BY <1>21 DEF Ages
  <2>2. Coherent(aged, run[j])
    BY <2>1 DEF TypeOK, CoherenceInv, Coherent, StatusRecord, Live
  <2>3. aged.state = status[j].state
    BY DEF TypeOK, StatusRecord
  <2> HIDE DEF aged
  <2>4. ASSUME NEW k \in Job PROVE Coherent(status'[k], run'[k])
    BY <2>1, <2>2 DEF TypeOK, CoherenceInv
  <2>5. ASSUME NEW v \in Worker PROVE Spawning(v)'
    BY <2>1, <2>3 DEF TypeOK, CoherenceInv, Spawning
  <2> QED
    BY <2>1, <2>4, <2>5 DEF CoherenceInv
<1> QED
  BY <1>1, <1>2, <1>3, <1>5, <1>6, <1>7, <1>8, <1>9, <1>10, <1>11, <1>12,
     <1>13, <1>14, <1>15, <1>16, <1>17, <1>18, <1>19, <1>20, <1>21
  DEF Next, PipelineYields, PipelineRaises, AlarmInRunner, AlarmInPipeline

\* Records and runners stay coherent in every reachable state.
THEOREM Coherence == Spec => [](TypeOK /\ CoherenceInv)
<1>1. Init => TypeOK /\ CoherenceInv
  BY InitTyped, InitCoherent
<1>2. TypeOK /\ CoherenceInv /\ [Next]_vars => (TypeOK /\ CoherenceInv)'
  BY NextTyped, NextCoherent
<1> QED
  BY <1>1, <1>2, PTL DEF Spec

\* A poll, a cancel or a finish can never make the stored record contradict
\* a runner that is at work.
THEOREM LiveRunsAreReported == Spec => []LiveRunIsReported
<1>1. TypeOK /\ CoherenceInv => LiveRunIsReported
  BY DEF TypeOK, CoherenceInv, Coherent, LiveRunIsReported, StatusRecord, States,
         StoredStates, FinishedStates, LivePCs
<1> QED
  BY <1>1, Coherence, PTL

\* The end a client reads is the end its runner came to.
THEOREM EndsAreTrue == Spec => []EndIsTheRunnersEnd
<1>1. TypeOK /\ CoherenceInv => EndIsTheRunnersEnd
  BY DEF TypeOK, CoherenceInv, Coherent, EndIsTheRunnersEnd, Live, StatusRecord,
         Results, LivePCs
<1> QED
  BY <1>1, Coherence, PTL

\* Finished is final, but for the first write of a runner whose job was
\* canceled before it started.
THEOREM Finality == Spec => FinishedIsFinal
<1> DEFINE Final(j) ==
      \/ status'[j] = status[j]
      \/ status'[j] = [status[j] EXCEPT !.old = TRUE]
      \/ status[j].old /\ status'[j].state = "swept"
      \/ status[j].state = "canceled" /\ RunnerStart(j)
<1>1. ASSUME TypeOK, CoherenceInv, [Next]_vars, NEW j \in Job,
             status[j].state \in FinishedStates
      PROVE  Final(j)
  <2> USE DEF FinishedStates
  <2>1. CASE UNCHANGED status
    BY <2>1
  <2>2. ASSUME NEW w \in Worker, Create(w) PROVE Final(j)
    BY <1>1, <2>2 DEF Create, Swept, Blank
  <2>3. ASSUME NEW w \in Worker, GetHeal(w) PROVE Final(j)
    BY <1>1, <2>3 DEF GetHeal, TypeOK, MarkDied
  <2>4. ASSUME NEW w \in Worker, CancelMark(w) PROVE Final(j)
    BY <1>1, <2>4 DEF CancelMark, TypeOK, MarkCanceled
  <2>5. ASSUME NEW k \in Job, RunnerStart(k) PROVE Final(j)
    <3>1. CASE k = j
      BY <1>1, <2>5, <3>1 DEF RunnerStart, CoherenceInv, Coherent
    <3>2. CASE k # j
      BY <1>1, <2>5, <3>2 DEF RunnerStart, TypeOK
    <3> QED
      BY <3>1, <3>2
  <2>6. ASSUME NEW k \in Job, RunnerFinish(k) PROVE Final(j)
    BY <1>1, <2>6 DEF RunnerFinish, TypeOK, Finish
  <2>7. ASSUME NEW k \in Job, Ages(k) PROVE Final(j)
    BY <1>1, <2>7 DEF Ages, TypeOK
  <2> HIDE DEF Final
  <2> QED
    BY <1>1, <2>1, <2>2, <2>3, <2>4, <2>5, <2>6, <2>7
    DEF Next, vars, Admit, Spawn, SpawnFails, GetRead, CancelRead, CancelKill,
        PipelineYields, PipelineRaises, AlarmInRunner, AlarmInPipeline,
        AlarmInTool, Settle, RunnerDies, ChatPopen, WorkerDies, InitReaps,
        ContainerRestart
<1>2. TypeOK /\ CoherenceInv /\ [Next]_vars =>
        [\A j \in Job : status[j].state \in FinishedStates => Final(j)]_vars
  BY <1>1
<1> QED
  BY <1>2, Coherence, PTL DEF Spec, FinishedIsFinal

-----------------------------------------------------------------------------
(* The refinement: every step of AgentJobs is one of JobLifecycle's, or    *)
(* leaves the client's view of the jobs as it was.                         *)

\* Two states look alike if no record's state and no runner's pc changed.
LEMMA SameView ==
  ASSUME \A j \in Job : status'[j].state = status[j].state,
         \A j \in Job : RunnerView(run'[j]) = RunnerView(run[j])
  PROVE  UNCHANGED Lifecycle!lifecycleVars
  BY DEF Lifecycle!lifecycleVars, ViewOfState, ViewOfRunner

\* Reaping is invisible, and so is the rest of what happens to the dead.
LEMMA ReapingInvisible ==
  ASSUME TypeOK
  PROVE  /\ \A r \in RunnerRecord :
              r.pc # "none" => RunnerView(Gone(r)) = "dead"
         /\ \A w \in Worker, j \in Job :
              RunnerView(Reaped(w)[j]) = RunnerView(run[j])
<1>1. ASSUME NEW r \in RunnerRecord, r.pc # "none"
      PROVE  RunnerView(Gone(r)) = "dead"
  BY DEF Gone, RunnerView, RunnerRecord
<1>2. ASSUME NEW w \in Worker, NEW j \in Job
      PROVE  RunnerView(Reaped(w)[j]) = RunnerView(run[j])
  <2>1. CASE Reaped(w)[j] = run[j]
    BY <2>1
  <2>2. CASE run[j].pc = "zombie" /\ Reaped(w)[j] = Gone(run[j])
    <3>1. run[j] \in RunnerRecord
      BY DEF TypeOK
    <3>2. RunnerView(run[j]) = "dead"
      BY <2>2 DEF RunnerView
    <3> QED
      BY <1>1, <2>2, <3>1, <3>2
  <2> QED
    BY <2>1, <2>2 DEF Reaped
<1> QED
  BY <1>1, <1>2

\* A step in which some runners die, and nothing else shows.
LEMMA DyingRefines ==
  ASSUME TypeOK, UNCHANGED status,
         \A j \in Job : \/ RunnerView(run'[j]) = RunnerView(run[j])
                        \/ run[j].pc # "none" /\ RunnerView(run'[j]) = "dead"
  PROVE  Lifecycle!LifecycleNext
<1> DEFINE dying == {j \in Job : RunnerView(run'[j]) # RunnerView(run[j])}
<1>1. \A j \in dying : ViewOfRunner[j] # "unborn"
  BY DEF ViewOfRunner, RunnerView, TypeOK, RunnerRecord, LivePCs
<1>2. ViewOfRunner' = [j \in Job |-> IF j \in dying THEN "dead" ELSE ViewOfRunner[j]]
  BY DEF ViewOfRunner
<1>3. ViewOfState' = ViewOfState
  BY DEF ViewOfState
<1>4. Lifecycle!Die(dying)
  BY <1>1, <1>2, <1>3 DEF Lifecycle!Die
<1> QED
  BY <1>4 DEF Lifecycle!LifecycleNext

LEMMA InitRefines == Init => Lifecycle!LifecycleInit
  BY DEF Init, Lifecycle!LifecycleInit, ViewOfState, ViewOfRunner, RunnerView,
         Blank, NoRunner

LEMMA StepRefines ==
  TypeOK /\ CoherenceInv /\ [Next]_vars
    => [Lifecycle!LifecycleNext]_(Lifecycle!lifecycleVars)
<1> SUFFICES ASSUME TypeOK, CoherenceInv, [Next]_vars
             PROVE  \/ Lifecycle!LifecycleNext
                    \/ UNCHANGED Lifecycle!lifecycleVars
  OBVIOUS
<1> DEFINE Refined == \/ Lifecycle!LifecycleNext
                      \/ UNCHANGED Lifecycle!lifecycleVars
<1>1. ASSUME UNCHANGED <<status, run>> PROVE Refined
  BY <1>1, SameView
<1>2. ASSUME NEW w \in Worker, Create(w) PROVE Refined
  <2>1. PICK j \in Job :
          /\ status[j].state = "absent"
          /\ status' = [k \in Job |-> IF k = j THEN Queued ELSE Swept(status[k])]
    BY <1>2 DEF Create
  <2> DEFINE expired == {k \in Job : status[k].state \in FinishedStates
                                       /\ status[k].old}
  <2>2. \A k \in expired : Lifecycle!Finished(k)
    BY DEF Lifecycle!Finished, ViewOfState, FinishedStates
  <2>3. \A k \in Job : status'[k].state =
          IF k = j THEN "queued" ELSE IF k \in expired THEN "swept"
                                 ELSE status[k].state
    BY <2>1 DEF Queued, Swept, Blank
  <2>4. ViewOfRunner' = ViewOfRunner /\ ViewOfState[j] = "absent"
    BY <1>2, <2>1 DEF Create, ViewOfRunner, ViewOfState
  <2>5. ViewOfState' = [k \in Job |-> IF k = j THEN "queued"
                                      ELSE IF k \in expired THEN "swept"
                                      ELSE ViewOfState[k]]
    BY <2>3 DEF ViewOfState
  <2>6. Lifecycle!Submit(j, expired)
    BY <2>2, <2>4, <2>5 DEF Lifecycle!Submit
  <2>7. expired \in SUBSET Job
    OBVIOUS
  <2> QED
    BY <2>6, <2>7 DEF Lifecycle!LifecycleNext
<1>3. ASSUME NEW w \in Worker, Spawn(w) PROVE Refined
  <2> DEFINE j == wk[w].job
  <2>1. /\ j \in Job
        /\ run[j].pc = "none"
        /\ status[j].state \in {"queued", "canceled"}
    BY <1>3 DEF Spawn, CoherenceInv, Spawning
  <2>2. /\ UNCHANGED status
        /\ \A k \in Job : run'[k].pc = IF k = j THEN "boot" ELSE Reaped(w)[k].pc
    BY <1>3, <2>1 DEF Spawn, Reaped, NoRunner
  <2>3. \A k \in Job : RunnerView(run'[k]) =
          IF k = j THEN "booting" ELSE RunnerView(run[k])
    BY ZenonT(60), <2>2, ReapingInvisible DEF RunnerView
  <2>4. /\ ViewOfRunner' = [ViewOfRunner EXCEPT ![j] = "booting"]
        /\ ViewOfState' = ViewOfState
    BY <2>2, <2>3 DEF ViewOfRunner, ViewOfState
  <2>5. ViewOfRunner[j] = "unborn" /\ ViewOfState[j] \in {"queued", "canceled"}
    BY <2>1 DEF ViewOfRunner, ViewOfState, RunnerView
  <2> QED
    BY <2>1, <2>4, <2>5 DEF Lifecycle!LifecycleNext, Lifecycle!Launch
<1>4. ASSUME NEW w \in Worker, SpawnFails(w) \/ ChatPopen(w) PROVE Refined
  BY <1>4, SameView, ReapingInvisible DEF SpawnFails, ChatPopen
<1>5. ASSUME NEW w \in Worker, GetHeal(w) PROVE Refined
  <2> DEFINE j == wk[w].job
  <2>1. j \in Job
    BY <1>5 DEF GetHeal, CoherenceInv
  <2>2. CASE UNCHANGED status
    BY <1>1, <1>5, <2>2 DEF GetHeal
  <2>3. CASE /\ status[j].state = "running"
             /\ ~PidAlive(status[j].pid)
             /\ status' = [status EXCEPT ![j] = [@ EXCEPT !.state = "failed",
                                                   !.error = "died", !.old = FALSE]]
    <3>1. run[j].pc = "gone"
      BY <2>1, <2>3 DEF TypeOK, CoherenceInv, Coherent, PidAlive, RunnerRecord,
                        LivePCs
    <3>2. ViewOfState[j] = "running" /\ ViewOfRunner[j] = "dead"
      BY <2>1, <2>3, <3>1 DEF ViewOfState, ViewOfRunner, RunnerView
    <3>3. ViewOfState' = [ViewOfState EXCEPT ![j] = "failed"]
      BY <2>1, <2>3 DEF TypeOK, ViewOfState, StatusRecord
    <3>4. ViewOfRunner' = ViewOfRunner
      BY <1>5 DEF GetHeal, ViewOfRunner
    <3> QED
      BY <2>1, <3>2, <3>3, <3>4 DEF Lifecycle!LifecycleNext, Lifecycle!Heal
  <2>4. UNCHANGED status \/ status' = [status EXCEPT ![j] =
                                         MarkDied(@, PidAlive(@.pid))]
    BY <1>5 DEF GetHeal
  <2> QED
    BY <2>1, <2>2, <2>3, <2>4 DEF MarkDied, TypeOK
<1>6. ASSUME NEW w \in Worker, CancelMark(w) PROVE Refined
  <2> DEFINE j == wk[w].job
  <2>1. j \in Job /\ UNCHANGED run
    BY <1>6 DEF CancelMark, CoherenceInv
  <2>2. ViewOfRunner' = ViewOfRunner
    BY <2>1 DEF ViewOfRunner
  <2>3. CASE status[j].state \in {"queued", "running"}
    <3>1. status' = [status EXCEPT ![j] = [@ EXCEPT !.state = "canceled",
                                                    !.old = FALSE]]
      BY <1>6, <2>3 DEF CancelMark, MarkCanceled
    <3>2. ViewOfState' = [ViewOfState EXCEPT ![j] = "canceled"]
      BY <2>1, <3>1 DEF TypeOK, ViewOfState, StatusRecord
    <3>3. ViewOfState[j] \in {"queued", "running"}
      BY <2>1, <2>3 DEF ViewOfState
    <3> QED
      BY <2>1, <2>2, <3>2, <3>3 DEF Lifecycle!LifecycleNext, Lifecycle!Cancel
  <2>4. CASE status[j].state \notin {"queued", "running"}
    <3>1. UNCHANGED status
      BY <1>6, <2>1, <2>4 DEF CancelMark, MarkCanceled, TypeOK
    <3> QED
      BY <1>1, <2>1, <3>1
  <2> QED
    BY <2>3, <2>4
<1>7. ASSUME NEW j \in Job, RunnerStart(j) PROVE Refined
  <2>1. /\ run[j].pc = "boot"
        /\ status[j].state \in {"queued", "canceled"}
    BY <1>7 DEF RunnerStart, TypeOK, CoherenceInv, Coherent, StatusRecord, States,
                StoredStates, FinishedStates, LivePCs
  <2>2. ViewOfRunner[j] = "booting" /\ ViewOfState[j] \in {"queued", "canceled"}
    BY <2>1 DEF ViewOfRunner, ViewOfState, RunnerView
  <2>3. status' = [status EXCEPT ![j] = [@ EXCEPT !.state = "running",
                                           !.pid = run[j].pid, !.old = FALSE]]
    BY <1>7, <2>1 DEF RunnerStart, MarkRunning, StoredStates, FinishedStates
  <2>4. ViewOfState' = [ViewOfState EXCEPT ![j] = "running"]
    BY <2>3 DEF TypeOK, ViewOfState, StatusRecord
  <2>5. \A k \in Job : RunnerView(run'[k]) =
          IF k = j THEN "working" ELSE RunnerView(run[k])
    <3>1. \A k \in Job : run'[k].pc = IF k = j THEN "pipeline" ELSE run[k].pc
      BY <1>7 DEF RunnerStart, TypeOK, RunnerRecord
    <3> QED
      BY <3>1 DEF TypeOK, RunnerView, RunnerRecord, LivePCs
  <2>6. ViewOfRunner' = [ViewOfRunner EXCEPT ![j] = "working"]
    BY <2>5 DEF ViewOfRunner
  <2> QED
    BY <2>2, <2>4, <2>6
    DEF Lifecycle!LifecycleNext, Lifecycle!Begin, Lifecycle!Revive
<1>8. ASSUME NEW j \in Job, NEW o, NEW a, Settle(j, o, a) PROVE Refined
  <2>1. run[j].pc = "pipeline" /\ UNCHANGED status
    BY <1>8 DEF Settle
  <2>2. \A k \in Job : RunnerView(run'[k]) = RunnerView(run[k])
    BY <1>8, <2>1 DEF Settle, TypeOK, RunnerView, RunnerRecord
  <2> QED
    BY <2>1, <2>2, SameView
<1>9. ASSUME NEW j \in Job, AlarmInTool(j) PROVE Refined
  <2>1. \A k \in Job : RunnerView(run'[k]) = RunnerView(run[k])
    BY <1>9 DEF AlarmInTool, TypeOK, RunnerView, RunnerRecord
  <2> QED
    BY <1>9, <2>1, SameView DEF AlarmInTool
<1>10. ASSUME NEW j \in Job, RunnerFinish(j) PROVE Refined
  <2> DEFINE end == IF run[j].outcome = "error" THEN "failed" ELSE "succeeded"
  <2>1. run[j].pc = "finish" /\ status[j].state \in {"running", "canceled"}
    BY <1>10 DEF RunnerFinish, TypeOK, CoherenceInv, Coherent, StatusRecord,
                 States, StoredStates, FinishedStates, LivePCs
  <2>2. ViewOfRunner[j] = "working"
    BY <2>1 DEF ViewOfRunner, RunnerView
  <2>3. \A k \in Job : RunnerView(run'[k]) =
          IF k = j THEN "dead" ELSE RunnerView(run[k])
    <3>1. \A k \in Job : run'[k].pc = IF k = j THEN "zombie" ELSE run[k].pc
      BY <1>10 DEF RunnerFinish, TypeOK, RunnerRecord
    <3> QED
      BY <3>1 DEF TypeOK, RunnerView, RunnerRecord, LivePCs
  <2>4. ViewOfRunner' = [ViewOfRunner EXCEPT ![j] = "dead"]
    BY <2>3 DEF ViewOfRunner
  <2>5. CASE status[j].state = "running"
    <3>1. Finish(status[j], run[j].outcome).state = end
      BY <2>5 DEF Finish, TypeOK, StatusRecord
    <3>2. ViewOfState' = [ViewOfState EXCEPT ![j] = end]
      BY <1>10, <3>1 DEF RunnerFinish, TypeOK, ViewOfState
    <3>3. ViewOfState[j] = "running"
      BY <2>5 DEF ViewOfState
    <3>4. Lifecycle!Settle(j, end) /\ end \in {"succeeded", "failed"}
      BY <2>2, <2>4, <3>2, <3>3 DEF Lifecycle!Settle
    <3> QED
      BY <3>4 DEF Lifecycle!LifecycleNext
  <2>6. CASE status[j].state = "canceled"
    <3>1. UNCHANGED status
      BY <1>10, <2>6 DEF RunnerFinish, Finish, TypeOK
    <3>2. ViewOfState' = ViewOfState /\ ViewOfState[j] = "canceled"
      BY <2>6, <3>1 DEF ViewOfState
    <3>3. Lifecycle!Settle(j, "failed")
      BY <2>2, <2>4, <3>2 DEF Lifecycle!Settle
    <3> QED
      BY <3>3 DEF Lifecycle!LifecycleNext
  <2> QED
    BY <2>1, <2>5, <2>6
<1>11. ASSUME NEW w \in Worker, CancelKill(w) PROVE Refined
  <2>1. ASSUME NEW k \in Job
        PROVE  \/ RunnerView(run'[k]) = RunnerView(run[k])
               \/ run[k].pc # "none" /\ RunnerView(run'[k]) = "dead"
    <3>1. CASE run'[k] = run[k]
      BY <3>1
    <3>2. CASE Live(k) /\ run'[k] = [run[k] EXCEPT !.pc = "zombie",
                                                   !.outcome = "killed"]
      BY <3>2 DEF Live, LivePCs, RunnerView, TypeOK, RunnerRecord
    <3> QED
      BY <1>11, <3>1, <3>2 DEF CancelKill, Victims
  <2> QED
    BY <1>11, <2>1, DyingRefines DEF CancelKill
<1>12. ASSUME NEW j \in Job, RunnerDies(j) PROVE Refined
  <2>1. ASSUME NEW k \in Job
        PROVE  \/ RunnerView(run'[k]) = RunnerView(run[k])
               \/ run[k].pc # "none" /\ RunnerView(run'[k]) = "dead"
    BY <1>12 DEF RunnerDies, Live, LivePCs, RunnerView, TypeOK, RunnerRecord
  <2> QED
    BY <1>12, <2>1, DyingRefines DEF RunnerDies
<1>13. ASSUME NEW w \in Worker, WorkerDies(w) PROVE Refined
  <2>1. ASSUME NEW k \in Job PROVE RunnerView(run'[k]) = RunnerView(run[k])
    BY <1>13 DEF WorkerDies, TypeOK, RunnerView, RunnerRecord
  <2> QED
    BY <1>13, <2>1, SameView DEF WorkerDies
<1>14. ASSUME NEW j \in Job, InitReaps(j) PROVE Refined
  <2>1. ASSUME NEW k \in Job PROVE RunnerView(run'[k]) = RunnerView(run[k])
    BY ZenonT(60), <1>14, ReapingInvisible DEF InitReaps, TypeOK, RunnerView
  <2> QED
    BY <1>14, <2>1, SameView DEF InitReaps
<1>15. ASSUME ContainerRestart PROVE Refined
  <2>1. ASSUME NEW k \in Job
        PROVE  \/ RunnerView(run'[k]) = RunnerView(run[k])
               \/ run[k].pc # "none" /\ RunnerView(run'[k]) = "dead"
    BY <1>15, ReapingInvisible DEF ContainerRestart, TypeOK
  <2> QED
    BY <1>15, <2>1, DyingRefines DEF ContainerRestart
<1>16. ASSUME NEW j \in Job, Ages(j) PROVE Refined
  <2>1. ASSUME NEW k \in Job PROVE status'[k].state = status[k].state
    BY <1>16 DEF Ages, TypeOK, StatusRecord
  <2> QED
    BY <1>16, <2>1, SameView DEF Ages
<1> HIDE DEF Refined
<1>17. ASSUME NEW w \in Worker, NEW j \in Job,
              GetRead(w, j) \/ CancelRead(w, j)
       PROVE  Refined
  BY <1>1, <1>17 DEF GetRead, CancelRead
<1>18. ASSUME NEW j \in Job, \/ PipelineYields(j) \/ PipelineRaises(j)
                             \/ AlarmInRunner(j) \/ AlarmInPipeline(j)
       PROVE  Refined
  BY <1>8, <1>18 DEF PipelineYields, PipelineRaises, AlarmInRunner, AlarmInPipeline
<1>19. Refined
  <2>1. CASE UNCHANGED vars
    BY <1>1, <2>1 DEF vars
  <2>2. ASSUME NEW w \in Worker, Admit(w) PROVE Refined
    BY <1>1, <2>2 DEF Admit
  <2> QED
    BY <1>2, <1>3, <1>4, <1>5, <1>6, <1>7, <1>9, <1>10, <1>11, <1>12, <1>13,
       <1>14, <1>15, <1>16, <1>17, <1>18, <2>1, <2>2
    DEF Next
<1> QED
  BY <1>19 DEF Refined

\* The workers, the runners, the files and the kernel together implement the
\* life cycle the API documents, with Revive as the one step beyond it.
THEOREM Refinement == Spec => ImplementsLifecycle
<1>1. Init => Lifecycle!LifecycleInit
  BY InitRefines
<1>2. TypeOK /\ CoherenceInv /\ [Next]_vars
        => [Lifecycle!LifecycleNext]_(Lifecycle!lifecycleVars)
  BY StepRefines
<1> QED
  BY <1>1, <1>2, Coherence, PTL
  DEF Spec, ImplementsLifecycle, Lifecycle!LifecycleSpec
=============================================================================
