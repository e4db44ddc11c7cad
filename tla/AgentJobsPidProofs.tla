------------------------ MODULE AgentJobsPidProofs ------------------------
(***************************************************************************)
(* Theorems about AgentJobs that need pids to be unambiguous: under the    *)
(* assumption that no pid of an earlier boot comes back (~RecyclePids), a  *)
(* DELETE signals no runner but its own, and the capacity limit is missed  *)
(* by at most one job per other worker.                                    *)
(***************************************************************************)
EXTENDS AgentJobsProofs, FiniteSetTheorems

\* What all actions but Spawn do to pids: no runner gets or changes one, and a
\* record or a handler only takes over the pid of its own job's runner.
PidsKept ==
  /\ nextPid' = nextPid
  /\ \A j \in Job :
       /\ run'[j].pid = run[j].pid
       /\ run'[j].pc = "none" <=> run[j].pc = "none"
       /\ status'[j].pid \in {NoPid, status[j].pid, run[j].pid}
  /\ \A w \in Worker : wk'[w].pc \in {"heal", "kill"} =>
       \/ wk'[w] = wk[w]
       \/ wk'[w].job \in Job /\ wk'[w].pid = status[wk'[w].job].pid

LEMMA PidsKeptSuffices ==
  ASSUME CoherenceInv, PidsNameTheirRunner, PidsKept
  PROVE  PidsNameTheirRunner'
<1>1. ASSUME NEW w \in Worker, wk'[w].pc \in {"heal", "kill"}
      PROVE  wk'[w].pid \in {NoPid, run'[wk'[w].job].pid}
  <2>1. CASE wk'[w] = wk[w]
    <3>1. wk[w].job \in Job /\ wk[w].pid \in {NoPid, run[wk[w].job].pid}
      BY <1>1, <2>1 DEF CoherenceInv, PidsNameTheirRunner
    <3> QED
      BY <2>1, <3>1 DEF PidsKept
  <2>2. CASE wk'[w].job \in Job /\ wk'[w].pid = status[wk'[w].job].pid
    BY <2>2 DEF PidsNameTheirRunner, PidsKept
  <2> QED
    BY <1>1, <2>1, <2>2 DEF PidsKept
<1> QED
  BY <1>1 DEF PidsNameTheirRunner, PidsKept

LEMMA InitPids == Init => PidsNameTheirRunner
  BY DEF Init, PidsNameTheirRunner, NoRunner, Idle, Blank, NoPid

\* Which pid a mutation of a status record leaves in it.
LEMMA MutationsKeepPids ==
  ASSUME NEW s \in StatusRecord, NEW p, NEW o, NEW b
  PROVE  /\ MarkRunning(s, p).pid \in {s.pid, p}
         /\ Finish(s, o).pid = s.pid
         /\ MarkCanceled(s).pid = s.pid
         /\ MarkDied(s, b).pid = s.pid
         /\ Swept(s).pid \in {NoPid, s.pid}
         /\ [s EXCEPT !.old = TRUE].pid = s.pid
  BY DEF MarkRunning, Finish, MarkCanceled, MarkDied, Swept, Blank, StatusRecord

LEMMA GoneKeepsPid ==
  ASSUME NEW r \in RunnerRecord PROVE Gone(r).pid = r.pid /\ Gone(r).pc = "gone"
  BY DEF Gone, RunnerRecord

LEMMA ReapedKeepsPids ==
  ASSUME TypeOK, NEW w \in Worker, NEW j \in Job
  PROVE  /\ Reaped(w)[j].pid = run[j].pid
         /\ Reaped(w)[j].pc = "none" <=> run[j].pc = "none"
         /\ Reaped(w)[j].pc \in LivePCs \cup {"zombie"}
              => run[j].pc \in LivePCs \cup {"zombie"}
  BY GoneKeepsPid DEF TypeOK, Reaped, LivePCs

LEMMA NextPids ==
  TypeOK /\ CoherenceInv /\ PidsNameTheirRunner /\ ~RecyclePids /\ [Next]_vars
    => PidsNameTheirRunner'
<1> SUFFICES ASSUME TypeOK, CoherenceInv, PidsNameTheirRunner, ~RecyclePids,
                    [Next]_vars
             PROVE  PidsNameTheirRunner'
  OBVIOUS
<1>1. CASE UNCHANGED vars
  BY <1>1, PidsKeptSuffices DEF vars, PidsKept
<1>2. ASSUME NEW w \in Worker, Admit(w) PROVE PidsKept
  BY <1>2 DEF Admit, TypeOK, WorkerRecord, PidsKept
<1>3. ASSUME NEW w \in Worker, Create(w) PROVE PidsKept
  <2>1. PICK j \in Job :
          /\ status' = [k \in Job |-> IF k = j THEN Queued ELSE Swept(status[k])]
          /\ wk' = [wk EXCEPT ![w] = [pc |-> "created", job |-> j, pid |-> NoPid]]
    BY <1>3 DEF Create
  <2>2. \A k \in Job : status'[k].pid \in {NoPid, status[k].pid}
    BY <2>1, MutationsKeepPids DEF TypeOK, Queued, Blank
  <2> QED
    BY <1>3, <2>1, <2>2 DEF Create, TypeOK, PidsKept
<1>4. ASSUME NEW w \in Worker, Spawn(w) PROVE PidsNameTheirRunner'
  <2> DEFINE j == wk[w].job
  <2>1. /\ j \in Job
        /\ run[j].pc = "none"
        /\ run[j].pid = NoPid
        /\ status[j].pid = NoPid
    BY <1>4 DEF Spawn, CoherenceInv, Spawning, PidsNameTheirRunner
  <2>2. /\ status' = status
        /\ wk' = [wk EXCEPT ![w] = Idle]
        /\ nextPid' = nextPid + 1
        /\ nextPid \in Nat \ {NoPid}
    BY <1>4 DEF Spawn, TypeOK
  <2>3. run' = [Reaped(w) EXCEPT
                  ![j] = [NoRunner EXCEPT !.pc = "boot", !.pid = nextPid,
                                          !.parent = w]]
    BY <1>4 DEF Spawn
  <2>4. run'[j].pid = nextPid /\ run'[j].pc = "boot"
    BY <2>1, <2>3 DEF Reaped, NoRunner
  <2>5. ASSUME NEW k \in Job, k # j
        PROVE  /\ run'[k].pid = run[k].pid
               /\ run'[k].pc = "none" <=> run[k].pc = "none"
    BY <2>3, <2>5, ReapedKeepsPids DEF Reaped
  <2>6. ASSUME NEW k \in Job PROVE run[k].pid \in Nat /\ run[k].pid < nextPid
    BY DEF PidsNameTheirRunner, TypeOK, RunnerRecord
  <2>7. ASSUME NEW k \in Job
        PROVE  /\ run'[k].pc = "none" <=> run'[k].pid = NoPid
               /\ run'[k].pid < nextPid'
               /\ status'[k].pid \in {NoPid, run'[k].pid}
    <3>1. CASE k = j
      BY <2>1, <2>2, <2>4, <3>1
    <3>2. CASE k # j
      BY <2>2, <2>5, <2>6, <3>2 DEF PidsNameTheirRunner
    <3> QED
      BY <3>1, <3>2
  <2>8. ASSUME NEW k \in Job, NEW l \in Job, run'[k].pid = run'[l].pid, k # l
        PROVE  run'[k].pid = NoPid
    <3>1. k # j /\ l # j
      BY <2>4, <2>5, <2>6, <2>8, <2>2
    <3> QED
      BY <2>5, <2>8, <3>1 DEF PidsNameTheirRunner
  <2>9. ASSUME NEW v \in Worker, wk'[v].pc \in {"heal", "kill"}
        PROVE  wk'[v].pid \in {NoPid, run'[wk'[v].job].pid}
    <3>1. wk'[v] = wk[v]
      BY <2>2, <2>9 DEF TypeOK, Idle
    <3>2. wk[v].job \in Job /\ wk[v].pid \in {NoPid, run[wk[v].job].pid}
      BY <2>9, <3>1 DEF CoherenceInv, PidsNameTheirRunner
    <3> QED
      BY <2>1, <2>5, <3>1, <3>2
  <2> QED
    BY <2>7, <2>8, <2>9 DEF PidsNameTheirRunner
<1>5. ASSUME NEW w \in Worker, SpawnFails(w) PROVE PidsKept
  BY <1>5, ReapedKeepsPids DEF SpawnFails, TypeOK, Idle, PidsKept
<1>6. ASSUME NEW w \in Worker, NEW j \in Job,
             GetRead(w, j) \/ CancelRead(w, j)
      PROVE  PidsKept
  BY <1>6 DEF GetRead, CancelRead, TypeOK, PidsKept
<1>7. ASSUME NEW w \in Worker, GetHeal(w) PROVE PidsKept
  <2>1. ASSUME NEW k \in Job PROVE status'[k].pid = status[k].pid
    <3> DEFINE healed == MarkDied(status[wk[w].job], PidAlive(status[wk[w].job].pid))
    <3>1. wk[w].job \in Job
      BY <1>7 DEF GetHeal, CoherenceInv
    <3>2. healed.pid = status[wk[w].job].pid
      BY <3>1, MutationsKeepPids DEF TypeOK
    <3>3. status' = status \/ status' = [status EXCEPT ![wk[w].job] = healed]
      BY <1>7 DEF GetHeal
    <3> QED
      BY <3>1, <3>2, <3>3 DEF TypeOK
  <2> QED
    BY <1>7, <2>1 DEF GetHeal, TypeOK, Idle, PidsKept
<1>8. ASSUME NEW w \in Worker, CancelKill(w) PROVE PidsKept
  <2>1. \A k \in Job : /\ run'[k].pid = run[k].pid
                       /\ run'[k].pc = "none" <=> run[k].pc = "none"
    BY <1>8 DEF CancelKill, Victims, Live, LivePCs, TypeOK, RunnerRecord
  <2> QED
    BY ZenonT(60), <1>8, <2>1 DEF CancelKill, TypeOK, PidsKept, WorkerRecord
<1>9. ASSUME NEW w \in Worker, CancelMark(w) PROVE PidsKept
  <2>1. wk[w].job \in Job
    BY <1>9 DEF CancelMark, CoherenceInv
  <2>2. \A k \in Job : status'[k].pid = status[k].pid
    BY <1>9, <2>1, MutationsKeepPids DEF CancelMark, TypeOK
  <2> QED
    BY <1>9, <2>2 DEF CancelMark, TypeOK, Idle, PidsKept
<1>10. ASSUME NEW j \in Job, RunnerStart(j) PROVE PidsKept
  <2>1. status' = [status EXCEPT ![j] = MarkRunning(status[j], run[j].pid)]
    BY <1>10 DEF RunnerStart
  <2>2. \A k \in Job : status'[k].pid \in {status[k].pid, run[k].pid}
    BY <2>1, MutationsKeepPids DEF TypeOK
  <2>3. \A k \in Job : /\ run'[k].pid = run[k].pid
                       /\ run'[k].pc = "none" <=> run[k].pc = "none"
    BY <1>10 DEF RunnerStart, TypeOK, RunnerRecord
  <2> QED
    BY <1>10, <2>2, <2>3 DEF RunnerStart, PidsKept
<1>11. ASSUME NEW j \in Job, NEW o, NEW a, Settle(j, o, a) PROVE PidsKept
  BY <1>11 DEF Settle, TypeOK, RunnerRecord, PidsKept
<1>12. ASSUME NEW j \in Job, AlarmInTool(j) PROVE PidsKept
  BY <1>12 DEF AlarmInTool, TypeOK, RunnerRecord, PidsKept
<1>13. ASSUME NEW j \in Job, RunnerFinish(j) PROVE PidsKept
  <2>1. \A k \in Job : status'[k].pid = status[k].pid
    BY <1>13, MutationsKeepPids DEF RunnerFinish, TypeOK
  <2> QED
    BY <1>13, <2>1 DEF RunnerFinish, TypeOK, RunnerRecord, PidsKept
<1>14. ASSUME NEW j \in Job, RunnerDies(j) PROVE PidsKept
  BY <1>14 DEF RunnerDies, Live, LivePCs, TypeOK, RunnerRecord, PidsKept
<1>15. ASSUME NEW w \in Worker, ChatPopen(w) PROVE PidsKept
  BY <1>15, ReapedKeepsPids DEF ChatPopen, PidsKept
<1>16. ASSUME NEW w \in Worker, WorkerDies(w) PROVE PidsKept
  BY <1>16 DEF WorkerDies, TypeOK, RunnerRecord, Idle, PidsKept
<1>17. ASSUME NEW j \in Job, InitReaps(j) PROVE PidsKept
  BY <1>17, GoneKeepsPid DEF InitReaps, TypeOK, PidsKept
<1>18. ASSUME ContainerRestart PROVE PidsKept
  BY <1>18, GoneKeepsPid DEF ContainerRestart, TypeOK, Idle, PidsKept
<1>19. ASSUME NEW j \in Job, Ages(j) PROVE PidsKept
  BY <1>19, MutationsKeepPids DEF Ages, TypeOK, PidsKept
<1>20. ASSUME NEW j \in Job, \/ PipelineYields(j) \/ PipelineRaises(j)
                             \/ AlarmInRunner(j) \/ AlarmInPipeline(j)
       PROVE  PidsKept
  BY <1>11, <1>20
  DEF PipelineYields, PipelineRaises, AlarmInRunner, AlarmInPipeline
<1> QED
  BY <1>1, <1>2, <1>3, <1>4, <1>5, <1>6, <1>7, <1>8, <1>9, <1>10, <1>12, <1>13,
     <1>14, <1>15, <1>16, <1>17, <1>18, <1>19, <1>20, PidsKeptSuffices
  DEF Next

\* Every pid a record stores or a handler holds is its own job's, whatever
\* the number of jobs, workers and restarts.
THEOREM PidsAreUnambiguous ==
  ASSUME ~RecyclePids
  PROVE  Spec => [](TypeOK /\ CoherenceInv /\ PidsNameTheirRunner)
<1>1. Init => TypeOK /\ CoherenceInv /\ PidsNameTheirRunner
  BY InitTyped, InitCoherent, InitPids
<1>2. TypeOK /\ CoherenceInv /\ PidsNameTheirRunner /\ [Next]_vars
        => (TypeOK /\ CoherenceInv /\ PidsNameTheirRunner)'
  BY NextTyped, NextCoherent, NextPids
<1> QED
  BY <1>1, <1>2, PTL DEF Spec

\* A DELETE signals the runner of the job it names and no other: the pid it
\* acts on may be stale, but never somebody else's.
THEOREM CancelsSpareOthers ==
  ASSUME ~RecyclePids
  PROVE  Spec => CancelSparesOthers
<1>1. ASSUME TypeOK, CoherenceInv, PidsNameTheirRunner,
             NEW w \in Worker, CancelKill(w),
             NEW k \in Job, run'[k].pc # run[k].pc
      PROVE  k = wk[w].job
  <2>1. Live(k) /\ run[k].pid = wk[w].pid
    BY <1>1 DEF CancelKill, Victims
  <2>2. run[k].pid # NoPid
    BY <1>1, <2>1 DEF PidsNameTheirRunner, Live, LivePCs
  <2>3. wk[w].job \in Job /\ wk[w].pid \in {NoPid, run[wk[w].job].pid}
    BY <1>1 DEF CancelKill, CoherenceInv, PidsNameTheirRunner
  <2> QED
    BY <1>1, <2>1, <2>2, <2>3 DEF PidsNameTheirRunner
<1>2. TypeOK /\ CoherenceInv /\ PidsNameTheirRunner /\ [Next]_vars =>
        [\A w \in Worker : CancelKill(w) =>
           \A k \in Job : run'[k].pc # run[k].pc => k = wk[w].job]_vars
  BY <1>1
<1> QED
  BY <1>2, PidsAreUnambiguous, PTL DEF Spec, CancelSparesOthers
-----------------------------------------------------------------------------
(* Capacity.  With unambiguous pids, what active_count() counts of a job is *)
(* a matter of its own record and its own runner.                           *)
Occupant(j) ==
  \/ status[j].state = "running" /\ run[j].pc # "gone"
  \/ status[j].state = "queued" /\ ~status[j].old

LEMMA OccupantsAreCounted ==
  ASSUME TypeOK, CoherenceInv, PidsNameTheirRunner, NEW j \in Job
  PROVE  Occupies(j) <=> Occupant(j)
<1>1. ASSUME status[j].state = "running"
      PROVE  PidAlive(status[j].pid) <=> run[j].pc # "gone"
  <2>1. status[j].pid = run[j].pid /\ run[j].pc # "none" /\ run[j].pid # NoPid
    BY <1>1 DEF CoherenceInv, Coherent, PidsNameTheirRunner
  <2>2. \A k \in Job : run[k].pid = run[j].pid => k = j
    BY <2>1 DEF PidsNameTheirRunner
  <2> QED
    BY <2>1, <2>2 DEF PidAlive, TypeOK, RunnerRecord, LivePCs
<1> QED
  BY <1>1 DEF Occupies, Occupant

\* What is counted against the limit, and what has passed the check.
Counted == {j \in Job : Occupant(j)} \ lateStarts

Bound ==
  Cardinality(Counted) + Cardinality(Admitted) <= MaxJobs + Cardinality(Worker) - 1

LEMMA BoundIsTheProperty ==
  ASSUME TypeOK, CoherenceInv, PidsNameTheirRunner
  PROVE  OvershootBounded <=> Bound
<1>1. Active \ lateStarts = Counted
  BY OccupantsAreCounted DEF Active, Counted
<1> QED
  BY <1>1 DEF OvershootBounded, Bound

LEMMA CountsAreFinite ==
  ASSUME TypeOK
  PROVE  /\ IsFiniteSet(Counted) /\ Cardinality(Counted) \in Nat
         /\ IsFiniteSet(Admitted) /\ Cardinality(Admitted) \in Nat
         /\ Cardinality(Worker) \in Nat \ {0}
<1>1. IsFiniteSet(Counted) /\ IsFiniteSet(Admitted)
  BY JobsAssumption, FS_Subset DEF Counted, Admitted
<1>2. Cardinality(Worker) # 0
  BY JobsAssumption, FS_EmptySet
<1> QED
  BY <1>1, <1>2, JobsAssumption, FS_CardinalityType

\* A step that admits nobody and takes no slot keeps the bound.
LEMMA ShrinkingKeepsBound ==
  ASSUME TypeOK, TypeOK', Bound,
         \A j \in Job : Occupant(j)' /\ j \notin lateStarts'
                          => Occupant(j) /\ j \notin lateStarts,
         \A w \in Worker : wk'[w].pc = "admitted" => wk[w].pc = "admitted"
  PROVE  Bound'
<1>1. Counted' \subseteq Counted /\ Admitted' \subseteq Admitted
  BY DEF Counted, Admitted
<1>2. /\ Cardinality(Counted') \in Nat /\ Cardinality(Counted) \in Nat
      /\ Cardinality(Counted') <= Cardinality(Counted)
  BY <1>1, CountsAreFinite, FS_Subset, FS_CardinalityType
<1>3. /\ Cardinality(Admitted') \in Nat /\ Cardinality(Admitted) \in Nat
      /\ Cardinality(Admitted') <= Cardinality(Admitted)
  BY <1>1, CountsAreFinite, FS_Subset, FS_CardinalityType
<1>4. Cardinality(Worker) \in Nat
  BY CountsAreFinite
<1> QED
  BY <1>2, <1>3, <1>4, JobsAssumption DEF Bound

LEMMA InitBound == Init => Bound
<1> SUFFICES ASSUME Init PROVE Bound
  OBVIOUS
<1>1. Counted = {} /\ Admitted = {}
  BY DEF Init, Counted, Occupant, Admitted, Blank, Idle
<1>2. Cardinality(Worker) \in Nat \ {0}
  BY InitTyped, CountsAreFinite
<1> QED
  BY <1>1, <1>2, JobsAssumption, FS_EmptySet DEF Bound

\* The three steps that can use up room: the admission itself, the creation
\* of the job it stands for, and the runner's first write.
LEMMA AdmitKeepsBound ==
  ASSUME TypeOK, TypeOK', CoherenceInv, PidsNameTheirRunner, Bound,
         NEW w \in Worker, Admit(w)
  PROVE  Bound'
<1>1. /\ Cardinality(Active) < MaxJobs
      /\ wk' = [wk EXCEPT ![w].pc = "admitted"]
      /\ UNCHANGED <<status, run, lateStarts>>
  BY DEF Admit
<1>2. Counted' = Counted
  BY <1>1 DEF Counted, Occupant
<1>3. Counted \subseteq Active
  BY OccupantsAreCounted DEF Counted, Active
<1>4. IsFiniteSet(Active) /\ Cardinality(Active) \in Nat
  BY JobsAssumption, FS_Subset, FS_CardinalityType DEF Active
<1>5. Cardinality(Counted) \in Nat /\ Cardinality(Counted) <= MaxJobs - 1
  BY <1>1, <1>3, <1>4, FS_Subset, CountsAreFinite, JobsAssumption
<1>6. Admitted' \subseteq Worker
  BY DEF Admitted
<1>7. /\ Cardinality(Worker) \in Nat
      /\ Cardinality(Admitted') \in Nat
      /\ Cardinality(Admitted') <= Cardinality(Worker)
  BY <1>6, JobsAssumption, FS_Subset, FS_CardinalityType, CountsAreFinite
<1> QED
  BY <1>2, <1>5, <1>7, JobsAssumption DEF Bound

LEMMA CreateKeepsBound ==
  ASSUME TypeOK, TypeOK', Bound, NEW w \in Worker, Create(w)
  PROVE  Bound'
<1>1. PICK j \in Job :
        /\ status' = [k \in Job |-> IF k = j THEN Queued ELSE Swept(status[k])]
        /\ wk' = [wk EXCEPT ![w] = [pc |-> "created", job |-> j, pid |-> NoPid]]
  BY DEF Create
<1>2. run' = run /\ lateStarts' = lateStarts /\ wk[w].pc = "admitted"
  BY DEF Create
<1>3. ASSUME NEW k \in Job, k # j, Occupant(k)' PROVE Occupant(k)
  BY <1>1, <1>2, <1>3 DEF Occupant, Swept, Blank
<1>4. Counted' \subseteq Counted \cup {j}
  BY <1>2, <1>3 DEF Counted
<1>5. /\ Cardinality(Counted) \in Nat
      /\ IsFiniteSet(Counted \cup {j})
      /\ Cardinality(Counted \cup {j}) <= Cardinality(Counted) + 1
  <2>1. IsFiniteSet(Counted) /\ Cardinality(Counted) \in Nat
    BY CountsAreFinite
  <2>2. /\ IsFiniteSet(Counted \cup {j})
        /\ Cardinality(Counted \cup {j})
             = IF j \in Counted THEN Cardinality(Counted) ELSE Cardinality(Counted) + 1
    BY <2>1, FS_AddElement
  <2> QED
    BY <2>1, <2>2
<1>6. Cardinality(Counted') \in Nat /\ Cardinality(Counted') <= Cardinality(Counted) + 1
  <2>1. /\ Cardinality(Counted') <= Cardinality(Counted \cup {j})
        /\ Cardinality(Counted') \in Nat
        /\ Cardinality(Counted \cup {j}) \in Nat
    BY <1>4, <1>5, FS_Subset, FS_CardinalityType
  <2> QED
    BY <1>5, <2>1
<1>7. Admitted' = Admitted \ {w} /\ w \in Admitted
  BY <1>1, <1>2 DEF Admitted, TypeOK
<1>8. /\ Cardinality(Admitted) \in Nat
      /\ Cardinality(Admitted') = Cardinality(Admitted) - 1
  BY <1>7, CountsAreFinite, FS_RemoveElement
<1> QED
  BY <1>6, <1>8, CountsAreFinite, JobsAssumption DEF Bound

LEMMA StartKeepsBound ==
  ASSUME TypeOK, TypeOK', CoherenceInv, PidsNameTheirRunner, Bound,
         NEW j \in Job, RunnerStart(j)
  PROVE  Bound'
<1>1. /\ status' = [status EXCEPT ![j] = MarkRunning(status[j], run[j].pid)]
      /\ run' = [run EXCEPT ![j] = [run[j] EXCEPT !.pc = "pipeline",
                                                  !.alarm = "armed"]]
      /\ lateStarts' = IF Occupies(j) THEN lateStarts ELSE lateStarts \cup {j}
      /\ wk' = wk
  BY DEF RunnerStart
<1>2. ASSUME NEW k \in Job, Occupant(k)', k \notin lateStarts'
      PROVE  Occupant(k) /\ k \notin lateStarts
  <2>1. CASE k = j
    BY <1>1, <1>2, <2>1, OccupantsAreCounted
  <2>2. CASE k # j
    BY <1>1, <1>2, <2>2 DEF Occupant, TypeOK
  <2> QED
    BY <2>1, <2>2
<1> QED
  BY <1>1, <1>2, ShrinkingKeepsBound

LEMMA NextBound ==
  TypeOK /\ TypeOK' /\ CoherenceInv /\ PidsNameTheirRunner /\ Bound /\ [Next]_vars
    => Bound'
<1> SUFFICES ASSUME TypeOK, TypeOK', CoherenceInv, PidsNameTheirRunner, Bound,
                    [Next]_vars
             PROVE  Bound'
  OBVIOUS
<1> DEFINE Shrinks ==
      /\ lateStarts' = lateStarts
      /\ \A j \in Job : Occupant(j)' => Occupant(j)
      /\ \A w \in Worker : wk'[w].pc = "admitted" => wk[w].pc = "admitted"
<1>1. Shrinks => Bound'
  BY ShrinkingKeepsBound
<1>2. CASE UNCHANGED vars
  BY <1>2 DEF vars, Bound, Counted, Occupant, Admitted
<1>3. ASSUME NEW w \in Worker, Spawn(w) PROVE Shrinks
  <2>1. /\ wk[w].job \in Job
        /\ run[wk[w].job].pc = "none"
        /\ status[wk[w].job].state # "running"
    BY <1>3 DEF Spawn, CoherenceInv, Spawning
  <2>2. run' = [Reaped(w) EXCEPT ![wk[w].job] =
                  [NoRunner EXCEPT !.pc = "boot", !.pid = nextPid, !.parent = w]]
    BY <1>3 DEF Spawn
  <2>3. ASSUME NEW k \in Job, run'[k].pc # "gone", k # wk[w].job
        PROVE  run[k].pc # "gone"
    BY <2>2, <2>3, GoneKeepsPid DEF Reaped, TypeOK
  <2> QED
    BY <1>3, <2>1, <2>3 DEF Spawn, Occupant, TypeOK, Idle
<1>4. ASSUME NEW w \in Worker, run' \in {run, Reaped(w)},
             status' = status, lateStarts' = lateStarts,
             wk' \in {wk, [wk EXCEPT ![w] = Idle]}
      PROVE  Shrinks
  <2>1. ASSUME NEW k \in Job, run'[k].pc # "gone" PROVE run[k].pc # "gone"
    BY <1>4, <2>1 DEF Reaped, Gone, TypeOK
  <2> QED
    BY <1>4, <2>1 DEF Occupant, TypeOK, Idle
<1>5. ASSUME NEW w \in Worker, SpawnFails(w) \/ ChatPopen(w) PROVE Shrinks
  BY <1>4, <1>5 DEF SpawnFails, ChatPopen
<1>6. ASSUME NEW w \in Worker, NEW j \in Job, GetRead(w, j) \/ CancelRead(w, j)
      PROVE  Shrinks
  BY <1>6 DEF GetRead, CancelRead, Occupant, TypeOK
<1>7. ASSUME NEW w \in Worker, GetHeal(w) PROVE Shrinks
  <2> DEFINE healed == MarkDied(status[wk[w].job], PidAlive(status[wk[w].job].pid))
  <2>1. status' = status \/ status' = [status EXCEPT ![wk[w].job] = healed]
    BY <1>7 DEF GetHeal
  <2>2. healed = status[wk[w].job] \/ healed.state \notin {"running", "queued"}
    <3>1. wk[w].job \in Job
      BY <1>7 DEF GetHeal, CoherenceInv
    <3> QED
      BY <3>1 DEF MarkDied, TypeOK, StatusRecord
  <2> HIDE DEF healed
  <2>3. ASSUME NEW k \in Job PROVE Occupant(k)' => Occupant(k)
    BY <1>7, <2>1, <2>2 DEF GetHeal, Occupant, TypeOK
  <2> QED
    BY <1>7, <2>3 DEF GetHeal, TypeOK, Idle
<1>8. ASSUME NEW w \in Worker, CancelKill(w) PROVE Shrinks
  <2>1. ASSUME NEW k \in Job, run'[k].pc # "gone" PROVE run[k].pc # "gone"
    BY <1>8, <2>1 DEF CancelKill, Victims, Live, LivePCs
  <2> QED
    BY <1>8, <2>1 DEF CancelKill, Occupant, TypeOK, WorkerRecord
<1>9. ASSUME NEW w \in Worker, CancelMark(w) PROVE Shrinks
  <2>1. wk[w].job \in Job
    BY <1>9 DEF CancelMark, CoherenceInv
  <2>2. status' = [status EXCEPT ![wk[w].job] = MarkCanceled(status[wk[w].job])]
    BY <1>9 DEF CancelMark
  <2>3. ASSUME NEW k \in Job PROVE Occupant(k)' => Occupant(k)
    BY <1>9, <2>1, <2>2
    DEF CancelMark, MarkCanceled, Occupant, TypeOK, StatusRecord
  <2> QED
    BY <1>9, <2>3 DEF CancelMark, TypeOK, Idle
<1>10. ASSUME NEW j \in Job, NEW o, NEW a, Settle(j, o, a) PROVE Shrinks
  <2>1. ASSUME NEW k \in Job, run'[k].pc # "gone" PROVE run[k].pc # "gone"
    BY <1>10, <2>1 DEF Settle, TypeOK
  <2> QED
    BY <1>10, <2>1 DEF Settle, Occupant
<1>11. ASSUME NEW j \in Job, AlarmInTool(j) \/ RunnerDies(j) \/ InitReaps(j)
       PROVE  Shrinks
  <2>1. ASSUME NEW k \in Job, run'[k].pc # "gone" PROVE run[k].pc # "gone"
    BY <1>11, <2>1
    DEF AlarmInTool, RunnerDies, InitReaps, Gone, Live, LivePCs, TypeOK
  <2> QED
    BY <1>11, <2>1 DEF AlarmInTool, RunnerDies, InitReaps, Occupant
<1>12. ASSUME NEW j \in Job, RunnerFinish(j) PROVE Shrinks
  <2>1. /\ status' = [status EXCEPT ![j] = Finish(status[j], run[j].outcome)]
        /\ run' = [run EXCEPT ![j].pc = "zombie"]
        /\ run[j].pc = "finish"
    BY <1>12 DEF RunnerFinish
  <2>2. ASSUME NEW k \in Job PROVE Occupant(k)' => Occupant(k)
    BY <2>1 DEF Finish, Occupant, TypeOK, StatusRecord
  <2> QED
    BY <1>12, <2>2 DEF RunnerFinish
<1>13. ASSUME NEW w \in Worker, WorkerDies(w) PROVE Shrinks
  <2>1. ASSUME NEW k \in Job PROVE run'[k].pc = run[k].pc
    BY <1>13 DEF WorkerDies, TypeOK, RunnerRecord
  <2> QED
    BY <1>13, <2>1 DEF WorkerDies, Occupant, TypeOK, Idle
<1>14. ASSUME ContainerRestart PROVE Shrinks
  <2>1. ASSUME NEW k \in Job, run'[k].pc # "gone" PROVE run[k].pc # "gone"
    BY <1>14, <2>1, GoneKeepsPid DEF ContainerRestart, TypeOK
  <2> QED
    BY <1>14, <2>1 DEF ContainerRestart, Occupant, TypeOK, Idle
<1>15. ASSUME NEW j \in Job, Ages(j) PROVE Shrinks
  <2>1. status' = [status EXCEPT ![j].old = TRUE]
    BY <1>15 DEF Ages
  <2>2. ASSUME NEW k \in Job PROVE Occupant(k)' => Occupant(k)
    BY <1>15, <2>1 DEF Ages, Occupant, TypeOK, StatusRecord
  <2> QED
    BY <1>15, <2>2 DEF Ages
<1>16. ASSUME NEW j \in Job, \/ PipelineYields(j) \/ PipelineRaises(j)
                             \/ AlarmInRunner(j) \/ AlarmInPipeline(j)
       PROVE  Shrinks
  BY <1>10, <1>16
  DEF PipelineYields, PipelineRaises, AlarmInRunner, AlarmInPipeline
<1> HIDE DEF Shrinks
<1> QED
  BY <1>1, <1>2, <1>3, <1>5, <1>6, <1>7, <1>8, <1>9, <1>11, <1>12, <1>13,
     <1>14, <1>15, <1>16, AdmitKeepsBound, CreateKeepsBound, StartKeepsBound,
     ShrinkingKeepsBound
  DEF Next

\* The capacity limit: late starts apart, MAX_CONCURRENT_AGENT_JOBS is never
\* exceeded by more than one job for each worker but one, for any limit, any
\* number of jobs, workers, deaths and restarts.
THEOREM Overshoot ==
  ASSUME ~RecyclePids
  PROVE  Spec => []OvershootBounded
<1> DEFINE Inv == TypeOK /\ CoherenceInv /\ PidsNameTheirRunner
<1>1. Init => Bound
  BY InitBound
<1>2. Inv /\ Inv' /\ Bound /\ [Next]_vars => Bound'
  BY NextBound
<1>3. Inv /\ Bound => OvershootBounded
  BY BoundIsTheProperty
<1>4. Spec => []Inv
  BY PidsAreUnambiguous
<1> QED
  BY <1>1, <1>2, <1>3, <1>4, PTL DEF Spec
=============================================================================
