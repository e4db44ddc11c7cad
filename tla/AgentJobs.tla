----------------------------- MODULE AgentJobs -----------------------------
(***************************************************************************)
(* Asynchronous agent jobs: POST, GET and DELETE /api/v1/agent/jobs served *)
(* by gunicorn's sync workers (api_v1.py), one runner process per job      *)
(* (job_runner.py), and the status files both sides write (jobs_store.py). *)
(*                                                                         *)
(* Actors and what they keep:                                              *)
(*   - status[j]  what the disk says about job j; it survives everything;  *)
(*   - run[j]     j's runner process: program counter, pid, parent, the    *)
(*                SIGALRM watchdog and the outcome its locals hold.  A       *)
(*                process that ended is a "zombie" until its parent waits  *)
(*                for it, then "gone";                                     *)
(*   - wk[w]      a gunicorn worker: the request it serves and what the    *)
(*                handler has read so far.  A sync worker serves one       *)
(*                request at a time, so a handler's steps interleave only  *)
(*                with the other workers and with the runners.             *)
(*                                                                         *)
(* Every action is one access to state that another process can see.       *)
(* Requests that change nothing (a GET of a job that is not running, a     *)
(* DELETE of a finished one, a 404, 400 or 429) are stuttering steps.      *)
(***************************************************************************)
EXTENDS JobsStore, FiniteSets

CONSTANTS
  Job,             \* the job ids uuid4() will produce
  NoJob,
  Worker,          \* gunicorn workers
  Init1,           \* the container's process 1, which adopts orphans
  MaxJobs,         \* MAX_CONCURRENT_AGENT_JOBS
  RecyclePids,     \* may a pid of an earlier boot of the container come back?
  MaxWorkerDeaths, \* bound on worker deaths
  MaxRestarts      \* bound on container restarts

ASSUME JobsAssumption ==
  /\ NoJob \notin Job
  /\ Init1 \notin Worker
  /\ IsFiniteSet(Job)
  /\ IsFiniteSet(Worker)
  /\ Worker # {}
  /\ MaxJobs \in Nat
  /\ RecyclePids \in BOOLEAN
  /\ MaxWorkerDeaths \in Nat
  /\ MaxRestarts \in Nat

VARIABLES
  status,      \* [Job -> StatusRecord]       jobs/<id>/status.json
  run,         \* [Job -> RunnerRecord]       the runner processes
  wk,          \* [Worker -> WorkerRecord]    the requests in progress
  nextPid,     \* the pid the kernel hands out next: it counts upwards
  lateStarts,  \* history: jobs that started after their slot was given away
  deaths,      \* worker deaths so far
  restarts     \* container restarts so far

vars == <<status, run, wk, nextPid, lateStarts, deaths, restarts>>

LivePCs == {"boot", "pipeline", "finish"}

RunnerRecord == [pc      : LivePCs \cup {"none", "zombie", "gone"},
                 pid     : Nat,
                 parent  : Worker \cup {Init1},
                 alarm   : {"off", "armed", "fired"},
                 outcome : {"none", "reply", "error", "killed"}]

WorkerRecord == [pc  : {"idle", "admitted", "created", "heal", "kill", "mark"},
                 job : Job \cup {NoJob},
                 pid : Nat]

TypeOK ==
  /\ status \in [Job -> StatusRecord]
  /\ run \in [Job -> RunnerRecord]
  /\ wk \in [Worker -> WorkerRecord]
  /\ nextPid \in Nat \ {NoPid}
  /\ lateStarts \subseteq Job
  /\ deaths \in 0..MaxWorkerDeaths
  /\ restarts \in 0..MaxRestarts

NoRunner == [pc |-> "none", pid |-> NoPid, parent |-> Init1,
             alarm |-> "off", outcome |-> "none"]

Idle == [pc |-> "idle", job |-> NoJob, pid |-> NoPid]

Init ==
  /\ status = [j \in Job |-> Blank("absent")]
  /\ run = [j \in Job |-> NoRunner]
  /\ wk = [w \in Worker |-> Idle]
  /\ nextPid = 1
  /\ lateStarts = {}
  /\ deaths = 0
  /\ restarts = 0

-----------------------------------------------------------------------------
(* Processes, as the kernel shows them to _pid_alive() and os.kill().      *)

Live(j) == run[j].pc \in LivePCs

\* kill(pid, 0) succeeds for a zombie too: the entry is there until the
\* parent waits for it.
PidAlive(pid) ==
  \E j \in Job : run[j].pid = pid /\ run[j].pc \in LivePCs \cup {"zombie"}

\* A process that was waited for has no parent any more.
Gone(r) == [r EXCEPT !.pc = "gone", !.parent = Init1]

\* Popen() first polls the worker's finished children (subprocess._cleanup);
\* nothing else in a worker ever waits for a runner.
Reaped(w) ==
  [j \in Job |-> IF run[j].parent = w /\ run[j].pc = "zombie"
                   THEN Gone(run[j])
                   ELSE run[j]]

\* What active_count() counts.
Occupies(j) ==
  \/ status[j].state = "running" /\ PidAlive(status[j].pid)
  \/ status[j].state = "queued" /\ ~status[j].old

Active == {j \in Job : Occupies(j)}

-----------------------------------------------------------------------------
(* POST /agent/jobs: count, persist, spawn.                                *)

\* The workers between the capacity check and create_job().
Admitted == {w \in Worker : wk[w].pc = "admitted"}

\* A mutant of Admit: the comparison is off by one.
AdmitOneMore(w) ==
  /\ Cardinality({j \in Job : status[j].state = "absent"}) > Cardinality(Admitted)
  /\ wk[w].pc = "idle"
  /\ Cardinality(Active) <= MaxJobs
  /\ wk' = [wk EXCEPT ![w].pc = "admitted"]
  /\ UNCHANGED <<status, run, nextPid, lateStarts, deaths, restarts>>

\* active_count() < MAX_CONCURRENT_AGENT_JOBS.  The scan is one step: a job
\* that ends while it runs can only make the count larger than the truth.
\* (The first conjunct bounds the model: an id is left for every POST.)
Admit(w) ==
  /\ Cardinality({j \in Job : status[j].state = "absent"}) > Cardinality(Admitted)
  /\ wk[w].pc = "idle"
  /\ Cardinality(Active) < MaxJobs
  /\ wk' = [wk EXCEPT ![w].pc = "admitted"]
  /\ UNCHANGED <<status, run, nextPid, lateStarts, deaths, restarts>>

\* create_job(): sweep, then the queued record under a fresh id.
Create(w) ==
  /\ wk[w].pc = "admitted"
  /\ \E j \in Job :
       /\ status[j].state = "absent"
       /\ status' = [k \in Job |-> IF k = j THEN Queued ELSE Swept(status[k])]
       /\ wk' = [wk EXCEPT ![w] = [pc |-> "created", job |-> j, pid |-> NoPid]]
  /\ UNCHANGED <<run, nextPid, lateStarts, deaths, restarts>>

\* Popen(job_runner.py, job_id).
Spawn(w) ==
  /\ wk[w].pc = "created"
  /\ run' = [Reaped(w) EXCEPT ![wk[w].job] =
               [NoRunner EXCEPT !.pc = "boot", !.pid = nextPid, !.parent = w]]
  /\ nextPid' = nextPid + 1
  /\ wk' = [wk EXCEPT ![w] = Idle]
  /\ UNCHANGED <<status, lateStarts, deaths, restarts>>

\* Opening runner.log or Popen itself raises: the client gets a 500 and the
\* queued record stays behind.
SpawnFails(w) ==
  /\ wk[w].pc = "created"
  /\ run' \in {run, Reaped(w)}
  /\ wk' = [wk EXCEPT ![w] = Idle]
  /\ UNCHANGED <<status, nextPid, lateStarts, deaths, restarts>>

-----------------------------------------------------------------------------
(* GET /agent/jobs/<id>: read_status().                                    *)

\* The unlocked read found a running record; its pid is looked up next.
GetRead(w, j) ==
  /\ wk[w].pc = "idle"
  /\ status[j].state = "running"
  /\ wk' = [wk EXCEPT ![w] = [pc |-> "heal", job |-> j, pid |-> status[j].pid]]
  /\ UNCHANGED <<status, run, nextPid, lateStarts, deaths, restarts>>

\* A mutant of GetHeal: the heal is told to the client but never written.
GetHealWithoutWriting(w) ==
  /\ wk[w].pc = "heal"
  /\ wk' = [wk EXCEPT ![w] = Idle]
  /\ UNCHANGED <<status, run, nextPid, lateStarts, deaths, restarts>>

\* The pid it read is dead: fix() re-reads the record under the lock.
GetHeal(w) ==
  LET j == wk[w].job IN
  /\ wk[w].pc = "heal"
  /\ IF PidAlive(wk[w].pid)
       THEN status' = status
       ELSE status' = [status EXCEPT ![j] = MarkDied(@, PidAlive(@.pid))]
  /\ wk' = [wk EXCEPT ![w] = Idle]
  /\ UNCHANGED <<run, nextPid, lateStarts, deaths, restarts>>

-----------------------------------------------------------------------------
(* DELETE /agent/jobs/<id>: cancel().                                      *)

CancelRead(w, j) ==
  /\ wk[w].pc = "idle"
  /\ status[j].state \in {"queued", "running"}
  /\ wk' = [wk EXCEPT ![w] = [pc |-> "kill", job |-> j, pid |-> status[j].pid]]
  /\ UNCHANGED <<status, run, nextPid, lateStarts, deaths, restarts>>

\* A mutant of Victims: without start_new_session the runners of a worker
\* share its process group, and a signal to the group ends them all.
VictimsOfGroup(pid) ==
  {k \in Job : Live(k) /\ \E v \in Job : /\ run[v].pid = pid
                                        /\ Live(v)
                                        /\ run[k].parent = run[v].parent}

\* The processes a SIGTERM to pid ends.
Victims(pid) == {k \in Job : Live(k) /\ run[k].pid = pid}

\* SIGTERM to the pid that was read, if there is one.
CancelKill(w) ==
  /\ wk[w].pc = "kill"
  /\ run' = [k \in Job |-> IF k \in Victims(wk[w].pid)
                             THEN [run[k] EXCEPT !.pc = "zombie",
                                                 !.outcome = "killed"]
                             ELSE run[k]]
  /\ wk' = [wk EXCEPT ![w].pc = "mark"]
  /\ UNCHANGED <<status, nextPid, lateStarts, deaths, restarts>>

CancelMark(w) ==
  /\ wk[w].pc = "mark"
  /\ status' = [status EXCEPT ![wk[w].job] = MarkCanceled(@)]
  /\ wk' = [wk EXCEPT ![w] = Idle]
  /\ UNCHANGED <<run, nextPid, lateStarts, deaths, restarts>>

-----------------------------------------------------------------------------
(* The runner process: job_runner.main().                                  *)

RunnerStart(j) ==
  /\ run[j].pc = "boot"
  /\ status' = [status EXCEPT ![j] = MarkRunning(@, run[j].pid)]
  /\ run' = [run EXCEPT ![j] = [@ EXCEPT !.pc = "pipeline", !.alarm = "armed"]]
  /\ lateStarts' = IF Occupies(j) THEN lateStarts ELSE lateStarts \cup {j}
  /\ UNCHANGED <<wk, nextPid, deaths, restarts>>

\* The pipeline stops and leaves this outcome in the runner's locals.
Settle(j, outcome, alarm) ==
  /\ run[j].pc = "pipeline"
  /\ run' = [run EXCEPT ![j] = [@ EXCEPT !.pc = "finish",
                                         !.outcome = outcome,
                                         !.alarm = alarm]]
  /\ UNCHANGED <<status, wk, nextPid, lateStarts, deaths, restarts>>

\* pipeline_events() yields its result event: the agent's answer, or the
\* apology its own "except Exception" makes of any failure.
PipelineYields(j) == Settle(j, "reply", run[j].alarm)

\* An exception outside pipeline_events' try, or no result event at all.
PipelineRaises(j) == Settle(j, "error", run[j].alarm)

\* SIGALRM is delivered while the pipeline runs.  JobTimeout is an Exception,
\* so what becomes of it depends on the frame it is raised in ...
\* ... the runner's own loop: the job fails, as intended;
AlarmInRunner(j) ==
  run[j].alarm = "armed" /\ Settle(j, "error", "fired")

\* ... anywhere under pipeline_events' try: folded into a result event;
AlarmInPipeline(j) ==
  run[j].alarm = "armed" /\ Settle(j, "reply", "fired")

\* ... a tool's own "except Exception": a failed tool call, and the run goes
\* on without a watchdog, since signal.alarm() is armed once.
AlarmInTool(j) ==
  /\ run[j].pc = "pipeline"
  /\ run[j].alarm = "armed"
  /\ run' = [run EXCEPT ![j].alarm = "fired"]
  /\ UNCHANGED <<status, wk, nextPid, lateStarts, deaths, restarts>>

\* The finish write, after which the process only exits.
RunnerFinish(j) ==
  /\ run[j].pc = "finish"
  /\ status' = [status EXCEPT ![j] = Finish(@, run[j].outcome)]
  /\ run' = [run EXCEPT ![j].pc = "zombie"]
  /\ UNCHANGED <<wk, nextPid, lateStarts, deaths, restarts>>

\* OOM kill, an import error, request.json unreadable, an uncaught exception.
RunnerDies(j) ==
  /\ Live(j)
  /\ run' = [run EXCEPT ![j].pc = "zombie"]
  /\ UNCHANGED <<status, wk, nextPid, lateStarts, deaths, restarts>>

-----------------------------------------------------------------------------
(* The surroundings: other requests, process deaths, time.                 *)

\* POST /chat starts the agent's CLI from the worker: another Popen.
ChatPopen(w) ==
  /\ wk[w].pc = "idle"
  /\ \E j \in Job : run[j].parent = w /\ run[j].pc = "zombie"
  /\ run' = Reaped(w)
  /\ UNCHANGED <<status, wk, nextPid, lateStarts, deaths, restarts>>

\* A worker is killed (OOM, gunicorn's 600 s timeout) and replaced; its
\* children are adopted by process 1.
WorkerDies(w) ==
  /\ deaths < MaxWorkerDeaths
  /\ deaths' = deaths + 1
  /\ wk' = [wk EXCEPT ![w] = Idle]
  /\ run' = [j \in Job |-> IF run[j].parent = w
                             THEN [run[j] EXCEPT !.parent = Init1]
                             ELSE run[j]]
  /\ UNCHANGED <<status, nextPid, lateStarts, restarts>>

\* The shell that is process 1 collects whatever it adopts.
InitReaps(j) ==
  /\ run[j].parent = Init1
  /\ run[j].pc = "zombie"
  /\ run' = [run EXCEPT ![j] = Gone(@)]
  /\ UNCHANGED <<status, wk, nextPid, lateStarts, deaths, restarts>>

\* entrypoint.sh exits and Docker starts the container again: every process
\* is gone, jobs/ is not, and pids are handed out from the bottom again.
ContainerRestart ==
  /\ restarts < MaxRestarts
  /\ restarts' = restarts + 1
  /\ run' = [j \in Job |-> IF run[j].pc = "none"
                             THEN run[j]
                             ELSE Gone(run[j])]
  /\ wk' = [w \in Worker |-> Idle]
  /\ nextPid' = IF RecyclePids THEN 1 ELSE nextPid
  /\ UNCHANGED <<status, lateStarts, deaths>>

\* 300 s pass without the runner's first write; or the TTL passes after a
\* job finished, by which time no process and no request is left with it.
Ages(j) ==
  /\ ~status[j].old
  /\ \/ status[j].state = "queued"
     \/ /\ status[j].state \in FinishedStates
        /\ ~Live(j)
        /\ \A w \in Worker : wk[w].job # j
  /\ status' = [status EXCEPT ![j].old = TRUE]
  /\ UNCHANGED <<run, wk, nextPid, lateStarts, deaths, restarts>>

-----------------------------------------------------------------------------
Next ==
  \/ \E w \in Worker : \/ Admit(w)
                       \/ Create(w)
                       \/ Spawn(w)
                       \/ SpawnFails(w)
                       \/ GetHeal(w)
                       \/ CancelKill(w)
                       \/ CancelMark(w)
                       \/ ChatPopen(w)
                       \/ WorkerDies(w)
                       \/ \E j \in Job : GetRead(w, j) \/ CancelRead(w, j)
  \/ \E j \in Job : \/ RunnerStart(j)
                    \/ PipelineYields(j)
                    \/ PipelineRaises(j)
                    \/ AlarmInRunner(j)
                    \/ AlarmInPipeline(j)
                    \/ AlarmInTool(j)
                    \/ RunnerFinish(j)
                    \/ RunnerDies(j)
                    \/ InitReaps(j)
                    \/ Ages(j)
  \/ ContainerRestart

Spec == Init /\ [][Next]_vars

(* Fairness.  The processes run: a handler that started goes on, a runner   *)
(* starts, settles or is aborted by its watchdog, and writes its last       *)
(* status; process 1 waits for its orphans.  A pipeline owes nothing: a     *)
(* runaway run is what the watchdog is for.                                 *)
ProcessFairness ==
  /\ \A w \in Worker :
       /\ WF_vars(Create(w))
       /\ WF_vars(Spawn(w) \/ SpawnFails(w))
       /\ WF_vars(GetHeal(w))
       /\ WF_vars(CancelKill(w))
       /\ WF_vars(CancelMark(w))
  /\ \A j \in Job :
       /\ WF_vars(RunnerStart(j))
       /\ WF_vars(AlarmInRunner(j) \/ AlarmInPipeline(j) \/ AlarmInTool(j))
       /\ WF_vars(RunnerFinish(j))
       /\ WF_vars(InitReaps(j))

\* A client polls its job until it is finished, as the API prescribes: its
\* requests keep coming, and one of the workers takes one now and then.
PollFairness == \A j \in Job : SF_vars(\E w \in Worker : GetRead(w, j))

PolledSpec == Spec /\ ProcessFairness /\ PollFairness

-----------------------------------------------------------------------------
(* Properties the code has.                                                *)

\* A finished record is final, whatever the interleaving of the finish write,
\* the heal of read_status() and the mark of cancel(): it only changes by
\* growing old and being swept once it has.  The one exception is the
\* runner's unconditional first write, for a job canceled before it started.
FinishedIsFinal ==
  [][\A j \in Job :
       status[j].state \in FinishedStates =>
         \/ status'[j] = status[j]
         \/ status'[j] = [status[j] EXCEPT !.old = TRUE]
         \/ status[j].old /\ status'[j].state = "swept"
         \/ status[j].state = "canceled" /\ RunnerStart(j)]_vars

\* The stored record never contradicts the process it is about: a job whose
\* runner is at work is running, under that runner's pid, or canceled; it is
\* never healed to failed by a poll that saw an older record.
LiveRunIsReported ==
  \A j \in Job :
    run[j].pc \in {"pipeline", "finish"} =>
      \/ status[j].state = "running" /\ status[j].pid = run[j].pid
      \/ status[j].state = "canceled"

\* What a client reads as the job's end is what happened to its runner:
\* success only with the outcome this runner settled on, a reported failure
\* only if it settled on one, "died unexpectedly" only if it is not alive.
EndIsTheRunnersEnd ==
  \A j \in Job :
    /\ status[j].state = "succeeded" =>
         status[j].result = "reply" /\ run[j].outcome = "reply"
    /\ status[j].error = "reported" => run[j].outcome = "error"
    /\ status[j].error = "died" => ~Live(j)
    /\ status[j].state = "canceled" => status[j].result = "none"

\* The capacity check of create_agent_job() can be passed by every worker
\* before any of them has created its job, and by no more than that: leaving
\* out the jobs that started after the count had given their slot away, the
\* limit is exceeded by at most one job for each other worker.
OvershootBounded ==
  Cardinality(Active \ lateStarts) + Cardinality(Admitted)
    <= MaxJobs + Cardinality(Worker) - 1

\* As long as no pid of an earlier boot comes back, a DELETE only ever
\* signals the runner of the job it names.
CancelSparesOthers ==
  [][\A w \in Worker : CancelKill(w) =>
       \A k \in Job : run'[k].pc # run[k].pc => k = wk[w].job]_vars

\* read_status() heals: a running record whose pid no longer exists (the
\* container restarted, or the worker that spawned the runner is gone too)
\* is a finished one before long if the client keeps polling.
GonePidIsHealed ==
  \A j \in Job :
    (status[j].state = "running" /\ ~PidAlive(status[j].pid))
      ~> (status[j].state \in FinishedStates \cup {"swept"})

\* The inductive invariant the proofs rest on.  For each job, how far its
\* record can be from its runner; and for each worker about to spawn, that
\* the job it holds is still without a runner and cannot have been swept.
Coherent(s, r) ==
  /\ s.state = "absent" => r.pc = "none"
  /\ s.state = "queued" => r.pc \in {"none", "boot", "zombie", "gone"}
  /\ s.state = "running" => /\ r.pc \notin {"none", "boot"}
                            /\ s.pid = r.pid
  /\ s.state = "succeeded" => /\ r.pc \in {"zombie", "gone"}
                              /\ r.outcome = "reply"
  /\ s.state = "failed" => r.pc \in {"zombie", "gone"}
  /\ s.state = "canceled" /\ s.old => r.pc \notin LivePCs
  /\ s.state = "swept" => r.pc \notin LivePCs
  /\ s.result = "reply" <=> s.state = "succeeded"
  /\ s.error = "none" <=> s.state # "failed"
  /\ s.error = "reported" => r.outcome = "error"
  /\ r.pc = "finish" => r.outcome \in {"reply", "error"}

Spawning(w) ==
  wk[w].pc = "created" =>
    /\ wk[w].job \in Job
    /\ run[wk[w].job].pc = "none"
    /\ status[wk[w].job].state \in {"queued", "canceled"}
    /\ status[wk[w].job].state = "canceled" => ~status[wk[w].job].old
    /\ \A v \in Worker : wk[v].pc = "created" /\ wk[v].job = wk[w].job => v = w

CoherenceInv ==
  /\ \A j \in Job : Coherent(status[j], run[j])
  /\ \A w \in Worker :
       /\ Spawning(w)
       /\ wk[w].pc \in {"heal", "kill", "mark"} => wk[w].job \in Job

\* As long as no pid of an earlier boot comes back, a pid means one process:
\* whatever a status file stores, and whatever a handler read from one before
\* it signals, is the pid of that very job's runner, or none.
PidsNameTheirRunner ==
  /\ \A j \in Job :
       /\ run[j].pc = "none" <=> run[j].pid = NoPid
       /\ run[j].pid < nextPid
       /\ status[j].pid \in {NoPid, run[j].pid}
  /\ \A j, k \in Job : run[j].pid = run[k].pid /\ j # k => run[j].pid = NoPid
  /\ \A w \in Worker :
       wk[w].pc \in {"heal", "kill"} => wk[w].pid \in {NoPid, run[wk[w].job].pid}

\* The refinement: a client's view of the status file and of the runner.
RunnerView(r) ==
  CASE r.pc = "none" -> "unborn"
    [] r.pc = "boot" -> "booting"
    [] r.pc \in {"pipeline", "finish"} -> "working"
    [] r.pc \in {"zombie", "gone"} -> "dead"

ViewOfRunner == [j \in Job |-> RunnerView(run[j])]
ViewOfState  == [j \in Job |-> status[j].state]

Lifecycle == INSTANCE JobLifecycle WITH state <- ViewOfState,
                                        runner <- ViewOfRunner

\* Every step of workers, runners and kernel is a step of the job's life
\* cycle as the API documents it, Revive included, or changes none of it.
ImplementsLifecycle == Lifecycle!LifecycleSpec

-----------------------------------------------------------------------------
(* What a comment says and the code does not do.                           *)

\* job_runner.py: the watchdog "aborts runaway runs".  An aborted run is not
\* a success.
AbortedRunFails ==
  \A j \in Job : run[j].alarm = "fired" => status[j].state # "succeeded"
=============================================================================
