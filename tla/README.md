# Arxivist: a TLA+ verification project

Arxivist is a Flask application that lets a language-model agent search arXiv,
HeadHunter and a knowledge base. This directory holds TLA+ models of its own
logic, the TLC configurations that check them on small instances, and TLAPS
proofs of what matters most for every instance.

    tlc -workers 2 -config JobsSafety.cfg MCAgentJobs.tla
    tlapm AgentJobsProofs.tla

Six groups of components are modelled: the jobs, the HeadHunter token, the API
keys, the knowledge-base client, the bridge, and the chats with their
dashboards, papers and uploads. §5 says what is left out and why.

## 1. The system

Gunicorn runs two *sync* workers (`gunicorn.conf.py`): each serves one request
at a time, so there is no thread-level concurrency inside a process. All
concurrency is between processes: the workers, one runner process per API job,
the bridge, and the shell `entrypoint.sh`, which is process 1 of the container
and tears it down when the bridge or gunicorn dies. Docker starts it again
(`restart: unless-stopped`). Shared state is in files in bind-mounted
directories, which survive a restart.

| Component | Source | State it keeps | Operations |
|---|---|---|---|
| Job status store | `jobs_store.py` | `jobs/<id>/status.json`, `events.ndjson`, a flock per job | create, read (and heal), update, cancel, active_count, sweep |
| Jobs API | `api_v1.py` | nothing | POST / GET / DELETE `/agent/jobs` |
| Job runner | `job_runner.py` | its process: pid, watchdog, outcome | first write, run the pipeline, last write |
| Agent pipeline | `agent_pipeline.py` | the arXiv session of its process | event stream, choice of the reply |
| Supervision | `entrypoint.sh`, `gunicorn.conf.py`, `docker-compose.yml` | processes | restart, reaping, worker timeout |
| HeadHunter tokens | `tools/hh_auth.py`, `tools/hh_tools.py`, `app.py` | `hh_token.json`, the OAuth state file | OAuth login, refresh, app token, 403 self-heal |
| Connect watch | `templates/index.html` | a timer in the page | poll `/hh/status`, send the request again |
| API keys | `tools/api_keys.py`, `scripts/apikeys.py` | the key file | create, verify, touch, revoke |
| Dashboards | `dashboards_store.py`, `tools/dashboard_tools.py` | `registry.json`, html files | create, register, look up |
| Uploads | `uploads_store.py`, `text_extract.py` | file and metadata per upload | save, read |
| arXiv | `arxiv_tools.py` | a session per process, `downloads/` | search with retries, download |
| Knowledge base | `tools/kb_tools.py`, `api_v1.py` | nothing (the tasks are in the service) | query, ingest, poll a task, save candidates |
| Bridge | `bridge/bridge.py` | the mode, persisted | direct and proxy handling, event stream synthesis and collection, mode switch |
| Generic HTTP tool | `tools/call_api.py` | nothing | one request |

How they interact: the page and API clients call the workers over HTTP; POST
`/agent/jobs` starts a runner and forgets about it; worker and runner talk only
through the job's status file and through signals; the agent inside a runner or
worker calls the tools as functions and the model through the bridge; workers
and runners share the HeadHunter token file, the key file and the registry.

What makes each component correct, and what is hard about it:

- **Jobs**: a job's record never contradicts its runner; a finished
  job stays finished; a cancel ends the run it names and no other; a dead run is
  reported; the capacity limit holds. Hard: unlocked reads followed by locked
  writes, signals to pids that may be stale, zombies, the watchdog's exception
  crossing other handlers, crash and restart between any two steps.
- **HeadHunter tokens**: a refresh token, which is single-use, is
  never presented twice; a user token, once obtained, is not replaced by an
  application token; the lock comes free again.
  Hard: two of the four writers do not take the lock the others hold, the file
  is truncated before it is written, and answers get lost.
- **API keys**: a revoked key stays revoked although requests write too; readers
  without the lock never see half a file; a key is not lost. Hard: one tmp file
  for all writers, deaths inside the critical section, reads that fail.
- **Knowledge base**: nobody is told of a document that was not processed; none
  is ingested more often than asked for. Hard: requests and answers get lost,
  polling gives up before the task ends, an error reads as "no databases".
- **Bridge**: a client ends up with the message the upstream meant, whether it
  streams or not; a request is served by one configured transport; every request
  is answered. Hard: two formats, events in pieces, errors in the middle.
- **Dashboards, uploads, arXiv**: what is registered exists, no registration is
  lost, a listed PDF is whole, an upload is readable. Hard: files written in
  place by processes that may die, a directory all processes share.
- **Pipeline**: the reply is the text of a chat that made a dashboard, a summary,
  the agent's text or the errors, in that order, whatever other chats register.

## 2. Modules

| Module | What it is |
|---|---|
| `JobsStore` | the status record and its mutations, one operator each (the callbacks given to `update_status`) |
| `AgentJobs` | workers, runners, files, pids, time and restarts; the properties |
| `JobLifecycle` | the abstract specification: what the API promises about one job |
| `MCAgentJobs` | `AgentJobs` for TLC: symmetry and the bound of one run |
| `AgentJobsProofs` | type correctness, the inductive invariant, finality, the refinement |
| `AgentJobsPidProofs` | the theorems that need pids to be unambiguous |
| `HHToken` | the token file, its lock, the calls to HeadHunter, the login; the properties |
| `MCHHToken` | `HHToken` for TLC: symmetry |
| `HHTokenProofs` | type correctness, the inductive invariant, refreshing is serialised |
| `ApiKeys` | the key file, its tmp file and lock, the calls; the properties |
| `KeyRegistry` | the abstract specification: what the docstrings promise of keys |
| `ApiKeysProofs` | type correctness, the inductive invariant, the properties, the refinement |
| `KBIngest`, `MCKBIngest` | the calls that ingest and query, over an external knowledge base; for TLC, the batch |
| `KBIngestProofs` | the inductive invariant; told means processed |
| `KBIngestCountProofs` | by counting: no document twice for one request; type correctness |
| `BridgeStream` | pure: format detection, assembly and synthesis of streams, and the reference definitions they are checked against |
| `Bridge` | the mode and its file, one request, the upstream's stream, over `BridgeStream` |
| `BridgeProofs` | type correctness, the inductive invariants of the mode and of the streams, the properties of both runs |
| `Dashboards` | registry, pages and lock; `register`, `get_active` |
| `Papers` | the arXiv session, the downloads, the summary |
| `Chat` | composes `Dashboards` and `Papers` with both pipelines and the uploads; the properties |
| `MCChat` | `Chat` for TLC: symmetry |
| `ChatProofs` | type correctness, the inductive invariant, the properties |

### How AgentJobs corresponds to the code

`status[j]` is `jobs/<j>/status.json`. A mutation of it is one step: the code
reads, mutates and replaces the file (`os.replace` of a temporary) under an
exclusive flock, and readers that do not take the lock see the old file or the
new one. Timestamps are one bit, `old`, which the action `Ages` sets.

`run[j]` is the job's runner process: `boot` (started, first write not done),
`pipeline`, `finish` (the pipeline has settled, last write not done), `zombie`
(ended, not waited for) and `gone`. `alarm` is the SIGALRM watchdog. `wk[w]` is
a worker: which request it serves and the pid its handler has read.

| Actions | Code |
|---|---|
| `Admit`, `Create`, `Spawn`, `SpawnFails` | `create_agent_job`: capacity check, `create_job` (with `sweep`), `Popen` |
| `GetRead`, `GetHeal` | `get_agent_job`: `read_status`, whose heal re-checks under the lock |
| `CancelRead`, `CancelKill`, `CancelMark` | `cancel_agent_job`: `cancel` |
| `RunnerStart`, `RunnerFinish` | the runner's two writes |
| `PipelineYields`, `PipelineRaises` | the end of `pipeline_events` as `main` sees it |
| `AlarmInRunner`, `AlarmInPipeline`, `AlarmInTool` | the frame in which the watchdog's exception is raised decides which handler catches it |
| `RunnerDies` | OOM, an unreadable `request.json`, an uncaught exception |
| `ChatPopen` | `POST /chat` starts the agent's CLI; Python's `Popen` polls earlier children first, which is the only way a worker ever reaps a runner |
| `WorkerDies`, `InitReaps`, `ContainerRestart` | supervision: orphans pass to process 1, which reaps them; a restart ends every process and keeps every file |

Abstractions worth knowing. The scan of `active_count` is one step: a job that
finishes during it only makes the count larger than the truth. `os.kill(pid, 0)`
sees the runners only; a pid of some unrelated process is not modelled, except
that `RecyclePids` lets a later runner have an earlier one's pid after a
restart. `sweep` acts on jobs that finished days ago (`JOB_TTL_DAYS`, 7 by
default); the guard of `Ages` assumes that by then no process and no request is
busy with the job. The last write and the exit of a runner are one step.
`lateStarts` is history: the jobs whose runner did its first write when the
queued record had stopped counting.

### How HHToken corresponds to the code

`file` is `config/hh_token.json`: the token `_read()` would return from it, and
its length, which decides what two overlapping writes leave behind. `lock` is
the holder of the flock. `req[p]` is the call process p is in: where it is, the
token in its hands, the refresh token it has spent (`spent`), the attempt of
`_get`'s loop. `stateFile` is the pending OAuth login. `hh` is HeadHunter, which
is external: how many tokens it issued, which are dead, which can be refreshed.

| Actions | Code |
|---|---|
| `Begin`, `Send`, `Heal`, `Remint` | `_get`: up to three attempts, the 403 self-heal without the lock |
| `Load` | `load_access_token`, the unlocked read |
| `LockRefresh`, `LockMint` | the flock and the second read, for an expired and for a missing token |
| `Refresh`, `Mint` | the request to HeadHunter, sent under the lock |
| `SaveOpen`, `SaveWrite` | `_save`: truncate, then write; then the caller returns |
| `Authorize`, `CallbackRead`, `CallbackRemove`, `Exchange` | the OAuth routes: `new_state`, `consume_state` in its two steps, `exchange_code` without the lock |
| `Expire`, `Die` | a token expires, a process is killed |

What is assumed of HeadHunter is what the code's comments say: a refresh token
is replaced by the answer to its use ("refresh tokens are single-use on HH's
side"), an application token is not issued while the last one lives ("too
early"), a code is redeemed once. User tokens carry `expires_in`; an application
token may not, and then the file does not say when it expires. The minute of
safety margin counts as expired. `HH_ACCESS_TOKEN` is not set, client id and
secret are. A disk error in `_save`, which is logged and forgotten, is left out:
it leaves what a lost answer leaves, a spent token in the file.

### How ApiKeys corresponds to the code

`file` and `tmp` are `config/api_keys.json` and its `.tmp`, each with a bit for
"the dump is complete"; `lock` holds `config/.api_keys.lock`. A call goes
through `_locked()` step by step.

| Actions | Code |
|---|---|
| `CreateKey`, `RevokeKey` | `create_key`, `revoke_key` up to the lock |
| `Admit`, `Leave` | the check before each request of `api_v1.py`: `verify_key`, which reads without the lock, and the touch of `last_used_at` when it is due |
| `Acquire`, `ReadKeys`, `OpenTmp`, `DumpTmp`, `Replace`, `Unlock` | `_locked`: flock, `_read`, the transaction, open, dump, `os.replace`, release |
| `ReadBlind`, `WriteFails`, `Die` | an OSError of the read (which counts as an empty store), of a write (which touch swallows), a death |

A key stands for its id, its secret and its hash. The five minutes between two
touches are not counted: a key that was never used (`used`) is touched, any other
may be.

### How KBIngest corresponds to the code

`call[p]` is the call process p is in: `resume` (reading the next résumé from
HeadHunter), `names`, `add`, `upload`, `create`, `ask`, `poll`, `answer`, and
`accepted` for the caller that got a 202. `kb` and `tasks` are the knowledge base,
which is external.

| Actions | Code |
|---|---|
| `AddDocument`, `SaveCandidates`, `Query` | `add_document_to_kb` and POST `/kb/documents`; POST `/candidates/save`; `query_knowledge_base` and POST `/kb/query` |
| `GetResume`, `ListDatabases` | `hh_tools._get`; `_database_names`, whose error reads as an empty list |
| `AddFile`, `Upload`, `CreateFromFiles`, `AskQuestion` | `_request`, each answered, lost, or acted on without an answer |
| `CreateRefused` | the knowledge base refuses a database it has |
| `PollAgain`, `PollEnds` | `_poll_task`: SUCCESS, FAILURE, a poll's error, or the time is up |
| `Answer`, `TaskStatus` | the caller is told |
| `Die` | gunicorn's timeout, the watchdog, a crash |
| `TaskSucceeds`, `TaskFails` | external; a success may leave files out |

### How Bridge corresponds to the code

`req` is one request: `post` (sent to the transport), `open` (a proxy's task,
whose stream is being opened), `read`, `answered`. `via` is the mode the handler
read at its start. `events` is what the upstream has sent; `up` is what it may
still send. The body of an event is a sequence of chunks, so that losing, merging
and reordering them can be told apart.

| Actions | Code |
|---|---|
| `SetMode`, `Restart` | `set_mode` and its file, which may fail or be torn; `_load_mode` with any environment |
| `Dispatch` | `messages_handler` |
| `Refused`, `PostAnsweredJson`, `PostAccepted`, `PostAnsweredEvents` | the POST of both handlers |
| `OpenAgain`, `OpenRefused`, `OpenedEvents`, `OpenedJson` | `_open_upstream_stream` |
| `EndOfStream`, `ReadFails`, `Deliver` | piping or collecting, and the answer |
| `Send...` | external: the upstream, a step per event |

`BridgeStream` has the functions: `DetectFormat`, `Assemble` (one turn of the
loop), `Assembly` and `CollectAnthropic`, `CollectProxy`, `SynthesizedBlock` and
`Synthesize`, `BuildResponse`. A comment, or a block that is no JSON, is an event
of the type "nothing". `Complete`, `Meaning` (with `Starts` and `DataOf`) and
`ClientReads` are the reference: what a stream means by the protocol's
description, and what a client makes of it. They share nothing with `Assemble`:
`Meaning` filters the whole stream by index, `Assemble` walks it once. A
piped stream is judged by its whole, so piping and collecting take the same step.

### How Chat corresponds to the code

`chat[p]` is the request process p serves, `agent` while the model works, `reply`
when its text is there, `done` when the result is. `made` is history.
`Dashboards` and `Papers` have no specification of their own: they are the parts
`Chat` composes, and share no variable.

| Actions | Code |
|---|---|
| `StartChat`, `StartSearch` | the head of `pipeline_events`, of `run_search_pipeline`; the session is reset |
| `DashboardTool` (`OpenPage`, `WritePage`, `LockRegistry`, `WriteRegistry`) | `create_dashboard`, `register` |
| `PaperTool` (`SearchFinds`, `SearchFails`, `AlreadyDownloaded`, `StartDownload`, `DownloadFails`, `TruncatePdf`, `WritePdf`) | `search_arxiv`, `download_paper` |
| `ToolFails` | a write or a read raises inside a tool |
| `AgentEnds`, `AgentFails` | the stream ends with its last text, or raises |
| `Decide`, `DecideSearch`, `Deliver` | the choice of the reply, `session_files_list`, the result event |
| `SaveOriginal`, `SaveText`, `OpenMeta`, `SaveMeta`, `UploadFails` | `save_upload`, a step per file |
| `Die` | the end of a worker or of a runner |

The agent is external: it calls the tools in any order. Extracting text either
succeeds or fails. The retries of one search or PDF are one step, since nothing
is read or written between them.

## 3. Runs

| Run | Instance | Result |
|---|---|---|
| `jobs_safety` | 2 jobs, 2 workers, limit 1, one container restart | all hold: `TypeOK`, `CoherenceInv`, `LiveRunIsReported`, `EndIsTheRunnersEnd`, `PidsNameTheirRunner`, `FinishedIsFinal`, `CancelSparesOthers`, `ImplementsLifecycle` |
| `jobs_capacity` | 3 jobs, 2 workers, limit 1, submissions only | `OvershootBounded` holds |
| `jobs_liveness` | 1 job, 2 workers, one worker death, one restart | `GonePidIsHealed` holds |
| `jobs_aborted` | 1 job, 2 workers | violated: an aborted run is reported as a success |
| `hh_safety` | 2 processes, 1 login, 3 tokens, 1 fault | `TypeOK`, `TokenInv` and `RefreshTokensAreFresh` hold |
| `hh_liveness` | 2 processes, 1 login, 2 tokens, no fault | `CallsEnd` holds |
| `hh_clobbered` | 2 processes, 1 login, 3 tokens | violated: the self-heal overwrites the token of a login that completed meanwhile |
| `api_keys` | 2 processes, 2 keys, 2 faults | `TypeOK`, `RevokedStaysRevoked`, `CreatedKeysSurvive`, `StoreIsNeverTorn`, `IsARegistry`, `CallsEnd` hold |
| `kb_ingest` | 2 processes, 1 database, 2 documents, 2 asks, 1 poll, 2 faults | `TypeOK`, `ToldIsProcessed`, `NoDoubleIngest`, `CallsEnd` hold |
| `bridge_modes` | 2 switches, 2 restarts, 2 retries, empty messages | `TypeOK`, `TransportIsConfigured`, `ChosenModeStays`, `RequestsEnd` hold |
| `bridge_streams` | messages of up to 2 blocks, 2 pings or comments | `CollectedIsMeant`, `SameEitherWay`, `SynthesizedIsRead`, `ProxyErrorIsReported` hold |
| `chat` | 2 processes, 2 sessions, 2 dashboards, 1 paper, 1 upload, 2 chats, 1 fault | `TypeOK`, `ListedIsServed`, `OwnDashboardIsTheAnswer`, `ListedFilesAreWhole`, `ToldUploadsAreReadable`, `RegisteredSurvive` hold |

The two violated runs each state a sentence of the code's own comments, quoted in
`PROJECT.json` with the line it is about.

**Bounds.** Interference in the jobs is between two handlers and a runner of one
job, and between two jobs over capacity and pids; two workers and two jobs show
both. `OvershootBounded` needs a third job before it can fail (limit 1, two
workers), so it has a run of its own, restricted by `OnlySubmissions` to POSTs; the
theorem `Overshoot` has no such restriction. `MaxWorkerDeaths` and `MaxRestarts`
bound the failures; the set `Job` bounds the submissions (`Admit`'s first
conjunct). Deadlock is not an error there: once all ids are used and every job is
finished and swept, the model has nothing left to do (`CHECK_DEADLOCK FALSE`).
`KBIngest` (`MaxAsks`) and `Chat` (`MaxChats`, `Upload`) run out in the same way.

For `HHToken` two processes show every race over one file and one lock, and the
theorem covers any number; three tokens are an application token, the user's and
its replacement, or two replacements in a row; one fault is a lost answer or a
death at any step. Here a state without a successor would be a process stuck for
ever, so deadlock is checked, as in `ApiKeys` and `Bridge`.

In `ApiKeys` two processes contend and two keys show what a write of one does to
the other; two faults are a death inside one critical section and an error in the
next. In `KBIngest` both documents may be one batch, two calls of one process, or
two processes' for one database; one poll suffices for "not yet" and "too late".
Two switches and two restarts of `Bridge` change the mode before, during and
after a restart. Streams are exhausted at two blocks of two deltas with two pings or comments
between any two events; `DetectWindow` is 2 in place of 6, which two pings reach.
In `Chat` two chats of one session or of two overlap, one of them may be a
search, and one fault hits any step of either; the theorems cover any number of
each.

**Fairness.** `ProcessFairness` is weak fairness of every step a running process
owes: a handler that began goes on, a runner does its first and last write, the
kernel delivers the alarm, process 1 reaps its orphans. It is per worker and per
job, as the operating system schedules them. The pipeline owes nothing: the
agent may run for ever. `PollFairness` is the client's half, strong fairness of
polling, because a worker that could serve the poll may be taken by another
request in between. Worker deaths and restarts are never required.

`HHToken`'s `FairSpec` is weak fairness of the steps of a call that has begun:
HeadHunter answers, refuses or runs into the 30 s timeout. Taking the flock is
strongly fair, because the kernel queues its waiters: a process waits while
others take the lock and free it again, but not for ever. Beginning a call, a
login, expiry and faults are never required. That a death does not orphan the
lock is `LockDiscipline`, part of `TokenInv`, in the run with a fault. `ApiKeys`
has the same fairness.

`KBIngest` is fair to the processes alone: the knowledge base owes nothing, its
tasks may stay pending, and `CallsEnd` rests on the polling's deadline. `Bridge` is
fair to the steps that `BRIDGE_TIMEOUT` bounds (the POST, each GET of a stream,
the reading of a body), never to the upstream: `ReadFails` is what makes an
endless stream end. `Chat` has no liveness property: its agent may run for ever.

**Mutants.** Every property of a passing run has a mutant, a plausible slip in
one operator (they are defined next to the operator they vary), which breaks it.

**What the properties leave room for.** Some behaviours of the code are in the
models, are not what one would wish, and contradict no property above:

- The first write of a runner ignores a cancellation, which `job_runner.py:16`
  counts on; `FinishedIsFinal` has this one exception. A poll between the signal
  and the mark of a cancel heals the job to failed, and the cancel finds it
  finished.
- A burst exceeds the capacity by one job per further worker
  (`OvershootBounded` is that bound).
- A runner that is a zombie looks alive (`GonePidIsHealed` speaks of pids that are
  gone), and with `RecyclePids` a DELETE after a restart can signal another job's
  runner: `CancelSparesOthers` is proved without it.
- An error of the knowledge base's listing sends an existing database down the
  create path, and files rejected by a task that succeeds are answered as ingested.
- A truncated Anthropic stream is collected into a 200; a JSON body without
  content becomes an empty message; six comments before the first event make
  `DetectFormat` give up.
- A second search replaces the papers of the first, so that a summary may say
  that none was downloaded. A PDF left in pieces by a death counts as downloaded
  ever after (`damaged` in `ListedFilesAreWhole`).
- A read of a store that fails looks like an empty store to `ApiKeys` and
  `Dashboards`, and the next write makes it so (`blind`).

## 4. Theorems

`AgentJobsProofs` and `AgentJobsPidProofs`, for every set of jobs and workers,
every limit and every bound; the only assumption is `JobsAssumption` (finite sets, at least one worker) and, where
said, `~RecyclePids`.

- `TypeCorrect`: `TypeOK` is invariant.
- `Coherence`: so is `CoherenceInv`, the strengthening everything else rests on.
  The properties by themselves are not inductive: that a heal can only hit a
  dead runner needs the record's pid to be the runner's; that a runner finds a
  record it may write to needs that a worker about to spawn (`Spawning`) holds a
  job nobody else holds and that cannot have been swept.
- `LiveRunsAreReported`, `EndsAreTrue`: consequences of `CoherenceInv`.
- `Finality`: the action property, from `CoherenceInv`.
- `Refinement`: `AgentJobs` implements `JobLifecycle`; `StepRefines` has one
  step per action, with `ReapingInvisible` and `DyingRefines` for the kernel's.
- `PidsAreUnambiguous` (given `~RecyclePids`): `PidsNameTheirRunner` is
  invariant; every action but `Spawn` satisfies `PidsKept`, which is enough.
- `CancelsSpareOthers` (given `~RecyclePids`): from it, a DELETE signals only the
  runner of the job it names. Without the assumption it is false: after a restart
  a new runner may have the pid that an old record still names.
- `Overshoot` (given `~RecyclePids`): `OvershootBounded`. Only admission,
  creation and the runner's first write can use up room; every other step shrinks
  both counts.

`HHTokenProofs`, for every set of processes and logins and any number of tokens
and faults, from `TokenAssumption`:

- `TokenTypes`: `TypeOK` is invariant.
- `TokensAreSound`: so is `TokenInv`. It says more than that the stored token is
  good, which is not inductive: between HeadHunter's answer and the save the
  stored one is spent, and only the holder of the lock may then be the one who
  spent it; a login saved by the callback, which takes no lock, must not be the
  token some refresh is about to present (`TokensInFlight`).
- `RefreshIsSerialised`: `RefreshTokensAreFresh`, from `TokenInv`. It holds
  although two writers do without the lock, because what those write is new.

The steps fall into a few shapes, one lemma each: a process moves without lock or
token (`Quiet`), takes the lock (`Takes`), gets a token (`Gets`), saves it
(`Opens`, `Writes`), or loses the answer (`RefreshLost`); `NextInv` has one step
per action and cites them.

`ApiKeysProofs`, for every set of processes and keys and any number of faults,
from `KeysAssumption`:

- `KeyTypes`: `TypeOK` is invariant.
- `StoreDiscipline`: so is the strengthening. The lock is held exactly by a
  process in its critical section; between its read and its replace the store
  is still what it read, so what it is about to write is its transaction applied
  to the present store; the tmp file is its own and whole once dumped; a key that
  is being created is known to nobody else.
- `RevocationIsFinal`, `KeysAreKept`, `NeverTorn`: the three invariants, from it.
- `KeysRefine`: `ApiKeys` implements `KeyRegistry`. Every step but the replace, the
  admission, the end of a request and the failed read is a stutter; the replace
  is an activation, a revocation, a stutter (touch), or `Forget`.

`ChatProofs`, for all sets and bounds, from the modules' assumptions. The three
parts share no variable, so the invariant is a conjunction with one part each:
`DashInv` (the lock's holder has read the registry as it still is; what is
registered, or about to be, has a whole page), `PaperInv` (a PDF in pieces has a
writer or is damaged), `UploadInv` (metadata does not precede the text), joined by
`AgentInv` and `OwnInv` (what a chat has made and not found before). `StepMoves`
says which part a step moves, `Elsewhere` that the others stay.

- `ChatsAreSound`, `ChatTypes`: the invariant and the types.
- `DashboardsAreServed`, `DashboardWins`, `FilesAreAccountedFor`,
  `UploadsAreReadable`: the run's invariants.
- `DashboardsSurvive`: the action property `RegisteredSurvive`.

`BridgeProofs`, for every environment, any number of switches and restarts and
streams of any length, from `BridgeAssumption` and `WindowAssumption`:
`ModesAreSound` and `BridgeTypes`, the invariant and the types; then
`TransportsAreConfigured` and `ChosenModesStay`. `ChosenModeStays` is not
inductive alone: it needs that the file holds the last choice that was saved.

Of the streams, for every length, `StreamsAreFollowed` proves
`StreamInv`. After each event the upstream has sent, the assembly has the blocks
the events describe (`AssemblyOK`, with their data): all are finished but the open
one (`Building`), whose input, if it is a tool's, is the pieces sent so far
(`OpenBlock`), and at the end all are (`Built`). A proxy's stream does not have both
an error and a "done" (`ProxyInv`).
From it:

- `CollectsTheMeaning` (`CollectedIsMeant`): the message collected is the one the
  stream means. `Describes` says of a stream what `Meaning` chooses: which blocks
  it starts, their kinds and their data.
- `SynthesisLosesNothing` (`SynthesizedIsRead`): a synthesized stream means its
  message, of any number of blocks (`SynthesizedMeans`).
- `StreamingMakesNoDifference` (`SameEitherWay`), from both.
- `ProxyErrorsAreReported` (`ProxyErrorIsReported`).

`Assembly` and `DataOf` are folds. What one more element does to a fold
(`AssemblyGrows`, `FlattenOneMore`) is proved over the recursive functions by which
the community modules define it, by the least number that would fail
(`SetInduction`); the theorems of the library that induct take an operator, and
cannot be used.

`KBIngestProofs`, for any number of processes, tasks, polls and faults, from
`KBAssumption`: `CallsAreSound`, that every call polls its own task and has counted
as saved only what a task has processed, and from it `ToldMeansProcessed`. Tasks
are only appended and ended (`Kept`), which makes all of it stable.

`KBIngestCountProofs`, from the same assumption: `AsksAreCounted`, `IngestedAsAsked`
(`NoDoubleIngest`) and `IngestTypes`. `NoDoubleIngest` is inductive only when every
copy that may still come is counted too. So each request for a document pays for
one thing: a place in a call's list that is not yet sent (`Wanting`), an add task
(`Adding`), or the stored file (`DocsCounted`); copies do not exceed the tasks that
succeeded plus the file (`CopiesCounted`), a create task finds its files stored
(`CreatesStored`), and the tasks that exist or are still due do not exceed what was
asked for in all, `asked` (`TasksCounted`), which bounds `tasks` in `TypeOK`. Each
step takes from one and gives at most as much to another; a lost or unanswered
request gives up its place whatever the knowledge base has done. Places are
numbered from the end of the list, so that the rest keep theirs when its head goes.

Every invariant and action property of the passing runs is stated by a theorem.
Model-checked only:

- Liveness (`GonePidIsHealed`, both `CallsEnd` of tokens and keys, that of the
  knowledge base, `RequestsEnd`) and the two violations: outside what the proof
  system does.

## 5. Not modelled

- **Connect watch** (`templates/index.html`): a timer in one page, whose bound is
  the user; nothing else reads its state.
- **Text extraction** and the parsing of arXiv's feed: pure conversions by
  third-party parsers. **`call_api.py`**: one stateless request. **Page rendering**,
  prompts, status phrases and logging.
- **The job store's flock** is one atomic step with its read and replace;
  `ApiKeys` has such a lock in steps, with deaths between them. **`events.ndjson`**
  has one writer and is read line by line.
- **Sweep against a busy process**: the TTL is days; `Ages` assumes that nothing
  is busy with the job by then.
- **The start-up health wait** of `entrypoint.sh`, which precedes all requests.
- **`HH_ACCESS_TOKEN`**: with it the token's file is never used.
- **Read-only routes** (`/hh/...`, listings, health, probes): they shape answers and
  change nothing.
- **`consume_state` read twice** is in `HHToken` as two steps, but two deliveries of
  one callback end in HeadHunter refusing the second code; nothing is claimed.
