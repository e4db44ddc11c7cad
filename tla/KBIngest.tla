----------------------------- MODULE KBIngest ------------------------------
(***************************************************************************)
(* The knowledge-base client: tools/kb_tools.py and the /kb/... and        *)
(* /candidates/save routes of api_v1.py, run by several processes against  *)
(* one knowledge base.                                                     *)
(*                                                                         *)
(* The knowledge base is external.  It is modelled from what the code      *)
(* sends it and expects back: it lists its databases, takes files, and     *)
(* works on tasks that end in SUCCESS (some files possibly rejected) or    *)
(* FAILURE, or do not end.  The code has no use for create-from-files on a *)
(* database that exists, so the model lets it be refused or rebuild it.    *)
(*                                                                         *)
(* _request() reports an error for an HTTP error and for a connection that *)
(* breaks before or after the server has acted.                            *)
(***************************************************************************)
EXTENDS Naturals, Sequences, FiniteSets

CONSTANTS
  Proc,      \* gunicorn workers and agent processes
  Db,        \* database names
  Doc,       \* documents; a document stands for its filename as well
  NoDoc,
  Batches,   \* the resume_ids lists /candidates/save is called with
  MaxPolls,  \* polls that fit in _POLL_TIMEOUT
  MaxAsks,   \* bound on the documents and questions asked for
  MaxFaults  \* bound on errors and process deaths

ASSUME KBAssumption ==
  /\ Db # {}
  /\ NoDoc \notin Doc
  /\ Batches \subseteq Seq(Doc) \ {<<>>}
  /\ {MaxPolls, MaxAsks, MaxFaults} \subseteq Nat

VARIABLES
  kb,      \* [Db -> Database], external
  tasks,   \* the tasks of the knowledge base, external
  call,    \* [Proc -> Call]  the call each process is in
  told,    \* history: [Db -> SUBSET Doc] what callers were told is ingested
  asks,    \* history: [Doc \cup {NoDoc} -> Nat] how often each was asked for
  asked,   \* how many documents and questions were asked for, at most MaxAsks
  faults

vars == <<kb, tasks, call, told, asks, asked, faults>>

Database == [listed    : {"no", "building", "yes"},
             files     : SUBSET Doc,      \* uploaded for create-from-files
             copies    : [Doc -> 0..MaxAsks]]

Task == [kind  : {"add", "create", "qa"},
         db    : Db,
         docs  : SUBSET Doc,
         state : {"pending", "success", "failure"}]

Call == [pc    : {"idle", "resume", "names", "add", "upload", "create", "ask",
                  "poll", "answer", "accepted"},
         db    : Db,
         todo  : Seq(Doc),       \* the documents still to be ingested
         wait  : BOOLEAN,
         task  : 0..MaxAsks,
         polls : 0..MaxPolls,
         saved : SUBSET Doc]

TypeOK ==
  /\ kb \in [Db -> Database]
  /\ tasks \in Seq(Task)
  /\ Len(tasks) <= MaxAsks
  /\ call \in [Proc -> Call]
  /\ told \in [Db -> SUBSET Doc]
  /\ asks \in [Doc \cup {NoDoc} -> 0..MaxAsks]
  /\ asked \in 0..MaxAsks
  /\ faults \in 0..MaxFaults

Idle == [pc |-> "idle", db |-> CHOOSE db \in Db : TRUE, todo |-> <<>>, wait |-> TRUE,
         task |-> 0, polls |-> 0, saved |-> {}]

Init ==
  /\ kb = [db \in Db |-> [listed |-> "no", files |-> {},
                          copies |-> [d \in Doc |-> 0]]]
  /\ tasks = <<>>
  /\ call = [p \in Proc |-> Idle]
  /\ told = [db \in Db |-> {}]
  /\ asks = [d \in Doc \cup {NoDoc} |-> 0]
  /\ asked = 0
  /\ faults = 0

At(p, pc) == call[p].pc = pc

Go(p, pc) == call' = [call EXCEPT ![p].pc = pc]

Fault == faults < MaxFaults /\ faults' = faults + 1

\* What becomes of one _request(): it is answered, or it is an error whose
\* request has or has not reached the knowledge base.
Outcomes == {"answered", "unanswered", "lost"}

Reaches(o) == o # "lost"

Transport(o) == IF o = "answered" THEN UNCHANGED faults ELSE Fault

Occurrences(seq, d) == Cardinality({i \in DOMAIN seq : seq[i] = d})

\* A caller asks for each document of docs, or for an answer (NoDoc).
Ask(docs) ==
  /\ asked + Len(docs) <= MaxAsks
  /\ asked' = asked + Len(docs)
  /\ asks' = [d \in DOMAIN asks |-> asks[d] + Occurrences(docs, d)]
----------------------------------------------------------------------------
(***************************************************************************)
(* The calls.                                                              *)
(***************************************************************************)

\* add_document_to_kb (which always waits) and POST /kb/documents.
AddDocument(p, db, d, wait) ==
  /\ At(p, "idle")
  /\ Ask(<<d>>)
  /\ call' = [call EXCEPT ![p] =
                [Idle EXCEPT !.pc = "names", !.db = db, !.todo = <<d>>, !.wait = wait]]
  /\ UNCHANGED <<kb, tasks, told, faults>>

SaveCandidates(p, db, docs) ==
  /\ At(p, "idle")
  /\ Ask(docs)
  /\ call' = [call EXCEPT ![p] =
                [Idle EXCEPT !.pc = "resume", !.db = db, !.todo = docs]]
  /\ UNCHANGED <<kb, tasks, told, faults>>

\* query_knowledge_base and POST /kb/query.
Query(p, db) ==
  /\ At(p, "idle")
  /\ Ask(<<NoDoc>>)
  /\ call' = [call EXCEPT ![p] = [Idle EXCEPT !.pc = "ask", !.db = db]]
  /\ UNCHANGED <<kb, tasks, told, faults>>

\* One document of the call is done with: the next one follows, if any.
NextDocument(p, ok) ==
  LET c == call[p]
      rest == IF c.todo = <<>> THEN <<>> ELSE Tail(c.todo)
  IN  call' = [call EXCEPT ![p] =
        [c EXCEPT !.pc = IF rest = <<>> THEN "answer" ELSE "resume",
                  !.todo = rest,
                  !.task = 0,
                  !.polls = 0,
                  !.saved = IF ok /\ c.todo # <<>> THEN c.saved \cup {Head(c.todo)}
                            ELSE c.saved]]

\* hh_tools._get("/resumes/<id>"): a resume that cannot be read is skipped.
GetResume(p) ==
  /\ At(p, "resume")
  /\ \/ Go(p, "names")
     \/ NextDocument(p, FALSE)
  /\ UNCHANGED <<kb, tasks, told, asks, asked, faults>>

\* _database_names(): an error reads as "no databases".
ListDatabases(p) ==
  /\ At(p, "names")
  /\ \/ /\ kb[call[p].db].listed # "no"
        /\ Go(p, "add")
        /\ UNCHANGED faults
     \/ /\ kb[call[p].db].listed # "yes"
        /\ Go(p, "upload")
        /\ UNCHANGED faults
     \/ /\ kb[call[p].db].listed = "yes"
        /\ Go(p, "upload")
        /\ Fault
  /\ UNCHANGED <<kb, tasks, told, asks, asked>>

\* The answer names the task, which is polled unless the caller would not wait.
Submitted(p, o) ==
  IF o = "answered"
    THEN call' = [call EXCEPT ![p].pc = IF call[p].wait THEN "poll" ELSE "accepted",
                              ![p].task = Len(tasks) + 1]
    ELSE NextDocument(p, FALSE)

NewTask(kind, db, docs) ==
  tasks' = Append(tasks, [kind |-> kind, db |-> db, docs |-> docs, state |-> "pending"])

\* A mutant of AddFile: a request without an answer is sent again.
AddFileAgain(p, o) ==
  /\ At(p, "add")
  /\ Transport(o)
  /\ IF Reaches(o) THEN NewTask("add", call[p].db, {Head(call[p].todo)})
                   ELSE UNCHANGED tasks
  /\ IF o = "answered" THEN Submitted(p, o) ELSE Go(p, "add")
  /\ UNCHANGED <<kb, told, asks, asked>>

AddFile(p, o) ==
  /\ At(p, "add")
  /\ Transport(o)
  /\ IF Reaches(o) THEN NewTask("add", call[p].db, {Head(call[p].todo)})
                   ELSE UNCHANGED tasks
  /\ Submitted(p, o)
  /\ UNCHANGED <<kb, told, asks, asked>>

Upload(p, o) ==
  /\ At(p, "upload")
  /\ Transport(o)
  /\ kb' = IF Reaches(o)
             THEN [kb EXCEPT ![call[p].db].files = @ \cup {Head(call[p].todo)}]
             ELSE kb
  /\ IF o = "answered" THEN Go(p, "create") ELSE NextDocument(p, FALSE)
  /\ UNCHANGED <<tasks, told, asks, asked>>

CreateFromFiles(p, o) ==
  /\ At(p, "create")
  /\ Transport(o)
  /\ IF Reaches(o)
       THEN /\ NewTask("create", call[p].db, kb[call[p].db].files)
            /\ kb' = [kb EXCEPT ![call[p].db].listed = IF @ = "no" THEN "building" ELSE @]
       ELSE UNCHANGED <<tasks, kb>>
  /\ Submitted(p, o)
  /\ UNCHANGED <<told, asks, asked>>

\* The knowledge base refuses to create a database it has.
CreateRefused(p) ==
  /\ At(p, "create")
  /\ kb[call[p].db].listed # "no"
  /\ NextDocument(p, FALSE)
  /\ UNCHANGED <<kb, tasks, told, asks, asked, faults>>

\* POST /api/qa/ask: an answer, an error, or a task to be polled.
AskQuestion(p, o) ==
  /\ At(p, "ask")
  /\ Transport(o)
  /\ \/ UNCHANGED tasks /\ NextDocument(p, o = "answered")
     \/ Reaches(o) /\ NewTask("qa", call[p].db, {}) /\ Submitted(p, o)
  /\ UNCHANGED <<kb, told, asks, asked>>

\* A mutant of PollEnds: whatever is not a failure is a success.
PollEndsOnAnything(p) ==
  /\ At(p, "poll")
  /\ NextDocument(p, tasks[call[p].task].state # "failure")
  /\ UNCHANGED <<kb, tasks, told, asks, asked, faults>>

\* The end of _poll_task(): it succeeds, or reports FAILURE, an error of a
\* poll, or that its time is up.
PollEnds(p) ==
  /\ At(p, "poll")
  /\ LET state == tasks[call[p].task].state IN
       \/ state # "pending" /\ NextDocument(p, state = "success") /\ UNCHANGED faults
       \/ state = "pending" /\ call[p].polls = MaxPolls
          /\ NextDocument(p, FALSE) /\ UNCHANGED faults
       \/ Fault /\ NextDocument(p, FALSE)
  /\ UNCHANGED <<kb, tasks, told, asks, asked>>

\* Mutants of PollAgain: the time already spent is not counted; the deadline is
\* off by one.
PollAgainForEver(p) ==
  /\ At(p, "poll")
  /\ tasks[call[p].task].state = "pending"
  /\ call' = [call EXCEPT ![p].polls = 0]
  /\ UNCHANGED <<kb, tasks, told, asks, asked, faults>>

PollAgainPastDeadline(p) ==
  /\ At(p, "poll")
  /\ tasks[call[p].task].state = "pending"
  /\ call[p].polls <= MaxPolls
  /\ call' = [call EXCEPT ![p].polls = @ + 1]
  /\ UNCHANGED <<kb, tasks, told, asks, asked, faults>>

PollAgain(p) ==
  /\ At(p, "poll")
  /\ tasks[call[p].task].state = "pending"
  /\ call[p].polls < MaxPolls
  /\ call' = [call EXCEPT ![p].polls = @ + 1]
  /\ UNCHANGED <<kb, tasks, told, asks, asked, faults>>

Answer(p) ==
  /\ At(p, "answer")
  /\ told' = [told EXCEPT ![call[p].db] = @ \cup call[p].saved]
  /\ call' = [call EXCEPT ![p] = Idle]
  /\ UNCHANGED <<kb, tasks, asks, asked, faults>>

\* The caller that got a 202 asks GET /kb/tasks/<id> (or get_kb_task_status)
\* until it has seen the end of the task, or for as long as it likes.
TaskStatus(p) ==
  /\ At(p, "accepted")
  /\ call' = [call EXCEPT ![p] = Idle]
  /\ told' = IF tasks[call[p].task].state = "success"
               THEN [told EXCEPT ![call[p].db] = @ \cup {Head(call[p].todo)}]
               ELSE told
  /\ UNCHANGED <<kb, tasks, asks, asked, faults>>

\* The process is gone: gunicorn's timeout, a watchdog, a crash.
Die(p) ==
  /\ call[p].pc \notin {"idle", "accepted"}
  /\ Fault
  /\ call' = [call EXCEPT ![p] = Idle]
  /\ UNCHANGED <<kb, tasks, told, asks, asked>>
----------------------------------------------------------------------------
(***************************************************************************)
(* The knowledge base.                                                     *)
(***************************************************************************)

\* A create task leaves the database with the files it was built from.
Ingested(task, accepted, copies) ==
  CASE task.kind = "add"    -> [d \in Doc |-> IF d \in accepted THEN copies[d] + 1 ELSE copies[d]]
    [] task.kind = "create" -> [d \in Doc |-> IF d \in accepted THEN 1 ELSE 0]
    [] task.kind = "qa"     -> copies

TaskSucceeds(t) ==
  /\ tasks[t].state = "pending"
  /\ tasks' = [tasks EXCEPT ![t].state = "success"]
  /\ \E accepted \in SUBSET tasks[t].docs :
       kb' = [kb EXCEPT
                ![tasks[t].db].listed = IF tasks[t].kind = "create" THEN "yes" ELSE @,
                ![tasks[t].db].copies = Ingested(tasks[t], accepted, @)]
  /\ UNCHANGED <<call, told, asks, asked, faults>>

TaskFails(t) ==
  /\ tasks[t].state = "pending"
  /\ tasks' = [tasks EXCEPT ![t].state = "failure"]
  /\ kb' = [kb EXCEPT ![tasks[t].db].listed =
              IF tasks[t].kind = "create" /\ @ = "building" THEN "no" ELSE @]
  /\ UNCHANGED <<call, told, asks, asked, faults>>
----------------------------------------------------------------------------
Step(p) ==
  \/ GetResume(p)
  \/ ListDatabases(p)
  \/ \E o \in Outcomes :
       AddFile(p, o) \/ Upload(p, o) \/ CreateFromFiles(p, o) \/ AskQuestion(p, o)
  \/ CreateRefused(p)
  \/ PollEnds(p)
  \/ PollAgain(p)
  \/ Answer(p)

Next ==
  \/ \E p \in Proc :
       \/ \E db \in Db :
            \/ \E d \in Doc, wait \in BOOLEAN : AddDocument(p, db, d, wait)
            \/ \E docs \in Batches : SaveCandidates(p, db, docs)
            \/ Query(p, db)
       \/ Step(p)
       \/ TaskStatus(p)
       \/ Die(p)
  \/ \E t \in DOMAIN tasks : TaskSucceeds(t) \/ TaskFails(t)

\* A process goes on with its call; nothing is assumed of the knowledge base,
\* whose tasks may stay pending for ever.
Spec == Init /\ [][Next]_vars /\ \A p \in Proc : WF_vars(Step(p))
----------------------------------------------------------------------------
(***************************************************************************)
(* Properties.                                                             *)
(***************************************************************************)

\* A caller is told that a document is ingested only when a task has processed
\* it: polling never takes a running, failed or unanswered task for a success,
\* and never another caller's task for its own.
ToldIsProcessed ==
  \A db \in Db : \A d \in told[db] :
    \E t \in DOMAIN tasks :
      tasks[t].db = db /\ d \in tasks[t].docs /\ tasks[t].state = "success"

\* A document is never in a database more often than callers asked for it,
\* though requests get lost on the way there and on the way back.
NoDoubleIngest == \A db \in Db, d \in Doc : kb[db].copies[d] <= asks[d]

\* Every call ends, also when the knowledge base's tasks do not.
CallsEnd ==
  \A p \in Proc : call[p].pc \notin {"idle", "accepted"} ~> call[p].pc \in {"idle", "accepted"}
=============================================================================
