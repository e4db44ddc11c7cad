--------------------------- MODULE KBIngestProofs --------------------------
(***************************************************************************)
(* Proofs about KBIngest, for every set of processes, databases, documents *)
(* and batches, any number of polls, tasks and faults: nobody is told that *)
(* a document is ingested before a task has processed it.                  *)
(***************************************************************************)
EXTENDS KBIngest, SequenceTheorems, TLAPS

Bases == [listed : {"no", "building", "yes"}, files : SUBSET Doc, copies : [Doc -> Nat]]

PCs == {"idle", "resume", "names", "add", "upload", "create", "ask", "poll", "answer", "accepted"}

Calls == [pc : PCs, db : Db, todo : Seq(Doc), wait : BOOLEAN, task : Nat, polls : Nat,
          saved : SUBSET Doc]

\* The documents the tasks ts have processed for the database db.
Processed(db, ts) ==
  {d \in Doc : \E t \in DOMAIN ts : ts[t].db = db /\ d \in ts[t].docs /\ ts[t].state = "success"}

\* What a call c relies on, of the databases k and the tasks ts: a call that
\* polls polls its own task, and this task has the document the call is at.
CallOK(c, k, ts) ==
  /\ c.pc \in {"resume", "names", "add", "upload", "create", "accepted"} => c.todo # <<>>
  /\ c.pc = "ask" => c.wait /\ c.todo = <<>>
  /\ c.pc = "create" => Head(c.todo) \in k[c.db].files
  /\ c.pc \in {"poll", "accepted"} =>
       /\ c.task \in DOMAIN ts
       /\ ts[c.task].db = c.db
       /\ c.todo # <<>> => Head(c.todo) \in ts[c.task].docs
  /\ c.saved \subseteq Processed(c.db, ts)

KBInv ==
  /\ kb \in [Db -> Bases]
  /\ tasks \in Seq(Task)
  /\ call \in [Proc -> Calls]
  /\ told \in [Db -> SUBSET Doc]
  /\ \A p \in Proc : CallOK(call[p], kb, tasks)
  /\ \A db \in Db : told[db] \subseteq Processed(db, tasks)

\* Tasks are not dropped nor rewritten, and what has succeeded stays so.
Kept(ts, ts2) ==
  \A t \in DOMAIN ts :
    /\ t \in DOMAIN ts2
    /\ ts2[t].db = ts[t].db
    /\ ts2[t].docs = ts[t].docs
    /\ ts[t].state = "success" => ts2[t].state = "success"

FilesKept(k, k2) == \A db \in Db : k[db].files \subseteq k2[db].files
----------------------------------------------------------------------------
LEMMA ProcessedGrows ==
  ASSUME NEW ts, NEW ts2, Kept(ts, ts2), NEW db
  PROVE  Processed(db, ts) \subseteq Processed(db, ts2)
  BY DEF Kept, Processed

LEMMA CallStaysOK ==
  ASSUME NEW c \in Calls, NEW k, NEW k2, NEW ts, NEW ts2, Kept(ts, ts2), FilesKept(k, k2),
         CallOK(c, k, ts)
  PROVE  CallOK(c, k2, ts2)
  <1>1. c.saved \subseteq Processed(c.db, ts2)  BY ProcessedGrows DEF CallOK
  <1>2. c.db \in Db  BY DEF Calls
  <1> QED  BY <1>1, <1>2 DEF CallOK, Kept, FilesKept

LEMMA NothingChanges == \A ts, k : Kept(ts, ts) /\ FilesKept(k, k)
  BY DEF Kept, FilesKept

\* A step of the process p to the call c.
LEMMA Moves ==
  ASSUME KBInv, NEW p \in Proc, NEW c \in Calls, call' = [call EXCEPT ![p] = c],
         kb' \in [Db -> Bases], FilesKept(kb, kb'),
         tasks' \in Seq(Task), Kept(tasks, tasks'),
         CallOK(c, kb', tasks'),
         told' \in [Db -> SUBSET Doc],
         \A db \in Db : told'[db] \subseteq Processed(db, tasks')
  PROVE  KBInv'
  <1>1. call' \in [Proc -> Calls]  BY DEF KBInv
  <1>2. ASSUME NEW q \in Proc PROVE CallOK(call'[q], kb', tasks')
    <2>1. CASE q = p  BY <2>1 DEF KBInv
    <2>2. CASE q # p
      <3>1. call'[q] = call[q] /\ call[q] \in Calls  BY <2>2 DEF KBInv
      <3>2. CallOK(call[q], kb, tasks)  BY DEF KBInv
      <3> QED  BY <3>1, <3>2, CallStaysOK
    <2> QED  BY <2>1, <2>2
  <1>3. (\A q \in Proc : CallOK(call[q], kb, tasks))'  BY <1>2 DEF CallOK, Processed
  <1>4. (\A db \in Db : told[db] \subseteq Processed(db, tasks))'  BY DEF Processed
  <1> QED  BY <1>1, <1>3, <1>4 DEF KBInv

\* Nobody is told anything.
LEMMA MovesOn ==
  ASSUME KBInv, NEW p \in Proc, NEW c \in Calls, call' = [call EXCEPT ![p] = c],
         kb' \in [Db -> Bases], FilesKept(kb, kb'),
         tasks' \in Seq(Task), Kept(tasks, tasks'),
         CallOK(c, kb', tasks'), told' = told
  PROVE  KBInv'
  <1>1. \A db \in Db : told'[db] \subseteq Processed(db, tasks')  BY ProcessedGrows DEF KBInv
  <1>2. told' \in [Db -> SUBSET Doc]  BY DEF KBInv
  <1> QED  BY <1>1, <1>2, Moves

LEMMA IdleIsACall ==
  /\ Idle \in Calls
  /\ Idle.pc = "idle" /\ Idle.todo = <<>> /\ Idle.wait /\ Idle.saved = {}
  BY KBAssumption DEF Idle, Calls, PCs

\* The head of what is left to do is a document.
LEMMA TodoHead ==
  ASSUME NEW todo \in Seq(Doc), todo # <<>>
  PROVE  Head(todo) \in Doc /\ Tail(todo) \in Seq(Doc)
  BY HeadTailProperties

LEMMA NextDocumentMoves ==
  ASSUME KBInv, NEW p \in Proc, NEW ok \in BOOLEAN, NextDocument(p, ok),
         kb' \in [Db -> Bases], FilesKept(kb, kb'),
         tasks' \in Seq(Task), Kept(tasks, tasks'), told' = told,
         ok /\ call[p].todo # <<>> =>
           Head(call[p].todo) \in Processed(call[p].db, tasks')
  PROVE  KBInv'
  <1> DEFINE c == call[p]
             rest == IF c.todo = <<>> THEN <<>> ELSE Tail(c.todo)
             pc == IF rest = <<>> THEN "answer" ELSE "resume"
             saved == IF ok /\ c.todo # <<>> THEN c.saved \cup {Head(c.todo)} ELSE c.saved
             next == [c EXCEPT !.pc = pc, !.todo = rest, !.task = 0, !.polls = 0, !.saved = saved]
             n1 == [c EXCEPT !.pc = pc]
             n2 == [n1 EXCEPT !.todo = rest]
             n3 == [n2 EXCEPT !.task = 0]
             n4 == [n3 EXCEPT !.polls = 0]
             n5 == [n4 EXCEPT !.saved = saved]
  <1>1. c \in Calls /\ CallOK(c, kb, tasks)  BY DEF KBInv
  <1>2. call' = [call EXCEPT ![p] = next]  BY DEF NextDocument
  <1>3. next = n5  OBVIOUS
  <1>4. rest \in Seq(Doc)  BY <1>1, TodoHead DEF Calls
  <1>5. saved \in SUBSET Doc  BY <1>1, TodoHead DEF Calls
  <1>6. saved \subseteq Processed(c.db, tasks')  BY <1>1, ProcessedGrows DEF CallOK
  <1>7. pc \in {"resume", "answer"} /\ (pc = "resume" => rest # <<>>)  OBVIOUS
  <1> HIDE DEF rest, pc, saved, next
  <1>8. n1 \in Calls /\ n1.pc = pc /\ n1.db = c.db  BY <1>1, <1>7 DEF Calls, PCs
  <1> HIDE DEF n1
  <1>9. n2 \in Calls /\ n2.pc = pc /\ n2.db = c.db /\ n2.todo = rest
    BY <1>4, <1>8 DEF Calls
  <1> HIDE DEF n2
  <1>10. n3 \in Calls /\ n3.pc = pc /\ n3.db = c.db /\ n3.todo = rest  BY <1>9 DEF Calls
  <1> HIDE DEF n3
  <1>11. n4 \in Calls /\ n4.pc = pc /\ n4.db = c.db /\ n4.todo = rest  BY <1>10 DEF Calls
  <1> HIDE DEF n4
  <1>12. n5 \in Calls /\ n5.pc = pc /\ n5.db = c.db /\ n5.todo = rest /\ n5.saved = saved
    BY <1>5, <1>11 DEF Calls
  <1> HIDE DEF n5
  <1>13. CallOK(next, kb', tasks')  BY <1>3, <1>6, <1>7, <1>12 DEF CallOK
  <1> QED  BY <1>2, <1>3, <1>12, <1>13, MovesOn

\* The process goes on to pc, with its databases, documents and task.
LEMMA GoMoves ==
  ASSUME KBInv, NEW p \in Proc, NEW pc \in PCs, Go(p, pc),
         kb' \in [Db -> Bases], FilesKept(kb, kb'), UNCHANGED <<tasks, told>>,
         pc \in {"names", "add", "upload", "create"}, call[p].todo # <<>>,
         pc = "create" => Head(call[p].todo) \in kb'[call[p].db].files
  PROVE  KBInv'
  <1> DEFINE c == [call[p] EXCEPT !.pc = pc]
  <1>1. call[p] \in Calls /\ CallOK(call[p], kb, tasks)  BY DEF KBInv
  <1>2. call' = [call EXCEPT ![p] = c]  BY DEF Go
  <1>3. c \in Calls /\ c.pc = pc /\ c.db = call[p].db /\ c.todo = call[p].todo
        /\ c.saved = call[p].saved
    BY <1>1 DEF Calls
  <1> HIDE DEF c
  <1>4. CallOK(c, kb', tasks')  BY <1>1, <1>3 DEF CallOK
  <1>5. Kept(tasks, tasks') /\ tasks' \in Seq(Task)  BY NothingChanges DEF KBInv
  <1> QED  BY <1>2, <1>3, <1>4, <1>5, MovesOn

\* A new task is appended to the others.
LEMMA NewTaskKept ==
  ASSUME KBInv, NEW kind \in {"add", "create", "qa"}, NEW db \in Db, NEW docs \in SUBSET Doc,
         NewTask(kind, db, docs)
  PROVE  /\ tasks' \in Seq(Task) /\ Kept(tasks, tasks')
         /\ Len(tasks) + 1 \in DOMAIN tasks'
         /\ tasks'[Len(tasks) + 1].db = db
         /\ tasks'[Len(tasks) + 1].docs = docs
  <1> DEFINE new == [kind |-> kind, db |-> db, docs |-> docs, state |-> "pending"]
  <1>1. new \in Task /\ new.db = db /\ new.docs = docs  BY DEF Task
  <1>2. tasks \in Seq(Task) /\ tasks' = Append(tasks, new)  BY DEF NewTask, KBInv
  <1> HIDE DEF new
  <1>3. /\ tasks' \in Seq(Task) /\ Len(tasks') = Len(tasks) + 1
        /\ \A t \in 1..Len(tasks) : tasks'[t] = tasks[t]
        /\ tasks'[Len(tasks) + 1] = new
    BY <1>1, <1>2, AppendProperties
  <1>4. DOMAIN tasks = 1..Len(tasks) /\ DOMAIN tasks' = 1..Len(tasks') /\ Len(tasks) \in Nat
    BY <1>2, <1>3
  <1> QED  BY <1>1, <1>3, <1>4 DEF Kept

\* The task is accepted, and names the call's document.
LEMMA SubmittedMoves ==
  ASSUME KBInv, NEW p \in Proc, NEW o \in Outcomes, Submitted(p, o),
         kb' \in [Db -> Bases], FilesKept(kb, kb'), told' = told,
         tasks' \in Seq(Task), Kept(tasks, tasks'),
         o = "answered" => /\ Len(tasks) + 1 \in DOMAIN tasks'
                           /\ tasks'[Len(tasks) + 1].db = call[p].db
                           /\ call[p].todo # <<>> =>
                                Head(call[p].todo) \in tasks'[Len(tasks) + 1].docs,
         ~call[p].wait => call[p].todo # <<>>
  PROVE  KBInv'
  <1>1. CASE o # "answered"
    <2>1. NextDocument(p, FALSE)  BY <1>1 DEF Submitted
    <2> QED  BY <2>1, NextDocumentMoves
  <1>2. CASE o = "answered"
    <2> DEFINE pc == IF call[p].wait THEN "poll" ELSE "accepted"
               task == Len(tasks) + 1
               c1 == [call[p] EXCEPT !.pc = pc]
               c == [c1 EXCEPT !.task = task]
    <2>1. call[p] \in Calls /\ CallOK(call[p], kb, tasks) /\ call \in [Proc -> Calls]
      BY DEF KBInv
    <2>2. call' = [call EXCEPT ![p] = [call[p] EXCEPT !.pc = pc, !.task = task]]
      BY <1>2, <2>1 DEF Submitted
    <2>3. [call[p] EXCEPT !.pc = pc, !.task = task] = c  OBVIOUS
    <2>4. pc \in {"poll", "accepted"} /\ (pc = "accepted" => ~call[p].wait)  OBVIOUS
    <2>5. task \in Nat  BY DEF KBInv
    <2> HIDE DEF pc, task
    <2>6. c1 \in Calls /\ c1.pc = pc /\ c1.db = call[p].db /\ c1.todo = call[p].todo
          /\ c1.saved = call[p].saved
      BY <2>1, <2>4 DEF Calls, PCs
    <2> HIDE DEF c1
    <2>7. c \in Calls /\ c.pc = pc /\ c.db = call[p].db /\ c.todo = call[p].todo
          /\ c.saved = call[p].saved /\ c.task = task
      BY <2>5, <2>6 DEF Calls
    <2> HIDE DEF c
    <2>8. call[p].saved \subseteq Processed(call[p].db, tasks')
      BY <2>1, ProcessedGrows DEF CallOK
    <2>9. CallOK(c, kb', tasks')
      BY <1>2, <2>4, <2>7, <2>8 DEF CallOK, task
    <2> QED  BY <2>2, <2>3, <2>7, <2>9, MovesOn
  <1> QED  BY <1>1, <1>2
----------------------------------------------------------------------------
LEMMA InitKBInv == Init => KBInv
  <1> SUFFICES ASSUME Init PROVE KBInv  OBVIOUS
  <1>1. [listed |-> "no", files |-> {}, copies |-> [d \in Doc |-> 0]] \in Bases  BY DEF Bases
  <1>2. kb \in [Db -> Bases]  BY <1>1 DEF Init
  <1>3. tasks = <<>> /\ call = [p \in Proc |-> Idle] /\ told = [db \in Db |-> {}]
    BY DEF Init
  <1>4. CallOK(Idle, kb, tasks)  BY IdleIsACall DEF CallOK
  <1> QED  BY <1>2, <1>3, <1>4, IdleIsACall DEF KBInv

\* A call begins, or the process is gone: it is in the call c.
LEMMA StartMoves ==
  ASSUME KBInv, NEW p \in Proc, NEW c \in Calls, call' = [call EXCEPT ![p] = c],
         UNCHANGED <<kb, tasks, told>>, CallOK(c, kb, tasks)
  PROVE  KBInv'
  <1>1. kb' \in [Db -> Bases] /\ FilesKept(kb, kb')  BY NothingChanges DEF KBInv
  <1>2. tasks' \in Seq(Task) /\ Kept(tasks, tasks')  BY NothingChanges DEF KBInv
  <1> QED  BY <1>1, <1>2, MovesOn

LEMMA AddDocumentInv ==
  ASSUME KBInv, NEW p \in Proc, NEW db \in Db, NEW d \in Doc, NEW wait \in BOOLEAN,
         AddDocument(p, db, d, wait)
  PROVE  KBInv'
  <1> DEFINE todo == <<d>>
             c == [Idle EXCEPT !.pc = "names", !.db = db, !.todo = todo, !.wait = wait]
             c1 == [Idle EXCEPT !.pc = "names"]
             c2 == [c1 EXCEPT !.db = db]
             c3 == [c2 EXCEPT !.todo = todo]
             c4 == [c3 EXCEPT !.wait = wait]
  <1>1. call' = [call EXCEPT ![p] = c] /\ UNCHANGED <<kb, tasks, told>>  BY DEF AddDocument
  <1>2. c = c4  OBVIOUS
  <1>3. todo \in Seq(Doc) /\ todo # <<>>  OBVIOUS
  <1> HIDE DEF c, todo
  <1>4. c1 \in Calls /\ c1.pc = "names" /\ c1.saved = {}  BY IdleIsACall DEF Calls, PCs
  <1> HIDE DEF c1
  <1>5. c2 \in Calls /\ c2.pc = "names" /\ c2.saved = {}  BY <1>4 DEF Calls
  <1> HIDE DEF c2
  <1>6. c3 \in Calls /\ c3.pc = "names" /\ c3.saved = {} /\ c3.todo = todo
    BY <1>5, <1>3 DEF Calls
  <1> HIDE DEF c3
  <1>7. c4 \in Calls /\ c4.pc = "names" /\ c4.saved = {} /\ c4.todo = todo
    BY <1>6 DEF Calls
  <1> HIDE DEF c4
  <1>8. CallOK(c, kb, tasks)  BY <1>2, <1>7, <1>3 DEF CallOK
  <1> QED  BY <1>1, <1>2, <1>7, <1>8, StartMoves

LEMMA SaveCandidatesInv ==
  ASSUME KBInv, NEW p \in Proc, NEW db \in Db, NEW docs \in Batches,
         SaveCandidates(p, db, docs)
  PROVE  KBInv'
  <1> DEFINE c == [Idle EXCEPT !.pc = "resume", !.db = db, !.todo = docs]
             c1 == [Idle EXCEPT !.pc = "resume"]
             c2 == [c1 EXCEPT !.db = db]
             c3 == [c2 EXCEPT !.todo = docs]
  <1>1. call' = [call EXCEPT ![p] = c] /\ UNCHANGED <<kb, tasks, told>>  BY DEF SaveCandidates
  <1>2. c = c3  OBVIOUS
  <1> HIDE DEF c
  <1>3. docs \in Seq(Doc) /\ docs # <<>>  BY KBAssumption
  <1>4. c1 \in Calls /\ c1.pc = "resume" /\ c1.saved = {}  BY IdleIsACall DEF Calls, PCs
  <1> HIDE DEF c1
  <1>5. c2 \in Calls /\ c2.pc = "resume" /\ c2.saved = {}  BY <1>4 DEF Calls
  <1> HIDE DEF c2
  <1>6. c3 \in Calls /\ c3.pc = "resume" /\ c3.saved = {} /\ c3.todo = docs
    BY <1>3, <1>5 DEF Calls
  <1> HIDE DEF c3
  <1>7. CallOK(c, kb, tasks)  BY <1>2, <1>3, <1>6 DEF CallOK
  <1> QED  BY <1>1, <1>2, <1>6, <1>7, StartMoves

LEMMA QueryInv ==
  ASSUME KBInv, NEW p \in Proc, NEW db \in Db, Query(p, db)
  PROVE  KBInv'
  <1> DEFINE c == [Idle EXCEPT !.pc = "ask", !.db = db]
             c1 == [Idle EXCEPT !.pc = "ask"]
             c2 == [c1 EXCEPT !.db = db]
  <1>1. call' = [call EXCEPT ![p] = c] /\ UNCHANGED <<kb, tasks, told>>  BY DEF Query
  <1>2. c = c2  OBVIOUS
  <1> HIDE DEF c
  <1>3. c1 \in Calls /\ c1.pc = "ask" /\ c1.saved = {} /\ c1.wait /\ c1.todo = <<>>
    BY IdleIsACall DEF Calls, PCs
  <1> HIDE DEF c1
  <1>4. c2 \in Calls /\ c2.pc = "ask" /\ c2.saved = {} /\ c2.wait /\ c2.todo = <<>>
    BY <1>3 DEF Calls
  <1> HIDE DEF c2
  <1>5. CallOK(c, kb, tasks)  BY <1>2, <1>4 DEF CallOK
  <1> QED  BY <1>1, <1>2, <1>4, <1>5, StartMoves

LEMMA Steady ==
  ASSUME KBInv
  PROVE  /\ kb' = kb => kb' \in [Db -> Bases] /\ FilesKept(kb, kb')
         /\ tasks' = tasks => tasks' \in Seq(Task) /\ Kept(tasks, tasks')
  BY NothingChanges DEF KBInv

\* What a process at work has to do.
LEMMA AtWork ==
  ASSUME KBInv, NEW p \in Proc
  PROVE  /\ call[p] \in Calls /\ call[p].db \in Db /\ call[p].todo \in Seq(Doc)
         /\ CallOK(call[p], kb, tasks)
         /\ call[p].todo # <<>> => Head(call[p].todo) \in Doc
  <1>1. call[p] \in Calls /\ CallOK(call[p], kb, tasks)  BY DEF KBInv
  <1> QED  BY <1>1, TodoHead DEF Calls

LEMMA GetResumeInv ==
  ASSUME KBInv, NEW p \in Proc, GetResume(p)
  PROVE  KBInv'
  <1>1. At(p, "resume") /\ UNCHANGED <<kb, tasks, told>>  BY DEF GetResume
  <1>2. call[p].todo # <<>>  BY <1>1, AtWork DEF At, CallOK
  <1>3. CASE Go(p, "names")  BY <1>1, <1>2, <1>3, Steady, GoMoves DEF PCs
  <1>4. CASE NextDocument(p, FALSE)  BY <1>1, <1>4, Steady, NextDocumentMoves
  <1> QED  BY <1>3, <1>4 DEF GetResume

LEMMA ListDatabasesInv ==
  ASSUME KBInv, NEW p \in Proc, ListDatabases(p)
  PROVE  KBInv'
  <1>1. At(p, "names") /\ UNCHANGED <<kb, tasks, told>>  BY DEF ListDatabases
  <1>2. call[p].todo # <<>>  BY <1>1, AtWork DEF At, CallOK
  <1>3. CASE Go(p, "add")  BY <1>1, <1>2, <1>3, Steady, GoMoves DEF PCs
  <1>4. CASE Go(p, "upload")  BY <1>1, <1>2, <1>4, Steady, GoMoves DEF PCs
  <1> QED  BY <1>3, <1>4 DEF ListDatabases

LEMMA AddFileInv ==
  ASSUME KBInv, NEW p \in Proc, NEW o \in Outcomes, AddFile(p, o)
  PROVE  KBInv'
  <1> DEFINE c == call[p]
             new == NewTask("add", c.db, {Head(c.todo)})
  <1>1. /\ At(p, "add") /\ UNCHANGED <<kb, told>> /\ Submitted(p, o)
        /\ IF Reaches(o) THEN new ELSE tasks' = tasks
    BY DEF AddFile
  <1>2. c.todo # <<>> /\ Head(c.todo) \in Doc /\ c.db \in Db  BY <1>1, AtWork DEF At, CallOK
  <1>3. new => /\ tasks' \in Seq(Task) /\ Kept(tasks, tasks')
               /\ Len(tasks) + 1 \in DOMAIN tasks'
               /\ tasks'[Len(tasks) + 1].db = c.db
               /\ tasks'[Len(tasks) + 1].docs = {Head(c.todo)}
    BY <1>2, NewTaskKept
  <1>4. o = "answered" => Reaches(o)  BY DEF Reaches
  <1> HIDE DEF new
  <1> QED  BY <1>1, <1>2, <1>3, <1>4, Steady, SubmittedMoves

LEMMA UploadInv ==
  ASSUME KBInv, NEW p \in Proc, NEW o \in Outcomes, Upload(p, o)
  PROVE  KBInv'
  <1> DEFINE c == call[p]
             k == [kb EXCEPT ![c.db].files = @ \cup {Head(c.todo)}]
  <1>1. /\ At(p, "upload") /\ UNCHANGED <<tasks, told>>
        /\ kb' = IF Reaches(o) THEN k ELSE kb
        /\ IF o = "answered" THEN Go(p, "create") ELSE NextDocument(p, FALSE)
    BY DEF Upload
  <1>2. c.todo # <<>> /\ Head(c.todo) \in Doc /\ c.db \in Db  BY <1>1, AtWork DEF At, CallOK
  <1>3. k \in [Db -> Bases] /\ FilesKept(kb, k) /\ Head(c.todo) \in k[c.db].files
    <2> DEFINE b == [kb[c.db] EXCEPT !.files = @ \cup {Head(c.todo)}]
    <2>1. kb \in [Db -> Bases] /\ kb[c.db] \in Bases  BY <1>2 DEF KBInv
    <2>2. b \in Bases /\ b.files = kb[c.db].files \cup {Head(c.todo)}  BY <1>2, <2>1 DEF Bases
    <2>3. k = [kb EXCEPT ![c.db] = b]  BY <2>1
    <2> HIDE DEF b, k
    <2> QED  BY <1>2, <2>1, <2>2, <2>3 DEF FilesKept
  <1> HIDE DEF k
  <1>4. kb' \in [Db -> Bases] /\ FilesKept(kb, kb')  BY <1>1, <1>3, Steady
  <1>5. CASE o = "answered"
    <2>1. Go(p, "create") /\ kb' = k  BY <1>1, <1>5 DEF Reaches
    <2> QED  BY <1>1, <1>2, <1>3, <1>4, <2>1, GoMoves DEF PCs
  <1>6. CASE o # "answered"  BY <1>1, <1>4, <1>6, Steady, NextDocumentMoves
  <1> QED  BY <1>5, <1>6

LEMMA CreateFromFilesInv ==
  ASSUME KBInv, NEW p \in Proc, NEW o \in Outcomes, CreateFromFiles(p, o)
  PROVE  KBInv'
  <1> DEFINE c == call[p]
             new == NewTask("create", c.db, kb[c.db].files)
             k == [kb EXCEPT ![c.db].listed = IF @ = "no" THEN "building" ELSE @]
  <1>1. /\ At(p, "create") /\ told' = told /\ Submitted(p, o)
        /\ IF Reaches(o) THEN new /\ kb' = k ELSE tasks' = tasks /\ kb' = kb
    BY DEF CreateFromFiles
  <1>2. c.todo # <<>> /\ c.db \in Db /\ Head(c.todo) \in kb[c.db].files
    BY <1>1, AtWork DEF At, CallOK
  <1>3. kb \in [Db -> Bases] /\ kb[c.db] \in Bases /\ kb[c.db].files \in SUBSET Doc
    BY <1>2 DEF KBInv, Bases
  <1>4. k \in [Db -> Bases] /\ FilesKept(kb, k)
    <2> DEFINE b == [kb[c.db] EXCEPT !.listed = IF @ = "no" THEN "building" ELSE @]
    <2>1. b \in Bases /\ b.files = kb[c.db].files  BY <1>3 DEF Bases
    <2>2. k = [kb EXCEPT ![c.db] = b]  BY <1>3
    <2> HIDE DEF b, k
    <2> QED  BY <1>2, <1>3, <2>1, <2>2 DEF FilesKept
  <1> HIDE DEF k
  <1>5. new => /\ tasks' \in Seq(Task) /\ Kept(tasks, tasks')
               /\ Len(tasks) + 1 \in DOMAIN tasks'
               /\ tasks'[Len(tasks) + 1].db = c.db
               /\ tasks'[Len(tasks) + 1].docs = kb[c.db].files
    BY <1>2, <1>3, NewTaskKept
  <1>6. o = "answered" => Reaches(o)  BY DEF Reaches
  <1> HIDE DEF new
  <1> QED  BY <1>1, <1>2, <1>4, <1>5, <1>6, Steady, SubmittedMoves

LEMMA AskQuestionInv ==
  ASSUME KBInv, NEW p \in Proc, NEW o \in Outcomes, AskQuestion(p, o)
  PROVE  KBInv'
  <1>1. At(p, "ask") /\ UNCHANGED <<kb, told>>  BY DEF AskQuestion
  <1>2. call[p].wait /\ call[p].todo = <<>> /\ call[p].db \in Db
    BY <1>1, AtWork DEF At, CallOK
  <1>3. CASE tasks' = tasks /\ NextDocument(p, o = "answered")
    BY <1>1, <1>2, <1>3, Steady, NextDocumentMoves
  <1>4. CASE NewTask("qa", call[p].db, {}) /\ Submitted(p, o)
    <2>1. /\ tasks' \in Seq(Task) /\ Kept(tasks, tasks')
          /\ Len(tasks) + 1 \in DOMAIN tasks'
          /\ tasks'[Len(tasks) + 1].db = call[p].db
      BY <1>2, <1>4, NewTaskKept
    <2> QED  BY <1>1, <1>2, <1>4, <2>1, Steady, SubmittedMoves
  <1> QED  BY <1>3, <1>4 DEF AskQuestion

LEMMA PollEndsInv ==
  ASSUME KBInv, NEW p \in Proc, PollEnds(p)
  PROVE  KBInv'
  <1> DEFINE t == call[p].task
  <1>1. At(p, "poll") /\ UNCHANGED <<kb, tasks, told>>  BY DEF PollEnds
  <1>2. /\ t \in DOMAIN tasks /\ tasks[t].db = call[p].db
        /\ call[p].todo # <<>> => Head(call[p].todo) \in tasks[t].docs /\ Head(call[p].todo) \in Doc
    BY <1>1, AtWork DEF At, CallOK
  <1>3. CASE NextDocument(p, tasks[t].state = "success")
    <2>1. tasks[t].state = "success" /\ call[p].todo # <<>> =>
            Head(call[p].todo) \in Processed(call[p].db, tasks')
      BY <1>1, <1>2 DEF Processed
    <2> QED  BY <1>1, <1>3, <2>1, Steady, NextDocumentMoves
  <1>4. CASE NextDocument(p, FALSE)  BY <1>1, <1>4, Steady, NextDocumentMoves
  <1> QED  BY <1>3, <1>4 DEF PollEnds

LEMMA PollAgainInv ==
  ASSUME KBInv, NEW p \in Proc, PollAgain(p)
  PROVE  KBInv'
  <1> DEFINE c == [call[p] EXCEPT !.polls = @ + 1]
  <1>1. call' = [call EXCEPT ![p] = c] /\ UNCHANGED <<kb, tasks, told>>  BY DEF PollAgain
  <1>2. call[p] \in Calls /\ CallOK(call[p], kb, tasks)  BY AtWork
  <1>3. call[p].polls + 1 \in Nat  BY <1>2 DEF Calls
  <1>4. c \in Calls /\ c.pc = call[p].pc /\ c.db = call[p].db /\ c.todo = call[p].todo
        /\ c.saved = call[p].saved /\ c.task = call[p].task /\ c.wait = call[p].wait
    BY <1>2, <1>3 DEF Calls
  <1> HIDE DEF c
  <1>5. CallOK(c, kb, tasks)  BY <1>2, <1>4 DEF CallOK
  <1> QED  BY <1>1, <1>4, <1>5, StartMoves

LEMMA IdleIsOK == \A k, ts : CallOK(Idle, k, ts)
  BY IdleIsACall DEF CallOK

LEMMA AnswerInv ==
  ASSUME KBInv, NEW p \in Proc, Answer(p)
  PROVE  KBInv'
  <1>1. /\ told' = [told EXCEPT ![call[p].db] = @ \cup call[p].saved]
        /\ call' = [call EXCEPT ![p] = Idle] /\ UNCHANGED <<kb, tasks>>
    BY DEF Answer
  <1>2. call[p].db \in Db /\ call[p].saved \subseteq Processed(call[p].db, tasks)
    BY AtWork DEF CallOK
  <1>3. call[p].saved \subseteq Doc  BY AtWork DEF Calls
  <1>4. told' \in [Db -> SUBSET Doc] /\ \A db \in Db : told'[db] \subseteq Processed(db, tasks')
    BY <1>1, <1>2, <1>3 DEF KBInv
  <1>5. CallOK(Idle, kb', tasks')  BY IdleIsOK
  <1> QED  BY <1>1, <1>4, <1>5, IdleIsACall, Steady, Moves

LEMMA TaskStatusInv ==
  ASSUME KBInv, NEW p \in Proc, TaskStatus(p)
  PROVE  KBInv'
  <1> DEFINE t == call[p].task
             d == Head(call[p].todo)
             db == call[p].db
  <1>1. /\ At(p, "accepted") /\ call' = [call EXCEPT ![p] = Idle] /\ UNCHANGED <<kb, tasks>>
        /\ told' = IF tasks[t].state = "success" THEN [told EXCEPT ![db] = @ \cup {d}] ELSE told
    BY DEF TaskStatus
  <1>2. t \in DOMAIN tasks /\ tasks[t].db = db /\ d \in tasks[t].docs /\ d \in Doc /\ db \in Db
    BY <1>1, AtWork DEF At, CallOK
  <1>3. tasks[t].state = "success" => d \in Processed(db, tasks)  BY <1>2 DEF Processed
  <1> HIDE DEF t, d, db
  <1>4. told' \in [Db -> SUBSET Doc] /\ \A b \in Db : told'[b] \subseteq Processed(b, tasks')
    BY <1>1, <1>2, <1>3 DEF KBInv
  <1>5. CallOK(Idle, kb', tasks')  BY IdleIsOK
  <1> QED  BY <1>1, <1>4, <1>5, IdleIsACall, Steady, Moves

\* A task ends in the knowledge base, all calls stay where they are.
LEMMA TaskEnds ==
  ASSUME KBInv, UNCHANGED <<call, told>>,
         kb' \in [Db -> Bases], FilesKept(kb, kb'), tasks' \in Seq(Task), Kept(tasks, tasks')
  PROVE  KBInv'
  <1>1. ASSUME NEW p \in Proc PROVE CallOK(call[p], kb', tasks')
    BY AtWork, CallStaysOK
  <1>2. \A db \in Db : told'[db] \subseteq Processed(db, tasks')  BY ProcessedGrows DEF KBInv
  <1>3. (\A p \in Proc : CallOK(call[p], kb, tasks))'  BY <1>1 DEF CallOK, Processed
  <1>4. (\A db \in Db : told[db] \subseteq Processed(db, tasks))'  BY <1>2 DEF Processed
  <1> QED  BY <1>3, <1>4 DEF KBInv

LEMMA EndedTaskKept ==
  ASSUME KBInv, NEW t \in DOMAIN tasks, NEW state \in {"success", "failure"},
         tasks[t].state = "pending", tasks' = [tasks EXCEPT ![t].state = state]
  PROVE  tasks' \in Seq(Task) /\ Kept(tasks, tasks')
  <1> DEFINE e == [tasks[t] EXCEPT !.state = state]
  <1>1. tasks \in Seq(Task) /\ tasks[t] \in Task /\ t \in 1..Len(tasks)  BY DEF KBInv
  <1>2. e \in Task /\ e.db = tasks[t].db /\ e.docs = tasks[t].docs  BY <1>1 DEF Task
  <1>3. tasks' = [tasks EXCEPT ![t] = e]  BY <1>1
  <1> HIDE DEF e
  <1>4. tasks' \in Seq(Task) /\ DOMAIN tasks' = DOMAIN tasks /\ tasks'[t] = e
        /\ \A s \in DOMAIN tasks : s # t => tasks'[s] = tasks[s]
    BY <1>1, <1>2, <1>3
  <1> QED  BY <1>2, <1>4 DEF Kept

LEMMA TaskSucceedsInv ==
  ASSUME KBInv, NEW t \in DOMAIN tasks, TaskSucceeds(t)
  PROVE  KBInv'
  <1> DEFINE db == tasks[t].db
  <1>1. tasks' \in Seq(Task) /\ Kept(tasks, tasks')  BY EndedTaskKept DEF TaskSucceeds
  <1>2. PICK accepted \in SUBSET tasks[t].docs :
          kb' = [kb EXCEPT
                   ![db].listed = IF tasks[t].kind = "create" THEN "yes" ELSE @,
                   ![db].copies = Ingested(tasks[t], accepted, @)]
    BY DEF TaskSucceeds
  <1>3. tasks[t] \in Task  BY DEF KBInv
  <1>4. db \in Db /\ tasks[t].kind \in {"add", "create", "qa"}  BY <1>3 DEF Task
  <1>5. kb \in [Db -> Bases] /\ kb[db] \in Bases  BY <1>4 DEF KBInv
  <1> DEFINE listed == IF tasks[t].kind = "create" THEN "yes" ELSE kb[db].listed
             b1 == [kb[db] EXCEPT !.listed = listed]
             copies == Ingested(tasks[t], accepted, b1.copies)
             b == [b1 EXCEPT !.copies = copies]
  <1>6. kb' = [kb EXCEPT ![db] = b]  BY <1>2, <1>4, <1>5
  <1>7. listed \in {"no", "building", "yes"}  BY <1>5 DEF Bases
  <1> HIDE DEF listed, db
  <1>8. b1 \in Bases /\ b1.files = kb[db].files  BY <1>5, <1>7 DEF Bases
  <1> HIDE DEF b1
  <1>9. copies \in [Doc -> Nat]
    <2>1. b1.copies \in [Doc -> Nat]  BY <1>8 DEF Bases
    <2> QED  BY <1>4, <2>1 DEF Ingested
  <1> HIDE DEF copies
  <1>10. b \in Bases /\ b.files = kb[db].files  BY <1>8, <1>9 DEF Bases
  <1> HIDE DEF b
  <1>11. kb' \in [Db -> Bases] /\ FilesKept(kb, kb')
    BY <1>4, <1>5, <1>6, <1>10 DEF FilesKept
  <1> QED  BY <1>1, <1>11, TaskEnds DEF TaskSucceeds

LEMMA TaskFailsInv ==
  ASSUME KBInv, NEW t \in DOMAIN tasks, TaskFails(t)
  PROVE  KBInv'
  <1> DEFINE db == tasks[t].db
             b == [kb[db] EXCEPT !.listed =
                     IF tasks[t].kind = "create" /\ @ = "building" THEN "no" ELSE @]
  <1>1. tasks' \in Seq(Task) /\ Kept(tasks, tasks')  BY EndedTaskKept DEF TaskFails
  <1>2. db \in Db
    <2>1. tasks[t] \in Task  BY DEF KBInv
    <2> QED  BY <2>1 DEF Task
  <1>3. kb \in [Db -> Bases] /\ kb[db] \in Bases  BY <1>2 DEF KBInv
  <1>4. b \in Bases /\ b.files = kb[db].files  BY <1>3 DEF Bases
  <1>5. kb' = [kb EXCEPT ![db] = b]  BY <1>3 DEF TaskFails
  <1> HIDE DEF b, db
  <1>6. kb' \in [Db -> Bases] /\ FilesKept(kb, kb')  BY <1>2, <1>3, <1>4, <1>5 DEF FilesKept
  <1> QED  BY <1>1, <1>6, TaskEnds DEF TaskFails

LEMMA StepInv ==
  ASSUME KBInv, NEW p \in Proc, Step(p)
  PROVE  KBInv'
  <1>1. CASE CreateRefused(p)
    <2>1. NextDocument(p, FALSE) /\ UNCHANGED <<kb, tasks, told>>  BY <1>1 DEF CreateRefused
    <2> QED  BY <2>1, Steady, NextDocumentMoves
  <1>2. ASSUME NEW o \in Outcomes,
               AddFile(p, o) \/ Upload(p, o) \/ CreateFromFiles(p, o) \/ AskQuestion(p, o)
        PROVE  KBInv'
    BY <1>2, AddFileInv, UploadInv, CreateFromFilesInv, AskQuestionInv
  <1> QED
    BY <1>1, <1>2, GetResumeInv, ListDatabasesInv, PollEndsInv, PollAgainInv, AnswerInv DEF Step

LEMMA NextKBInv == KBInv /\ [Next]_vars => KBInv'
  <1> SUFFICES ASSUME KBInv, [Next]_vars PROVE KBInv'  OBVIOUS
  <1>1. ASSUME NEW p \in Proc, NEW db \in Db,
               \/ \E d \in Doc, wait \in BOOLEAN : AddDocument(p, db, d, wait)
               \/ \E docs \in Batches : SaveCandidates(p, db, docs)
               \/ Query(p, db)
        PROVE  KBInv'
    BY <1>1, AddDocumentInv, SaveCandidatesInv, QueryInv
  <1>2. ASSUME NEW p \in Proc, Die(p) PROVE KBInv'
    <2>1. call' = [call EXCEPT ![p] = Idle] /\ UNCHANGED <<kb, tasks, told>>  BY <1>2 DEF Die
    <2> QED  BY <2>1, IdleIsACall, IdleIsOK, StartMoves
  <1>3. CASE UNCHANGED vars
    BY <1>3 DEF vars, KBInv, CallOK, Processed
  <1> QED
    BY <1>1, <1>2, <1>3, StepInv, TaskStatusInv, TaskSucceedsInv, TaskFailsInv DEF Next

\* The inductive invariant: every call polls its own task, and whatever a call
\* has counted as saved has been processed.
THEOREM CallsAreSound == Spec => []KBInv
  BY InitKBInv, NextKBInv, PTL DEF Spec

\* A caller is told that a document is ingested only when a task for it has
\* succeeded (tools/kb_tools.py, _poll_task and kb_add_document; api_v1.py,
\* candidates_save and kb_task_status).
THEOREM ToldMeansProcessed == Spec => []ToldIsProcessed
  <1>1. KBInv => ToldIsProcessed  BY DEF KBInv, ToldIsProcessed, Processed
  <1> QED  BY <1>1, CallsAreSound, PTL
=============================================================================
