----------------------- MODULE KBIngestCountProofs -------------------------
(***************************************************************************)
(* Proofs about KBIngest by counting: a document is never in a database    *)
(* more often than callers asked for it, and the types of all variables.   *)
(*                                                                         *)
(* Each time a document is asked for pays for one of three things: a place *)
(* in the list of a call that has still to send it, an add task, or the    *)
(* file it was uploaded to.  A request that is lost or unanswered gives up *)
(* the place, whatever it has done, and no step takes two for one.         *)
(***************************************************************************)
EXTENDS KBIngestProofs, FiniteSetTheorems

\* The documents of a call that have not been sent.  They are counted from the
\* end of todo, so that the others keep their number when the head is dropped.
Left(c) == IF c.pc \in {"create", "poll", "accepted"} THEN Len(c.todo) - 1 ELSE Len(c.todo)

Wanted(c, db, d) == {j \in 1..Left(c) : c.db = db /\ c.todo[Len(c.todo) + 1 - j] = d}

\* The tasks a call may still begin.
Due(c) == CASE c.pc = "ask"                    -> {1}
            [] c.pc \in {"poll", "accepted"} -> 1..(Len(c.todo) - 1)
            [] OTHER                           -> 1..Len(c.todo)

\* The places S[p] of all processes.
Places(S) == {x \in Proc \X Nat : x[2] \in S[x[1]]}

Wanting(cs, db, d) == Places([p \in Proc |-> Wanted(cs[p], db, d)])

Owing(cs) == Places([p \in Proc |-> Due(cs[p])])

Adding(ts, db, d) == {t \in DOMAIN ts : ts[t].kind = "add" /\ ts[t].db = db /\ d \in ts[t].docs}

Added(ts, db, d) == {t \in Adding(ts, db, d) : ts[t].state = "success"}

Stored(k, db, d) == IF d \in k[db].files THEN 1 ELSE 0

DocsCounted(cs, ts, k, ak) ==
  \A db \in Db, d \in Doc :
    /\ IsFiniteSet(Wanting(cs, db, d))
    /\ Cardinality(Wanting(cs, db, d)) + Cardinality(Adding(ts, db, d)) + Stored(k, db, d) <= ak[d]

CopiesCounted(ts, k) ==
  \A db \in Db, d \in Doc :
    k[db].copies[d] <= Cardinality(Added(ts, db, d)) + Stored(k, db, d)

CreatesStored(ts, k) ==
  \A t \in DOMAIN ts : ts[t].kind = "create" => ts[t].docs \subseteq k[ts[t].db].files

TasksCounted(cs, ts, n) ==
  /\ IsFiniteSet(Owing(cs))
  /\ Len(ts) + Cardinality(Owing(cs)) <= n

Bounded(c, ts) == c.task <= Len(ts) /\ c.polls <= MaxPolls

CountInv ==
  /\ asks \in [Doc \cup {NoDoc} -> Nat]
  /\ asked \in 0..MaxAsks
  /\ faults \in 0..MaxFaults
  /\ \A d \in Doc \cup {NoDoc} : asks[d] <= asked
  /\ \A p \in Proc : Bounded(call[p], tasks)
  /\ DocsCounted(call, tasks, kb, asks)
  /\ CopiesCounted(tasks, kb)
  /\ CreatesStored(tasks, kb)
  /\ TasksCounted(call, tasks, asked)
----------------------------------------------------------------------------
(***************************************************************************)
(* Counting.                                                               *)
(***************************************************************************)

\* Only the places of p change, from S[p] to T[p].
LEMMA PlacesLost ==
  ASSUME NEW p \in Proc, NEW S, NEW T, \A q \in Proc : q # p => T[q] = S[q],
         T[p] \subseteq S[p], IsFiniteSet(Places(S))
  PROVE  /\ IsFiniteSet(Places(T)) /\ Cardinality(Places(T)) \in Nat
         /\ Cardinality(Places(S)) \in Nat
         /\ Cardinality(Places(T)) <= Cardinality(Places(S))
         /\ \A j \in S[p] : j \in Nat /\ j \notin T[p] =>
              Cardinality(Places(T)) + 1 <= Cardinality(Places(S))
  <1>1. Places(T) \subseteq Places(S)
    <2> SUFFICES ASSUME NEW x \in Places(T) PROVE x \in Places(S)  OBVIOUS
    <2>1. x \in Proc \X Nat /\ x[2] \in T[x[1]] /\ x[1] \in Proc  BY DEF Places
    <2>2. CASE x[1] = p  BY <2>1, <2>2 DEF Places
    <2>3. CASE x[1] # p  BY <2>1, <2>3 DEF Places
    <2> QED  BY <2>2, <2>3
  <1>2. /\ IsFiniteSet(Places(T))
        /\ Cardinality(Places(T)) <= Cardinality(Places(S))
        /\ Cardinality(Places(S)) = Cardinality(Places(T)) => Places(S) = Places(T)
    BY <1>1, FS_Subset
  <1>3. Cardinality(Places(T)) \in Nat /\ Cardinality(Places(S)) \in Nat
    BY <1>2, FS_CardinalityType
  <1>4. ASSUME NEW j \in S[p], j \in Nat, j \notin T[p]
        PROVE  Cardinality(Places(T)) + 1 <= Cardinality(Places(S))
    <2> DEFINE x == <<p, j>>
    <2>1. x \in Proc \X Nat /\ x[1] = p /\ x[2] = j  BY <1>4
    <2>2. x \in Places(S) /\ x \notin Places(T)  BY <1>4, <2>1 DEF Places
    <2> QED  BY <1>2, <1>3, <2>2
  <1> QED  BY <1>2, <1>3, <1>4

LEMMA PlacesGained ==
  ASSUME NEW p \in Proc, NEW S, NEW T, \A q \in Proc : q # p => T[q] = S[q],
         T[p] \subseteq Nat, IsFiniteSet(T[p]), IsFiniteSet(Places(S))
  PROVE  /\ IsFiniteSet(Places(T)) /\ Cardinality(Places(T)) \in Nat
         /\ Cardinality(Places(S)) \in Nat /\ Cardinality(T[p]) \in Nat
         /\ Cardinality(Places(T)) <= Cardinality(Places(S)) + Cardinality(T[p])
  <1> DEFINE New == {p} \X T[p]
  <1>1. IsFiniteSet({p}) /\ Cardinality({p}) = 1  BY FS_Singleton
  <1>2. Cardinality(T[p]) \in Nat /\ Cardinality(Places(S)) \in Nat  BY FS_CardinalityType
  <1>3. IsFiniteSet(New) /\ Cardinality(New) = Cardinality({p}) * Cardinality(T[p])
    BY <1>1, FS_Product
  <1>4. Cardinality(New) = Cardinality(T[p])  BY <1>1, <1>2, <1>3
  <1>5. Places(T) \subseteq Places(S) \cup New
    <2> SUFFICES ASSUME NEW x \in Places(T) PROVE x \in Places(S) \cup New  OBVIOUS
    <2>1. x \in Proc \X Nat /\ x[2] \in T[x[1]] /\ x[1] \in Proc  BY DEF Places
    <2>2. CASE x[1] = p  BY <2>1, <2>2
    <2>3. CASE x[1] # p  BY <2>1, <2>3 DEF Places
    <2> QED  BY <2>2, <2>3
  <1> HIDE DEF New
  <1>6. IsFiniteSet(Places(S) \cap New) /\ Cardinality(Places(S) \cap New) \in Nat
    BY <1>3, FS_Intersection, FS_CardinalityType
  <1>7. /\ IsFiniteSet(Places(S) \cup New)
        /\ Cardinality(Places(S) \cup New)
             = Cardinality(Places(S)) + Cardinality(New) - Cardinality(Places(S) \cap New)
    BY <1>3, FS_Union
  <1>8. IsFiniteSet(Places(T)) /\ Cardinality(Places(T)) <= Cardinality(Places(S) \cup New)
    BY <1>5, <1>7, FS_Subset
  <1>9. Cardinality(Places(T)) \in Nat /\ Cardinality(Places(S) \cup New) \in Nat
    BY <1>7, <1>8, FS_CardinalityType
  <1> QED  BY <1>2, <1>4, <1>6, <1>7, <1>8, <1>9

\* The tasks are finitely many.
LEMMA AddingFinite ==
  ASSUME NEW ts \in Seq(Task), NEW db, NEW d
  PROVE  /\ IsFiniteSet(Adding(ts, db, d)) /\ Cardinality(Adding(ts, db, d)) \in Nat
         /\ IsFiniteSet(Added(ts, db, d)) /\ Cardinality(Added(ts, db, d)) \in Nat
         /\ Cardinality(Added(ts, db, d)) <= Cardinality(Adding(ts, db, d))
  <1>1. Len(ts) \in Nat /\ DOMAIN ts = 1..Len(ts)  OBVIOUS
  <1>2. IsFiniteSet(1..Len(ts))  BY <1>1, FS_Interval
  <1>3. Adding(ts, db, d) \subseteq 1..Len(ts) /\ Added(ts, db, d) \subseteq Adding(ts, db, d)
    BY <1>1 DEF Adding, Added
  <1>4. IsFiniteSet(Adding(ts, db, d))  BY <1>2, <1>3, FS_Subset
  <1>5. /\ IsFiniteSet(Added(ts, db, d))
        /\ Cardinality(Added(ts, db, d)) <= Cardinality(Adding(ts, db, d))
    BY <1>3, <1>4, FS_Subset
  <1> QED  BY <1>4, <1>5, FS_CardinalityType

LEMMA OccurrencesCount ==
  ASSUME NEW docs \in Seq(Doc \cup {NoDoc}), NEW d
  PROVE  /\ IsFiniteSet({i \in DOMAIN docs : docs[i] = d})
         /\ Occurrences(docs, d) \in Nat /\ Occurrences(docs, d) <= Len(docs)
  <1>1. Len(docs) \in Nat /\ DOMAIN docs = 1..Len(docs)  OBVIOUS
  <1>2. IsFiniteSet(1..Len(docs)) /\ Cardinality(1..Len(docs)) = Len(docs)
    BY <1>1, FS_Interval
  <1>3. {i \in DOMAIN docs : docs[i] = d} \subseteq 1..Len(docs)  BY <1>1
  <1>4. /\ IsFiniteSet({i \in DOMAIN docs : docs[i] = d})
        /\ Cardinality({i \in DOMAIN docs : docs[i] = d}) <= Len(docs)
    BY <1>2, <1>3, FS_Subset
  <1> QED  BY <1>4, FS_CardinalityType DEF Occurrences
----------------------------------------------------------------------------
(***************************************************************************)
(* What becomes of a call's places.                                        *)
(***************************************************************************)

\* The call n has no place that c has not.
Within(n, c) ==
  /\ \A db \in Db, d \in Doc : Wanted(n, db, d) \subseteq Wanted(c, db, d)
  /\ Due(n) \subseteq Due(c)

\* The call n is done with the head of what c has to do.
Past(n, c) ==
  /\ Within(n, c)
  /\ Len(c.todo) \notin Due(n)
  /\ c.todo = <<>> => Due(n) = {}
  /\ \A db \in Db, d \in Doc : Len(c.todo) \notin Wanted(n, db, d)

\* The head's place.
LEMMA HeadPlace ==
  ASSUME NEW c \in Calls, c.todo # <<>>
  PROVE  /\ Len(c.todo) \in Nat \ {0} /\ Head(c.todo) \in Doc
         /\ c.pc \in {"add", "upload"} => Len(c.todo) \in Wanted(c, c.db, Head(c.todo))
         /\ c.pc \in {"add", "create"} => Len(c.todo) \in Due(c)
  <1>1. c.todo \in Seq(Doc) /\ Len(c.todo) \in Nat /\ Len(c.todo) # 0  BY DEF Calls
  <1>2. Head(c.todo) = c.todo[1] /\ Head(c.todo) \in Doc  BY <1>1, TodoHead, HeadTailProperties
  <1>3. c.pc \in {"add", "upload"} => Left(c) = Len(c.todo)  BY DEF Left
  <1>4. Len(c.todo) + 1 - Len(c.todo) = 1  BY <1>1
  <1> QED  BY <1>1, <1>2, <1>3, <1>4 DEF Wanted, Due

\* A call with the same todo in a later position of its loop.
LEMMA LaterInLoop ==
  ASSUME NEW c \in Calls, NEW n, n.todo = c.todo, n.db = c.db,
         n.pc \in {"names", "add", "upload", "create", "poll", "accepted"},
         c.pc \in {"resume", "names", "add", "upload", "create", "ask", "poll", "accepted"},
         n.pc = "create" => c.pc \notin {"poll", "accepted"},
         c.pc = "ask" => n.pc \in {"poll", "accepted"} /\ c.todo = <<>>,
         c.pc \in {"create", "poll", "accepted"} => n.pc \in {"create", "poll", "accepted"},
         c.pc \in {"poll", "accepted"} => n.pc \in {"poll", "accepted"}
  PROVE  Within(n, c)
  <1>1. c.todo \in Seq(Doc) /\ Len(c.todo) \in Nat  BY DEF Calls
  <1>2. Left(n) \in Int /\ Left(c) \in Int /\ (c.pc # "ask" => Left(n) <= Left(c))
    BY <1>1 DEF Left
  <1>3. c.pc = "ask" => Left(n) = -1  BY <1>1 DEF Left
  <1>4. \A db \in Db, d \in Doc : Wanted(n, db, d) \subseteq Wanted(c, db, d)
    BY <1>1, <1>2, <1>3 DEF Wanted
  <1>5. Due(n) \subseteq Due(c)
    <2>1. CASE c.pc = "ask"  BY <1>1, <2>1 DEF Due
    <2>2. CASE c.pc \in {"poll", "accepted"}  BY <2>2 DEF Due
    <2>3. CASE c.pc \notin {"ask", "poll", "accepted"}  BY <1>1, <2>3 DEF Due
    <2> QED  BY <2>1, <2>2, <2>3
  <1> QED  BY <1>4, <1>5 DEF Within

\* A call whose task has been submitted is past the head.
LEMMA SubmittedIsPast ==
  ASSUME NEW c \in Calls, NEW n, n.todo = c.todo, n.db = c.db,
         n.pc \in {"poll", "accepted"}, c.pc \in {"add", "create", "ask"},
         c.pc = "ask" => c.todo = <<>>
  PROVE  Past(n, c)
  <1>1. Within(n, c)  BY LaterInLoop
  <1>2. c.todo \in Seq(Doc) /\ Len(c.todo) \in Nat  BY DEF Calls
  <1>3. Len(c.todo) \notin Due(n) /\ (c.todo = <<>> => Due(n) = {})  BY <1>2 DEF Due
  <1>4. \A db \in Db, d \in Doc : Len(c.todo) \notin Wanted(n, db, d)  BY <1>2 DEF Wanted, Left
  <1> QED  BY <1>1, <1>3, <1>4 DEF Past

LEMMA UploadedIsPast ==
  ASSUME NEW c \in Calls, NEW n, n.todo = c.todo, n.db = c.db,
         n.pc = "create", c.pc = "upload"
  PROVE  /\ Within(n, c)
         /\ \A db \in Db, d \in Doc : Len(c.todo) \notin Wanted(n, db, d)
  <1>1. Within(n, c)  BY LaterInLoop
  <1>2. c.todo \in Seq(Doc) /\ Len(c.todo) \in Nat  BY DEF Calls
  <1> QED  BY <1>1, <1>2 DEF Wanted, Left

\* So is a call that has gone on with the rest.
LEMMA RestIsPast ==
  ASSUME NEW c \in Calls, NEW n, n.db = c.db, n.pc \in {"answer", "resume"},
         n.todo = IF c.todo = <<>> THEN <<>> ELSE Tail(c.todo),
         c.pc = "ask" => c.todo = <<>>
  PROVE  Past(n, c)
  <1>1. c.todo \in Seq(Doc) /\ Len(c.todo) \in Nat  BY DEF Calls
  <1>2. CASE c.todo = <<>>
    <2>1. Len(n.todo) = 0 /\ Len(c.todo) = 0  BY <1>2
    <2>2. Left(n) = 0 /\ Due(n) = {}  BY <2>1 DEF Left, Due
    <2> QED  BY <2>2 DEF Wanted, Past, Within
  <1>3. CASE c.todo # <<>>
    <2>1. n.todo = Tail(c.todo) /\ Len(c.todo) # 0  BY <1>1, <1>3
    <2>2. /\ Len(n.todo) = Len(c.todo) - 1 /\ n.todo \in Seq(Doc)
          /\ \A i \in 1..Len(n.todo) : n.todo[i] = c.todo[i + 1]
      BY <1>1, <1>3, <2>1, HeadTailProperties
    <2>3. Left(n) = Len(c.todo) - 1 /\ Left(c) >= Len(c.todo) - 1 /\ Left(c) \in Int
      BY <1>1, <2>2 DEF Left
    <2>4. Due(n) = 1..(Len(c.todo) - 1)  BY <2>2 DEF Due
    <2>5. Due(n) \subseteq Due(c)  BY <1>1, <1>3, <2>4 DEF Due
    <2>6. ASSUME NEW db \in Db, NEW d \in Doc, NEW j \in Wanted(n, db, d)
          PROVE  j \in Wanted(c, db, d) /\ j # Len(c.todo)
      <3>1. j \in 1..(Len(c.todo) - 1) /\ c.db = db /\ n.todo[Len(n.todo) + 1 - j] = d
        BY <2>3 DEF Wanted
      <3>2. n.todo[Len(n.todo) + 1 - j] = c.todo[Len(c.todo) + 1 - j]
        <4> DEFINE i == Len(c.todo) - j
        <4>1. i \in 1..Len(n.todo) /\ i + 1 = Len(c.todo) + 1 - j /\ i = Len(n.todo) + 1 - j
          BY <1>1, <2>2, <3>1
        <4> HIDE DEF i
        <4> QED  BY <2>2, <4>1
      <3> QED  BY <1>1, <2>3, <3>1, <3>2 DEF Wanted
    <2>7. Len(c.todo) \notin Due(n)  BY <1>1, <2>4
    <2> QED  BY <1>3, <2>5, <2>6, <2>7 DEF Past, Within
  <1> QED  BY <1>2, <1>3

\* An idle process has no place.
LEMMA IdleHasNoPlace ==
  ASSUME NEW c \in Calls
  PROVE  Past(Idle, c)
  <1>1. Due(Idle) = {} /\ Left(Idle) = 0  BY IdleIsACall DEF Due, Left
  <1> QED  BY <1>1 DEF Past, Within, Wanted
----------------------------------------------------------------------------
(***************************************************************************)
(* Steps.                                                                  *)
(***************************************************************************)

\* A process moves from cs[p] to n.
LEMMA WantingLess ==
  ASSUME NEW cs \in [Proc -> Calls], NEW p \in Proc, NEW n, NEW db \in Db, NEW d \in Doc,
         Within(n, cs[p]), IsFiniteSet(Wanting(cs, db, d))
  PROVE  LET cs2 == [cs EXCEPT ![p] = n] IN
         /\ IsFiniteSet(Wanting(cs2, db, d))
         /\ Cardinality(Wanting(cs2, db, d)) \in Nat /\ Cardinality(Wanting(cs, db, d)) \in Nat
         /\ Cardinality(Wanting(cs2, db, d)) <= Cardinality(Wanting(cs, db, d))
         /\ \A j \in Wanted(cs[p], db, d) :
              j \notin Wanted(n, db, d) =>
                Cardinality(Wanting(cs2, db, d)) + 1 <= Cardinality(Wanting(cs, db, d))
  <1> DEFINE cs2 == [cs EXCEPT ![p] = n]
             S == [q \in Proc |-> Wanted(cs[q], db, d)]
             T == [q \in Proc |-> Wanted(cs2[q], db, d)]
  <1>1. Wanting(cs, db, d) = Places(S) /\ Wanting(cs2, db, d) = Places(T)  BY DEF Wanting
  <1>2. cs2[p] = n /\ \A q \in Proc : q # p => cs2[q] = cs[q]  OBVIOUS
  <1> HIDE DEF cs2
  <1>3. S[p] = Wanted(cs[p], db, d) /\ T[p] = Wanted(n, db, d)  BY <1>2
  <1>4. \A q \in Proc : q # p => T[q] = S[q]  BY <1>2
  <1>5. T[p] \subseteq S[p]  BY <1>3 DEF Within
  <1>6. \A j \in S[p] : j \in Nat  BY <1>3 DEF Wanted
  <1> HIDE DEF S, T
  <1>7. /\ IsFiniteSet(Places(T)) /\ Cardinality(Places(T)) \in Nat
        /\ Cardinality(Places(S)) \in Nat
        /\ Cardinality(Places(T)) <= Cardinality(Places(S))
        /\ \A j \in S[p] : j \in Nat /\ j \notin T[p] =>
              Cardinality(Places(T)) + 1 <= Cardinality(Places(S))
    BY <1>1, <1>4, <1>5, PlacesLost
  <1> QED  BY <1>1, <1>3, <1>6, <1>7 DEF cs2

LEMMA OwingLess ==
  ASSUME NEW cs \in [Proc -> Calls], NEW p \in Proc, NEW n,
         Within(n, cs[p]), IsFiniteSet(Owing(cs))
  PROVE  LET cs2 == [cs EXCEPT ![p] = n] IN
         /\ IsFiniteSet(Owing(cs2))
         /\ Cardinality(Owing(cs2)) \in Nat /\ Cardinality(Owing(cs)) \in Nat
         /\ Cardinality(Owing(cs2)) <= Cardinality(Owing(cs))
         /\ \A j \in Due(cs[p]) :
              j \notin Due(n) => Cardinality(Owing(cs2)) + 1 <= Cardinality(Owing(cs))
  <1> DEFINE cs2 == [cs EXCEPT ![p] = n]
             S == [q \in Proc |-> Due(cs[q])]
             T == [q \in Proc |-> Due(cs2[q])]
  <1>1. Owing(cs) = Places(S) /\ Owing(cs2) = Places(T)  BY DEF Owing
  <1>2. cs2[p] = n /\ \A q \in Proc : q # p => cs2[q] = cs[q]  OBVIOUS
  <1> HIDE DEF cs2
  <1>3. S[p] = Due(cs[p]) /\ T[p] = Due(n)  BY <1>2
  <1>4. \A q \in Proc : q # p => T[q] = S[q]  BY <1>2
  <1>5. T[p] \subseteq S[p]  BY <1>3 DEF Within
  <1>6. \A j \in S[p] : j \in Nat
    <2>1. cs[p].todo \in Seq(Doc)  BY DEF Calls
    <2>2. Len(cs[p].todo) \in Nat  BY <2>1
    <2> QED  BY <1>3, <2>2 DEF Due
  <1> HIDE DEF S, T
  <1>7. /\ IsFiniteSet(Places(T)) /\ Cardinality(Places(T)) \in Nat
        /\ Cardinality(Places(S)) \in Nat
        /\ Cardinality(Places(T)) <= Cardinality(Places(S))
        /\ \A j \in S[p] : j \in Nat /\ j \notin T[p] =>
              Cardinality(Places(T)) + 1 <= Cardinality(Places(S))
    BY <1>1, <1>4, <1>5, PlacesLost
  <1> QED  BY <1>1, <1>3, <1>6, <1>7 DEF cs2

\* The files only grow; what the databases hold is the same.
SameCopies(k, k2) ==
  FilesKept(k, k2) /\ \A db \in Db : k2[db].copies = k[db].copies

\* What a step of the process p to the call n leaves to be shown.
LEMMA CountMoves ==
  ASSUME KBInv, CountInv, NEW p \in Proc, NEW n, call' = [call EXCEPT ![p] = n],
         UNCHANGED <<asks, asked>>, faults' \in 0..MaxFaults,
         Len(tasks') \in Nat, Len(tasks) <= Len(tasks'),
         n.task \in Nat, n.task <= Len(tasks'), n.polls <= MaxPolls,
         DocsCounted(call', tasks', kb', asks), CopiesCounted(tasks', kb'),
         CreatesStored(tasks', kb'), TasksCounted(call', tasks', asked)
  PROVE  CountInv'
  <1>1. ASSUME NEW q \in Proc PROVE Bounded(call'[q], tasks')
    <2>1. CASE q = p  BY <2>1 DEF KBInv, Bounded
    <2>2. CASE q # p
      <3>1. call'[q] = call[q] /\ call[q].task \in Nat  BY <2>2 DEF KBInv, Calls
      <3>2. Bounded(call[q], tasks) /\ Len(tasks) \in Nat  BY DEF CountInv, KBInv
      <3> QED  BY <3>1, <3>2 DEF Bounded
    <2> QED  BY <2>1, <2>2
  <1>2. (\A q \in Proc : Bounded(call[q], tasks))'  BY <1>1 DEF Bounded
  <1>3. DocsCounted(call, tasks, kb, asks)'
    BY DEF DocsCounted, Wanting, Places, Wanted, Left, Adding, Stored
  <1>4. CopiesCounted(tasks, kb)'  BY DEF CopiesCounted, Added, Adding, Stored
  <1>5. CreatesStored(tasks, kb)'  BY DEF CreatesStored
  <1>6. TasksCounted(call, tasks, asked)'  BY DEF TasksCounted, Owing, Places, Due
  <1> QED  BY <1>2, <1>3, <1>4, <1>5, <1>6 DEF CountInv

\* A step that sends nothing, or nothing that arrives.
LEMMA QuietMoves ==
  ASSUME KBInv, CountInv, NEW p \in Proc, NEW n, call' = [call EXCEPT ![p] = n],
         UNCHANGED <<asks, asked, tasks>>, faults' \in 0..MaxFaults,
         SameCopies(kb, kb'), \A db \in Db : kb'[db].files = kb[db].files,
         n.task \in {0, call[p].task}, n.polls <= MaxPolls, Within(n, call[p])
  PROVE  CountInv'
  <1>1. call \in [Proc -> Calls] /\ tasks \in Seq(Task) /\ Len(tasks) \in Nat  BY DEF KBInv
  <1>2. n.task \in Nat /\ n.task <= Len(tasks)
    <2>1. call[p].task \in Nat  BY <1>1 DEF Calls
    <2> QED  BY <1>1, <2>1 DEF CountInv, Bounded
  <1>3. ASSUME NEW db \in Db, NEW d \in Doc
        PROVE  /\ IsFiniteSet(Wanting(call', db, d))
               /\ Cardinality(Wanting(call', db, d)) + Cardinality(Adding(tasks, db, d))
                    + Stored(kb', db, d) <= asks[d]
    <2>1. /\ IsFiniteSet(Wanting(call, db, d))
          /\ Cardinality(Wanting(call, db, d)) + Cardinality(Adding(tasks, db, d))
               + Stored(kb, db, d) <= asks[d]
      BY DEF CountInv, DocsCounted
    <2>2. /\ IsFiniteSet(Wanting(call', db, d)) /\ Cardinality(Wanting(call', db, d)) \in Nat
          /\ Cardinality(Wanting(call, db, d)) \in Nat
          /\ Cardinality(Wanting(call', db, d)) <= Cardinality(Wanting(call, db, d))
      BY <1>1, <2>1, WantingLess
    <2>3. Stored(kb', db, d) = Stored(kb, db, d) /\ Stored(kb, db, d) \in Nat  BY DEF Stored
    <2>4. Cardinality(Adding(tasks, db, d)) \in Nat  BY <1>1, AddingFinite
    <2>5. asks[d] \in Nat  BY DEF CountInv
    <2> QED  BY <2>1, <2>2, <2>3, <2>4, <2>5
  <1>4. DocsCounted(call', tasks', kb', asks)  BY <1>3 DEF DocsCounted
  <1>5. CopiesCounted(tasks', kb')  BY DEF CountInv, CopiesCounted, Stored, SameCopies
  <1>6. CreatesStored(tasks', kb')
    <2>1. \A t \in DOMAIN tasks : tasks[t].db \in Db
      <3>1. \A t \in DOMAIN tasks : tasks[t] \in Task  BY <1>1
      <3> QED  BY <3>1 DEF Task
    <2> QED  BY <2>1 DEF CountInv, CreatesStored
  <1>7. TasksCounted(call', tasks', asked)
    <2>1. IsFiniteSet(Owing(call)) /\ Len(tasks) + Cardinality(Owing(call)) <= asked
      BY DEF CountInv, TasksCounted
    <2>2. /\ IsFiniteSet(Owing(call')) /\ Cardinality(Owing(call')) \in Nat
          /\ Cardinality(Owing(call)) \in Nat
          /\ Cardinality(Owing(call')) <= Cardinality(Owing(call))
      BY <1>1, <2>1, OwingLess
    <2>3. asked \in Nat  BY KBAssumption DEF CountInv
    <2> QED  BY <1>1, <2>1, <2>2, <2>3 DEF TasksCounted
  <1>8. /\ UNCHANGED <<asks, asked>> /\ n.task <= Len(tasks')
        /\ Len(tasks') \in Nat /\ Len(tasks) <= Len(tasks')
    BY <1>1, <1>2
  <1> QED  BY <1>2, <1>4, <1>5, <1>6, <1>7, <1>8, CountMoves

\* _kb_ingest is done with a document, in whatever way: its place is given up.
LEMMA NextDocumentPast ==
  ASSUME KBInv, NEW p \in Proc, NEW ok, NextDocument(p, ok)
  PROVE  \E n : /\ call' = [call EXCEPT ![p] = n]
                /\ n.task = 0 /\ n.polls = 0 /\ Past(n, call[p])
  <1> DEFINE c == call[p]
             rest == IF c.todo = <<>> THEN <<>> ELSE Tail(c.todo)
             pc == IF rest = <<>> THEN "answer" ELSE "resume"
             saved == IF ok /\ c.todo # <<>> THEN c.saved \cup {Head(c.todo)} ELSE c.saved
             n == [c EXCEPT !.pc = pc, !.todo = rest, !.task = 0, !.polls = 0, !.saved = saved]
  <1>1. c \in Calls /\ CallOK(c, kb, tasks)  BY DEF KBInv
  <1>2. call' = [call EXCEPT ![p] = n]  BY DEF NextDocument
  <1>3. pc \in {"answer", "resume"}  OBVIOUS
  <1> HIDE DEF pc, saved
  <1>4. /\ n.pc = pc /\ n.todo = rest /\ n.db = c.db /\ n.task = 0 /\ n.polls = 0
    BY <1>1 DEF Calls
  <1> HIDE DEF n
  <1>5. c.pc = "ask" => c.todo = <<>>  BY <1>1 DEF CallOK
  <1>6. Past(n, c)  BY <1>1, <1>3, <1>4, <1>5, RestIsPast
  <1> QED  BY <1>2, <1>4, <1>6

LEMMA NoPolls == 0 <= MaxPolls /\ MaxPolls \in Nat /\ MaxAsks \in Nat /\ MaxFaults \in Nat
  BY KBAssumption

LEMMA NextDocumentCounts ==
  ASSUME KBInv, CountInv, NEW p \in Proc, NEW ok, NextDocument(p, ok),
         UNCHANGED <<asks, asked, tasks, kb>>, faults' \in 0..MaxFaults
  PROVE  CountInv'
  <1>1. PICK n : /\ call' = [call EXCEPT ![p] = n]
                 /\ n.task = 0 /\ n.polls = 0 /\ Past(n, call[p])
    BY NextDocumentPast
  <1>2. SameCopies(kb, kb') /\ \A db \in Db : kb'[db].files = kb[db].files
    BY DEF SameCopies, FilesKept
  <1>3. Within(n, call[p])  BY <1>1 DEF Past
  <1>4. UNCHANGED <<asks, asked, tasks>>  OBVIOUS
  <1> QED  BY <1>1, <1>2, <1>3, <1>4, NoPolls, QuietMoves

\* Going on to pc within the loop.
LEMMA GoCounts ==
  ASSUME KBInv, CountInv, NEW p \in Proc, NEW pc, Go(p, pc),
         call[p].pc \in {"resume", "names"}, pc \in {"names", "add", "upload"},
         UNCHANGED <<asks, asked, tasks, kb>>, faults' \in 0..MaxFaults
  PROVE  CountInv'
  <1> DEFINE n == [call[p] EXCEPT !.pc = pc]
  <1>1. call[p] \in Calls /\ call' = [call EXCEPT ![p] = n]  BY DEF KBInv, Go
  <1>2. /\ n.pc = pc /\ n.todo = call[p].todo /\ n.db = call[p].db
        /\ n.task = call[p].task /\ n.polls = call[p].polls
    BY <1>1 DEF Calls
  <1> HIDE DEF n
  <1>3. Within(n, call[p])  BY <1>1, <1>2, LaterInLoop
  <1>4. n.polls <= MaxPolls  BY <1>2 DEF CountInv, Bounded
  <1>5. SameCopies(kb, kb') /\ \A db \in Db : kb'[db].files = kb[db].files
    BY DEF SameCopies, FilesKept
  <1>6. UNCHANGED <<asks, asked, tasks>>  OBVIOUS
  <1> QED  BY <1>1, <1>2, <1>3, <1>4, <1>5, <1>6, QuietMoves

\* The process is free again.
LEMMA IdleCounts ==
  ASSUME KBInv, CountInv, NEW p \in Proc, call' = [call EXCEPT ![p] = Idle],
         UNCHANGED <<asks, asked, tasks, kb>>, faults' \in 0..MaxFaults
  PROVE  CountInv'
  <1>1. Within(Idle, call[p])  BY IdleHasNoPlace DEF KBInv, Past
  <1>2. Idle.task = 0 /\ Idle.polls = 0  BY DEF Idle
  <1>3. SameCopies(kb, kb') /\ \A db \in Db : kb'[db].files = kb[db].files
    BY DEF SameCopies, FilesKept
  <1>4. UNCHANGED <<asks, asked, tasks>>  OBVIOUS
  <1> QED  BY <1>1, <1>2, <1>3, <1>4, NoPolls, QuietMoves

\* A new task of the process's call.
LEMMA NewTaskCounts ==
  ASSUME KBInv, NEW kind \in {"add", "create", "qa"}, NEW db0 \in Db, NEW docs \in SUBSET Doc,
         NewTask(kind, db0, docs)
  PROVE  /\ tasks' \in Seq(Task) /\ Len(tasks') = Len(tasks) + 1 /\ Len(tasks) \in Nat
         /\ \A t \in DOMAIN tasks' :
              \/ t \in DOMAIN tasks /\ tasks'[t] = tasks[t]
              \/ tasks'[t].kind = kind /\ tasks'[t].db = db0 /\ tasks'[t].docs = docs
         /\ \A db, d :
              /\ Added(tasks', db, d) = Added(tasks, db, d)
              /\ \/ kind = "add" /\ db = db0 /\ d \in docs
                 \/ Adding(tasks', db, d) = Adding(tasks, db, d)
              /\ Cardinality(Adding(tasks', db, d)) <= Cardinality(Adding(tasks, db, d)) + 1
  <1> DEFINE new == [kind |-> kind, db |-> db0, docs |-> docs, state |-> "pending"]
             l == Len(tasks) + 1
  <1>1. /\ new \in Task /\ new.db = db0 /\ new.docs = docs /\ new.kind = kind
        /\ new.state = "pending"
    BY DEF Task
  <1>2. tasks \in Seq(Task) /\ tasks' = Append(tasks, new)  BY DEF NewTask, KBInv
  <1> HIDE DEF new
  <1>3. /\ tasks' \in Seq(Task) /\ Len(tasks') = l /\ Len(tasks) \in Nat
        /\ \A t \in 1..Len(tasks) : tasks'[t] = tasks[t]
        /\ tasks'[l] = new
    BY <1>1, <1>2, AppendProperties
  <1>4. DOMAIN tasks = 1..Len(tasks) /\ DOMAIN tasks' = 1..l /\ l \notin DOMAIN tasks
        /\ DOMAIN tasks' = DOMAIN tasks \cup {l}
    BY <1>2, <1>3
  <1> HIDE DEF l
  <1>5. ASSUME NEW db, NEW d
        PROVE  /\ Added(tasks', db, d) = Added(tasks, db, d)
               /\ \/ kind = "add" /\ db = db0 /\ d \in docs
                  \/ Adding(tasks', db, d) = Adding(tasks, db, d)
               /\ Cardinality(Adding(tasks', db, d)) <= Cardinality(Adding(tasks, db, d)) + 1
    <2>1. Added(tasks', db, d) = Added(tasks, db, d)
      BY <1>1, <1>3, <1>4 DEF Added, Adding
    <2>2. /\ IsFiniteSet(Adding(tasks, db, d)) /\ Cardinality(Adding(tasks, db, d)) \in Nat
      BY <1>2, AddingFinite
    <2>3. CASE kind = "add" /\ db = db0 /\ d \in docs
      <3>1. Adding(tasks', db, d) = Adding(tasks, db, d) \cup {l}
        BY <1>1, <1>3, <1>4, <2>3 DEF Adding
      <3> QED  BY <2>1, <2>2, <2>3, <3>1, FS_AddElement
    <2>4. CASE ~(kind = "add" /\ db = db0 /\ d \in docs)
      <3>1. Adding(tasks', db, d) = Adding(tasks, db, d)
        BY <1>1, <1>3, <1>4, <2>4 DEF Adding
      <3> QED  BY <2>1, <2>2, <3>1
    <2> QED  BY <2>3, <2>4
  <1> QED  BY <1>1, <1>3, <1>4, <1>5 DEF l

\* A request has begun a task and its document's place is given up.  Only an add
\* task counts for the document; a create task has files that count already.
LEMMA SentCounts ==
  ASSUME KBInv, CountInv, NEW p \in Proc, NEW n, call' = [call EXCEPT ![p] = n],
         NEW kind \in {"add", "create", "qa"}, NEW docs \in SUBSET Doc,
         NewTask(kind, call[p].db, docs),
         call[p].pc \in {"add", "create", "ask"},
         kind = "add" => call[p].pc = "add" /\ docs = {Head(call[p].todo)},
         kind = "create" => docs \subseteq kb[call[p].db].files,
         SameCopies(kb, kb'), \A db \in Db : kb'[db].files = kb[db].files,
         UNCHANGED <<asks, asked>>, faults' \in 0..MaxFaults,
         n.task \in {0, Len(tasks) + 1}, n.polls <= MaxPolls, Past(n, call[p])
  PROVE  CountInv'
  <1> DEFINE c == call[p]
  <1>1. /\ call \in [Proc -> Calls] /\ tasks \in Seq(Task) /\ c \in Calls /\ c.db \in Db
        /\ CallOK(c, kb, tasks)
    BY DEF KBInv, Calls
  <1>2. /\ tasks' \in Seq(Task) /\ Len(tasks') = Len(tasks) + 1 /\ Len(tasks) \in Nat
        /\ \A t \in DOMAIN tasks' :
             \/ t \in DOMAIN tasks /\ tasks'[t] = tasks[t]
             \/ tasks'[t].kind = kind /\ tasks'[t].db = c.db /\ tasks'[t].docs = docs
        /\ \A db, d :
             /\ Added(tasks', db, d) = Added(tasks, db, d)
             /\ \/ kind = "add" /\ db = c.db /\ d \in docs
                \/ Adding(tasks', db, d) = Adding(tasks, db, d)
             /\ Cardinality(Adding(tasks', db, d)) <= Cardinality(Adding(tasks, db, d)) + 1
    BY <1>1, NewTaskCounts
  <1>3. c.pc \in {"add", "create"} => c.todo # <<>>  BY <1>1 DEF CallOK
  <1>4. c.pc = "ask" => c.todo = <<>>  BY <1>1 DEF CallOK
  <1>5. c.todo # <<>> =>
          /\ c.pc \in {"add", "upload"} => Len(c.todo) \in Wanted(c, c.db, Head(c.todo))
          /\ c.pc \in {"add", "create"} => Len(c.todo) \in Due(c)
    BY <1>1, HeadPlace
  <1>6. Within(n, c)  BY DEF Past
  <1>7. ASSUME NEW db \in Db, NEW d \in Doc
        PROVE  /\ IsFiniteSet(Wanting(call', db, d))
               /\ Cardinality(Wanting(call', db, d)) + Cardinality(Adding(tasks', db, d))
                    + Stored(kb', db, d) <= asks[d]
    <2>1. /\ IsFiniteSet(Wanting(call, db, d))
          /\ Cardinality(Wanting(call, db, d)) + Cardinality(Adding(tasks, db, d))
               + Stored(kb, db, d) <= asks[d]
      BY DEF CountInv, DocsCounted
    <2>2. /\ IsFiniteSet(Wanting(call', db, d)) /\ Cardinality(Wanting(call', db, d)) \in Nat
          /\ Cardinality(Wanting(call, db, d)) \in Nat
          /\ Cardinality(Wanting(call', db, d)) <= Cardinality(Wanting(call, db, d))
          /\ \A j \in Wanted(c, db, d) :
               j \notin Wanted(n, db, d) =>
                 Cardinality(Wanting(call', db, d)) + 1 <= Cardinality(Wanting(call, db, d))
      BY <1>1, <1>6, <2>1, WantingLess
    <2>3. Stored(kb', db, d) = Stored(kb, db, d) /\ Stored(kb, db, d) \in Nat  BY DEF Stored
    <2>4. Cardinality(Adding(tasks, db, d)) \in Nat /\ Cardinality(Adding(tasks', db, d)) \in Nat
      BY <1>1, <1>2, AddingFinite
    <2>5. asks[d] \in Nat  BY DEF CountInv
    <2>6. CASE Adding(tasks', db, d) = Adding(tasks, db, d)
      BY <2>1, <2>2, <2>3, <2>4, <2>5, <2>6
    <2>7. CASE kind = "add" /\ db = c.db /\ d \in docs
      <3>1. d = Head(c.todo) /\ c.pc = "add"  BY <2>7
      <3>2. Len(c.todo) \in Wanted(c, db, d)  BY <1>3, <1>5, <2>7, <3>1
      <3>3. Len(c.todo) \notin Wanted(n, db, d)  BY DEF Past
      <3>4. Cardinality(Wanting(call', db, d)) + 1 <= Cardinality(Wanting(call, db, d))
        BY <2>2, <3>2, <3>3
      <3>5. Cardinality(Adding(tasks', db, d)) <= Cardinality(Adding(tasks, db, d)) + 1
        BY <1>2
      <3> QED  BY <2>1, <2>2, <2>3, <2>4, <2>5, <3>4, <3>5
    <2> QED  BY <1>2, <2>6, <2>7
  <1>8. DocsCounted(call', tasks', kb', asks)  BY <1>7 DEF DocsCounted
  <1>9. CopiesCounted(tasks', kb')
    BY <1>2 DEF CountInv, CopiesCounted, Stored, SameCopies
  <1>10. CreatesStored(tasks', kb')
    <2> SUFFICES ASSUME NEW t \in DOMAIN tasks', tasks'[t].kind = "create"
                 PROVE  tasks'[t].docs \subseteq kb'[tasks'[t].db].files
      BY DEF CreatesStored
    <2>1. CASE t \in DOMAIN tasks /\ tasks'[t] = tasks[t]
      <3>1. tasks[t] \in Task  BY <1>1, <2>1
      <3>2. tasks[t].db \in Db  BY <3>1 DEF Task
      <3> QED  BY <2>1, <3>2 DEF CountInv, CreatesStored
    <2>2. CASE tasks'[t].kind = kind /\ tasks'[t].db = c.db /\ tasks'[t].docs = docs
      BY <1>1, <2>2
    <2> QED  BY <1>2, <2>1, <2>2
  <1>11. TasksCounted(call', tasks', asked)
    <2>1. IsFiniteSet(Owing(call)) /\ Len(tasks) + Cardinality(Owing(call)) <= asked
      BY DEF CountInv, TasksCounted
    <2>2. /\ IsFiniteSet(Owing(call')) /\ Cardinality(Owing(call')) \in Nat
          /\ Cardinality(Owing(call)) \in Nat
          /\ \A j \in Due(c) :
               j \notin Due(n) => Cardinality(Owing(call')) + 1 <= Cardinality(Owing(call))
      BY <1>1, <1>6, <2>1, OwingLess
    <2>3. \E j \in Due(c) : j \notin Due(n)
      <3>1. CASE c.pc = "ask"
        <4>1. 1 \in Due(c)  BY <3>1 DEF Due
        <4>2. Due(n) = {}  BY <1>4, <3>1 DEF Past
        <4> QED  BY <4>1, <4>2
      <3>2. CASE c.pc \in {"add", "create"}  BY <1>3, <1>5, <3>2 DEF Past
      <3> QED  BY <3>1, <3>2
    <2>4. Cardinality(Owing(call')) + 1 <= Cardinality(Owing(call))  BY <2>2, <2>3
    <2>5. asked \in Nat  BY NoPolls DEF CountInv
    <2> QED  BY <1>2, <2>1, <2>2, <2>4, <2>5 DEF TasksCounted
  <1>12. /\ n.task \in Nat /\ n.task <= Len(tasks')
         /\ Len(tasks') \in Nat /\ Len(tasks) <= Len(tasks')
    BY <1>2
  <1> QED  BY <1>8, <1>9, <1>10, <1>11, <1>12, CountMoves

\* A document's place pays for its file.
LEMMA UploadedCounts ==
  ASSUME KBInv, CountInv, NEW p \in Proc, NEW n, call' = [call EXCEPT ![p] = n],
         call[p].pc = "upload", SameCopies(kb, kb'),
         kb' = [kb EXCEPT ![call[p].db].files = @ \cup {Head(call[p].todo)}],
         UNCHANGED <<asks, asked, tasks>>, faults' \in 0..MaxFaults,
         n.task \in {0, call[p].task}, n.polls <= MaxPolls, Within(n, call[p]),
         \A db \in Db, d \in Doc : Len(call[p].todo) \notin Wanted(n, db, d)
  PROVE  CountInv'
  <1> DEFINE c == call[p]
  <1>1. /\ call \in [Proc -> Calls] /\ tasks \in Seq(Task) /\ Len(tasks) \in Nat
        /\ c \in Calls /\ c.db \in Db /\ c.task \in Nat /\ CallOK(c, kb, tasks)
    BY DEF KBInv, Calls
  <1>2. c.todo # <<>>  BY <1>1 DEF CallOK
  <1>3. Len(c.todo) \in Wanted(c, c.db, Head(c.todo))  BY <1>1, <1>2, HeadPlace
  <1>4. \A db \in Db, d \in Doc :
          \/ Stored(kb', db, d) = Stored(kb, db, d)
          \/ db = c.db /\ d = Head(c.todo) /\ Stored(kb', db, d) = 1 /\ Stored(kb, db, d) = 0
    <2>1. kb \in [Db -> Bases]  BY DEF KBInv
    <2>2. kb'[c.db].files = kb[c.db].files \cup {Head(c.todo)}
      <3>1. kb[c.db] \in Bases  BY <1>1, <2>1
      <3> QED  BY <1>1, <2>1, <3>1 DEF Bases
    <2>3. \A db \in Db : db # c.db => kb'[db] = kb[db]  BY <2>1
    <2> QED  BY <2>2, <2>3 DEF Stored
  <1>5. ASSUME NEW db \in Db, NEW d \in Doc
        PROVE  /\ IsFiniteSet(Wanting(call', db, d))
               /\ Cardinality(Wanting(call', db, d)) + Cardinality(Adding(tasks, db, d))
                    + Stored(kb', db, d) <= asks[d]
    <2>1. /\ IsFiniteSet(Wanting(call, db, d))
          /\ Cardinality(Wanting(call, db, d)) + Cardinality(Adding(tasks, db, d))
               + Stored(kb, db, d) <= asks[d]
      BY DEF CountInv, DocsCounted
    <2>2. /\ IsFiniteSet(Wanting(call', db, d)) /\ Cardinality(Wanting(call', db, d)) \in Nat
          /\ Cardinality(Wanting(call, db, d)) \in Nat
          /\ Cardinality(Wanting(call', db, d)) <= Cardinality(Wanting(call, db, d))
          /\ \A j \in Wanted(c, db, d) :
               j \notin Wanted(n, db, d) =>
                 Cardinality(Wanting(call', db, d)) + 1 <= Cardinality(Wanting(call, db, d))
      BY <1>1, <2>1, WantingLess
    <2>3. Stored(kb', db, d) \in Nat /\ Stored(kb, db, d) \in Nat  BY DEF Stored
    <2>4. Cardinality(Adding(tasks, db, d)) \in Nat  BY <1>1, AddingFinite
    <2>5. asks[d] \in Nat  BY DEF CountInv
    <2>6. CASE Stored(kb', db, d) = Stored(kb, db, d)
      BY <2>1, <2>2, <2>3, <2>4, <2>5, <2>6
    <2>7. CASE db = c.db /\ d = Head(c.todo) /\ Stored(kb', db, d) = 1 /\ Stored(kb, db, d) = 0
      <3>1. Cardinality(Wanting(call', db, d)) + 1 <= Cardinality(Wanting(call, db, d))
        BY <1>3, <2>2, <2>7
      <3> QED  BY <2>1, <2>2, <2>4, <2>5, <2>7, <3>1
    <2> QED  BY <1>4, <2>6, <2>7
  <1>6. DocsCounted(call', tasks', kb', asks)  BY <1>5 DEF DocsCounted
  <1>7. CopiesCounted(tasks', kb')
    <2> SUFFICES ASSUME NEW db \in Db, NEW d \in Doc
                 PROVE  kb'[db].copies[d] <= Cardinality(Added(tasks, db, d)) + Stored(kb', db, d)
      BY DEF CopiesCounted
    <2>1. kb[db].copies[d] <= Cardinality(Added(tasks, db, d)) + Stored(kb, db, d)
      BY DEF CountInv, CopiesCounted
    <2>2. kb'[db].copies = kb[db].copies  BY DEF SameCopies
    <2>3. kb[db].copies[d] \in Nat
      <3>1. kb[db] \in Bases  BY DEF KBInv
      <3> QED  BY <3>1 DEF Bases
    <2>4. Cardinality(Added(tasks, db, d)) \in Nat  BY <1>1, AddingFinite
    <2>5. Stored(kb', db, d) \in Nat /\ Stored(kb, db, d) \in Nat
          /\ Stored(kb, db, d) <= Stored(kb', db, d)
      <3>1. Stored(kb', db, d) \in Nat /\ Stored(kb, db, d) \in Nat  BY DEF Stored
      <3>2. \/ Stored(kb', db, d) = Stored(kb, db, d)
            \/ Stored(kb', db, d) = 1 /\ Stored(kb, db, d) = 0
        BY <1>4
      <3>3. CASE Stored(kb', db, d) = Stored(kb, db, d)  BY <3>1, <3>3
      <3>4. CASE Stored(kb', db, d) = 1 /\ Stored(kb, db, d) = 0  BY <3>1, <3>4
      <3> QED  BY <3>2, <3>3, <3>4
    <2> QED  BY <2>1, <2>2, <2>3, <2>4, <2>5
  <1>8. CreatesStored(tasks', kb')
    <2>1. \A t \in DOMAIN tasks : tasks[t].db \in Db
      <3>1. \A t \in DOMAIN tasks : tasks[t] \in Task  BY <1>1
      <3> QED  BY <3>1 DEF Task
    <2> QED  BY <2>1 DEF CountInv, CreatesStored, SameCopies, FilesKept
  <1>9. TasksCounted(call', tasks', asked)
    <2>1. IsFiniteSet(Owing(call)) /\ Len(tasks) + Cardinality(Owing(call)) <= asked
      BY DEF CountInv, TasksCounted
    <2>2. /\ IsFiniteSet(Owing(call')) /\ Cardinality(Owing(call')) \in Nat
          /\ Cardinality(Owing(call)) \in Nat
          /\ Cardinality(Owing(call')) <= Cardinality(Owing(call))
      BY <1>1, <2>1, OwingLess
    <2>3. asked \in Nat  BY NoPolls DEF CountInv
    <2> QED  BY <1>1, <2>1, <2>2, <2>3 DEF TasksCounted
  <1>10. /\ n.task \in Nat /\ n.task <= Len(tasks') /\ UNCHANGED <<asks, asked>>
         /\ Len(tasks') \in Nat /\ Len(tasks) <= Len(tasks')
    BY <1>1 DEF CountInv, Bounded
  <1> QED  BY <1>6, <1>7, <1>8, <1>9, <1>10, CountMoves

\* The places of a new call are the occurrences of each document.
LEMMA WantedOccurs ==
  ASSUME NEW n, NEW db, NEW d, n.todo \in Seq(Doc), n.pc \in {"names", "resume"}
  PROVE  /\ Wanted(n, db, d) \subseteq Nat /\ IsFiniteSet(Wanted(n, db, d))
         /\ Cardinality(Wanted(n, db, d)) \in Nat
         /\ Cardinality(Wanted(n, db, d)) <= Occurrences(n.todo, d)
  <1> DEFINE todo == n.todo
             O == {i \in DOMAIN todo : todo[i] = d}
             W == {j \in 1..Len(todo) : todo[Len(todo) + 1 - j] = d}
             f == [i \in O |-> Len(todo) + 1 - i]
  <1>1. Len(todo) \in Nat /\ DOMAIN todo = 1..Len(todo) /\ todo \in Seq(Doc)  OBVIOUS
  <1>2. Left(n) = Len(todo)  BY DEF Left
  <1>3. Wanted(n, db, d) \subseteq W  BY <1>2 DEF Wanted
  <1>4. todo \in Seq(Doc \cup {NoDoc})  BY <1>1
  <1>5. IsFiniteSet(O) /\ Occurrences(todo, d) = Cardinality(O) /\ Cardinality(O) \in Nat
    BY <1>4, OccurrencesCount DEF Occurrences
  <1>6. f \in Surjection(O, W)
    <2>1. ASSUME NEW i \in O PROVE Len(todo) + 1 - i \in W
      <3>1. i \in 1..Len(todo) /\ todo[i] = d  BY <1>1
      <3>2. Len(todo) + 1 - (Len(todo) + 1 - i) = i /\ Len(todo) + 1 - i \in 1..Len(todo)
        BY <1>1, <3>1
      <3> QED  BY <3>1, <3>2
    <2>2. ASSUME NEW j \in W PROVE \E i \in O : Len(todo) + 1 - i = j
      <3>1. j \in 1..Len(todo) /\ todo[Len(todo) + 1 - j] = d  OBVIOUS
      <3>2. Len(todo) + 1 - j \in 1..Len(todo) /\ Len(todo) + 1 - (Len(todo) + 1 - j) = j
        BY <1>1, <3>1
      <3> QED  BY <1>1, <3>1, <3>2
    <2> HIDE DEF O, W
    <2>3. f \in [O -> W]  BY <2>1
    <2> QED  BY <2>2, <2>3 DEF Surjection
  <1> HIDE DEF O, W, f
  <1>7. IsFiniteSet(W) /\ Cardinality(W) <= Cardinality(O)  BY <1>5, <1>6, FS_Surjection
  <1>8. IsFiniteSet(Wanted(n, db, d)) /\ Cardinality(Wanted(n, db, d)) <= Cardinality(W)
    BY <1>3, <1>7, FS_Subset
  <1>9. Cardinality(W) \in Nat /\ Cardinality(Wanted(n, db, d)) \in Nat
    BY <1>7, <1>8, FS_CardinalityType
  <1>10. Wanted(n, db, d) \subseteq Nat  BY DEF Wanted
  <1> QED  BY <1>5, <1>7, <1>8, <1>9, <1>10

\* A call begins: each document it asks for gets a place, and has been asked for.
LEMMA BeginCounts ==
  ASSUME KBInv, CountInv, NEW p \in Proc, NEW n, call' = [call EXCEPT ![p] = n],
         NEW docs \in Seq(Doc \cup {NoDoc}), Ask(docs),
         n.task = 0, n.polls = 0, UNCHANGED <<kb, tasks, faults>>,
         \/ n.todo = docs /\ n.todo \in Seq(Doc) /\ n.pc \in {"names", "resume"}
         \/ n.todo = <<>> /\ Len(docs) = 1 /\ n.pc = "ask"
  PROVE  CountInv'
  <1>1. /\ call \in [Proc -> Calls] /\ tasks \in Seq(Task) /\ Len(tasks) \in Nat
        /\ asks \in [Doc \cup {NoDoc} -> Nat] /\ asked \in Nat /\ Len(docs) \in Nat
    BY NoPolls DEF KBInv, CountInv
  <1>2. /\ asked' = asked + Len(docs) /\ asked' \in 0..MaxAsks
        /\ asks' = [d \in Doc \cup {NoDoc} |-> asks[d] + Occurrences(docs, d)]
    BY <1>1, NoPolls DEF Ask
  <1>3. \A d : Occurrences(docs, d) \in Nat /\ Occurrences(docs, d) <= Len(docs)
    BY OccurrencesCount
  <1>4. asks' \in [Doc \cup {NoDoc} -> Nat]  BY <1>1, <1>2, <1>3
  <1>5. \A d \in Doc \cup {NoDoc} : asks'[d] <= asked'
    <2> SUFFICES ASSUME NEW d \in Doc \cup {NoDoc} PROVE asks'[d] <= asked'  OBVIOUS
    <2>1. asks[d] <= asked /\ asks[d] \in Nat  BY <1>1 DEF CountInv
    <2>2. asks'[d] = asks[d] + Occurrences(docs, d)  BY <1>2
    <2> QED  BY <1>1, <1>2, <1>3, <2>1, <2>2
  <1>6. \A q \in Proc : Bounded(call'[q], tasks')
    <2> SUFFICES ASSUME NEW q \in Proc PROVE Bounded(call'[q], tasks')  OBVIOUS
    <2>1. CASE q = p  BY <1>1, <2>1, NoPolls DEF Bounded
    <2>2. CASE q # p  BY <1>1, <2>2 DEF CountInv, Bounded
    <2> QED  BY <2>1, <2>2
  <1>7. ASSUME NEW db \in Db, NEW d \in Doc
        PROVE  /\ IsFiniteSet(Wanting(call', db, d))
               /\ Cardinality(Wanting(call', db, d)) + Cardinality(Adding(tasks, db, d))
                    + Stored(kb', db, d) <= asks'[d]
    <2>1. /\ IsFiniteSet(Wanting(call, db, d))
          /\ Cardinality(Wanting(call, db, d)) + Cardinality(Adding(tasks, db, d))
               + Stored(kb, db, d) <= asks[d]
      BY DEF CountInv, DocsCounted
    <2>2. /\ Wanted(n, db, d) \subseteq Nat /\ IsFiniteSet(Wanted(n, db, d))
          /\ Cardinality(Wanted(n, db, d)) \in Nat
          /\ Cardinality(Wanted(n, db, d)) <= Occurrences(docs, d)
      <3>1. CASE n.todo = docs /\ n.todo \in Seq(Doc) /\ n.pc \in {"names", "resume"}
        BY <3>1, WantedOccurs
      <3>2. CASE n.todo = <<>> /\ n.pc = "ask"
        <4>1. Wanted(n, db, d) = {}  BY <3>2 DEF Wanted, Left
        <4> QED  BY <1>3, <4>1, FS_EmptySet
      <3> QED  BY <3>1, <3>2
    <2> DEFINE S == [q \in Proc |-> Wanted(call[q], db, d)]
               T == [q \in Proc |-> Wanted(call'[q], db, d)]
    <2>3. Wanting(call, db, d) = Places(S) /\ Wanting(call', db, d) = Places(T)
      BY DEF Wanting
    <2>4. T[p] = Wanted(n, db, d) /\ \A q \in Proc : q # p => T[q] = S[q]  BY <1>1
    <2> HIDE DEF S, T
    <2>5. /\ IsFiniteSet(Places(T)) /\ Cardinality(Places(T)) \in Nat
          /\ Cardinality(Places(S)) \in Nat
          /\ Cardinality(Places(T)) <= Cardinality(Places(S)) + Cardinality(T[p])
      BY <2>1, <2>2, <2>3, <2>4, PlacesGained
    <2>6. Cardinality(Adding(tasks, db, d)) \in Nat  BY <1>1, AddingFinite
    <2>7. Stored(kb', db, d) = Stored(kb, db, d) /\ Stored(kb, db, d) \in Nat  BY DEF Stored
    <2>8. asks'[d] = asks[d] + Occurrences(docs, d) /\ asks[d] \in Nat  BY <1>1, <1>2
    <2> QED  BY <1>3, <2>1, <2>2, <2>3, <2>4, <2>5, <2>6, <2>7, <2>8
  <1>8. (DocsCounted(call, tasks, kb, asks))'
    BY <1>7 DEF DocsCounted, Wanting, Places, Wanted, Left, Adding, Stored
  <1>9. CopiesCounted(tasks, kb)' /\ CreatesStored(tasks, kb)'
    BY DEF CountInv, CopiesCounted, CreatesStored, Added, Adding, Stored
  <1>10. TasksCounted(call', tasks', asked')
    <2>1. IsFiniteSet(Owing(call)) /\ Len(tasks) + Cardinality(Owing(call)) <= asked
      BY DEF CountInv, TasksCounted
    <2>2. /\ Due(n) \subseteq Nat /\ IsFiniteSet(Due(n)) /\ Cardinality(Due(n)) = Len(docs)
      <3>1. CASE n.todo = docs /\ n.pc \in {"names", "resume"}
        <4>1. Due(n) = 1..Len(docs)  BY <3>1 DEF Due
        <4>2. Len(docs) \in Nat  OBVIOUS
        <4>3. IsFiniteSet(1..Len(docs)) /\ Cardinality(1..Len(docs)) = Len(docs)
          BY <4>2, FS_Interval
        <4>4. 1..Len(docs) \subseteq Nat  BY <4>2
        <4> QED  BY <4>1, <4>3, <4>4
      <3>2. CASE Len(docs) = 1 /\ n.pc = "ask"
        <4>1. Due(n) = {1}  BY <3>2 DEF Due
        <4>2. IsFiniteSet({1}) /\ Cardinality({1}) = 1  BY FS_Singleton
        <4>3. {1} \subseteq Nat  OBVIOUS
        <4> QED  BY <3>2, <4>1, <4>2, <4>3
      <3> QED  BY <3>1, <3>2
    <2> DEFINE S == [q \in Proc |-> Due(call[q])]
               T == [q \in Proc |-> Due(call'[q])]
    <2>3. Owing(call) = Places(S) /\ Owing(call') = Places(T)  BY DEF Owing
    <2>4. T[p] = Due(n) /\ \A q \in Proc : q # p => T[q] = S[q]  BY <1>1
    <2> HIDE DEF S, T
    <2>5. /\ IsFiniteSet(Places(T)) /\ Cardinality(Places(T)) \in Nat
          /\ Cardinality(Places(S)) \in Nat
          /\ Cardinality(Places(T)) <= Cardinality(Places(S)) + Cardinality(T[p])
      BY <2>1, <2>2, <2>3, <2>4, PlacesGained
    <2> QED  BY <1>1, <1>2, <2>1, <2>2, <2>3, <2>4, <2>5 DEF TasksCounted
  <1>11. TasksCounted(call, tasks, asked)'  BY <1>10 DEF TasksCounted, Owing, Places, Due
  <1>12. (\A q \in Proc : Bounded(call[q], tasks))'  BY <1>6 DEF Bounded
  <1> QED  BY <1>2, <1>4, <1>5, <1>8, <1>9, <1>11, <1>12 DEF CountInv

\* A task ends in the knowledge base.
LEMMA EndedTask ==
  ASSUME KBInv, NEW t \in DOMAIN tasks, NEW state \in {"success", "failure"},
         tasks[t].state = "pending", tasks' = [tasks EXCEPT ![t].state = state]
  PROVE  /\ tasks' \in Seq(Task) /\ DOMAIN tasks' = DOMAIN tasks /\ Len(tasks') = Len(tasks)
         /\ \A s \in DOMAIN tasks :
              /\ tasks'[s].kind = tasks[s].kind /\ tasks'[s].db = tasks[s].db
              /\ tasks'[s].docs = tasks[s].docs
              /\ tasks'[s].state = IF s = t THEN state ELSE tasks[s].state
  <1> DEFINE e == [tasks[t] EXCEPT !.state = state]
  <1>1. tasks \in Seq(Task) /\ tasks[t] \in Task /\ t \in 1..Len(tasks)  BY DEF KBInv
  <1>2. /\ e \in Task /\ e.db = tasks[t].db /\ e.docs = tasks[t].docs
        /\ e.kind = tasks[t].kind /\ e.state = state
    BY <1>1 DEF Task
  <1>3. tasks' = [tasks EXCEPT ![t] = e]  BY <1>1
  <1> HIDE DEF e
  <1>4. tasks' \in Seq(Task) /\ DOMAIN tasks' = DOMAIN tasks /\ tasks'[t] = e
        /\ \A s \in DOMAIN tasks : s # t => tasks'[s] = tasks[s]
    BY <1>1, <1>2, <1>3
  <1>5. Len(tasks') = Len(tasks)  BY <1>1, <1>4
  <1> QED  BY <1>2, <1>4, <1>5

LEMMA TaskEndsCounts ==
  ASSUME KBInv, CountInv, NEW t \in DOMAIN tasks, NEW state \in {"success", "failure"},
         tasks[t].state = "pending", tasks' = [tasks EXCEPT ![t].state = state],
         UNCHANGED <<call, asks, asked, faults>>,
         \A db \in Db : kb'[db].files = kb[db].files,
         CopiesCounted(tasks', kb')
  PROVE  CountInv'
  <1>1. /\ tasks' \in Seq(Task) /\ DOMAIN tasks' = DOMAIN tasks /\ Len(tasks') = Len(tasks)
        /\ \A s \in DOMAIN tasks :
             /\ tasks'[s].kind = tasks[s].kind /\ tasks'[s].db = tasks[s].db
             /\ tasks'[s].docs = tasks[s].docs
    BY EndedTask
  <1>2. \A db, d : Adding(tasks', db, d) = Adding(tasks, db, d)  BY <1>1 DEF Adding
  <1>3. \A db \in Db, d \in Doc : Stored(kb', db, d) = Stored(kb, db, d)  BY DEF Stored
  <1>4. DocsCounted(call', tasks', kb', asks')
    BY <1>2, <1>3 DEF CountInv, DocsCounted
  <1>5. DocsCounted(call, tasks, kb, asks)'
    BY <1>4 DEF DocsCounted, Wanting, Places, Wanted, Left, Adding, Stored
  <1>6. CreatesStored(tasks', kb')
    <2> SUFFICES ASSUME NEW s \in DOMAIN tasks', tasks'[s].kind = "create"
                 PROVE  tasks'[s].docs \subseteq kb'[tasks'[s].db].files
      BY DEF CreatesStored
    <2>1. s \in DOMAIN tasks /\ tasks[s].kind = "create"  BY <1>1
    <2>2. tasks[s] \in Task  BY <2>1 DEF KBInv
    <2>3. tasks[s].db \in Db  BY <2>2 DEF Task
    <2> QED  BY <1>1, <2>1, <2>3 DEF CountInv, CreatesStored
  <1>7. CreatesStored(tasks, kb)' /\ CopiesCounted(tasks, kb)'
    BY <1>6 DEF CreatesStored, CopiesCounted, Added, Adding, Stored
  <1>8. TasksCounted(call', tasks', asked')  BY <1>1 DEF CountInv, TasksCounted
  <1>9. TasksCounted(call, tasks, asked)'  BY <1>8 DEF TasksCounted, Owing, Places, Due
  <1>10. (\A p \in Proc : Bounded(call[p], tasks))'  BY <1>1 DEF CountInv, Bounded
  <1> QED  BY <1>5, <1>7, <1>9, <1>10 DEF CountInv

LEMMA TaskFailsCounts ==
  ASSUME KBInv, CountInv, NEW t \in DOMAIN tasks, TaskFails(t)
  PROVE  CountInv'
  <1> DEFINE db0 == tasks[t].db
             b == [kb[db0] EXCEPT !.listed =
                     IF tasks[t].kind = "create" /\ @ = "building" THEN "no" ELSE @]
  <1>1. /\ tasks[t].state = "pending" /\ tasks' = [tasks EXCEPT ![t].state = "failure"]
        /\ UNCHANGED <<call, asks, asked, faults>>
    BY DEF TaskFails
  <1>2. /\ DOMAIN tasks' = DOMAIN tasks
        /\ \A s \in DOMAIN tasks :
             /\ tasks'[s].kind = tasks[s].kind /\ tasks'[s].db = tasks[s].db
             /\ tasks'[s].docs = tasks[s].docs
             /\ tasks'[s].state = IF s = t THEN "failure" ELSE tasks[s].state
    BY <1>1, EndedTask
  <1>3. \A db, d : Added(tasks', db, d) = Added(tasks, db, d)
    BY <1>1, <1>2 DEF Added, Adding
  <1>4. \A db \in Db : kb'[db].files = kb[db].files /\ kb'[db].copies = kb[db].copies
    <2>1. db0 \in Db
      <3>1. tasks[t] \in Task  BY DEF KBInv
      <3> QED  BY <3>1 DEF Task
    <2>2. kb \in [Db -> Bases] /\ kb[db0] \in Bases  BY <2>1 DEF KBInv
    <2>3. b.files = kb[db0].files /\ b.copies = kb[db0].copies  BY <2>2 DEF Bases
    <2>4. kb' = [kb EXCEPT ![db0] = b]  BY <2>2 DEF TaskFails
    <2> HIDE DEF b, db0
    <2> QED  BY <2>1, <2>2, <2>3, <2>4
  <1>5. CopiesCounted(tasks', kb')  BY <1>3, <1>4 DEF CountInv, CopiesCounted, Stored
  <1> QED  BY <1>1, <1>4, <1>5, TaskEndsCounts

LEMMA TaskSucceedsCounts ==
  ASSUME KBInv, CountInv, NEW t \in DOMAIN tasks, TaskSucceeds(t)
  PROVE  CountInv'
  <1> DEFINE db0 == tasks[t].db
  <1>1. /\ tasks[t].state = "pending" /\ tasks' = [tasks EXCEPT ![t].state = "success"]
        /\ UNCHANGED <<call, asks, asked, faults>>
    BY DEF TaskSucceeds
  <1>2. PICK accepted \in SUBSET tasks[t].docs :
          kb' = [kb EXCEPT
                   ![db0].listed = IF tasks[t].kind = "create" THEN "yes" ELSE @,
                   ![db0].copies = Ingested(tasks[t], accepted, @)]
    BY DEF TaskSucceeds
  <1>3. tasks[t] \in Task /\ tasks \in Seq(Task)  BY DEF KBInv
  <1>4. db0 \in Db /\ tasks[t].kind \in {"add", "create", "qa"}  BY <1>3 DEF Task
  <1>5. kb \in [Db -> Bases] /\ kb[db0] \in Bases  BY <1>4 DEF KBInv
  <1>6. /\ DOMAIN tasks' = DOMAIN tasks
        /\ \A s \in DOMAIN tasks :
             /\ tasks'[s].kind = tasks[s].kind /\ tasks'[s].db = tasks[s].db
             /\ tasks'[s].docs = tasks[s].docs
             /\ tasks'[s].state = IF s = t THEN "success" ELSE tasks[s].state
    BY <1>1, EndedTask
  <1> DEFINE listed == IF tasks[t].kind = "create" THEN "yes" ELSE kb[db0].listed
             b1 == [kb[db0] EXCEPT !.listed = listed]
             copies == Ingested(tasks[t], accepted, b1.copies)
             b == [b1 EXCEPT !.copies = copies]
  <1>7. kb' = [kb EXCEPT ![db0] = b]  BY <1>2, <1>4, <1>5
  <1>8. listed \in {"no", "building", "yes"}  BY <1>5 DEF Bases
  <1> HIDE DEF listed
  <1>9. b1 \in Bases /\ b1.files = kb[db0].files /\ b1.copies = kb[db0].copies
    BY <1>5, <1>8 DEF Bases
  <1> HIDE DEF b1
  <1>10. b.files = kb[db0].files /\ b.copies = copies  BY <1>9 DEF Bases
  <1>11. copies = Ingested(tasks[t], accepted, kb[db0].copies)  BY <1>9
  <1> HIDE DEF b, copies
  <1>12. /\ \A db \in Db : kb'[db].files = kb[db].files
         /\ \A db \in Db : db # db0 => kb'[db].copies = kb[db].copies
         /\ kb'[db0].copies = copies
    BY <1>4, <1>5, <1>7, <1>10
  <1>13. ASSUME NEW db \in Db, NEW d \in Doc
         PROVE  kb'[db].copies[d] <= Cardinality(Added(tasks', db, d)) + Stored(kb', db, d)
    <2>1. kb[db].copies[d] <= Cardinality(Added(tasks, db, d)) + Stored(kb, db, d)
      BY DEF CountInv, CopiesCounted
    <2>2. Stored(kb', db, d) = Stored(kb, db, d) /\ Stored(kb, db, d) \in Nat
      BY <1>12 DEF Stored
    <2>3. kb[db].copies \in [Doc -> Nat] /\ kb[db].copies[d] \in Nat
      <3>1. kb[db] \in Bases  BY <1>5
      <3> QED  BY <3>1 DEF Bases
    <2>4. /\ IsFiniteSet(Added(tasks, db, d)) /\ Cardinality(Added(tasks, db, d)) \in Nat
      BY <1>3, AddingFinite
    <2>5. /\ Cardinality(Added(tasks', db, d)) \in Nat
          /\ Cardinality(Added(tasks, db, d)) <= Cardinality(Added(tasks', db, d))
          /\ tasks[t].kind = "add" /\ db = db0 /\ d \in tasks[t].docs =>
               Cardinality(Added(tasks', db, d)) = Cardinality(Added(tasks, db, d)) + 1
      <3>1. CASE tasks[t].kind = "add" /\ db = db0 /\ d \in tasks[t].docs
        <4>1. Added(tasks', db, d) = Added(tasks, db, d) \cup {t}
          BY <1>6, <3>1 DEF Added, Adding
        <4>2. t \notin Added(tasks, db, d)  BY <1>1 DEF Added
        <4>3. Cardinality(Added(tasks', db, d)) = Cardinality(Added(tasks, db, d)) + 1
          BY <2>4, <4>1, <4>2, FS_AddElement
        <4> QED  BY <2>4, <4>3
      <3>2. CASE ~(tasks[t].kind = "add" /\ db = db0 /\ d \in tasks[t].docs)
        <4>1. Added(tasks', db, d) = Added(tasks, db, d)  BY <1>1, <1>6, <3>2 DEF Added, Adding
        <4> QED  BY <2>4, <3>2, <4>1
      <3> QED  BY <3>1, <3>2
    <2>6. CASE db # db0
      <3>1. kb'[db].copies[d] = kb[db].copies[d]  BY <1>12, <2>6
      <3> QED  BY <2>1, <2>2, <2>3, <2>4, <2>5, <3>1
    <2>7. CASE db = db0 /\ tasks[t].kind = "add"
      <3>1. copies[d] = IF d \in accepted THEN kb[db].copies[d] + 1 ELSE kb[db].copies[d]
        BY <1>11, <2>7 DEF Ingested
      <3>2. d \in accepted => d \in tasks[t].docs  OBVIOUS
      <3>3. kb'[db].copies[d] = copies[d]  BY <1>12, <2>7
      <3>4. CASE d \in accepted
        <4>1. Cardinality(Added(tasks', db, d)) = Cardinality(Added(tasks, db, d)) + 1
          BY <2>5, <2>7, <3>2, <3>4
        <4>2. kb'[db].copies[d] = kb[db].copies[d] + 1  BY <3>1, <3>3, <3>4
        <4> QED  BY <2>1, <2>2, <2>3, <2>4, <2>5, <4>1, <4>2
      <3>5. CASE d \notin accepted
        <4>1. kb'[db].copies[d] = kb[db].copies[d]  BY <3>1, <3>3, <3>5
        <4> QED  BY <2>1, <2>2, <2>3, <2>4, <2>5, <4>1
      <3> QED  BY <3>4, <3>5
    <2>8. CASE db = db0 /\ tasks[t].kind = "create"
      <3>1. copies[d] = IF d \in accepted THEN 1 ELSE 0  BY <1>11, <2>8 DEF Ingested
      <3>2. d \in accepted => d \in kb[db].files
        BY <2>8 DEF CountInv, CreatesStored
      <3>3. kb'[db].copies[d] = copies[d]  BY <1>12, <2>8
      <3>4. d \in accepted => Stored(kb', db, d) = 1  BY <2>2, <3>2 DEF Stored
      <3> QED  BY <2>2, <2>5, <3>1, <3>3, <3>4
    <2>9. CASE db = db0 /\ tasks[t].kind = "qa"
      <3>1. kb'[db].copies[d] = kb[db].copies[d]  BY <1>11, <1>12, <2>9 DEF Ingested
      <3> QED  BY <2>1, <2>2, <2>3, <2>4, <2>5, <3>1
    <2> QED  BY <1>4, <2>6, <2>7, <2>8, <2>9
  <1>14. CopiesCounted(tasks', kb')  BY <1>13 DEF CopiesCounted
  <1> QED  BY <1>1, <1>12, <1>14, TaskEndsCounts
----------------------------------------------------------------------------
LEMMA TransportFaults ==
  ASSUME CountInv, NEW o, Transport(o)
  PROVE  faults' \in 0..MaxFaults
  BY NoPolls DEF CountInv, Transport, Fault

LEMMA AddDocumentCounts ==
  ASSUME KBInv, CountInv, NEW p \in Proc, NEW db \in Db, NEW d \in Doc, NEW wait \in BOOLEAN,
         AddDocument(p, db, d, wait)
  PROVE  CountInv'
  <1> DEFINE todo == <<d>>
             n == [Idle EXCEPT !.pc = "names", !.db = db, !.todo = todo, !.wait = wait]
  <1>1. call' = [call EXCEPT ![p] = n] /\ UNCHANGED <<kb, tasks, faults>> /\ Ask(todo)
    BY DEF AddDocument
  <1>2. todo \in Seq(Doc) /\ todo \in Seq(Doc \cup {NoDoc})  OBVIOUS
  <1> HIDE DEF todo
  <1>3. n.pc = "names" /\ n.todo = todo /\ n.task = 0 /\ n.polls = 0  BY DEF Idle
  <1> HIDE DEF n
  <1> QED  BY <1>1, <1>2, <1>3, BeginCounts

LEMMA SaveCandidatesCounts ==
  ASSUME KBInv, CountInv, NEW p \in Proc, NEW db \in Db, NEW docs \in Batches,
         SaveCandidates(p, db, docs)
  PROVE  CountInv'
  <1> DEFINE n == [Idle EXCEPT !.pc = "resume", !.db = db, !.todo = docs]
  <1>1. call' = [call EXCEPT ![p] = n] /\ UNCHANGED <<kb, tasks, faults>> /\ Ask(docs)
    BY DEF SaveCandidates
  <1>2. docs \in Seq(Doc)  BY KBAssumption
  <1>3. docs \in Seq(Doc \cup {NoDoc})  BY <1>2
  <1>4. n.pc = "resume" /\ n.todo = docs /\ n.task = 0 /\ n.polls = 0  BY DEF Idle
  <1> HIDE DEF n
  <1> QED  BY <1>1, <1>2, <1>3, <1>4, BeginCounts

LEMMA QueryCounts ==
  ASSUME KBInv, CountInv, NEW p \in Proc, NEW db \in Db, Query(p, db)
  PROVE  CountInv'
  <1> DEFINE n == [Idle EXCEPT !.pc = "ask", !.db = db]
             docs == <<NoDoc>>
  <1>1. call' = [call EXCEPT ![p] = n] /\ UNCHANGED <<kb, tasks, faults>> /\ Ask(docs)
    BY DEF Query
  <1>2. docs \in Seq(Doc \cup {NoDoc}) /\ Len(docs) = 1  OBVIOUS
  <1> HIDE DEF docs
  <1>3. n.pc = "ask" /\ n.todo = <<>> /\ n.task = 0 /\ n.polls = 0  BY DEF Idle
  <1> HIDE DEF n
  <1> QED  BY <1>1, <1>2, <1>3, BeginCounts

\* What a request that begins a task makes of the call.
LEMMA SubmittedPast ==
  ASSUME KBInv, CountInv, NEW p \in Proc, NEW o, Submitted(p, o),
         call[p].pc \in {"add", "create", "ask"}
  PROVE  \E n : /\ call' = [call EXCEPT ![p] = n] /\ Past(n, call[p])
                /\ n.task \in {0, Len(tasks) + 1} /\ n.polls <= MaxPolls
  <1>1. CASE o # "answered"
    <2>1. NextDocument(p, FALSE)  BY <1>1 DEF Submitted
    <2>2. PICK n : /\ call' = [call EXCEPT ![p] = n]
                   /\ n.task = 0 /\ n.polls = 0 /\ Past(n, call[p])
      BY <2>1, NextDocumentPast
    <2> QED  BY <2>2, NoPolls
  <1>2. CASE o = "answered"
    <2> DEFINE pc == IF call[p].wait THEN "poll" ELSE "accepted"
               task == Len(tasks) + 1
               n == [call[p] EXCEPT !.pc = pc, !.task = task]
    <2>1. call[p] \in Calls /\ CallOK(call[p], kb, tasks) /\ call \in [Proc -> Calls]
      BY DEF KBInv
    <2>2. call' = [call EXCEPT ![p] = n]  BY <1>2, <2>1 DEF Submitted
    <2>3. pc \in {"poll", "accepted"}  OBVIOUS
    <2> HIDE DEF pc, task
    <2>4. /\ n.pc = pc /\ n.todo = call[p].todo /\ n.db = call[p].db /\ n.task = task
          /\ n.polls = call[p].polls
      BY <2>1 DEF Calls
    <2> HIDE DEF n
    <2>5. call[p].pc = "ask" => call[p].todo = <<>>  BY <2>1 DEF CallOK
    <2>6. Past(n, call[p])  BY <2>1, <2>3, <2>4, <2>5, SubmittedIsPast
    <2>7. n.polls <= MaxPolls  BY <2>4 DEF CountInv, Bounded
    <2> QED  BY <2>2, <2>4, <2>6, <2>7 DEF task
  <1> QED  BY <1>1, <1>2

LEMMA SameKB == kb' = kb => SameCopies(kb, kb') /\ \A db \in Db : kb'[db].files = kb[db].files
  BY DEF SameCopies, FilesKept

LEMMA AddFileCounts ==
  ASSUME KBInv, CountInv, NEW p \in Proc, NEW o \in Outcomes, AddFile(p, o)
  PROVE  CountInv'
  <1> DEFINE c == call[p]
             docs == {Head(c.todo)}
  <1>1. /\ c.pc = "add" /\ UNCHANGED <<kb, asks, asked>> /\ Submitted(p, o)
        /\ IF Reaches(o) THEN NewTask("add", c.db, docs) ELSE tasks' = tasks
        /\ faults' \in 0..MaxFaults
    BY TransportFaults DEF AddFile, At
  <1>2. docs \in SUBSET Doc  BY <1>1, AtWork DEF CallOK
  <1>3. CASE Reaches(o)
    <2>1. PICK n : /\ call' = [call EXCEPT ![p] = n] /\ Past(n, c)
                   /\ n.task \in {0, Len(tasks) + 1} /\ n.polls <= MaxPolls
      BY <1>1, SubmittedPast
    <2>2. NewTask("add", c.db, docs)  BY <1>1, <1>3
    <2> QED  BY <1>1, <1>2, <2>1, <2>2, SameKB, SentCounts
  <1>4. CASE ~Reaches(o)
    <2>1. NextDocument(p, FALSE)  BY <1>1, <1>4 DEF Submitted, Reaches
    <2> QED  BY <1>1, <1>4, <2>1, NextDocumentCounts
  <1> QED  BY <1>3, <1>4

LEMMA CreateFromFilesCounts ==
  ASSUME KBInv, CountInv, NEW p \in Proc, NEW o \in Outcomes, CreateFromFiles(p, o)
  PROVE  CountInv'
  <1> DEFINE c == call[p]
             docs == kb[c.db].files
             k == [kb EXCEPT ![c.db].listed = IF @ = "no" THEN "building" ELSE @]
  <1>1. /\ c.pc = "create" /\ UNCHANGED <<asks, asked>> /\ Submitted(p, o)
        /\ IF Reaches(o) THEN NewTask("create", c.db, docs) /\ kb' = k
                         ELSE tasks' = tasks /\ kb' = kb
        /\ faults' \in 0..MaxFaults
    BY TransportFaults DEF CreateFromFiles, At
  <1>2. kb \in [Db -> Bases] /\ c.db \in Db /\ kb[c.db] \in Bases /\ docs \in SUBSET Doc
    BY AtWork DEF KBInv, Bases
  <1>3. SameCopies(kb, k) /\ \A db \in Db : k[db].files = kb[db].files
    <2> DEFINE b == [kb[c.db] EXCEPT !.listed = IF @ = "no" THEN "building" ELSE @]
    <2>1. b.files = kb[c.db].files /\ b.copies = kb[c.db].copies  BY <1>2 DEF Bases
    <2>2. k = [kb EXCEPT ![c.db] = b]  BY <1>2
    <2> HIDE DEF b, k
    <2> QED  BY <1>2, <2>1, <2>2 DEF SameCopies, FilesKept
  <1> HIDE DEF k
  <1>4. CASE Reaches(o)
    <2>1. PICK n : /\ call' = [call EXCEPT ![p] = n] /\ Past(n, c)
                   /\ n.task \in {0, Len(tasks) + 1} /\ n.polls <= MaxPolls
      BY <1>1, SubmittedPast
    <2>2. NewTask("create", c.db, docs) /\ kb' = k  BY <1>1, <1>4
    <2> QED  BY <1>1, <1>2, <1>3, <2>1, <2>2, SentCounts
  <1>5. CASE ~Reaches(o)
    <2>1. NextDocument(p, FALSE)  BY <1>1, <1>5 DEF Submitted, Reaches
    <2> QED  BY <1>1, <1>5, <2>1, NextDocumentCounts
  <1> QED  BY <1>4, <1>5

LEMMA AskQuestionCounts ==
  ASSUME KBInv, CountInv, NEW p \in Proc, NEW o \in Outcomes, AskQuestion(p, o)
  PROVE  CountInv'
  <1>1. call[p].pc = "ask" /\ UNCHANGED <<kb, asks, asked>> /\ faults' \in 0..MaxFaults
    BY TransportFaults DEF AskQuestion, At
  <1>2. CASE tasks' = tasks /\ NextDocument(p, o = "answered")
    BY <1>1, <1>2, NextDocumentCounts
  <1>3. CASE NewTask("qa", call[p].db, {}) /\ Submitted(p, o)
    <2>1. PICK n : /\ call' = [call EXCEPT ![p] = n] /\ Past(n, call[p])
                   /\ n.task \in {0, Len(tasks) + 1} /\ n.polls <= MaxPolls
      BY <1>1, <1>3, SubmittedPast
    <2> DEFINE docs == {}
    <2>2. NewTask("qa", call[p].db, docs) /\ docs \in SUBSET Doc  BY <1>3
    <2> QED  BY <1>1, <2>1, <2>2, SameKB, SentCounts
  <1> QED  BY <1>2, <1>3 DEF AskQuestion

LEMMA UploadCounts ==
  ASSUME KBInv, CountInv, NEW p \in Proc, NEW o \in Outcomes, Upload(p, o)
  PROVE  CountInv'
  <1> DEFINE c == call[p]
             k == [kb EXCEPT ![c.db].files = @ \cup {Head(c.todo)}]
  <1>1. /\ c.pc = "upload" /\ UNCHANGED <<tasks, asks, asked>>
        /\ kb' = IF Reaches(o) THEN k ELSE kb
        /\ IF o = "answered" THEN Go(p, "create") ELSE NextDocument(p, FALSE)
        /\ faults' \in 0..MaxFaults
    BY TransportFaults DEF Upload, At
  <1>2. kb \in [Db -> Bases] /\ c \in Calls /\ c.db \in Db /\ kb[c.db] \in Bases
    BY AtWork DEF KBInv
  <1>3. SameCopies(kb, k)
    <2> DEFINE b == [kb[c.db] EXCEPT !.files = @ \cup {Head(c.todo)}]
    <2>1. kb[c.db].files \subseteq b.files /\ b.copies = kb[c.db].copies  BY <1>2 DEF Bases
    <2>2. k = [kb EXCEPT ![c.db] = b]  BY <1>2
    <2> HIDE DEF b, k
    <2> QED  BY <1>2, <2>1, <2>2 DEF SameCopies, FilesKept
  <1>4. CASE o = "answered"
    <2> DEFINE n == [c EXCEPT !.pc = "create"]
    <2>1. call' = [call EXCEPT ![p] = n] /\ kb' = k  BY <1>1, <1>4 DEF Go, Reaches
    <2>2. /\ n.pc = "create" /\ n.todo = c.todo /\ n.db = c.db /\ n.task = c.task
          /\ n.polls = c.polls
      BY <1>2 DEF Calls
    <2> HIDE DEF n
    <2>3. Within(n, c) /\ \A db \in Db, d \in Doc : Len(c.todo) \notin Wanted(n, db, d)
      BY <1>1, <1>2, <2>2, UploadedIsPast
    <2>4. n.polls <= MaxPolls  BY <2>2 DEF CountInv, Bounded
    <2> QED  BY <1>1, <1>3, <2>1, <2>2, <2>3, <2>4, UploadedCounts
  <1>5. CASE o # "answered" /\ Reaches(o)
    <2>1. PICK n : /\ call' = [call EXCEPT ![p] = n]
                   /\ n.task = 0 /\ n.polls = 0 /\ Past(n, c)
      BY <1>1, <1>5, NextDocumentPast
    <2>2. Within(n, c) /\ \A db \in Db, d \in Doc : Len(c.todo) \notin Wanted(n, db, d)
      BY <2>1 DEF Past
    <2>3. kb' = k  BY <1>1, <1>5
    <2> QED  BY <1>1, <1>3, <2>1, <2>2, <2>3, NoPolls, UploadedCounts
  <1>6. CASE o # "answered" /\ ~Reaches(o)
    BY <1>1, <1>6, NextDocumentCounts
  <1> QED  BY <1>4, <1>5, <1>6

LEMMA FaultCounts == CountInv /\ (Fault \/ faults' = faults) => faults' \in 0..MaxFaults
  BY NoPolls DEF CountInv, Fault

LEMMA PollAgainCounts ==
  ASSUME KBInv, CountInv, NEW p \in Proc, PollAgain(p)
  PROVE  CountInv'
  <1> DEFINE c == call[p]
             polls == c.polls + 1
             n == [c EXCEPT !.polls = polls]
  <1>1. c \in Calls /\ CallOK(c, kb, tasks)  BY DEF KBInv
  <1>2. /\ c.pc = "poll" /\ c.polls < MaxPolls /\ call' = [call EXCEPT ![p] = n]
        /\ UNCHANGED <<kb, tasks, asks, asked, faults>>
    BY DEF PollAgain, At
  <1>3. polls <= MaxPolls
    <2>1. c.polls \in Nat  BY <1>1 DEF Calls
    <2> QED  BY <1>2, <2>1, NoPolls
  <1> HIDE DEF polls
  <1>4. n.pc = c.pc /\ n.todo = c.todo /\ n.db = c.db /\ n.task = c.task /\ n.polls = polls
    BY <1>1 DEF Calls
  <1> HIDE DEF n
  <1>5. Within(n, c)  BY <1>1, <1>2, <1>4, LaterInLoop
  <1>6. UNCHANGED <<asks, asked, tasks>> /\ faults' \in 0..MaxFaults  BY <1>2 DEF CountInv
  <1> QED  BY <1>2, <1>3, <1>4, <1>5, <1>6, SameKB, QuietMoves

LEMMA StepCounts ==
  ASSUME KBInv, CountInv, NEW p \in Proc, Step(p)
  PROVE  CountInv'
  <1>1. CASE GetResume(p)
    <2>1. /\ call[p].pc = "resume" /\ faults' \in 0..MaxFaults
          /\ UNCHANGED <<asks, asked, tasks, kb>>
      BY <1>1 DEF GetResume, At, CountInv
    <2>2. CASE Go(p, "names")  BY <2>1, <2>2, GoCounts
    <2>3. CASE NextDocument(p, FALSE)  BY <2>1, <2>3, NextDocumentCounts
    <2> QED  BY <1>1, <2>2, <2>3 DEF GetResume
  <1>2. CASE ListDatabases(p)
    <2>1. /\ call[p].pc = "names" /\ faults' \in 0..MaxFaults
          /\ UNCHANGED <<asks, asked, tasks, kb>>
      BY <1>2, FaultCounts DEF ListDatabases, At
    <2>2. CASE Go(p, "add")  BY <2>1, <2>2, GoCounts
    <2>3. CASE Go(p, "upload")  BY <2>1, <2>3, GoCounts
    <2> QED  BY <1>2, <2>2, <2>3 DEF ListDatabases
  <1>3. ASSUME NEW o \in Outcomes,
               AddFile(p, o) \/ Upload(p, o) \/ CreateFromFiles(p, o) \/ AskQuestion(p, o)
        PROVE  CountInv'
    BY <1>3, AddFileCounts, UploadCounts, CreateFromFilesCounts, AskQuestionCounts
  <1>4. CASE CreateRefused(p)
    <2>1. /\ NextDocument(p, FALSE) /\ UNCHANGED <<asks, asked, tasks, kb>>
          /\ faults' \in 0..MaxFaults
      BY <1>4 DEF CreateRefused, CountInv
    <2> QED  BY <2>1, NextDocumentCounts
  <1>5. CASE PollEnds(p)
    <2>1. UNCHANGED <<asks, asked, tasks, kb>> /\ faults' \in 0..MaxFaults
      BY <1>5, FaultCounts DEF PollEnds
    <2>2. \E ok : NextDocument(p, ok)  BY <1>5 DEF PollEnds
    <2> QED  BY <2>1, <2>2, NextDocumentCounts
  <1>6. CASE Answer(p)
    <2>1. /\ call' = [call EXCEPT ![p] = Idle] /\ UNCHANGED <<asks, asked, tasks, kb>>
          /\ faults' \in 0..MaxFaults
      BY <1>6 DEF Answer, CountInv
    <2> QED  BY <2>1, IdleCounts
  <1> QED  BY <1>1, <1>2, <1>3, <1>4, <1>5, <1>6, PollAgainCounts DEF Step

LEMMA NextCountInv == KBInv /\ CountInv /\ [Next]_vars => CountInv'
  <1> SUFFICES ASSUME KBInv, CountInv, [Next]_vars PROVE CountInv'  OBVIOUS
  <1>1. ASSUME NEW p \in Proc, NEW db \in Db,
               \/ \E d \in Doc, wait \in BOOLEAN : AddDocument(p, db, d, wait)
               \/ \E docs \in Batches : SaveCandidates(p, db, docs)
               \/ Query(p, db)
        PROVE  CountInv'
    BY <1>1, AddDocumentCounts, SaveCandidatesCounts, QueryCounts
  <1>2. ASSUME NEW p \in Proc, TaskStatus(p) \/ Die(p) PROVE CountInv'
    <2>1. /\ call' = [call EXCEPT ![p] = Idle] /\ UNCHANGED <<asks, asked, tasks, kb>>
          /\ faults' \in 0..MaxFaults
      BY <1>2, FaultCounts DEF TaskStatus, Die
    <2> QED  BY <2>1, IdleCounts
  <1>3. CASE UNCHANGED vars
    <2>1. UNCHANGED <<kb, tasks, call, asks, asked, faults>>  BY <1>3 DEF vars
    <2>2. DocsCounted(call, tasks, kb, asks)'
      BY ZenonT(60), <2>1 DEF CountInv, DocsCounted, Wanting, Places, Wanted, Left, Adding, Stored
    <2>3. CopiesCounted(tasks, kb)'
      BY <2>1 DEF CountInv, CopiesCounted, Added, Adding, Stored
    <2>4. CreatesStored(tasks, kb)'  BY <2>1 DEF CountInv, CreatesStored
    <2>5. TasksCounted(call, tasks, asked)'
      BY <2>1 DEF CountInv, TasksCounted, Owing, Places, Due
    <2>6. (\A p \in Proc : Bounded(call[p], tasks))'  BY <2>1 DEF CountInv, Bounded
    <2> QED  BY <2>1, <2>2, <2>3, <2>4, <2>5, <2>6 DEF CountInv
  <1> QED
    BY <1>1, <1>2, <1>3, StepCounts, TaskSucceedsCounts, TaskFailsCounts DEF Next

LEMMA InitCountInv == Init => CountInv
  <1> SUFFICES ASSUME Init PROVE CountInv  OBVIOUS
  <1>1. /\ tasks = <<>> /\ call = [p \in Proc |-> Idle] /\ asked = 0 /\ faults = 0
        /\ asks = [d \in Doc \cup {NoDoc} |-> 0]
        /\ kb = [db \in Db |-> [listed |-> "no", files |-> {}, copies |-> [d \in Doc |-> 0]]]
    BY DEF Init
  <1>2. Due(Idle) = {} /\ \A db, d : Wanted(Idle, db, d) = {}
    BY IdleIsACall DEF Due, Wanted, Left
  <1>3. Owing(call) = {} /\ \A db, d : Wanting(call, db, d) = {}
    BY <1>1, <1>2 DEF Owing, Wanting, Places
  <1>4. \A db, d : Adding(tasks, db, d) = {} /\ Added(tasks, db, d) = {}
    BY <1>1 DEF Adding, Added
  <1>5. IsFiniteSet({}) /\ Cardinality({}) = 0  BY FS_EmptySet
  <1>6. ASSUME NEW db \in Db, NEW d \in Doc
        PROVE  /\ Stored(kb, db, d) = 0 /\ kb[db].copies[d] = 0 /\ asks[d] = 0
               /\ IsFiniteSet(Wanting(call, db, d)) /\ Cardinality(Wanting(call, db, d)) = 0
               /\ Cardinality(Adding(tasks, db, d)) = 0 /\ Cardinality(Added(tasks, db, d)) = 0
    <2>1. Stored(kb, db, d) = 0 /\ kb[db].copies[d] = 0 /\ asks[d] = 0  BY <1>1 DEF Stored
    <2>2. /\ IsFiniteSet(Wanting(call, db, d)) /\ Cardinality(Wanting(call, db, d)) = 0
          /\ Cardinality(Adding(tasks, db, d)) = 0 /\ Cardinality(Added(tasks, db, d)) = 0
      BY <1>3, <1>4, <1>5, Zenon
    <2> QED  BY <2>1, <2>2
  <1>7. DocsCounted(call, tasks, kb, asks) /\ CopiesCounted(tasks, kb)
    BY <1>6 DEF DocsCounted, CopiesCounted
  <1>8. CreatesStored(tasks, kb)  BY <1>1 DEF CreatesStored
  <1>9. TasksCounted(call, tasks, asked)
    <2>1. Len(tasks) = 0 /\ asked = 0  BY <1>1
    <2>2. IsFiniteSet(Owing(call)) /\ Cardinality(Owing(call)) = 0  BY <1>3, <1>5, Zenon
    <2> QED  BY <2>1, <2>2 DEF TasksCounted
  <1>10. \A p \in Proc : Bounded(call[p], tasks)  BY <1>1, NoPolls DEF Bounded, Idle
  <1> QED  BY <1>1, <1>7, <1>8, <1>9, <1>10, NoPolls DEF CountInv

\* The inductive invariant: whatever is in a database, under way or still to be
\* sent was asked for, each time once, through lost and unanswered requests and
\* the deaths of processes.
THEOREM AsksAreCounted == Spec => [](KBInv /\ CountInv)
  <1>1. Init => KBInv /\ CountInv  BY InitKBInv, InitCountInv
  <1>2. KBInv /\ CountInv /\ [Next]_vars => (KBInv /\ CountInv)'  BY NextKBInv, NextCountInv
  <1> QED  BY <1>1, <1>2, PTL DEF Spec

\* The copies of a document are among the times it was asked for.
LEMMA CopiesAsked ==
  ASSUME KBInv, CountInv, NEW db \in Db, NEW d \in Doc
  PROVE  kb[db].copies[d] <= asks[d] /\ asks[d] <= asked
  <1>1. tasks \in Seq(Task) /\ asks[d] \in Nat  BY DEF KBInv, CountInv
  <1>2. kb[db].copies[d] \in Nat
    <2>1. kb[db] \in Bases  BY DEF KBInv
    <2> QED  BY <2>1 DEF Bases
  <1>3. kb[db].copies[d] <= Cardinality(Added(tasks, db, d)) + Stored(kb, db, d)
    BY DEF CountInv, CopiesCounted
  <1>4. /\ IsFiniteSet(Wanting(call, db, d))
        /\ Cardinality(Wanting(call, db, d)) + Cardinality(Adding(tasks, db, d))
             + Stored(kb, db, d) <= asks[d]
    BY DEF CountInv, DocsCounted
  <1>5. /\ Cardinality(Adding(tasks, db, d)) \in Nat /\ Cardinality(Added(tasks, db, d)) \in Nat
        /\ Cardinality(Added(tasks, db, d)) <= Cardinality(Adding(tasks, db, d))
    BY <1>1, AddingFinite
  <1>6. Cardinality(Wanting(call, db, d)) \in Nat  BY <1>4, FS_CardinalityType
  <1>7. Stored(kb, db, d) \in Nat  BY DEF Stored
  <1>8. asks[d] <= asked  BY DEF CountInv
  <1> QED  BY <1>1, <1>2, <1>3, <1>4, <1>5, <1>6, <1>7, <1>8

\* A document is never in a database more often than callers asked for it
\* (tools/kb_tools.py, add_document_to_kb; api_v1.py, _kb_ingest): a request
\* that failed is not sent again, whether or not it had arrived.
THEOREM IngestedAsAsked == Spec => []NoDoubleIngest
  <1>1. KBInv /\ CountInv => NoDoubleIngest  BY CopiesAsked DEF NoDoubleIngest
  <1> QED  BY <1>1, AsksAreCounted, PTL

\* All variables keep their types; in particular no call begins a task that
\* was not asked for, and _poll_task never polls past its deadline.
THEOREM IngestTypes == Spec => []TypeOK
  <1>1. ASSUME KBInv, CountInv PROVE TypeOK
    <2>1. Len(tasks) <= MaxAsks /\ Len(tasks) \in Nat /\ asked \in Nat
      <3>1. IsFiniteSet(Owing(call)) /\ Len(tasks) + Cardinality(Owing(call)) <= asked
        BY <1>1 DEF CountInv, TasksCounted
      <3>2. Cardinality(Owing(call)) \in Nat  BY <3>1, FS_CardinalityType
      <3>3. Len(tasks) \in Nat /\ asked \in Nat /\ asked <= MaxAsks
        BY <1>1, NoPolls DEF KBInv, CountInv
      <3> QED  BY <3>1, <3>2, <3>3, NoPolls
    <2>2. ASSUME NEW db \in Db PROVE kb[db] \in Database
      <3>1. kb[db] \in Bases  BY <1>1 DEF KBInv
      <3>2. kb[db].copies \in [Doc -> Nat]  BY <3>1 DEF Bases
      <3>3. ASSUME NEW d \in Doc PROVE kb[db].copies[d] \in 0..MaxAsks
        <4>1. kb[db].copies[d] <= asks[d] /\ asks[d] <= asked  BY <1>1, CopiesAsked
        <4>2. asks[d] \in Nat /\ asked <= MaxAsks /\ kb[db].copies[d] \in Nat
          BY <1>1, <3>2, NoPolls DEF CountInv
        <4> QED  BY <2>1, <4>1, <4>2, NoPolls
      <3>4. kb[db].copies \in [Doc -> 0..MaxAsks]  BY <3>2, <3>3
      <3> QED  BY <3>1, <3>4 DEF Bases, Database
    <2>3. kb \in [Db -> Database]  BY <1>1, <2>2 DEF KBInv
    <2>4. ASSUME NEW p \in Proc PROVE call[p] \in Call
      <3>1. call[p] \in Calls /\ Bounded(call[p], tasks)  BY <1>1 DEF KBInv, CountInv
      <3>2. call[p].task \in 0..MaxAsks /\ call[p].polls \in 0..MaxPolls
        <4>1. call[p].task \in Nat /\ call[p].polls \in Nat  BY <3>1 DEF Calls
        <4> QED  BY <2>1, <3>1, <4>1, NoPolls DEF Bounded
      <3> QED  BY <3>1, <3>2 DEF Calls, Call, PCs
    <2>5. call \in [Proc -> Call]  BY <1>1, <2>4 DEF KBInv
    <2>6. asks \in [Doc \cup {NoDoc} -> 0..MaxAsks]
      <3>1. ASSUME NEW d \in Doc \cup {NoDoc} PROVE asks[d] \in 0..MaxAsks
        BY <1>1, <2>1, NoPolls DEF CountInv
      <3> QED  BY <1>1, <3>1 DEF CountInv
    <2> QED  BY <1>1, <2>1, <2>3, <2>5, <2>6 DEF KBInv, CountInv, TypeOK
  <1> QED  BY <1>1, AsksAreCounted, PTL
=============================================================================
