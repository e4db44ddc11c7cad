----------------------------- MODULE ChatProofs ----------------------------
(***************************************************************************)
(* Proofs about Chat, for every set of processes, sessions, dashboards,    *)
(* papers and uploads and any number of requests and faults.  The parts    *)
(* share no variable: each has an invariant of its own, and a step of      *)
(* Next is at most one move of each.                                       *)
(***************************************************************************)
EXTENDS Chat, TLAPS
----------------------------------------------------------------------------
(***************************************************************************)
(* The dashboards.                                                         *)
(***************************************************************************)
DashMove(p) ==
  \/ \E d \in Dash : OpenPage(p, d)
  \/ WritePage(p)
  \/ \E blind \in BOOLEAN : LockRegistry(p, blind)
  \/ \E s \in Session : WriteRegistry(p, s)
  \/ LeaveRegistration(p)

Registering(p) == reg[p].pc # "none"

\* A registration has a page of its own, which nobody lists yet.
PageInv ==
  /\ \A p \in Proc : Registering(p) =>
       /\ reg[p].dash \in Dash
       /\ page[reg[p].dash] # "none"
       /\ reg[p].pc # "html" => page[reg[p].dash] = "whole"
       /\ reg[p].dash \notin registry.known
  /\ \A p, q \in Proc :
       Registering(p) /\ Registering(q) /\ reg[p].dash = reg[q].dash => p = q

\* The holder of the lock, and nobody else, has the registry as it still is in
\* its hands, or has failed to read it.
LockInv ==
  \A p \in Proc :
    /\ reg[p].pc = "write" <=> lock = p
    /\ reg[p].pc = "write" =>
         reg[p].data = IF reg[p].blind THEN NoRegistry ELSE registry

DashInv == DashboardsTypeOK /\ PageInv /\ LockInv /\ ListedIsServed

LEMMA NothingTyped == NoRegistry \in Registry /\ NoRegistration \in Registration
  BY DEF NoRegistry, Registry, NoRegistration, Registration

LEMMA SetReg ==
  ASSUME DashboardsTypeOK, NEW p \in Proc, NEW r \in Registration,
         reg' = [reg EXCEPT ![p] = r]
  PROVE  /\ reg' \in [Proc -> Registration]
         /\ reg'[p] = r
         /\ \A q \in Proc \ {p} : reg'[q] = reg[q]
  BY DEF DashboardsTypeOK

LEMMA OpenPageInv ==
  ASSUME DashInv, NEW p \in Proc, NEW d \in Dash, OpenPage(p, d)
  PROVE  DashInv'
  <1> DEFINE r == [NoRegistration EXCEPT !.pc = "html", !.dash = d]
  <1>1. r \in Registration  BY NothingTyped DEF Registration
  <1>2. /\ reg' = [reg EXCEPT ![p] = r]
        /\ page' = [page EXCEPT ![d] = "part"]
        /\ page[d] = "none" /\ reg[p].pc = "none"
        /\ registry' = registry /\ lock' = lock
    BY DEF OpenPage
  <1>3. r.pc = "html" /\ r.dash = d  BY NothingTyped DEF Registration
  <1> HIDE DEF r
  <1>4. /\ reg' \in [Proc -> Registration] /\ reg'[p] = r
        /\ \A q \in Proc \ {p} : reg'[q] = reg[q]
    BY <1>1, <1>2, SetReg DEF DashInv
  <1>5. DashboardsTypeOK'  BY <1>2, <1>4 DEF DashInv, DashboardsTypeOK
  <1>6. page \in [Dash -> {"none", "part", "whole"}]  BY DEF DashInv, DashboardsTypeOK
  <1>7. d \notin registry.known  BY <1>2 DEF DashInv, ListedIsServed
  <1>8. PageInv'
    <2>1. \A q \in Proc : Registering(q)' =>
            q = p \/ (q # p /\ Registering(q) /\ reg[q].dash \in Dash \ {d})
      BY <1>2, <1>4 DEF DashInv, PageInv, Registering
    <2>2. \A x \in Dash \ {d} : page'[x] = page[x]  BY <1>2, <1>6
    <2>3. page'[d] = "part"  BY <1>2, <1>6
    <2>4. \A q \in Proc : Registering(q)' =>
            /\ reg'[q].dash \in Dash
            /\ page'[reg'[q].dash] # "none"
            /\ reg'[q].pc # "html" => page'[reg'[q].dash] = "whole"
            /\ reg'[q].dash \notin registry'.known
      BY <1>2, <1>3, <1>4, <1>7, <2>1, <2>2, <2>3 DEF DashInv, PageInv
    <2>5. \A q, o \in Proc :
            Registering(q)' /\ Registering(o)' /\ reg'[q].dash = reg'[o].dash => q = o
      BY <1>3, <1>4, <2>1 DEF DashInv, PageInv
    <2> QED  BY <2>4, <2>5 DEF PageInv
  <1>9. LockInv'  BY <1>2, <1>3, <1>4 DEF DashInv, LockInv
  <1>10. ListedIsServed'
    BY <1>2, <1>6 DEF DashInv, ListedIsServed, DashboardsTypeOK, Registry
  <1> QED  BY <1>5, <1>8, <1>9, <1>10 DEF DashInv

LEMMA WritePageInv ==
  ASSUME DashInv, NEW p \in Proc, WritePage(p)
  PROVE  DashInv'
  <1> DEFINE r == [reg[p] EXCEPT !.pc = "lock"]
             d == reg[p].dash
  <1>1. r \in Registration /\ r.pc = "lock" /\ r.dash = d
    BY DEF DashInv, DashboardsTypeOK, Registration
  <1>2. /\ reg' = [reg EXCEPT ![p] = r]
        /\ page' = [page EXCEPT ![d] = "whole"]
        /\ reg[p].pc = "html" /\ registry' = registry /\ lock' = lock
    BY DEF WritePage, DashInv, DashboardsTypeOK, Registration
  <1>3. d \in Dash /\ d \notin registry.known  BY <1>2 DEF DashInv, PageInv, Registering
  <1> HIDE DEF r
  <1>4. /\ reg' \in [Proc -> Registration] /\ reg'[p] = r
        /\ \A q \in Proc \ {p} : reg'[q] = reg[q]
    BY <1>1, <1>2, SetReg DEF DashInv
  <1>5. DashboardsTypeOK'  BY <1>2, <1>3, <1>4 DEF DashInv, DashboardsTypeOK
  <1>6. page \in [Dash -> {"none", "part", "whole"}]  BY DEF DashInv, DashboardsTypeOK
  <1>7. PageInv'
    BY <1>1, <1>2, <1>3, <1>4, <1>6 DEF DashInv, PageInv, Registering
  <1>8. LockInv'  BY <1>1, <1>2, <1>4 DEF DashInv, LockInv
  <1>9. ListedIsServed'
    BY <1>2, <1>6 DEF DashInv, ListedIsServed, DashboardsTypeOK, Registry
  <1> QED  BY <1>5, <1>7, <1>8, <1>9 DEF DashInv

LEMMA LockRegistryInv ==
  ASSUME DashInv, NEW p \in Proc, NEW blind \in BOOLEAN, LockRegistry(p, blind)
  PROVE  DashInv'
  <1> DEFINE data == IF blind THEN NoRegistry ELSE registry
             r == [reg[p] EXCEPT !.pc = "write", !.blind = blind, !.data = data]
  <1>1. reg[p] \in Registration  BY DEF DashInv, DashboardsTypeOK
  <1>2. data \in Registry  BY NothingTyped DEF DashInv, DashboardsTypeOK
  <1>3. reg' = [reg EXCEPT ![p] = r]  BY <1>1 DEF LockRegistry, DashInv, DashboardsTypeOK
  <1> HIDE DEF data
  <1>4. /\ r \in Registration /\ r.pc = "write" /\ r.dash = reg[p].dash
        /\ r.data = data /\ r.blind = blind
    BY <1>1, <1>2 DEF Registration
  <1>7. reg[p].pc = "lock" /\ lock = NoProc /\ lock' = p /\ registry' = registry /\ page' = page
    BY DEF LockRegistry, Free
  <1>8. /\ r.pc = "write" /\ r.dash = reg[p].dash
        /\ r.data = IF r.blind THEN NoRegistry ELSE registry
    BY <1>4 DEF data
  <1> HIDE DEF r
  <1>9. /\ reg' \in [Proc -> Registration] /\ reg'[p] = r
        /\ \A q \in Proc \ {p} : reg'[q] = reg[q]
    BY <1>3, <1>4, SetReg DEF DashInv
  <1>10. DashboardsTypeOK'  BY <1>7, <1>9 DEF DashInv, DashboardsTypeOK
  <1>11. PageInv'  BY <1>7, <1>8, <1>9 DEF DashInv, PageInv, Registering
  <1>12. LockInv'
    BY <1>7, <1>8, <1>9, DashboardsAssumption DEF DashInv, LockInv
  <1>13. ListedIsServed'  BY <1>7 DEF DashInv, ListedIsServed
  <1> QED  BY <1>10, <1>11, <1>12, <1>13 DEF DashInv

\* A registration loses nothing that was listed, unless it was blind.
LEMMA RegisteredIn ==
  ASSUME NEW data \in Registry, NEW s \in Session, NEW d \in Dash
  PROVE  /\ Registered(data, s, d) \in Registry
         /\ Registered(data, s, d).known = data.known \cup {d}
         /\ Registered(data, s, d).active = [data.active EXCEPT ![s] = d]
  BY DEF Registered, Registry

LEMMA WriteRegistryInv ==
  ASSUME DashInv, NEW p \in Proc, NEW s \in Session, WriteRegistry(p, s)
  PROVE  /\ DashInv'
         /\ registry' = Registered(reg[p].data, s, reg[p].dash)
         /\ reg[p].data = IF reg[p].blind THEN NoRegistry ELSE registry
  <1> DEFINE d == reg[p].dash
             data == reg[p].data
  <1>1. /\ reg' = [reg EXCEPT ![p] = NoRegistration]
        /\ registry' = Registered(data, s, d)
        /\ reg[p].pc = "write" /\ lock' = NoProc /\ page' = page
    BY DEF WriteRegistry
  <1>2. data \in Registry /\ d \in Dash /\ page[d] = "whole" /\ lock = p
    BY <1>1 DEF DashInv, PageInv, LockInv, Registering, DashboardsTypeOK, Registration
  <1>3. /\ registry' \in Registry
        /\ registry'.known = data.known \cup {d}
        /\ registry'.active = [data.active EXCEPT ![s] = d]
    BY <1>1, <1>2, RegisteredIn
  <1>4. data = IF reg[p].blind THEN NoRegistry ELSE registry
    BY <1>1 DEF DashInv, LockInv
  <1>5. /\ reg' \in [Proc -> Registration] /\ reg'[p] = NoRegistration
        /\ \A q \in Proc \ {p} : reg'[q] = reg[q]
    BY <1>1, NothingTyped, SetReg DEF DashInv
  <1>6. NoRegistration.pc = "none"  BY DEF NoRegistration
  <1>7. data.known \subseteq registry.known
    BY <1>4 DEF NoRegistry
  <1>8. DashboardsTypeOK'  BY <1>1, <1>3, <1>5 DEF DashInv, DashboardsTypeOK
  <1>9. PageInv'
    BY <1>1, <1>2, <1>3, <1>5, <1>6, <1>7 DEF DashInv, PageInv, Registering
  <1>10. LockInv'
    BY <1>1, <1>2, <1>5, <1>6, DashboardsAssumption DEF DashInv, LockInv
  <1>11. ListedIsServed'
    <2>1. \A x \in registry'.known : page'[x] = "whole"
      BY <1>1, <1>2, <1>3, <1>7 DEF DashInv, ListedIsServed
    <2>2. \A t \in Session : data.active[t] \in data.known \cup {NoDash}
      BY <1>4 DEF DashInv, ListedIsServed, NoRegistry
    <2>3. \A t \in Session : registry'.active[t] \in registry'.known \cup {NoDash}
      BY <1>2, <1>3, <2>2 DEF Registry
    <2> QED  BY <2>1, <2>3 DEF ListedIsServed
  <1> QED  BY <1>1, <1>4, <1>8, <1>9, <1>10, <1>11 DEF DashInv

LEMMA LeaveRegistrationInv ==
  ASSUME DashInv, NEW p \in Proc, LeaveRegistration(p)
  PROVE  DashInv'
  <1>1. /\ reg' = [reg EXCEPT ![p] = NoRegistration]
        /\ lock' = (IF lock = p THEN NoProc ELSE lock)
        /\ registry' = registry /\ page' = page
    BY DEF LeaveRegistration
  <1>2. /\ reg' \in [Proc -> Registration] /\ reg'[p] = NoRegistration
        /\ \A q \in Proc \ {p} : reg'[q] = reg[q]
    BY <1>1, NothingTyped, SetReg DEF DashInv
  <1>3. NoRegistration.pc = "none"  BY DEF NoRegistration
  <1>4. DashboardsTypeOK'  BY <1>1, <1>2 DEF DashInv, DashboardsTypeOK
  <1>5. PageInv'  BY <1>1, <1>2, <1>3 DEF DashInv, PageInv, Registering
  <1>6. LockInv'
    BY <1>1, <1>2, <1>3, DashboardsAssumption DEF DashInv, LockInv
  <1>7. ListedIsServed'  BY <1>1 DEF DashInv, ListedIsServed
  <1> QED  BY <1>4, <1>5, <1>6, <1>7 DEF DashInv

LEMMA DashStable == DashInv /\ UNCHANGED dashboardVars => DashInv'
  BY DEF DashInv, dashboardVars, DashboardsTypeOK, PageInv, LockInv, ListedIsServed, Registering

LEMMA DashMoves ==
  ASSUME DashInv, NEW p \in Proc, DashMove(p) PROVE DashInv'
  BY OpenPageInv, WritePageInv, LockRegistryInv, WriteRegistryInv, LeaveRegistrationInv
     DEF DashMove
----------------------------------------------------------------------------
(***************************************************************************)
(* The papers.                                                             *)
(***************************************************************************)
ResetSession(p) == session' = [session EXCEPT ![p] = EmptySession]

PaperMove(p) ==
  \/ \E found \in SUBSET Paper : SearchFinds(p, found)
  \/ SearchFails(p)
  \/ \E q \in Paper : AlreadyDownloaded(p, q) \/ StartDownload(p, q)
  \/ DownloadFails(p)
  \/ TruncatePdf(p)
  \/ WritePdf(p)
  \/ LeaveDownload(p) /\ (ResetSession(p) \/ UNCHANGED session)
  \/ ResetSession(p) /\ UNCHANGED <<fetch, pdf, damaged>>

Writing(p, q) == fetch[p].pc = "write" /\ fetch[p].paper = q

\* A file in parts has a writer, or had one that died or failed.
PaperInv ==
  /\ PapersTypeOK
  /\ \A p \in Proc : fetch[p].pc # "none" => fetch[p].paper \in Paper
  /\ \A q \in Paper : pdf[q] = "part" => q \in damaged \/ \E p \in Proc : Writing(p, q)

Sessions == [papers : SUBSET Paper, downloaded : SUBSET Paper, errors : BOOLEAN]

Fetches == [pc : {"none", "get", "write"}, paper : Paper \cup {NoPaper}]

LEMMA PapersTyped ==
  PapersTypeOK <=> /\ session \in [Proc -> Sessions]
                   /\ fetch \in [Proc -> Fetches]
                   /\ pdf \in [Paper -> {"none", "part", "whole"}]
                   /\ damaged \subseteq Paper
  BY ChatAssumption DEF PapersTypeOK, Sessions, Fetches

\* What a move makes of the process's session.
LEMMA SessionTyped ==
  ASSUME PapersTypeOK, NEW p \in Proc
  PROVE  /\ ResetSession(p) => session' \in [Proc -> Sessions]
         /\ RecordError(p) => session' \in [Proc -> Sessions]
         /\ \A found \in SUBSET Paper : SearchFinds(p, found) => session' \in [Proc -> Sessions]
         /\ \A q \in Paper :
              session' = [session EXCEPT ![p].downloaded = @ \cup {q}]
                => session' \in [Proc -> Sessions]
  <1>1. session \in [Proc -> Sessions] /\ session[p] \in Sessions  BY PapersTyped
  <1>2. EmptySession \in Sessions  BY DEF EmptySession, Sessions
  <1>3. ASSUME RecordError(p) PROVE session' \in [Proc -> Sessions]
    <2>1. [session[p] EXCEPT !.errors = TRUE] \in Sessions  BY <1>1 DEF Sessions
    <2>2. session' = [session EXCEPT ![p] = [session[p] EXCEPT !.errors = TRUE]]
      BY <1>1, <1>3 DEF RecordError
    <2> QED  BY <1>1, <2>1, <2>2
  <1>4. ASSUME NEW found \in SUBSET Paper, SearchFinds(p, found)
        PROVE  session' \in [Proc -> Sessions]
    <2> DEFINE errors == session[p].errors \/ found = {}
               s == [session[p] EXCEPT !.papers = found, !.errors = errors]
    <2>1. session' = [session EXCEPT ![p] = s]  BY <1>1, <1>4 DEF SearchFinds
    <2>2. errors \in BOOLEAN  BY <1>1 DEF Sessions
    <2> HIDE DEF errors
    <2>3. s \in Sessions  BY <1>1, <2>2 DEF Sessions
    <2> QED  BY <1>1, <2>1, <2>3
  <1>5. ASSUME NEW q \in Paper, session' = [session EXCEPT ![p].downloaded = @ \cup {q}]
        PROVE  session' \in [Proc -> Sessions]
    <2> DEFINE all == session[p].downloaded \cup {q}
               s == [session[p] EXCEPT !.downloaded = all]
    <2>1. session' = [session EXCEPT ![p] = s]  BY <1>1, <1>5
    <2>2. all \in SUBSET Paper  BY <1>1 DEF Sessions
    <2> HIDE DEF all
    <2>3. s \in Sessions  BY <1>1, <2>2 DEF Sessions
    <2> QED  BY <1>1, <2>1, <2>3
  <1> QED  BY <1>1, <1>2, <1>3, <1>4, <1>5 DEF ResetSession

\* A process takes up or leaves a download without touching a file.
LEMMA FetchKeeps ==
  ASSUME PaperInv, NEW p \in Proc, NEW f \in Fetches,
         fetch' = [fetch EXCEPT ![p] = f],
         f.pc # "none" => f.paper \in Paper,
         fetch[p].pc # "write",
         session' \in [Proc -> Sessions], pdf' = pdf, damaged' = damaged
  PROVE  PaperInv'
  <1>1. fetch \in [Proc -> Fetches]  BY PapersTyped DEF PaperInv
  <1>2. fetch'[p] = f /\ \A r \in Proc \ {p} : fetch'[r] = fetch[r]  BY <1>1
  <1>3. fetch' \in [Proc -> Fetches]  BY <1>1
  <1>4. PapersTypeOK'  BY <1>3, PapersTyped DEF PaperInv, PapersTypeOK, Sessions, Fetches
  <1>5. \A r \in Proc : fetch'[r].pc # "none" => fetch'[r].paper \in Paper
    BY <1>2 DEF PaperInv
  <1>6. \A q \in Paper : pdf'[q] = "part" =>
          q \in damaged' \/ \E r \in Proc : Writing(r, q)'
    BY <1>2 DEF PaperInv, Writing
  <1> QED  BY <1>4, <1>5, <1>6 DEF PaperInv

LEMMA PaperMoves ==
  ASSUME PaperInv, NEW p \in Proc, PaperMove(p)
  PROVE  PaperInv' /\ \A q \in Paper : pdf[q] # "none" => pdf'[q] # "none"
  <1>1. /\ session \in [Proc -> Sessions] /\ session[p] \in Sessions
        /\ fetch \in [Proc -> Fetches] /\ fetch[p] \in Fetches
        /\ pdf \in [Paper -> {"none", "part", "whole"}] /\ damaged \subseteq Paper
    BY PapersTyped DEF PaperInv
  <1>2. ASSUME session' \in [Proc -> Sessions], UNCHANGED <<fetch, pdf, damaged>>
        PROVE  PaperInv' /\ \A q \in Paper : pdf[q] # "none" => pdf'[q] # "none"
    <2>1. PapersTypeOK'  BY <1>1, <1>2, ChatAssumption DEF PapersTypeOK, Sessions, Fetches
    <2> QED  BY <1>2, <2>1 DEF PaperInv, Writing
  <1>3. NoFetch \in Fetches /\ NoFetch.pc = "none"  BY DEF NoFetch, Fetches
  <1>4. ASSUME NEW found \in SUBSET Paper, SearchFinds(p, found)
        PROVE  PaperInv' /\ \A q \in Paper : pdf[q] # "none" => pdf'[q] # "none"
    BY <1>2, <1>4, SessionTyped DEF SearchFinds, PaperInv
  <1>5. CASE SearchFails(p)
    BY <1>2, <1>5, SessionTyped DEF SearchFails, PaperInv
  <1>6. ASSUME NEW q \in Paper, AlreadyDownloaded(p, q)
        PROVE  PaperInv' /\ \A x \in Paper : pdf[x] # "none" => pdf'[x] # "none"
    BY <1>2, <1>6, SessionTyped DEF AlreadyDownloaded, PaperInv
  <1>7. ASSUME NEW q \in Paper, StartDownload(p, q)
        PROVE  PaperInv' /\ pdf' = pdf
    <2> DEFINE f == [pc |-> "get", paper |-> q]
    <2>1. f \in Fetches /\ f.paper \in Paper  BY DEF Fetches
    <2> HIDE DEF f
    <2>2. fetch' = [fetch EXCEPT ![p] = f]  BY <1>7 DEF StartDownload, f
    <2> QED  BY <1>1, <1>3, <1>7, <2>1, <2>2, FetchKeeps DEF StartDownload
  <1>8. CASE DownloadFails(p)
    <2>1. session' \in [Proc -> Sessions]  BY <1>8, SessionTyped DEF DownloadFails, PaperInv
    <2> QED  BY <1>3, <1>8, <2>1, FetchKeeps DEF DownloadFails
  <1>9. CASE TruncatePdf(p)
    <2>0. PICK q \in Paper : q = fetch[p].paper  BY <1>9 DEF TruncatePdf, PaperInv
    <2> DEFINE f == [fetch[p] EXCEPT !.pc = "write"]
    <2>1. session' = session /\ damaged' = damaged /\ pdf' = [pdf EXCEPT ![q] = "part"]
      BY <1>9, <2>0 DEF TruncatePdf
    <2>2. f \in Fetches /\ f.pc = "write" /\ f.paper = q  BY <1>1, <2>0 DEF Fetches
    <2>3. fetch' = [fetch EXCEPT ![p] = f]  BY <1>1, <1>9 DEF TruncatePdf
    <2> HIDE DEF f
    <2>4. fetch'[p] = f /\ \A r \in Proc \ {p} : fetch'[r] = fetch[r]  BY <1>1, <2>3
    <2>5. PapersTypeOK'
      BY <1>1, <2>1, <2>2, <2>3, ChatAssumption DEF PapersTypeOK, Sessions, Fetches
    <2>6. \A r \in Proc : fetch'[r].pc # "none" => fetch'[r].paper \in Paper
      BY <2>1, <2>2, <2>4 DEF PaperInv
    <2>7. Writing(p, q)'  BY <2>2, <2>4 DEF Writing
    <2>8. \A x \in Paper \ {q} : \A r \in Proc : Writing(r, x) => Writing(r, x)'
      BY <2>0, <2>4 DEF Writing
    <2>9. \A x \in Paper : pdf'[x] = "part" => x \in damaged' \/ \E r \in Proc : Writing(r, x)'
      BY <1>1, <2>1, <2>7, <2>8 DEF PaperInv
    <2> QED  BY <1>1, <2>1, <2>5, <2>6, <2>9 DEF PaperInv
  <1>10. CASE WritePdf(p)
    <2> DEFINE q == fetch[p].paper
    <2>1. q \in Paper /\ damaged' = damaged /\ pdf' = [pdf EXCEPT ![q] = "whole"]
      BY <1>10 DEF WritePdf, PaperInv
    <2>2. session' \in [Proc -> Sessions]  BY <1>10, <2>1, SessionTyped DEF WritePdf, PaperInv
    <2>3. fetch' = [fetch EXCEPT ![p] = NoFetch]  BY <1>10 DEF WritePdf
    <2>4. fetch'[p] = NoFetch /\ \A r \in Proc \ {p} : fetch'[r] = fetch[r]  BY <1>1, <2>3
    <2>5. PapersTypeOK'
      BY <1>1, <1>3, <2>1, <2>2, <2>3, ChatAssumption DEF PapersTypeOK, Sessions, Fetches
    <2>6. \A r \in Proc : fetch'[r].pc # "none" => fetch'[r].paper \in Paper
      BY <1>3, <2>4 DEF PaperInv
    <2>7. \A x \in Paper \ {q} : \A r \in Proc : Writing(r, x) => Writing(r, x)'
      BY <2>4 DEF Writing
    <2>8. \A x \in Paper : pdf'[x] = "part" => x \in damaged' \/ \E r \in Proc : Writing(r, x)'
      BY <1>1, <2>1, <2>7 DEF PaperInv
    <2> QED  BY <1>1, <2>1, <2>5, <2>6, <2>8 DEF PaperInv
  <1>11. CASE LeaveDownload(p) /\ (ResetSession(p) \/ UNCHANGED session)
    <2>1. session' \in [Proc -> Sessions]  BY <1>1, <1>11, SessionTyped DEF PaperInv
    <2>2. /\ damaged' = damaged \cup (IF fetch[p].pc = "write" THEN {fetch[p].paper} ELSE {})
          /\ fetch' = [fetch EXCEPT ![p] = NoFetch] /\ pdf' = pdf
      BY <1>11 DEF LeaveDownload
    <2>3. fetch'[p] = NoFetch /\ \A r \in Proc \ {p} : fetch'[r] = fetch[r]  BY <1>1, <2>2
    <2>4. damaged' \subseteq Paper  BY <1>1, <2>2 DEF PaperInv
    <2>5. PapersTypeOK'
      BY <1>1, <1>3, <2>1, <2>2, <2>4, ChatAssumption DEF PapersTypeOK, Sessions, Fetches
    <2>6. \A r \in Proc : fetch'[r].pc # "none" => fetch'[r].paper \in Paper
      BY <1>3, <2>3 DEF PaperInv
    <2>7. \A x \in Paper, r \in Proc :
            Writing(r, x) => x \in damaged' \/ Writing(r, x)'
      BY <2>2, <2>3 DEF Writing
    <2>8. \A x \in Paper : pdf'[x] = "part" => x \in damaged' \/ \E r \in Proc : Writing(r, x)'
      BY <2>2, <2>7 DEF PaperInv
    <2> QED  BY <2>2, <2>5, <2>6, <2>8 DEF PaperInv
  <1>12. CASE ResetSession(p) /\ UNCHANGED <<fetch, pdf, damaged>>
    BY <1>2, <1>12, SessionTyped DEF PaperInv
  <1> QED  BY <1>4, <1>5, <1>6, <1>7, <1>8, <1>9, <1>10, <1>11, <1>12 DEF PaperMove

LEMMA PapersStable == PaperInv /\ UNCHANGED paperVars => PaperInv'
  BY DEF PaperInv, paperVars, PapersTypeOK, Writing
----------------------------------------------------------------------------
(***************************************************************************)
(* The uploads.                                                            *)
(***************************************************************************)
Uploads == [mode : {"none", "pdf-native", "plain"}, text : BOOLEAN,
            meta : {"none", "part", "whole"}]

HasText(u) == stored[u].mode = "plain" => stored[u].text

\* The metadata are written when the text is there, and handed out when whole.
UploadInv ==
  /\ stored \in [Upload -> Uploads]
  /\ saving \in [Proc -> Upload \cup {NoUpload}]
  /\ told \subseteq Upload
  /\ \A u \in Upload : stored[u].meta # "none" => HasText(u)
  /\ \A u \in told : stored[u].meta = "whole"

UploadMove(p) ==
  \/ UploadStep(p)
  \/ saving' = [saving EXCEPT ![p] = NoUpload] /\ UNCHANGED <<stored, told>>

\* One upload changes: its metadata stay whole and do not come before the text.
LEMMA StoreKeeps ==
  ASSUME UploadInv, NEW u \in Upload, NEW f \in Uploads,
         stored' = [stored EXCEPT ![u] = f],
         saving' \in [Proc -> Upload \cup {NoUpload}],
         f.meta # "none" => (f.mode = "plain" => f.text),
         stored[u].meta = "whole" => f.meta = "whole",
         told' = told \/ (told' = told \cup {u} /\ f.meta = "whole")
  PROVE  UploadInv'
  <1>1. stored' \in [Upload -> Uploads]  BY DEF UploadInv
  <1>2. stored'[u] = f /\ \A x \in Upload \ {u} : stored'[x] = stored[x]  BY DEF UploadInv
  <1>3. \A x \in Upload : stored'[x].meta # "none" => HasText(x)'
    BY <1>2 DEF UploadInv, HasText
  <1>4. told' \subseteq Upload /\ \A x \in told' : stored'[x].meta = "whole"
    BY <1>2 DEF UploadInv
  <1> QED  BY <1>1, <1>3, <1>4 DEF UploadInv

LEMMA UploadMoves ==
  ASSUME UploadInv, NEW p \in Proc, UploadMove(p)
  PROVE  UploadInv'
  <1>1. /\ stored \in [Upload -> Uploads] /\ saving \in [Proc -> Upload \cup {NoUpload}]
        /\ \A u \in Upload : stored[u] \in Uploads
    BY DEF UploadInv
  <1>2. ASSUME saving' = [saving EXCEPT ![p] = NoUpload], UNCHANGED <<stored, told>>
        PROVE  UploadInv'
    BY <1>2 DEF UploadInv, HasText
  <1>3. ASSUME NEW u \in Upload, NEW mode \in {"pdf-native", "plain"}, SaveOriginal(p, u, mode)
        PROVE  UploadInv'
    <2> DEFINE f == [NoFiles EXCEPT !.mode = mode]
    <2>1. f \in Uploads /\ f.meta = "none"  BY DEF NoFiles, Uploads
    <2>2. stored' = [stored EXCEPT ![u] = f]  BY <1>3 DEF SaveOriginal, Saving
    <2> HIDE DEF f
    <2>3. saving' \in [Proc -> Upload \cup {NoUpload}] /\ told' = told
      BY <1>1, <1>3 DEF SaveOriginal
    <2>4. stored[u].meta = "none"  BY <1>3 DEF SaveOriginal, NoFiles
    <2> QED  BY <2>1, <2>2, <2>3, <2>4, StoreKeeps
  <1>4. CASE SaveText(p)
    <2> DEFINE u == saving[p]
               f == [stored[u] EXCEPT !.text = TRUE]
    <2>1. u \in Upload /\ stored' = [stored EXCEPT ![u] = f] /\ saving' = saving /\ told' = told
      BY <1>1, <1>4 DEF SaveText, Saving
    <2>2. f \in Uploads /\ f.text /\ f.meta = stored[u].meta  BY <1>1, <2>1 DEF Uploads
    <2> HIDE DEF f
    <2> QED  BY <1>1, <2>1, <2>2, StoreKeeps
  <1>5. CASE OpenMeta(p)
    <2> DEFINE u == saving[p]
               f == [stored[u] EXCEPT !.meta = "part"]
    <2>1. /\ u \in Upload /\ stored' = [stored EXCEPT ![u] = f] /\ saving' = saving /\ told' = told
          /\ stored[u].meta = "none" /\ HasText(u)
      BY <1>1, <1>5 DEF OpenMeta, Saving, HasText
    <2>2. f \in Uploads /\ f.mode = stored[u].mode /\ f.text = stored[u].text
      BY <1>1, <2>1 DEF Uploads
    <2> HIDE DEF f
    <2> QED  BY <1>1, <2>1, <2>2, StoreKeeps DEF HasText
  <1>6. CASE SaveMeta(p)
    <2> DEFINE u == saving[p]
               f == [stored[u] EXCEPT !.meta = "whole"]
    <2>1. /\ u \in Upload /\ stored' = [stored EXCEPT ![u] = f]
          /\ saving' = [saving EXCEPT ![p] = NoUpload] /\ told' = told \cup {u}
          /\ stored[u].meta = "part"
      BY <1>1, <1>6 DEF SaveMeta, Saving
    <2>2. f \in Uploads /\ f.mode = stored[u].mode /\ f.text = stored[u].text /\ f.meta = "whole"
      BY <1>1, <2>1 DEF Uploads
    <2>3. HasText(u)  BY <2>1 DEF UploadInv
    <2> HIDE DEF f
    <2> QED  BY <1>1, <2>1, <2>2, <2>3, StoreKeeps DEF HasText
  <1>7. CASE UploadFails(p)  BY <1>2, <1>7 DEF UploadFails
  <1> QED  BY <1>2, <1>3, <1>4, <1>5, <1>6, <1>7 DEF UploadMove, UploadStep

LEMMA UploadsStable == UploadInv /\ UNCHANGED uploadVars => UploadInv'
  BY DEF UploadInv, uploadVars, HasText
----------------------------------------------------------------------------
(***************************************************************************)
(* The requests.                                                           *)
(***************************************************************************)
Chats == [pc : {"idle", "agent", "reply", "done"}, kind : {"chat", "search"},
          session : Session \cup {NoSession}, before : Dash \cup {NoDash},
          text : {"none", "text", "link"}, made : SUBSET Dash,
          reply : {"none", "text", "summary", "undownloaded", "report", "sorry"},
          files : SUBSET Paper]

\* Only the agent uses tools; only a result lists files, which exist.
AgentOK(p) ==
  /\ chat[p].kind = "chat" /\ chat[p].pc \in {"agent", "reply"} => chat[p].session \in Session
  /\ chat[p].pc # "agent" => reg[p] = NoRegistration /\ fetch[p] = NoFetch
  /\ chat[p].pc = "agent" => chat[p].text = "none"
  /\ chat[p].kind = "search" => chat[p].made = {}
  /\ chat[p].pc # "done" => chat[p].files = {}
  /\ \A q \in chat[p].files : pdf[q] # "none"

AgentInv ==
  /\ chat \in [Proc -> Chats]
  /\ chats \in 0..MaxChats
  /\ faults \in 0..MaxFaults
  /\ \A p \in Proc : AgentOK(p)

\* Nobody else's dashboard is the one a chat found: it was registered before.
OwnOK(p) ==
  /\ ~reg[p].blind
  /\ chat[p].pc \in {"agent", "reply"} => chat[p].before \in registry.known \cup {NoDash}
  /\ chat[p].pc \in {"agent", "reply"} /\ chat[p].made # {} =>
       registry.active[chat[p].session] \notin {NoDash, chat[p].before}
  /\ chat[p].pc = "done" /\ chat[p].made # {} /\ chat[p].text # "none" =>
       chat[p].reply = "text"

OwnInv == faults = 0 => \A p \in Proc : OwnOK(p)

ChatInv == DashInv /\ PaperInv /\ UploadInv /\ AgentInv /\ OwnInv

Stepping(p) == ChatStep(p) \/ UploadStep(p) \/ Die(p)

\* A step of a process is at most one move of each part.
LEMMA StepMoves ==
  ASSUME ChatInv, NEW p \in Proc, Stepping(p)
  PROVE  /\ DashMove(p) \/ UNCHANGED dashboardVars
         /\ PaperMove(p) \/ UNCHANGED paperVars
         /\ UploadMove(p) \/ UNCHANGED uploadVars
  <1>1. ASSUME NEW s \in Session, NEW blind \in BOOLEAN, StartChat(p, s, blind)
        PROVE  UNCHANGED dashboardVars /\ PaperMove(p) /\ UNCHANGED uploadVars
    BY <1>1 DEF StartChat, PaperMove, ResetSession
  <1>2. CASE StartSearch(p)
    BY <1>2 DEF StartSearch, PaperMove, ResetSession
  <1>3. CASE PaperTool(p)  BY <1>3 DEF PaperTool, PaperMove
  <1>4. CASE DashboardTool(p)
    <2>1. chat[p].session \in Session
      BY <1>4 DEF DashboardTool, ChatInv, AgentInv, AgentOK
    <2> QED  BY <1>4, <2>1 DEF DashboardTool, DashMove
  <1>5. CASE ToolFails(p)  BY <1>5 DEF ToolFails, DashMove, PaperMove, paperVars
  <1>6. ASSUME NEW text \in {"none", "text", "link"}, AgentEnds(p, text)
        PROVE  UNCHANGED <<dashboardVars, paperVars, uploadVars>>
    BY <1>6 DEF AgentEnds
  <1>7. ASSUME NEW blind \in BOOLEAN, Decide(p, blind)
        PROVE  UNCHANGED <<dashboardVars, paperVars, uploadVars>>
    BY <1>7 DEF Decide, Answer, Fails, Result
  <1>8. CASE DecideSearch(p)  BY <1>8 DEF DecideSearch, Answer, Fails, Result
  <1>9. CASE AgentFails(p)  BY <1>9 DEF AgentFails, Fails, Result
  <1>10. CASE Deliver(p)  BY <1>10 DEF Deliver
  <1>11. CASE UploadStep(p)
    BY <1>11 DEF UploadStep, UploadMove, SaveOriginal, SaveText, OpenMeta, SaveMeta,
                 UploadFails, Saving
  <1>12. CASE Die(p)
    BY <1>12 DEF Die, DashMove, PaperMove, UploadMove, ResetSession
  <1> QED
    BY <1>1, <1>2, <1>3, <1>4, <1>5, <1>6, <1>7, <1>8, <1>9, <1>10, <1>11, <1>12
       DEF Stepping, ChatStep

\* What a step of p leaves to the other processes.
LEMMA Elsewhere ==
  ASSUME ChatInv, NEW p \in Proc, Stepping(p)
  PROVE  /\ \A q \in Proc \ {p} : reg'[q] = reg[q] /\ fetch'[q] = fetch[q]
         /\ \A q \in Paper : pdf[q] # "none" => pdf'[q] # "none"
  <1>1. reg \in [Proc -> Registration] /\ fetch \in [Proc -> Fetches]
    BY PapersTyped DEF ChatInv, DashInv, DashboardsTypeOK, PaperInv
  <1>2. ASSUME DashMove(p) PROVE \A q \in Proc \ {p} : reg'[q] = reg[q]
    BY <1>1, <1>2 DEF DashMove, OpenPage, WritePage, LockRegistry, WriteRegistry,
                      LeaveRegistration
  <1>3. ASSUME PaperMove(p) PROVE \A q \in Proc \ {p} : fetch'[q] = fetch[q]
    BY <1>1, <1>3 DEF PaperMove, SearchFinds, SearchFails, AlreadyDownloaded, StartDownload,
                      DownloadFails, TruncatePdf, WritePdf, LeaveDownload
  <1>4. UNCHANGED dashboardVars => reg' = reg  BY DEF dashboardVars
  <1>5. UNCHANGED paperVars => fetch' = fetch /\ pdf' = pdf  BY DEF paperVars
  <1> QED  BY <1>2, <1>3, <1>4, <1>5, StepMoves, PaperMoves DEF ChatInv

\* A sighted registration adds its fresh dashboard, and only that.
LEMMA RegistryGrows ==
  ASSUME DashInv, NEW p \in Proc, DashMove(p), ~reg[p].blind
  PROVE  /\ registry.known \subseteq registry'.known
         /\ \A s \in Session : \/ registry'.active[s] = registry.active[s]
                               \/ registry'.active[s] \in Dash \ registry.known
  <1>1. ASSUME NEW s \in Session, WriteRegistry(p, s)
        PROVE  /\ registry.known \subseteq registry'.known
               /\ \A t \in Session : \/ registry'.active[t] = registry.active[t]
                                     \/ registry'.active[t] \in Dash \ registry.known
    <2>1. registry' = Registered(registry, s, reg[p].dash)  BY <1>1, WriteRegistryInv
    <2>2. registry \in Registry  BY DEF DashInv, DashboardsTypeOK
    <2>3. reg[p].dash \in Dash \ registry.known
      BY <1>1 DEF WriteRegistry, DashInv, PageInv, Registering
    <2>4. /\ registry'.known = registry.known \cup {reg[p].dash}
          /\ registry'.active = [registry.active EXCEPT ![s] = reg[p].dash]
      BY <2>1, <2>2, <2>3, RegisteredIn
    <2>5. registry.active \in [Session -> Dash \cup {NoDash}]  BY <2>2 DEF Registry
    <2> QED  BY <2>3, <2>4, <2>5
  <1>2. ~(\E s \in Session : WriteRegistry(p, s)) => registry' = registry
    BY DEF DashMove, OpenPage, WritePage, LockRegistry, LeaveRegistration
  <1> QED  BY <1>1, <1>2

\* It is enough to look at the process that steps.
LEMMA AgentElsewhere ==
  ASSUME ChatInv, NEW p \in Proc, Stepping(p),
         \A q \in Proc \ {p} : chat'[q] = chat[q],
         chat' \in [Proc -> Chats], chats' \in 0..MaxChats, faults' \in 0..MaxFaults,
         AgentOK(p)'
  PROVE  AgentInv'
  <1>1. \A q \in Proc \ {p} : AgentOK(q)'
    BY Elsewhere DEF ChatInv, AgentInv, AgentOK, Chats
  <1> QED  BY <1>1 DEF AgentInv

LEMMA OwnElsewhere ==
  ASSUME ChatInv, NEW p \in Proc, Stepping(p),
         \A q \in Proc \ {p} : chat'[q] = chat[q],
         faults' = 0 => faults = 0 /\ OwnOK(p)'
  PROVE  OwnInv'
  <1> SUFFICES ASSUME faults' = 0, NEW q \in Proc \ {p}  PROVE OwnOK(q)'
    BY DEF OwnInv
  <1>1. OwnOK(p) /\ OwnOK(q) /\ AgentOK(q) /\ chat[q] \in Chats
    BY DEF ChatInv, OwnInv, AgentInv
  <1>2. chat'[q] = chat[q] /\ reg'[q] = reg[q]  BY Elsewhere
  <1>3. /\ registry.known \subseteq registry'.known
        /\ \A s \in Session : \/ registry'.active[s] = registry.active[s]
                              \/ registry'.active[s] \in Dash \ registry.known
    <2>1. UNCHANGED dashboardVars => registry' = registry  BY DEF dashboardVars
    <2> QED  BY <1>1, <2>1, StepMoves, RegistryGrows DEF ChatInv, OwnOK
  <1>4. chat[q].made # {} /\ chat[q].pc \in {"agent", "reply"} => chat[q].session \in Session
    BY <1>1 DEF AgentOK, Chats
  <1>5. ~reg'[q].blind  BY <1>1, <1>2 DEF OwnOK
  <1>6. chat[q].pc \in {"agent", "reply"} => chat[q].before \in registry.known \cup {NoDash}
    BY <1>1 DEF OwnOK
  <1>7. chat[q].pc \in {"agent", "reply"} /\ chat[q].made # {} =>
          registry'.active[chat[q].session] \notin {NoDash, chat[q].before}
    BY <1>1, <1>3, <1>4, <1>6, DashboardsAssumption DEF OwnOK
  <1>8. chat[q].pc = "done" /\ chat[q].made # {} /\ chat[q].text # "none" =>
          chat[q].reply = "text"
    BY <1>1 DEF OwnOK
  <1> QED  BY <1>2, <1>3, <1>5, <1>6, <1>7, <1>8 DEF OwnOK

\* A step of the tools or of an upload leaves the chats as they are.
LEMMA SameChat ==
  ASSUME ChatInv, NEW p \in Proc, Stepping(p), chat' = chat, chats' = chats,
         faults' \in 0..MaxFaults, faults' = 0 => faults = 0 /\ ~reg'[p].blind,
         \/ chat[p].pc = "agent"
         \/ reg'[p] = reg[p] /\ fetch'[p] = fetch[p] /\ registry' = registry
  PROVE  AgentInv' /\ OwnInv'
  <1>1. AgentOK(p) /\ chat[p] \in Chats  BY DEF ChatInv, AgentInv
  <1>2. AgentOK(p)'  BY <1>1, Elsewhere DEF AgentOK, Chats
  <1>3. AgentInv'
    BY <1>2, AgentElsewhere DEF ChatInv, AgentInv
  <1>4. ASSUME faults' = 0 PROVE OwnOK(p)'
    <2>1. OwnOK(p)  BY <1>4 DEF ChatInv, OwnInv
    <2>2. /\ registry.known \subseteq registry'.known
          /\ \A s \in Session : \/ registry'.active[s] = registry.active[s]
                                \/ registry'.active[s] \in Dash \ registry.known
      <3>1. UNCHANGED dashboardVars => registry' = registry  BY DEF dashboardVars
      <3> QED  BY <2>1, <3>1, StepMoves, RegistryGrows DEF ChatInv, OwnOK
    <2>3. chat[p].made # {} /\ chat[p].pc \in {"agent", "reply"} => chat[p].session \in Session
      BY <1>1 DEF AgentOK, Chats
    <2>4. chat[p].pc \in {"agent", "reply"} => chat[p].before \in registry.known \cup {NoDash}
      BY <2>1 DEF OwnOK
    <2>5. chat[p].pc \in {"agent", "reply"} /\ chat[p].made # {} =>
            registry'.active[chat[p].session] \notin {NoDash, chat[p].before}
      BY <2>1, <2>2, <2>3, <2>4, DashboardsAssumption DEF OwnOK
    <2>6. chat[p].pc = "done" /\ chat[p].made # {} /\ chat[p].text # "none" =>
            chat[p].reply = "text"
      BY <2>1 DEF OwnOK
    <2>7. ~reg'[p].blind  BY <1>4
    <2> QED  BY <2>2, <2>4, <2>5, <2>6, <2>7 DEF OwnOK
  <1>5. OwnInv'  BY <1>4, OwnElsewhere
  <1> QED  BY <1>3, <1>5

\* The chat of p becomes c.
LEMMA NewChat ==
  ASSUME ChatInv, NEW p \in Proc, NEW c \in Chats, chat' = [chat EXCEPT ![p] = c]
  PROVE  /\ chat' \in [Proc -> Chats]
         /\ chat'[p] = c
         /\ \A q \in Proc \ {p} : chat'[q] = chat[q]
  BY DEF ChatInv, AgentInv

LEMMA NoChatTyped == NoChat \in Chats
  BY DEF NoChat, Chats

LEMMA FaultsCounted ==
  ASSUME ChatInv, NEW fails \in BOOLEAN, Faulty(fails)
  PROVE  faults' \in 0..MaxFaults /\ (faults' = 0 => faults = 0 /\ ~fails)
  BY ChatAssumption DEF Faulty, ChatInv, AgentInv

LEMMA StartChatKeeps ==
  ASSUME ChatInv, NEW p \in Proc, NEW s \in Session, NEW blind \in BOOLEAN,
         StartChat(p, s, blind)
  PROVE  AgentInv' /\ OwnInv'
  <1> DEFINE before == ActiveOf(s, blind)
             c == [NoChat EXCEPT !.pc = "agent", !.session = s, !.before = before]
  <1>1. Stepping(p)  BY DEF Stepping, ChatStep
  <1>2. registry \in Registry  BY DEF ChatInv, DashInv, DashboardsTypeOK
  <1>3. before \in Dash \cup {NoDash} /\ before \in registry.known \cup {NoDash}
    BY <1>2 DEF ActiveOf, ChatInv, DashInv, ListedIsServed, Registry
  <1>4. chat' = [chat EXCEPT ![p] = c]  BY DEF StartChat
  <1> HIDE DEF before
  <1>5. /\ c \in Chats /\ c.pc = "agent" /\ c.kind = "chat" /\ c.session = s
        /\ c.before = before /\ c.made = {} /\ c.files = {} /\ c.text = "none"
    BY <1>3 DEF NoChat, Chats
  <1> HIDE DEF c
  <1>6. /\ chat' \in [Proc -> Chats] /\ chat'[p] = c
        /\ \A q \in Proc \ {p} : chat'[q] = chat[q]
    BY <1>4, <1>5, NewChat
  <1>7. faults' \in 0..MaxFaults /\ (faults' = 0 => faults = 0)
    BY FaultsCounted DEF StartChat
  <1>8. chats' \in 0..MaxChats  BY ChatAssumption DEF StartChat, ChatInv, AgentInv
  <1>9. reg' = reg /\ registry' = registry  BY DEF StartChat, dashboardVars
  <1>10. AgentOK(p)'  BY <1>5, <1>6 DEF AgentOK
  <1>11. ASSUME faults' = 0 PROVE OwnOK(p)'
    <2>1. ~reg'[p].blind  BY <1>7, <1>9, <1>11 DEF ChatInv, OwnInv, OwnOK
    <2> QED  BY <1>3, <1>5, <1>6, <1>9, <2>1 DEF OwnOK
  <1> QED
    BY <1>1, <1>6, <1>7, <1>8, <1>10, <1>11, AgentElsewhere, OwnElsewhere

LEMMA StartSearchKeeps ==
  ASSUME ChatInv, NEW p \in Proc, StartSearch(p)
  PROVE  AgentInv' /\ OwnInv'
  <1> DEFINE c == [NoChat EXCEPT !.pc = "agent", !.kind = "search"]
  <1>1. Stepping(p)  BY DEF Stepping, ChatStep
  <1>2. chat' = [chat EXCEPT ![p] = c]  BY DEF StartSearch
  <1>3. /\ c \in Chats /\ c.pc = "agent" /\ c.kind = "search"
        /\ c.before = NoDash /\ c.made = {} /\ c.files = {} /\ c.text = "none"
    BY DEF NoChat, Chats
  <1> HIDE DEF c
  <1>4. /\ chat' \in [Proc -> Chats] /\ chat'[p] = c
        /\ \A q \in Proc \ {p} : chat'[q] = chat[q]
    BY <1>2, <1>3, NewChat
  <1>5. chats' \in 0..MaxChats /\ faults' = faults /\ faults \in 0..MaxFaults
    BY ChatAssumption DEF StartSearch, ChatInv, AgentInv
  <1>6. reg' = reg  BY DEF StartSearch, dashboardVars
  <1>7. AgentOK(p)'  BY <1>3, <1>4 DEF AgentOK
  <1>8. ASSUME faults' = 0 PROVE OwnOK(p)'
    <2>1. ~reg'[p].blind  BY <1>5, <1>6, <1>8 DEF ChatInv, OwnInv, OwnOK
    <2> QED  BY <1>3, <1>4, <2>1 DEF OwnOK
  <1> QED  BY <1>1, <1>4, <1>5, <1>7, <1>8, AgentElsewhere, OwnElsewhere

LEMMA PaperToolKeeps ==
  ASSUME ChatInv, NEW p \in Proc, PaperTool(p)
  PROVE  AgentInv' /\ OwnInv'
  <1>1. /\ Stepping(p) /\ chat' = chat /\ chats' = chats /\ faults' = faults
        /\ reg' = reg /\ chat[p].pc = "agent" /\ faults \in 0..MaxFaults
    BY DEF PaperTool, Stepping, ChatStep, chatVars, dashboardVars, ChatInv, AgentInv
  <1>2. faults = 0 => ~reg'[p].blind  BY <1>1 DEF ChatInv, OwnInv, OwnOK
  <1> QED  BY <1>1, <1>2, SameChat

LEMMA DashboardToolKeeps ==
  ASSUME ChatInv, NEW p \in Proc, DashboardTool(p)
  PROVE  AgentInv' /\ OwnInv'
  <1>1. Stepping(p) /\ chats' = chats /\ chat[p].pc = "agent" /\ chat[p].kind = "chat"
    BY DEF DashboardTool, Stepping, ChatStep
  <1>2. faults \in 0..MaxFaults /\ AgentOK(p) /\ chat[p] \in Chats  BY DEF ChatInv, AgentInv
  <1>3. reg \in [Proc -> Registration] /\ reg[p] \in Registration
    BY DEF ChatInv, DashInv, DashboardsTypeOK
  <1>4. faults = 0 => ~reg[p].blind  BY DEF ChatInv, OwnInv, OwnOK
  <1>5. ASSUME NEW d \in Dash, OpenPage(p, d), chat' = chat, faults' = faults
        PROVE  AgentInv' /\ OwnInv'
    <2> DEFINE r == [NoRegistration EXCEPT !.pc = "html", !.dash = d]
    <2>1. reg' = [reg EXCEPT ![p] = r]  BY <1>5 DEF OpenPage
    <2>2. ~r.blind  BY DEF NoRegistration
    <2> HIDE DEF r
    <2>3. ~reg'[p].blind  BY <1>3, <2>1, <2>2
    <2> QED  BY <1>1, <1>2, <1>5, <2>3, SameChat
  <1>6. CASE WritePage(p) /\ chat' = chat /\ faults' = faults
    <2>1. reg'[p].blind = reg[p].blind  BY <1>3, <1>6 DEF WritePage, Registration
    <2> QED  BY <1>1, <1>2, <1>4, <1>6, <2>1, SameChat
  <1>7. ASSUME NEW blind \in BOOLEAN, LockRegistry(p, blind), Faulty(blind), chat' = chat
        PROVE  AgentInv' /\ OwnInv'
    <2>1. faults' \in 0..MaxFaults /\ (faults' = 0 => faults = 0 /\ ~blind)
      BY <1>7, FaultsCounted
    <2>2. reg'[p].blind = blind  BY <1>3, <1>7 DEF LockRegistry, Registration
    <2> QED  BY <1>1, <1>7, <2>1, <2>2, SameChat
  <1>8. CASE /\ WriteRegistry(p, chat[p].session)
             /\ chat' = [chat EXCEPT ![p].made = @ \cup {reg[p].dash}]
             /\ faults' = faults
    <2> DEFINE made == chat[p].made \cup {reg[p].dash}
               c == [chat[p] EXCEPT !.made = made]
               s == chat[p].session
    <2>1. s \in Session  BY <1>1, <1>2 DEF AgentOK
    <2>2. reg[p].dash \in Dash \ registry.known
      BY <1>8 DEF WriteRegistry, ChatInv, DashInv, PageInv, Registering
    <2>3. made \in SUBSET Dash  BY <1>2, <2>2 DEF Chats
    <2>4. chat' = [chat EXCEPT ![p] = c]  BY <1>8 DEF ChatInv, AgentInv
    <2> HIDE DEF made
    <2>5. /\ c \in Chats /\ c.pc = "agent" /\ c.kind = "chat" /\ c.session = s
          /\ c.before = chat[p].before /\ c.files = chat[p].files /\ c.text = chat[p].text
      BY <1>1, <1>2, <2>3 DEF Chats
    <2> HIDE DEF c
    <2>6. /\ chat' \in [Proc -> Chats] /\ chat'[p] = c
          /\ \A q \in Proc \ {p} : chat'[q] = chat[q]
      BY <2>4, <2>5, NewChat
    <2>7. AgentOK(p)'  BY <1>1, <1>2, <2>1, <2>5, <2>6 DEF AgentOK
    <2>8. ASSUME faults' = 0 PROVE OwnOK(p)'
      <3>1. reg[p].data = registry
        <4>1. ~reg[p].blind  BY <1>4, <1>8, <2>8
        <4> QED  BY <1>8, <2>1, <4>1, WriteRegistryInv DEF ChatInv
      <3>2. registry' = Registered(registry, s, reg[p].dash)
        BY <1>8, <2>1, <3>1, WriteRegistryInv DEF ChatInv
      <3>3. registry \in Registry  BY DEF ChatInv, DashInv, DashboardsTypeOK
      <3>4. registry.known \subseteq registry'.known /\ registry'.active[s] = reg[p].dash
        <4>1. /\ registry'.known = registry.known \cup {reg[p].dash}
              /\ registry'.active = [registry.active EXCEPT ![s] = reg[p].dash]
          BY <2>1, <2>2, <3>2, <3>3, RegisteredIn
        <4>2. registry.active \in [Session -> Dash \cup {NoDash}]  BY <3>3 DEF Registry
        <4> QED  BY <2>1, <4>1, <4>2
      <3>5. c.before \in registry.known \cup {NoDash}
        BY <1>1, <1>8, <2>5, <2>8 DEF ChatInv, OwnInv, OwnOK
      <3>6. registry'.active[c.session] \notin {NoDash, c.before}
        BY <2>2, <2>5, <3>4, <3>5, DashboardsAssumption
      <3>7. reg'[p] = NoRegistration  BY <1>3, <1>8 DEF WriteRegistry
      <3>8. ~reg'[p].blind  BY <3>7 DEF NoRegistration
      <3> QED  BY <2>5, <2>6, <3>4, <3>5, <3>6, <3>8 DEF OwnOK
    <2> QED
      BY <1>1, <1>2, <1>8, <2>6, <2>7, <2>8, AgentElsewhere, OwnElsewhere DEF ChatInv, AgentInv
  <1> QED  BY <1>5, <1>6, <1>7, <1>8 DEF DashboardTool

LEMMA ToolFailsKeeps ==
  ASSUME ChatInv, NEW p \in Proc, ToolFails(p)
  PROVE  AgentInv' /\ OwnInv'
  <1>1. /\ Stepping(p) /\ chat' = chat /\ chats' = chats
        /\ chat[p].pc = "agent" /\ Faulty(TRUE)
    BY DEF ToolFails, Stepping, ChatStep, chatVars
  <1>2. faults' \in 0..MaxFaults /\ faults' # 0  BY <1>1, FaultsCounted
  <1> QED  BY <1>1, <1>2, SameChat

LEMMA AgentEndsKeeps ==
  ASSUME ChatInv, NEW p \in Proc, NEW text \in {"none", "text", "link"}, AgentEnds(p, text)
  PROVE  AgentInv' /\ OwnInv'
  <1> DEFINE c == [chat[p] EXCEPT !.pc = "reply", !.text = text]
  <1>1. Stepping(p)  BY DEF Stepping, ChatStep
  <1>2. AgentOK(p) /\ chat[p] \in Chats  BY DEF ChatInv, AgentInv
  <1>3. chat' = [chat EXCEPT ![p] = c]  BY DEF AgentEnds, ChatInv, AgentInv
  <1>4. /\ c \in Chats /\ c.pc = "reply" /\ c.kind = chat[p].kind /\ c.session = chat[p].session
        /\ c.before = chat[p].before /\ c.made = chat[p].made /\ c.files = chat[p].files
    BY <1>2 DEF Chats
  <1> HIDE DEF c
  <1>5. /\ chat' \in [Proc -> Chats] /\ chat'[p] = c
        /\ \A q \in Proc \ {p} : chat'[q] = chat[q]
    BY <1>3, <1>4, NewChat
  <1>6. /\ chats' \in 0..MaxChats /\ faults' = faults /\ faults \in 0..MaxFaults
        /\ reg' = reg /\ fetch' = fetch /\ pdf' = pdf /\ registry' = registry
    BY DEF AgentEnds, ChatInv, AgentInv, dashboardVars, paperVars
  <1>7. chat[p].pc = "agent" /\ reg[p] = NoRegistration /\ fetch[p] = NoFetch
    BY DEF AgentEnds, Thinking
  <1>8. AgentOK(p)'  BY <1>2, <1>4, <1>5, <1>6, <1>7 DEF AgentOK
  <1>9. ASSUME faults' = 0 PROVE OwnOK(p)'
    <2>1. OwnOK(p)  BY <1>6, <1>9 DEF ChatInv, OwnInv
    <2>2. ~reg'[p].blind  BY <1>6, <2>1 DEF OwnOK
    <2>3. c.before \in registry.known \cup {NoDash}  BY <1>4, <1>7, <2>1 DEF OwnOK
    <2>4. c.made # {} => registry.active[c.session] \notin {NoDash, c.before}
      BY <1>4, <1>7, <2>1 DEF OwnOK
    <2> QED  BY <1>4, <1>5, <1>6, <2>2, <2>3, <2>4 DEF OwnOK
  <1> QED  BY <1>1, <1>5, <1>6, <1>8, <1>9, AgentElsewhere, OwnElsewhere

\* A result: its files exist, and with a dashboard of its own and a text, and
\* without faults, it is the text.
LEMMA ResultKeeps ==
  ASSUME ChatInv, NEW p \in Proc, Stepping(p),
         NEW reply \in {"text", "summary", "undownloaded", "report", "sorry"},
         NEW files \in SUBSET Paper, Result(p, reply, files),
         reg[p] = NoRegistration, fetch[p] = NoFetch,
         \A q \in files : pdf[q] # "none",
         faults' \in 0..MaxFaults, faults' = 0 => faults = 0,
         faults' = 0 /\ chat[p].made # {} /\ chat[p].text # "none" => reply = "text"
  PROVE  AgentInv' /\ OwnInv'
  <1> DEFINE c == [chat[p] EXCEPT !.pc = "done", !.reply = reply, !.files = files]
  <1>1. AgentOK(p) /\ chat[p] \in Chats  BY DEF ChatInv, AgentInv
  <1>2. chat' = [chat EXCEPT ![p] = c]  BY DEF Result, ChatInv, AgentInv
  <1>3. /\ c \in Chats /\ c.pc = "done" /\ c.kind = chat[p].kind /\ c.text = chat[p].text
        /\ c.made = chat[p].made /\ c.files = files /\ c.reply = reply
    BY <1>1 DEF Chats
  <1> HIDE DEF c
  <1>4. /\ chat' \in [Proc -> Chats] /\ chat'[p] = c
        /\ \A q \in Proc \ {p} : chat'[q] = chat[q]
    BY <1>2, <1>3, NewChat
  <1>5. chats' \in 0..MaxChats /\ reg' = reg /\ fetch' = fetch /\ pdf' = pdf
    BY DEF Result, ChatInv, AgentInv, dashboardVars, paperVars
  <1>6. AgentOK(p)'  BY <1>1, <1>3, <1>4, <1>5 DEF AgentOK
  <1>7. ASSUME faults' = 0 PROVE OwnOK(p)'
    <2>1. ~reg'[p].blind  BY <1>5, <1>7 DEF ChatInv, OwnInv, OwnOK
    <2> QED  BY <1>3, <1>4, <1>7, <2>1 DEF OwnOK
  <1> QED  BY <1>4, <1>5, <1>6, <1>7, AgentElsewhere, OwnElsewhere

LEMMA Files ==
  ASSUME ChatInv, NEW p \in Proc
  PROVE  SessionFiles(p) \in SUBSET Paper /\ \A q \in SessionFiles(p) : pdf[q] # "none"
  BY PapersTyped DEF SessionFiles, ChatInv, PaperInv, Sessions

LEMMA DecideKeeps ==
  ASSUME ChatInv, NEW p \in Proc, NEW blind \in BOOLEAN, Decide(p, blind)
  PROVE  AgentInv' /\ OwnInv'
  <1> DEFINE now == ActiveOf(chat[p].session, blind)
             reply == Reply(p, now)
  <1>1. Stepping(p)  BY DEF Stepping, ChatStep
  <1>2. chat[p].pc = "reply" /\ chat[p].kind = "chat" /\ Answer(p, reply) /\ Faulty(blind)
    BY DEF Decide
  <1>3. AgentOK(p)  BY DEF ChatInv, AgentInv
  <1>4. reg[p] = NoRegistration /\ fetch[p] = NoFetch  BY <1>2, <1>3 DEF AgentOK
  <1>5. faults' \in 0..MaxFaults /\ (faults' = 0 => faults = 0 /\ ~blind)
    BY <1>2, FaultsCounted
  <1>6. ErrorReply(p) \in {"report", "sorry"}  BY DEF ErrorReply
  <1>7. reply \in {"text", "summary", "undownloaded", "report", "sorry"}
    BY <1>6 DEF Reply, Summary
  <1>8. faults' = 0 /\ chat[p].made # {} /\ chat[p].text # "none" => reply = "text"
    <2> SUFFICES ASSUME faults' = 0, chat[p].made # {}, chat[p].text # "none"
                 PROVE reply = "text"
      OBVIOUS
    <2>1. now = registry.active[chat[p].session]  BY <1>5 DEF ActiveOf
    <2>2. now \notin {NoDash, chat[p].before}
      BY <1>2, <1>5, <2>1 DEF ChatInv, OwnInv, OwnOK
    <2>3. Produced(p, now)  BY <2>2 DEF Produced
    <2> QED  BY <2>3 DEF Reply
  <1> HIDE DEF reply
  <1>9. CASE Result(p, reply, SessionFiles(p))
    BY <1>1, <1>4, <1>5, <1>7, <1>8, <1>9, Files, ResultKeeps
  <1>10. CASE reply = "summary" /\ Result(p, ErrorReply(p), {})
    BY <1>1, <1>4, <1>5, <1>6, <1>8, <1>10, ResultKeeps
  <1> QED  BY <1>2, <1>9, <1>10 DEF Answer, Fails

LEMMA DecideSearchKeeps ==
  ASSUME ChatInv, NEW p \in Proc, DecideSearch(p)
  PROVE  AgentInv' /\ OwnInv'
  <1>1. Stepping(p)  BY DEF Stepping, ChatStep
  <1>2. /\ chat[p].pc = "reply" /\ chat[p].kind = "search" /\ Answer(p, Summary(p))
        /\ faults' = faults /\ faults \in 0..MaxFaults
    BY DEF DecideSearch, ChatInv, AgentInv
  <1>3. AgentOK(p)  BY DEF ChatInv, AgentInv
  <1>4. reg[p] = NoRegistration /\ fetch[p] = NoFetch /\ chat[p].made = {}
    BY <1>2, <1>3 DEF AgentOK
  <1>5. ErrorReply(p) \in {"report", "sorry"}  BY DEF ErrorReply
  <1>6. Summary(p) \in {"report", "undownloaded", "summary"}  BY DEF Summary
  <1>7. CASE Result(p, Summary(p), SessionFiles(p))
    BY <1>1, <1>2, <1>4, <1>6, <1>7, Files, ResultKeeps
  <1>8. CASE Result(p, ErrorReply(p), {})
    BY <1>1, <1>2, <1>4, <1>5, <1>8, ResultKeeps
  <1> QED  BY <1>2, <1>7, <1>8 DEF Answer, Fails

LEMMA AgentFailsKeeps ==
  ASSUME ChatInv, NEW p \in Proc, AgentFails(p)
  PROVE  AgentInv' /\ OwnInv'
  <1>1. Stepping(p)  BY DEF Stepping, ChatStep
  <1>2. /\ chat[p].pc = "agent" /\ reg[p] = NoRegistration /\ fetch[p] = NoFetch
        /\ Result(p, ErrorReply(p), {})
        /\ faults' = faults /\ faults \in 0..MaxFaults
    BY DEF AgentFails, Thinking, Fails, ChatInv, AgentInv
  <1>3. chat[p].text = "none"  BY <1>2 DEF ChatInv, AgentInv, AgentOK
  <1>4. ErrorReply(p) \in {"report", "sorry"}  BY DEF ErrorReply
  <1> QED  BY <1>1, <1>2, <1>3, <1>4, ResultKeeps

\* The process is idle again.
LEMMA IdleKeeps ==
  ASSUME ChatInv, NEW p \in Proc, Stepping(p), chat' = [chat EXCEPT ![p] = NoChat],
         reg'[p] = NoRegistration, fetch'[p] = NoFetch, chats' = chats,
         faults' \in 0..MaxFaults, faults' = 0 => faults = 0
  PROVE  AgentInv' /\ OwnInv'
  <1>1. /\ chat' \in [Proc -> Chats] /\ chat'[p] = NoChat
        /\ \A q \in Proc \ {p} : chat'[q] = chat[q]
    BY NoChatTyped, NewChat
  <1>2. /\ NoChat.pc = "idle" /\ NoChat.kind = "chat" /\ NoChat.made = {}
        /\ NoChat.files = {}
    BY DEF NoChat
  <1>3. chats' \in 0..MaxChats  BY DEF ChatInv, AgentInv
  <1>4. AgentOK(p)'  BY <1>1, <1>2 DEF AgentOK
  <1>5. ~reg'[p].blind  BY DEF NoRegistration
  <1>6. OwnOK(p)'  BY <1>1, <1>2, <1>5 DEF OwnOK
  <1> QED  BY <1>1, <1>3, <1>4, <1>6, AgentElsewhere, OwnElsewhere

LEMMA DeliverKeeps ==
  ASSUME ChatInv, NEW p \in Proc, Deliver(p)
  PROVE  AgentInv' /\ OwnInv'
  <1>1. Stepping(p)  BY DEF Stepping, ChatStep
  <1>2. /\ chat' = [chat EXCEPT ![p] = NoChat] /\ chats' = chats /\ faults' = faults
        /\ reg' = reg /\ fetch' = fetch /\ chat[p].pc = "done" /\ faults \in 0..MaxFaults
    BY DEF Deliver, dashboardVars, paperVars, ChatInv, AgentInv
  <1>3. reg[p] = NoRegistration /\ fetch[p] = NoFetch
    BY <1>2 DEF ChatInv, AgentInv, AgentOK
  <1> QED  BY <1>1, <1>2, <1>3, IdleKeeps

LEMMA DieKeeps ==
  ASSUME ChatInv, NEW p \in Proc, Die(p)
  PROVE  AgentInv' /\ OwnInv'
  <1>1. Stepping(p)  BY DEF Stepping
  <1>2. /\ chat' = [chat EXCEPT ![p] = NoChat] /\ chats' = chats /\ Faulty(TRUE)
        /\ reg' = [reg EXCEPT ![p] = NoRegistration]
        /\ fetch' = [fetch EXCEPT ![p] = NoFetch]
    BY DEF Die, LeaveRegistration, LeaveDownload
  <1>3. reg'[p] = NoRegistration /\ fetch'[p] = NoFetch
    BY <1>2, PapersTyped DEF ChatInv, DashInv, DashboardsTypeOK, PaperInv
  <1>4. faults' \in 0..MaxFaults /\ faults' # 0  BY <1>2, FaultsCounted
  <1> QED  BY <1>1, <1>2, <1>3, <1>4, IdleKeeps

LEMMA UploadStepKeeps ==
  ASSUME ChatInv, NEW p \in Proc, UploadStep(p)
  PROVE  AgentInv' /\ OwnInv'
  <1>1. Stepping(p)  BY DEF Stepping
  <1>2. /\ chat' = chat /\ chats' = chats /\ reg' = reg /\ fetch' = fetch /\ registry' = registry
    BY DEF UploadStep, SaveOriginal, SaveText, OpenMeta, SaveMeta, UploadFails, Saving,
           dashboardVars, paperVars, chatVars
  <1>3. faults \in 0..MaxFaults  BY DEF ChatInv, AgentInv
  <1>4. faults' \in 0..MaxFaults /\ (faults' = 0 => faults = 0)
    <2>1. CASE UploadFails(p)
      <3> DEFINE fails == stored[saving[p]].mode # "plain" \/ stored[saving[p]].text
      <3>1. fails \in BOOLEAN /\ Faulty(fails)
        BY <2>1 DEF UploadFails, ChatInv, UploadInv, Uploads
      <3> HIDE DEF fails
      <3> QED  BY <3>1, FaultsCounted
    <2>2. CASE ~UploadFails(p)
      BY <1>3, <2>2 DEF UploadStep, SaveOriginal, SaveText, OpenMeta, SaveMeta
    <2> QED  BY <2>1, <2>2
  <1>5. faults' = 0 => ~reg'[p].blind  BY <1>2, <1>4 DEF ChatInv, OwnInv, OwnOK
  <1> QED  BY <1>1, <1>2, <1>4, <1>5, SameChat
----------------------------------------------------------------------------
LEMMA InitChatInv == Init => ChatInv
  <1> SUFFICES ASSUME Init PROVE ChatInv  OBVIOUS
  <1>1. DashInv
    <2>1. /\ registry = NoRegistry /\ page = [d \in Dash |-> "none"] /\ lock = NoProc
          /\ reg = [p \in Proc |-> NoRegistration]
      BY DEF Init, DashboardsInit
    <2>2. NoRegistration.pc = "none"  BY DEF NoRegistration
    <2>3. DashboardsTypeOK  BY <2>1, NothingTyped DEF DashboardsTypeOK
    <2>4. PageInv  BY <2>1, <2>2 DEF PageInv, Registering
    <2>5. LockInv  BY <2>1, <2>2, DashboardsAssumption DEF LockInv
    <2>6. ListedIsServed  BY <2>1 DEF ListedIsServed, NoRegistry
    <2> QED  BY <2>3, <2>4, <2>5, <2>6 DEF DashInv
  <1>2. PaperInv
    <2>1. EmptySession \in Sessions /\ NoFetch \in Fetches /\ NoFetch.pc = "none"
      BY DEF EmptySession, Sessions, NoFetch, Fetches
    <2> QED  BY <2>1, PapersTyped, ChatAssumption DEF Init, PapersInit, PaperInv
  <1>3. UploadInv  BY DEF Init, UploadInv, Uploads, NoFiles, HasText
  <1>4. AgentInv
    <2>1. \A p \in Proc : chat[p] = NoChat /\ reg[p] = NoRegistration /\ fetch[p] = NoFetch
      BY ChatAssumption DEF Init, DashboardsInit, PapersInit
    <2>2. /\ NoChat.pc = "idle" /\ NoChat.kind = "chat" /\ NoChat.made = {}
          /\ NoChat.files = {}
      BY DEF NoChat
    <2>3. \A p \in Proc : AgentOK(p)  BY <2>1, <2>2 DEF AgentOK
    <2> QED  BY <2>3, NoChatTyped, ChatAssumption DEF Init, AgentInv
  <1>5. OwnInv
    BY DEF Init, DashboardsInit, OwnInv, OwnOK, NoChat, NoRegistration
  <1> QED  BY <1>1, <1>2, <1>3, <1>4, <1>5 DEF ChatInv

LEMMA NextChatInv == ChatInv /\ [Next]_vars => ChatInv'
  <1> SUFFICES ASSUME ChatInv, [Next]_vars PROVE ChatInv'  OBVIOUS
  <1>1. CASE UNCHANGED vars
    <2>1. /\ UNCHANGED dashboardVars /\ UNCHANGED paperVars /\ UNCHANGED uploadVars
          /\ UNCHANGED <<chat, chats, faults>>
      BY <1>1 DEF vars, chatVars
    <2>2. DashInv' /\ PaperInv' /\ UploadInv'
      BY <2>1, DashStable, PapersStable, UploadsStable DEF ChatInv
    <2>3. AgentInv' /\ OwnInv'
      BY <2>1 DEF ChatInv, AgentInv, AgentOK, OwnInv, OwnOK, dashboardVars, paperVars
    <2> QED  BY <2>2, <2>3 DEF ChatInv
  <1>2. ASSUME NEW p \in Proc, Stepping(p) PROVE ChatInv'
    <2>1. DashInv' /\ PaperInv' /\ UploadInv'
      BY <1>2, StepMoves, DashMoves, DashStable, PaperMoves, PapersStable, UploadMoves,
         UploadsStable DEF ChatInv
    <2>2. AgentInv' /\ OwnInv'
      BY <1>2, StartChatKeeps, StartSearchKeeps, PaperToolKeeps, DashboardToolKeeps,
         ToolFailsKeeps, AgentEndsKeeps, DecideKeeps, DecideSearchKeeps, AgentFailsKeeps,
         DeliverKeeps, UploadStepKeeps, DieKeeps
         DEF Stepping, ChatStep
    <2> QED  BY <2>1, <2>2 DEF ChatInv
  <1> QED  BY <1>1, <1>2 DEF Next, Stepping

\* The inductive invariant: who holds which dashboard, file, upload and lock,
\* and what a chat knows of its own dashboard while other chats register theirs.
THEOREM ChatsAreSound == Spec => []ChatInv
  BY InitChatInv, NextChatInv, PTL DEF Spec

\* Every reachable state of the chats is well typed.
THEOREM ChatTypes == Spec => []TypeOK
  <1>1. ChatInv => TypeOK
    BY DEF ChatInv, TypeOK, DashInv, PaperInv, UploadInv, AgentInv, Chats, Uploads
  <1> QED  BY <1>1, ChatsAreSound, PTL

\* The registry lists whole pages only (tools/dashboard_tools.py,
\* create_dashboard; dashboards_store.py, register).
THEOREM DashboardsAreServed == Spec => []ListedIsServed
  <1>1. ChatInv => ListedIsServed  BY DEF ChatInv, DashInv
  <1> QED  BY <1>1, ChatsAreSound, PTL

\* A chat that made a dashboard answers with its text (agent_pipeline.py,
\* pipeline_events), whatever the others register meanwhile.
THEOREM DashboardWins == Spec => []OwnDashboardIsTheAnswer
  <1>1. ChatInv => OwnDashboardIsTheAnswer
    BY DEF ChatInv, OwnInv, OwnOK, OwnDashboardIsTheAnswer
  <1> QED  BY <1>1, ChatsAreSound, PTL

\* A listed file is whole, or its writer is another process at work or was
\* lost (arxiv_tools.py, download_paper and session_files_list).
THEOREM FilesAreAccountedFor == Spec => []ListedFilesAreWhole
  <1>1. ASSUME ChatInv, NEW p \in Proc, NEW q \in chat[p].files, pdf[q] # "whole"
        PROVE  /\ pdf[q] = "part"
               /\ \/ q \in damaged
                  \/ \E r \in Proc \ {p} : fetch[r] = [pc |-> "write", paper |-> q]
    <2>1. chat[p] \in Chats /\ AgentOK(p)  BY <1>1 DEF ChatInv, AgentInv
    <2>2. q \in Paper  BY <2>1 DEF Chats
    <2>3. /\ pdf \in [Paper -> {"none", "part", "whole"}] /\ fetch \in [Proc -> Fetches]
      BY <1>1, PapersTyped DEF ChatInv, PaperInv
    <2>4. pdf[q] = "part"  BY <1>1, <2>1, <2>2, <2>3 DEF AgentOK
    <2>5. fetch[p].pc # "write"
      BY <2>1 DEF AgentOK, NoFetch, Chats
    <2>6. \A r \in Proc : Writing(r, q) => fetch[r] = [pc |-> "write", paper |-> q]
      BY <2>3 DEF Writing, Fetches
    <2>7. q \in damaged \/ \E r \in Proc : Writing(r, q)
      BY <1>1, <2>2, <2>4 DEF ChatInv, PaperInv
    <2> QED  BY <2>4, <2>5, <2>6, <2>7 DEF Writing
  <1>2. ChatInv => ListedFilesAreWhole  BY <1>1 DEF ListedFilesAreWhole
  <1> QED  BY <1>2, ChatsAreSound, PTL

\* An upload whose id a client has can be attached (uploads_store.py,
\* save_upload and resolve_attached_files).
THEOREM UploadsAreReadable == Spec => []ToldUploadsAreReadable
  <1>1. ChatInv => ToldUploadsAreReadable
    BY DEF ChatInv, UploadInv, ToldUploadsAreReadable, Readable, HasText
  <1> QED  BY <1>1, ChatsAreSound, PTL

\* Registering loses no dashboard, but after a read that failed
\* (dashboards_store.py, register).
THEOREM DashboardsSurvive == Spec => RegisteredSurvive
  <1>1. ASSUME ChatInv, [Next]_vars
        PROVE  \/ registry.known \subseteq registry'.known
               \/ \E p \in Proc : reg[p].pc = "write" /\ reg[p].blind
    <2>1. CASE UNCHANGED vars  BY <2>1 DEF vars, dashboardVars
    <2>2. ASSUME NEW p \in Proc, Stepping(p), registry' # registry
          PROVE  \/ registry.known \subseteq registry'.known
                 \/ reg[p].pc = "write" /\ reg[p].blind
      <3>1. DashMove(p)  BY <1>1, <2>2, StepMoves DEF dashboardVars
      <3>2. reg[p].pc = "write"
        BY <2>2, <3>1 DEF DashMove, OpenPage, WritePage, LockRegistry, WriteRegistry,
                          LeaveRegistration
      <3> QED  BY <1>1, <3>1, <3>2, RegistryGrows DEF ChatInv
    <2> QED  BY <1>1, <2>1, <2>2 DEF Next, Stepping
  <1> QED  BY <1>1, ChatsAreSound, PTL DEF Spec, RegisteredSurvive
=============================================================================
