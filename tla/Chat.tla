-------------------------------- MODULE Chat -------------------------------
(***************************************************************************)
(* A chat, from its request to its result: pipeline_events() and           *)
(* run_search_pipeline() of agent_pipeline.py over the dashboards and the  *)
(* papers, with the uploads of uploads_store.py.  Each process serves one  *)
(* request at a time and may die in it; what it shares with the others is  *)
(* the registry, the pages, the PDFs and the uploads.                      *)
(*                                                                         *)
(* The agent is external: it calls the tools in any order, any number of   *)
(* times, and ends with a text, with a text that holds a dashboard's link, *)
(* with nothing, or with an exception.                                     *)
(***************************************************************************)
EXTENDS Dashboards, Papers

CONSTANTS
  NoSession,  \* the session of a search
  Upload,     \* the ids save_upload() can mint
  NoUpload,
  MaxChats,   \* bound on the requests
  MaxFaults   \* bound on process deaths, failed writes and failed reads

ASSUME ChatAssumption ==
  /\ Runner = Proc
  /\ NoSession \notin Session
  /\ NoUpload \notin Upload
  /\ {MaxChats, MaxFaults} \subseteq Nat

VARIABLES
  chat,    \* [Proc -> ...]  the request each process serves
  stored,  \* [Upload -> ...]  uploads/<id>/
  saving,  \* [Proc -> Upload]  the upload each process is saving
  told,    \* history: the uploads whose ids a client was given
  chats,
  faults

chatVars == <<chat, chats>>
uploadVars == <<stored, saving, told>>
vars == <<dashboardVars, paperVars, chatVars, uploadVars, faults>>

\* made: history, the dashboards this chat has registered.
NoChat == [pc |-> "idle", kind |-> "chat", session |-> NoSession,
           before |-> NoDash, text |-> "none", made |-> {}, reply |-> "none", files |-> {}]

NoFiles == [mode |-> "none", text |-> FALSE, meta |-> "none"]

TypeOK ==
  /\ DashboardsTypeOK
  /\ PapersTypeOK
  /\ chat \in [Proc -> [pc : {"idle", "agent", "reply", "done"}, kind : {"chat", "search"},
                        session : Session \cup {NoSession}, before : Dash \cup {NoDash},
                        text : {"none", "text", "link"}, made : SUBSET Dash,
                        reply : {"none", "text", "summary", "undownloaded", "report", "sorry"},
                        files : SUBSET Paper]]
  /\ stored \in [Upload -> [mode : {"none", "pdf-native", "plain"}, text : BOOLEAN,
                            meta : {"none", "part", "whole"}]]
  /\ saving \in [Proc -> Upload \cup {NoUpload}]
  /\ told \subseteq Upload
  /\ chats \in 0..MaxChats
  /\ faults \in 0..MaxFaults

Init ==
  /\ DashboardsInit
  /\ PapersInit
  /\ chat = [p \in Proc |-> NoChat]
  /\ stored = [u \in Upload |-> NoFiles]
  /\ saving = [p \in Proc |-> NoUpload]
  /\ told = {}
  /\ chats = 0
  /\ faults = 0

Idle(p) == chat[p].pc = "idle" /\ saving[p] = NoUpload

\* The agent is between two calls of tools.
Thinking(p) == chat[p].pc = "agent" /\ reg[p] = NoRegistration /\ fetch[p] = NoFetch

Faulty(fails) ==
  /\ fails => faults < MaxFaults
  /\ faults' = IF fails THEN faults + 1 ELSE faults
----------------------------------------------------------------------------
(***************************************************************************)
(* Requests.                                                               *)
(***************************************************************************)

\* POST /chat or a job: the active dashboard is read before anything else.
StartChat(p, s, blind) ==
  /\ Idle(p)
  /\ chats < MaxChats
  /\ Free(p)
  /\ Faulty(blind)
  /\ chats' = chats + 1
  /\ chat' = [chat EXCEPT ![p] = [NoChat EXCEPT !.pc = "agent", !.session = s,
                                                !.before = ActiveOf(s, blind)]]
  /\ session' = [session EXCEPT ![p] = EmptySession]
  /\ UNCHANGED <<dashboardVars, fetch, pdf, damaged, uploadVars>>

\* POST /search or /api/v1/arxiv/search, which know no dashboards.
StartSearch(p) ==
  /\ Idle(p)
  /\ chats < MaxChats
  /\ chats' = chats + 1
  /\ chat' = [chat EXCEPT ![p] = [NoChat EXCEPT !.pc = "agent", !.kind = "search"]]
  /\ session' = [session EXCEPT ![p] = EmptySession]
  /\ UNCHANGED <<dashboardVars, fetch, pdf, damaged, uploadVars, faults>>

PaperTool(p) ==
  /\ chat[p].pc = "agent" /\ reg[p] = NoRegistration
  /\ \/ \E found \in SUBSET Paper : SearchFinds(p, found)
     \/ SearchFails(p)
     \/ \E q \in Paper : AlreadyDownloaded(p, q) \/ StartDownload(p, q)
     \/ DownloadFails(p)
     \/ TruncatePdf(p)
     \/ WritePdf(p)
  /\ UNCHANGED <<dashboardVars, chatVars, uploadVars, faults>>

DashboardTool(p) ==
  /\ chat[p].pc = "agent" /\ chat[p].kind = "chat" /\ fetch[p] = NoFetch
  /\ \/ (\E d \in Dash : OpenPage(p, d)) /\ UNCHANGED <<chat, faults>>
     \/ WritePage(p) /\ UNCHANGED <<chat, faults>>
     \/ \E blind \in BOOLEAN : LockRegistry(p, blind) /\ Faulty(blind) /\ UNCHANGED chat
     \/ /\ WriteRegistry(p, chat[p].session)
        /\ chat' = [chat EXCEPT ![p].made = @ \cup {reg[p].dash}]
        /\ UNCHANGED faults
  /\ UNCHANGED <<paperVars, chats, uploadVars>>

\* A write to the disk, or the reading of a PDF, raises; the agent goes on.
ToolFails(p) ==
  /\ chat[p].pc = "agent"
  /\ Faulty(TRUE)
  /\ \/ reg[p] # NoRegistration /\ LeaveRegistration(p) /\ UNCHANGED paperVars
     \/ fetch[p] # NoFetch /\ LeaveDownload(p) /\ UNCHANGED <<session, dashboardVars>>
  /\ UNCHANGED <<chatVars, uploadVars>>

\* run_chat_stream: the last text of the agent without a call of a tool.
AgentEnds(p, text) ==
  /\ Thinking(p)
  /\ chat' = [chat EXCEPT ![p].pc = "reply", ![p].text = text]
  /\ UNCHANGED <<dashboardVars, paperVars, chats, uploadVars, faults>>

\* A mutant of Produced: only the text is looked at.
ProducedByLink(p, now) == chat[p].text = "link"

\* The session has another dashboard than before, or the text names one.
Produced(p, now) == (now # NoDash /\ now # chat[p].before) \/ chat[p].text = "link"

Result(p, reply, files) ==
  /\ chat' = [chat EXCEPT ![p].pc = "done", ![p].reply = reply, ![p].files = files]
  /\ UNCHANGED <<dashboardVars, paperVars, chats, uploadVars>>

ErrorReply(p) == IF session[p].errors THEN "report" ELSE "sorry"

\* The order of preference: a dashboard's text, a summary, a text, the errors.
Reply(p, now) ==
  CASE Produced(p, now) /\ chat[p].text # "none" -> "text"
    [] ~(Produced(p, now) /\ chat[p].text # "none")
       /\ session[p].papers # {} /\ session[p].downloaded # {} -> Summary(p)
    [] OTHER -> IF chat[p].text # "none" THEN "text" ELSE ErrorReply(p)

\* An exception: the result holds the errors recorded and no file.
Fails(p) == Result(p, ErrorReply(p), {})

\* The request for a summary may fail.
Answer(p, reply) ==
  \/ Result(p, reply, SessionFiles(p))
  \/ reply = "summary" /\ Fails(p)

Decide(p, blind) ==
  /\ chat[p].pc = "reply" /\ chat[p].kind = "chat"
  /\ Free(p)
  /\ Faulty(blind)
  /\ Answer(p, Reply(p, ActiveOf(chat[p].session, blind)))

DecideSearch(p) ==
  /\ chat[p].pc = "reply" /\ chat[p].kind = "search"
  /\ Answer(p, Summary(p))
  /\ UNCHANGED faults

AgentFails(p) ==
  /\ Thinking(p)
  /\ Fails(p)
  /\ UNCHANGED faults

Deliver(p) ==
  /\ chat[p].pc = "done"
  /\ chat' = [chat EXCEPT ![p] = NoChat]
  /\ UNCHANGED <<dashboardVars, paperVars, chats, uploadVars, faults>>
----------------------------------------------------------------------------
(***************************************************************************)
(* Uploads.                                                                *)
(***************************************************************************)
Saving(p, u, files) ==
  /\ stored' = [stored EXCEPT ![u] = files]
  /\ UNCHANGED <<dashboardVars, paperVars, chatVars>>

\* save_upload(): the original is there and within the limit of 25 MB.
SaveOriginal(p, u, mode) ==
  /\ Idle(p)
  /\ stored[u] = NoFiles
  /\ saving' = [saving EXCEPT ![p] = u]
  /\ Saving(p, u, [NoFiles EXCEPT !.mode = mode])
  /\ UNCHANGED <<told, faults>>

SaveText(p) ==
  LET u == saving[p] IN
  /\ u # NoUpload
  /\ stored[u].mode = "plain" /\ ~stored[u].text
  /\ Saving(p, u, [stored[u] EXCEPT !.text = TRUE])
  /\ UNCHANGED <<saving, told, faults>>

\* A mutant of OpenMeta: the metadata does not wait for the text.
OpenMetaEarly(p) ==
  LET u == saving[p] IN
  /\ u # NoUpload
  /\ stored[u].meta = "none"
  /\ Saving(p, u, [stored[u] EXCEPT !.meta = "part"])
  /\ UNCHANGED <<saving, told, faults>>

OpenMeta(p) ==
  LET u == saving[p] IN
  /\ u # NoUpload
  /\ stored[u].meta = "none"
  /\ stored[u].mode = "plain" => stored[u].text
  /\ Saving(p, u, [stored[u] EXCEPT !.meta = "part"])
  /\ UNCHANGED <<saving, told, faults>>

\* The metadata is whole, and the client gets the id.
SaveMeta(p) ==
  LET u == saving[p] IN
  /\ u # NoUpload
  /\ stored[u].meta = "part"
  /\ told' = told \cup {u}
  /\ saving' = [saving EXCEPT ![p] = NoUpload]
  /\ Saving(p, u, [stored[u] EXCEPT !.meta = "whole"])
  /\ UNCHANGED faults

\* The text cannot be extracted, or a write fails: what is there stays.
UploadFails(p) ==
  /\ saving[p] # NoUpload
  /\ saving' = [saving EXCEPT ![p] = NoUpload]
  /\ Faulty(stored[saving[p]].mode # "plain" \/ stored[saving[p]].text)
  /\ UNCHANGED <<dashboardVars, paperVars, chatVars, stored, told>>

\* resolve_attached_files(): the metadata can be read, and so can the read_path
\* that the agent is given.
Readable(u) ==
  stored[u].meta = "whole" /\ (stored[u].mode = "plain" => stored[u].text)
----------------------------------------------------------------------------
\* A worker is killed by gunicorn's timeout, a runner by its cancellation, ...
Die(p) ==
  /\ ~Idle(p)
  /\ Faulty(TRUE)
  /\ chat' = [chat EXCEPT ![p] = NoChat]
  /\ saving' = [saving EXCEPT ![p] = NoUpload]
  /\ session' = [session EXCEPT ![p] = EmptySession]
  /\ LeaveRegistration(p)
  /\ LeaveDownload(p)
  /\ UNCHANGED <<chats, stored, told>>

ChatStep(p) ==
  \/ \E s \in Session, blind \in BOOLEAN : StartChat(p, s, blind)
  \/ StartSearch(p)
  \/ PaperTool(p)
  \/ DashboardTool(p)
  \/ ToolFails(p)
  \/ \E text \in {"none", "text", "link"} : AgentEnds(p, text)
  \/ \E blind \in BOOLEAN : Decide(p, blind)
  \/ DecideSearch(p)
  \/ AgentFails(p)
  \/ Deliver(p)

UploadStep(p) ==
  \/ \E u \in Upload, mode \in {"pdf-native", "plain"} : SaveOriginal(p, u, mode)
  \/ SaveText(p)
  \/ OpenMeta(p)
  \/ SaveMeta(p)
  \/ UploadFails(p)

Next == \E p \in Proc : ChatStep(p) \/ UploadStep(p) \/ Die(p)

Spec == Init /\ [][Next]_vars
----------------------------------------------------------------------------
(***************************************************************************)
(* Properties.                                                             *)
(***************************************************************************)

\* A dashboard once registered stays in the registry, however many processes
\* register at once and die at it; only register() after a read that failed
\* forgets the others.
RegisteredSurvive ==
  [][\/ registry.known \subseteq registry'.known
     \/ \E p \in Proc : reg[p].pc = "write" /\ reg[p].blind]_vars

\* Whatever the sidebar lists and whatever a session is told to edit has a page,
\* a whole one: a death while a page is written leaves nothing in the registry.
ListedIsServed ==
  /\ \A d \in registry.known : page[d] = "whole"
  /\ \A s \in Session : registry.active[s] \in registry.known \cup {NoDash}

\* A chat that has registered a dashboard, and whose agent closes with a text,
\* answers with this text and not with a summary of papers, though other chats,
\* also of its session, register theirs meanwhile.
OwnDashboardIsTheAnswer ==
  \A p \in Proc :
    chat[p].pc = "done" /\ chat[p].made # {} /\ chat[p].text # "none" /\ faults = 0
      => chat[p].reply = "text"

\* A file that a result lists is a whole PDF, unless its writer has died, has
\* failed or is another process that is still writing.
ListedFilesAreWhole ==
  \A p \in Proc : \A q \in chat[p].files :
    \/ pdf[q] = "whole"
    \/ pdf[q] = "part" /\ (q \in damaged \/ \E r \in Proc \ {p} : fetch[r] = [pc |-> "write", paper |-> q])

\* An upload whose id a client was given can be attached to a chat: its
\* metadata is whole and the file the agent is told to read is there.
ToldUploadsAreReadable == \A u \in told : Readable(u)
=============================================================================
