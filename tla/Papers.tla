------------------------------- MODULE Papers ------------------------------
(***************************************************************************)
(* arXiv: the session that each process keeps in arxiv_tools.py, the       *)
(* search and the downloads, whose directory all processes share.          *)
(*                                                                         *)
(* The retries of one search (four attempts, 3 to 20 s apart) and of one   *)
(* PDF (a second attempt after a 429) read and write nothing in between:   *)
(* their outcome is one step.  The second step of a download is the        *)
(* truncation of the file, the third its last byte.                        *)
(***************************************************************************)
EXTENDS Naturals

CONSTANTS
  Runner,  \* the processes that run the agent
  Paper,   \* the papers, each standing for its id, its PDF and its file name
  NoPaper

ASSUME PapersAssumption == NoPaper \notin Paper

VARIABLES
  session,  \* [Runner -> ...]  _session
  fetch,    \* [Runner -> ...]  the call of download_paper a process is in
  pdf,      \* [Paper -> ...]   downloads/<paper>.pdf
  damaged   \* history: the papers whose writer died or failed

paperVars == <<session, fetch, pdf, damaged>>

EmptySession == [papers |-> {}, downloaded |-> {}, errors |-> FALSE]

NoFetch == [pc |-> "none", paper |-> NoPaper]

PapersTypeOK ==
  /\ session \in [Runner -> [papers : SUBSET Paper, downloaded : SUBSET Paper,
                             errors : BOOLEAN]]
  /\ fetch \in [Runner -> [pc : {"none", "get", "write"}, paper : Paper \cup {NoPaper}]]
  /\ pdf \in [Paper -> {"none", "part", "whole"}]
  /\ damaged \subseteq Paper

PapersInit ==
  /\ session = [p \in Runner |-> EmptySession]
  /\ fetch = [p \in Runner |-> NoFetch]
  /\ pdf = [q \in Paper |-> "none"]
  /\ damaged = {}

RecordError(p) == session' = [session EXCEPT ![p].errors = TRUE]

\* search_arxiv: the papers of an earlier search are replaced; no result is
\* recorded as an error.
SearchFinds(p, found) ==
  /\ fetch[p] = NoFetch
  /\ session' = [session EXCEPT ![p].papers = found,
                                ![p].errors = @ \/ found = {}]
  /\ UNCHANGED <<fetch, pdf, damaged>>

\* _fetch_arxiv gives up (an answer such as 400 raises and records nothing).
SearchFails(p) ==
  /\ fetch[p] = NoFetch
  /\ RecordError(p)
  /\ UNCHANGED <<fetch, pdf, damaged>>

\* download_paper of a file that exists, whoever is still writing it.
AlreadyDownloaded(p, q) ==
  /\ fetch[p] = NoFetch
  /\ pdf[q] # "none"
  /\ session' = [session EXCEPT ![p].downloaded = @ \cup {q}]
  /\ UNCHANGED <<fetch, pdf, damaged>>

StartDownload(p, q) ==
  /\ fetch[p] = NoFetch
  /\ pdf[q] = "none"
  /\ fetch' = [fetch EXCEPT ![p] = [pc |-> "get", paper |-> q]]
  /\ UNCHANGED <<session, pdf, damaged>>

DownloadFails(p) ==
  /\ fetch[p].pc = "get"
  /\ RecordError(p)
  /\ fetch' = [fetch EXCEPT ![p] = NoFetch]
  /\ UNCHANGED <<pdf, damaged>>

\* open(filepath, "wb"): another process may have written the file meanwhile.
TruncatePdf(p) ==
  /\ fetch[p].pc = "get"
  /\ pdf' = [pdf EXCEPT ![fetch[p].paper] = "part"]
  /\ fetch' = [fetch EXCEPT ![p].pc = "write"]
  /\ UNCHANGED <<session, damaged>>

WritePdf(p) ==
  /\ fetch[p].pc = "write"
  /\ pdf' = [pdf EXCEPT ![fetch[p].paper] = "whole"]
  /\ session' = [session EXCEPT ![p].downloaded = @ \cup {fetch[p].paper}]
  /\ fetch' = [fetch EXCEPT ![p] = NoFetch]
  /\ UNCHANGED damaged

\* The read or the write raises, out of the tool, or the process is gone.
LeaveDownload(p) ==
  /\ damaged' = damaged \cup (IF fetch[p].pc = "write" THEN {fetch[p].paper} ELSE {})
  /\ fetch' = [fetch EXCEPT ![p] = NoFetch]
  /\ UNCHANGED pdf

\* A mutant of SessionFiles: the papers found are listed for those downloaded.
SessionFilesFound(p) == session[p].papers \cup session[p].downloaded

\* session_files_list()
SessionFiles(p) == {q \in session[p].downloaded : pdf[q] # "none"}

\* summarize_papers(): papers of an earlier search, or under another id, are
\* not in "papers" and do not count.
Summary(p) ==
  CASE session[p].papers = {} -> "report"
    [] session[p].papers # {} /\ session[p].papers \cap session[p].downloaded = {} -> "undownloaded"
    [] OTHER -> "summary"
=============================================================================
