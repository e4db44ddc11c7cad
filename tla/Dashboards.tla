----------------------------- MODULE Dashboards ----------------------------
(***************************************************************************)
(* The dashboards: dashboards_store.py and the tool that publishes them,   *)
(* tools/dashboard_tools.py.  A page is written first, then registered     *)
(* under the registry's flock; a registry that cannot be read counts as    *)
(* an empty one.  Html that the tool rejects changes nothing and is left   *)
(* out.                                                                    *)
(***************************************************************************)
EXTENDS Naturals

CONSTANTS
  Proc,     \* the processes that run the agent: gunicorn workers, job runners
  NoProc,
  Session,  \* the ids of the chats
  Dash,     \* the UUIDs register() can mint
  NoDash

ASSUME DashboardsAssumption ==
  /\ NoProc \notin Proc
  /\ NoDash \notin Dash

VARIABLES
  registry,  \* dashboards/registry.json
  page,      \* [Dash -> ...]  dashboards/<uuid>/index.html
  lock,      \* the holder of dashboards/.registry.lock
  reg        \* [Proc -> Registration]  the call of register() a process is in

dashboardVars == <<registry, page, lock, reg>>

\* active: the session's dashboard; known: those list_all() shows.
Registry == [active : [Session -> Dash \cup {NoDash}], known : SUBSET Dash]

NoRegistry == [active |-> [s \in Session |-> NoDash], known |-> {}]

\* blind: the registry could not be read.
Registration == [pc : {"none", "html", "lock", "write"}, dash : Dash \cup {NoDash},
                 data : Registry, blind : BOOLEAN]

NoRegistration == [pc |-> "none", dash |-> NoDash, data |-> NoRegistry, blind |-> FALSE]

DashboardsTypeOK ==
  /\ registry \in Registry
  /\ page \in [Dash -> {"none", "part", "whole"}]
  /\ lock \in Proc \cup {NoProc}
  /\ reg \in [Proc -> Registration]

DashboardsInit ==
  /\ registry = NoRegistry
  /\ page = [d \in Dash |-> "none"]
  /\ lock = NoProc
  /\ reg = [p \in Proc |-> NoRegistration]

\* A mutant of Free: nobody waits for the lock.
FreeForAll(p) == p \in Proc

Free(p) == lock = NoProc

Registered(data, s, d) ==
  [active |-> [data.active EXCEPT ![s] = d], known |-> data.known \cup {d}]

\* A mutant of OpenPage: the registration does not wait for the page.
OpenPageLate(p, d) ==
  /\ reg[p].pc = "none"
  /\ page[d] = "none"
  /\ page' = [page EXCEPT ![d] = "part"]
  /\ reg' = [reg EXCEPT ![p] = [NoRegistration EXCEPT !.pc = "lock", !.dash = d]]
  /\ UNCHANGED <<registry, lock>>

\* create_dashboard is called; register() mints a UUID and opens its page.
OpenPage(p, d) ==
  /\ reg[p].pc = "none"
  /\ page[d] = "none"
  /\ page' = [page EXCEPT ![d] = "part"]
  /\ reg' = [reg EXCEPT ![p] = [NoRegistration EXCEPT !.pc = "html", !.dash = d]]
  /\ UNCHANGED <<registry, lock>>

\* A mutant of WritePage: the UUID is lost.
WritePageForgets(p) ==
  /\ reg[p].pc = "html"
  /\ page' = [page EXCEPT ![reg[p].dash] = "whole"]
  /\ reg' = [reg EXCEPT ![p] = [NoRegistration EXCEPT !.pc = "lock"]]
  /\ UNCHANGED <<registry, lock>>

WritePage(p) ==
  /\ reg[p].pc = "html"
  /\ page' = [page EXCEPT ![reg[p].dash] = "whole"]
  /\ reg' = [reg EXCEPT ![p].pc = "lock"]
  /\ UNCHANGED <<registry, lock>>

LockRegistry(p, blind) ==
  /\ reg[p].pc = "lock"
  /\ Free(p)
  /\ lock' = p
  /\ reg' = [reg EXCEPT ![p].pc = "write", ![p].blind = blind,
                        ![p].data = IF blind THEN NoRegistry ELSE registry]
  /\ UNCHANGED <<registry, page>>

\* os.replace(), and the lock is given back.
WriteRegistry(p, s) ==
  /\ reg[p].pc = "write"
  /\ registry' = Registered(reg[p].data, s, reg[p].dash)
  /\ lock' = NoProc
  /\ reg' = [reg EXCEPT ![p] = NoRegistration]
  /\ UNCHANGED page

\* register() raises, and the tool answers "Failed to register dashboard"; or
\* the process is gone, and its flock with it.
LeaveRegistration(p) ==
  /\ lock' = IF lock = p THEN NoProc ELSE lock
  /\ reg' = [reg EXCEPT ![p] = NoRegistration]
  /\ UNCHANGED <<registry, page>>

\* get_active(): the session's dashboard, NoDash of an unreadable registry.
ActiveOf(s, blind) == IF blind THEN NoDash ELSE registry.active[s]

\* What /d/<uuid> serves: a page that exists, registered or not.
Served == {d \in Dash : page[d] # "none"}
=============================================================================
