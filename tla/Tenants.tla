------------------------------ MODULE Tenants ------------------------------
(***************************************************************************)
(* Portfolios and their folders (the table "agents"), and the requests     *)
(* that are under way: backend/app/models/__init__.py,                     *)
(* backend/app/api/agents.py, backend/app/api/portfolios.py.  What is      *)
(* bound to a portfolio or a folder is in ScopedConfig and Ingest; the     *)
(* deletions, which cascade into both, are in Workspace.                   *)
(***************************************************************************)
EXTENDS Naturals, FiniteSets

CONSTANTS
  Portfolio,   \* portfolios that may be created
  Folder,      \* folders that may be created
  Session,     \* requests the API serves at a time
  None         \* no portfolio, no folder

ASSUME TenantsAssumption ==
  /\ None \notin Portfolio \cup Folder /\ Portfolio \cap Folder = {}
  /\ IsFiniteSet(Session)

VARIABLES
  portfolios,  \* each portfolio: "new", "open" or "deleted"
  home,        \* each folder: its portfolio, None before it is created and after deletion
  spent,       \* folders that have been created: an id is used once
  desk         \* the request each session is in

tenantVars == <<portfolios, home, spent>>

Free == [on |-> "nothing"]
Open == {p \in Portfolio : portfolios[p] = "open"}
Folders == {f \in Folder : home[f] # None}
FoldersOf(p) == {f \in Folders : home[f] = p}

\* What a request waits for is over, or the request failed: the session takes the next one.
Leave(s) == desk' = [desk EXCEPT ![s] = Free]
Take(s, request) == desk[s] = Free /\ desk' = [desk EXCEPT ![s] = request]
Doing(s, what) == desk[s].on = what

TenantsTypeOK ==
  /\ portfolios \in [Portfolio -> {"new", "open", "deleted"}]
  /\ home \in [Folder -> Portfolio \cup {None}]
  /\ \A f \in Folders : f \in spent /\ home[f] \in Open

TenantsInit ==
  /\ portfolios = [p \in Portfolio |-> "new"]
  /\ home = [f \in Folder |-> None]
  /\ spent = {}
  /\ desk = [s \in Session |-> Free]

\* create_agent; the portfolio is checked by its foreign key.
CreateFolder(p, f) ==
  /\ p \in Open /\ f \notin spent
  /\ home' = [home EXCEPT ![f] = p]
  /\ spent' = spent \cup {f}
  /\ UNCHANGED portfolios

=============================================================================
