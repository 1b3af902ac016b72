----------------------------- MODULE Checklists -----------------------------
(***************************************************************************)
(* The checklist builder: families of numbered versions, edited in place   *)
(* while no report refers to them and superseded by a new version after.   *)
(* Sources under backend/app: checklists/service.py, api/checklists.py,    *)
(* models/__init__.py (Checklist, ChecklistItem).                          *)
(*                                                                         *)
(* A version is a row; its number in the table is its id.  An edit is a    *)
(* transaction of up to three steps, since other sessions commit between   *)
(* what it reads, what its DELETE finds and what it commits: the version's *)
(* row is not locked where its name is kept.  What the reports refer to is *)
(* a parameter: the module that has reports supplies it.  Names are left   *)
(* out, and with them rename_checklist, which changes nothing else.        *)
(***************************************************************************)
EXTENDS Naturals, Sequences, FiniteSets, Functions

CONSTANTS
  Editor,       \* sessions of people who edit checklists
  Body,         \* what a builder sends: items in their order, the same one twice perhaps
  Seed,         \* the items of the shipped default checklist
  MaxVersions,  \* bound: rows in the table
  MaxEdits      \* bound: edits of one row in place

NoTab == [at |-> 0]

ASSUME ChecklistAssumption ==
  /\ Seed \in Body
  /\ \A b \in Body : b # <<>> /\ b \in Seq(Range(b))
  /\ MaxVersions \in Nat \ {0} /\ MaxEdits \in Nat

VARIABLES
  versions,  \* rows of checklists, with the items of each
  tab        \* the open transaction of each editor

checklistVars == <<versions, tab>>

Key == UNION {Range(b) : b \in Body}

\* A row of checklist_items: its version, the edit that made it, its sort_order, what it asks.
Item == [of : 1 .. MaxVersions, edit : 0 .. MaxEdits, at : Nat \ {0}, key : Key]

Row == [family : 1 .. MaxVersions, number : Nat \ {0}, default : BOOLEAN,
        status : {"active", "archived", "deleted"}, edits : 0 .. MaxEdits,
        items : SUBSET Item]

Tab == {NoTab} \cup
  [at : 1 .. MaxVersions, body : Body, used : BOOLEAN,
   family : 1 .. MaxVersions, number : Nat \ {0}, default : BOOLEAN, archived : BOOLEAN,
   swept : BOOLEAN, sees : SUBSET Item]

ChecklistTypeOK ==
  /\ versions \in Seq(Row) /\ Len(versions) \in 1 .. MaxVersions
  /\ tab \in [Editor -> Tab]

\* _add_items: the place in the list is the sort_order.
Written(v, edit, body) ==
  {[of |-> v, edit |-> edit, at |-> n, key |-> body[n]] : n \in DOMAIN body}

Saved(v, family, number, default, body) ==
  [family |-> family, number |-> number, default |-> default, status |-> "active",
   edits |-> 0, items |-> Written(v, 0, body)]

\* A new portfolio has the shipped default checklist.
ChecklistInit ==
  /\ versions = <<Saved(1, 1, 1, TRUE, Seed)>>
  /\ tab = [e \in Editor |-> NoTab]

-----------------------------------------------------------------------------
\* ORDER BY sort_order, id.  Two edits at once leave two items at a place, which the random id
\* tells apart: the order of the edits stands for it.
Before(i, j) == i.at < j.at \/ (i.at = j.at /\ i.edit < j.edit)

InOrder(items) ==
  LET before(i) == {j \in items : Before(j, i)}
  IN  [n \in 1 .. Cardinality(items) |-> CHOOSE i \in items : Cardinality(before(i)) = n - 1]

\* get_items.
Items(v) == InOrder(versions[v].items)

Stored(item) == item.of \in DOMAIN versions /\ item \in versions[item.of].items

Family(v) == {w \in DOMAIN versions : versions[w].family = versions[v].family}

\* list_active_checklists: what the builder shows.
Listed == {v \in DOMAIN versions : versions[v].status = "active"}

\* get_default_checklist: the default of the highest number; equal numbers come in any order.
Defaults ==
  LET D == {v \in Listed : versions[v].default}
  IN  {v \in D : \A w \in D : versions[w].number <= versions[v].number}

-----------------------------------------------------------------------------
Create(b) ==
  /\ Len(versions) < MaxVersions
  /\ versions' = Append(versions, Saved(Len(versions) + 1, Len(versions) + 1, 1, FALSE, b))
  /\ UNCHANGED tab

\* update_checklist begins: the row, and whether a report refers to it.
Load(e, v, b, used) ==
  /\ tab[e] = NoTab /\ v \in DOMAIN versions
  /\ tab' = [tab EXCEPT ![e] =
               [at |-> v, body |-> b, used |-> used,
                family |-> versions[v].family, number |-> versions[v].number,
                default |-> versions[v].default, archived |-> versions[v].status = "archived",
                swept |-> FALSE, sees |-> {}]]
  /\ UNCHANGED versions

\* In place: the DELETE begins, and will delete what it sees now.
Sweep(e) ==
  /\ tab[e] # NoTab /\ ~tab[e].used /\ ~tab[e].swept
  /\ tab' = [tab EXCEPT ![e].swept = TRUE, ![e].sees = versions[tab[e].at].items]
  /\ UNCHANGED versions

\* The DELETE ends, having waited for a transaction that holds the rows it sees: those that
\* are still there go.
Doomed(e) == tab[e].sees \cap versions[tab[e].at].items

InPlace(e) ==
  /\ tab[e] # NoTab /\ tab[e].swept
  /\ tab' = [tab EXCEPT ![e] = NoTab]

\* The new items are added, and all of it is committed.  Rows that are deleted are locked
\* until then, so no report is written on them in between.
Revise(e, held) ==
  LET t == tab[e]
      n == versions[t.at].edits + 1
  IN  /\ InPlace(e) /\ Doomed(e) \cap held = {} /\ n <= MaxEdits
      /\ versions' = [versions EXCEPT ![t.at].edits = n,
                        ![t.at].items = (@ \ t.sees) \cup Written(t.at, n, t.body)]

\* The foreign key of a scored item refuses the deletion: the transaction is rolled back.
Refuse(e, held) ==
  /\ InPlace(e) /\ Doomed(e) \cap held # {}
  /\ UNCHANGED versions

\* Fault: an edit never forks a version, and deletes the scored items with the old ones.
ForksNever(e) ==
  LET t == tab[e]
  IN  /\ t # NoTab /\ t.used
      /\ versions' = [versions EXCEPT ![t.at].items = Written(t.at, versions[t.at].edits, t.body)]
      /\ tab' = [tab EXCEPT ![e] = NoTab]

\* Fault: the new version is an ordinary one.
ForgetsDefault(e) ==
  LET t == tab[e]
      new == Len(versions) + 1
  IN  /\ t # NoTab /\ t.used /\ new <= MaxVersions
      /\ versions' = Append([versions EXCEPT ![t.at].status = "archived"],
                            Saved(new, t.family, t.number + 1, FALSE, t.body))
      /\ tab' = [tab EXCEPT ![e] = NoTab]

\* A used version is archived, and one with the next number takes its place.  The ORM
\* writes the status only if it differs from the one it read.
Publish(e) ==
  LET t == tab[e]
      new == Len(versions) + 1
  IN  /\ t # NoTab /\ t.used /\ new <= MaxVersions
      /\ versions' = Append([versions EXCEPT ![t.at].status = IF t.archived THEN @ ELSE "archived"],
                            Saved(new, t.family, t.number + 1, t.default, t.body))
      /\ tab' = [tab EXCEPT ![e] = NoTab]

\* soft_delete_checklist: the family is hidden, the default refused.
SoftDelete(v) ==
  /\ ~versions[v].default
  /\ versions' = [w \in DOMAIN versions |->
                    IF w \in Family(v) THEN [versions[w] EXCEPT !.status = "deleted"]
                    ELSE versions[w]]
  /\ versions' # versions
  /\ UNCHANGED tab
=============================================================================
