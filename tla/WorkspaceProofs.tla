-------------------------- MODULE WorkspaceProofs --------------------------
(***************************************************************************)
(* Versions, files and the cap of a workspace, for any number of sessions, *)
(* folders, portfolios and files: one version in use per scope,            *)
(* activations that stay in their scope, rows whose files are there, and   *)
(* the cap held for each request.                                          *)
(*                                                                         *)
(* A request that sits between two of its transactions knows only what it  *)
(* read or stored: WorkspaceInv says of each desk what of that is still    *)
(* true, whatever the other sessions and the cascades of deletions did.    *)
(***************************************************************************)
EXTENDS Workspace, FiniteSetTheorems, SequenceTheorems, TLAPS

-----------------------------------------------------------------------------
(***************************************************************************)
(* The invariant.                                                          *)
(***************************************************************************)
RowId == Nat \X Nat
UploadDesk == [on : {"upload"}, under : Folder, portfolio : Portfolio, left : Nat,
               got : SUBSET Nat]
DocumentsDesk == [on : {"uploadKb"}, under : Portfolio, left : Nat, got : SUBSET Nat]
DeletionDesk == [on : {"deleteCall", "deleteKb"}, row : RowId]
FolderDesk == [on : {"deleteFolder"}, under : Folder, left : SUBSET RowId]
ActivationDesk == [on : {"activate"}, row : Nat, sees : SUBSET Nat]
DeactivationDesk == [on : {"deactivate"}, row : Nat]
Request == {Free} \cup UploadDesk \cup DocumentsDesk \cup DeletionDesk \cup FolderDesk
                  \cup ActivationDesk \cup DeactivationDesk

\* Folders and portfolios, and requests of the right shape.
TenantsInv ==
  /\ TenantsTypeOK
  /\ spent \subseteq Folder
  /\ desk \in [Session -> Request]

Scope == [portfolio : Portfolio \cup {None}, folder : Folder \cup {None}]
\* The rows that hold a content.
Version(content) ==
  [table : {"prompt", "schema", "template"}, slot : Slots \cup {"report"}, scope : Scope,
   content : {content}, inUse : BOOLEAN]

\* No two versions in use at one place, whatever the index has to stop.
InUseUnique ==
  \A q, r \in DOMAIN rows : rows[q].inUse /\ rows[r].inUse /\ Place(q) = Place(r) => q = r

RowsInv ==
  /\ ConfigTypeOK
  /\ rows = [r \in DOMAIN rows |-> rows[r]]
  /\ \A r \in DOMAIN rows : rows[r] \in Version(rows[r].content)
  /\ \A r \in DOMAIN rows : rows[r].scope.folder # None => rows[r].scope.folder \in Folders
  /\ InUseUnique

\* What an activation saw is of the place of its row, as long as both are there.
Sighted(s) ==
  desk[s].on = "activate" =>
    /\ desk[s].row \in 1 .. made /\ desk[s].sees \subseteq 1 .. made
    /\ desk[s].row \in DOMAIN rows =>
         \A q \in desk[s].sees \cap DOMAIN rows : Place(q) = Place(desk[s].row)

IssuedKey ==
  [under : Folder \cup Portfolio, portfolio : Portfolio, via : {"proxy", "presigned"},
   times : Nat]

\* A key lies in a folder that was in its portfolio, or in the portfolio itself; a proxy key
\* is registered once.
KeysInv ==
  /\ keys \in Seq(IssuedKey)
  /\ \A k \in Issued :
       /\ keys[k].under \in Folder =>
            keys[k].under \in spent /\ home[keys[k].under] \in {None, keys[k].portfolio}
       /\ keys[k].under \in Portfolio => keys[k].portfolio = keys[k].under
       /\ keys[k].via = "proxy" => keys[k].times \in 0 .. 1

\* c names a registration of a key that lies in P.
Registered(c, P) ==
  /\ c \in RowId /\ c[1] \in Issued /\ c[2] \in 1 .. keys[c[1]].times
  /\ KeyOf(c).under \in P

FilesInv ==
  /\ IngestTypeOK
  /\ IsFiniteSet(DOMAIN calls) /\ calls \in [DOMAIN calls -> BOOLEAN]
  /\ \A c \in DOMAIN calls : Registered(c, Folder)
  /\ \A d \in docs : Registered(d, Portfolio)

\* The keys of an upload lie where it was addressed; those it stored itself are in the
\* bucket and nothing is registered for them yet.
Batch(s) ==
  LET K == desk[s].got
  IN  /\ K \subseteq Issued /\ IsFiniteSet(K)
      /\ \A k \in K : /\ keys[k].under = desk[s].under
                      /\ keys[k].via = "proxy" => keys[k].times = 0 /\ k \in bucket

DeskInv(s) ==
  /\ desk[s].on \in {"upload", "uploadKb"} => Batch(s)
  /\ desk[s].on = "upload" =>
       /\ desk[s].under \in spent
       /\ home[desk[s].under] \in {None, desk[s].portfolio}
       /\ \A k \in desk[s].got : keys[k].portfolio = desk[s].portfolio
       /\ Pending(s) <= Cap
  /\ desk[s].on = "deleteCall" => Registered(desk[s].row, Folder)
  /\ desk[s].on = "deleteKb" => Registered(desk[s].row, Portfolio)
  /\ desk[s].on = "deleteFolder" => \A c \in desk[s].left : Registered(c, Folder)

\* What one request stored no other holds.
Apart ==
  \A s, t \in Session :
    /\ desk[s].on \in {"upload", "uploadKb"} /\ desk[t].on \in {"upload", "uploadKb"}
    /\ s # t
    => \A k \in desk[s].got \cap desk[t].got : keys[k].via = "presigned"

ConfigInv == TenantsInv /\ RowsInv /\ \A s \in Session : Sighted(s)
StoreInv == KeysInv /\ FilesInv /\ Apart /\ \A s \in Session : DeskInv(s)
WorkspaceInv == ConfigInv /\ StoreInv /\ UploadedKept /\ QuotaOvershoot

-----------------------------------------------------------------------------
(***************************************************************************)
(* Requests.                                                               *)
(***************************************************************************)
LEMMA DeskShape ==
  ASSUME TenantsInv, NEW s \in Session
  PROVE  /\ desk[s] \in Request
         /\ desk[s].on = "upload" => desk[s] \in UploadDesk
         /\ desk[s].on = "uploadKb" => desk[s] \in DocumentsDesk
         /\ desk[s].on \in {"deleteCall", "deleteKb"} => desk[s] \in DeletionDesk
         /\ desk[s].on = "deleteFolder" => desk[s] \in FolderDesk
         /\ desk[s].on = "activate" => desk[s] \in ActivationDesk
         /\ desk[s].on = "deactivate" => desk[s] \in DeactivationDesk
<1>1. desk[s] \in Request
  BY DEF TenantsInv
<1> QED
  BY <1>1 DEF Request, Free, UploadDesk, DocumentsDesk, DeletionDesk, FolderDesk,
              ActivationDesk, DeactivationDesk

\* A session takes up the request q, or is free again: the others are where they were.
Turns(s, q) == desk' = [desk EXCEPT ![s] = q]
\* At most one session does, and then with one of these requests.
Turned(kinds) ==
  \/ desk' = desk
  \/ \E s \in Session, q \in Request : Turns(s, q) /\ q.on \in kinds

LEMMA TurnShape ==
  ASSUME TenantsInv, NEW s \in Session, NEW q \in Request, Turns(s, q)
  PROVE  /\ desk' \in [Session -> Request]
         /\ desk'[s] = q
         /\ \A t \in Session \ {s} : desk'[t] = desk[t]
BY DEF TenantsInv, Turns

LEMMA FreeShape == Free \in Request /\ Free.on = "nothing"
BY DEF Free, Request

\* Nothing happens to the portfolios and folders.
LEMMA TenantsKept ==
  ASSUME TenantsInv, UNCHANGED tenantVars, desk' \in [Session -> Request]
  PROVE  TenantsInv'
BY DEF TenantsInv, TenantsTypeOK, tenantVars, Folders, Open

-----------------------------------------------------------------------------
(***************************************************************************)
(* The table of versions.                                                  *)
(***************************************************************************)

\* Of the versions only some stay, and the scopes of those are still there.
LEMMA RowsShrink ==
  ASSUME RowsInv, NEW R \in SUBSET DOMAIN rows, rows' = Keep(R), made' = made,
         \A r \in R : rows[r].scope.portfolio \in Open' \cup {None},
         \A r \in R : rows[r].scope.folder # None =>
           /\ rows[r].scope.folder \in Folders'
           /\ home'[rows[r].scope.folder] = rows[r].scope.portfolio
  PROVE  /\ RowsInv'
         /\ \A s \in Session : Sighted(s) /\ desk'[s] = desk[s] => Sighted(s)'
<1>1. DOMAIN rows' = R /\ \A r \in R : rows'[r] = rows[r]
  BY DEF Keep
<1>2. ConfigTypeOK'
  BY <1>1 DEF RowsInv, ConfigTypeOK
<1>3. InUseUnique'
  BY <1>1 DEF RowsInv, InUseUnique, Place
<1>4. rows' = [r \in DOMAIN rows' |-> rows'[r]]
  BY <1>1 DEF Keep
<1>5. \A s \in Session : Sighted(s) /\ desk'[s] = desk[s] => Sighted(s)'
  BY <1>1 DEF Sighted, Place
<1> QED BY <1>1, <1>2, <1>3, <1>4, <1>5 DEF RowsInv

LEMMA RowsKept ==
  ASSUME RowsInv, TenantsInv, UNCHANGED configVars, UNCHANGED tenantVars
  PROVE  /\ RowsInv'
         /\ \A s \in Session : Sighted(s) /\ desk'[s] = desk[s] => Sighted(s)'
<1>1. rows' = Keep(DOMAIN rows) /\ made' = made
  BY DEF RowsInv, Keep, configVars
<1>2. Open' = Open /\ Folders' = Folders /\ home' = home
  BY DEF tenantVars, Open, Folders
<1> QED BY <1>1, <1>2, RowsShrink DEF RowsInv, ConfigTypeOK

\* Only the marks "in use" change, and no place has two.
LEMMA RowsMarked ==
  ASSUME RowsInv, UNCHANGED tenantVars, made' = made,
         NEW u \in [DOMAIN rows -> BOOLEAN],
         rows' = [q \in DOMAIN rows |-> [rows[q] EXCEPT !.inUse = u[q]]],
         \A q, r \in DOMAIN rows : u[q] /\ u[r] /\ Place(q) = Place(r) => q = r
  PROVE  /\ RowsInv'
         /\ \A s \in Session : Sighted(s) /\ desk'[s] = desk[s] => Sighted(s)'
         /\ \A r \in DOMAIN rows : Place(r)' = Place(r)
<1>1. Open' = Open /\ Folders' = Folders /\ home' = home
  BY DEF tenantVars, Open, Folders
<1>2. DOMAIN rows' = DOMAIN rows
  OBVIOUS
<1>3. ASSUME NEW r \in DOMAIN rows
      PROVE  /\ rows'[r].table = rows[r].table /\ rows'[r].slot = rows[r].slot
             /\ rows'[r].scope = rows[r].scope /\ rows'[r].content = rows[r].content
             /\ rows'[r].inUse = u[r]
             /\ rows'[r] \in Version(rows'[r].content)
  BY <1>3 DEF RowsInv, Version
<1>4. ConfigTypeOK'
  BY <1>1, <1>2, <1>3 DEF RowsInv, ConfigTypeOK
<1>5. \A r \in DOMAIN rows : Place(r)' = Place(r)
  BY <1>3 DEF Place
<1>6. InUseUnique'
  BY <1>2, <1>3, <1>5 DEF InUseUnique
<1>7. \A r \in DOMAIN rows' : rows'[r].scope.folder # None => rows'[r].scope.folder \in Folders'
  BY <1>1, <1>2, <1>3 DEF RowsInv
<1>8. \A s \in Session : Sighted(s) /\ desk'[s] = desk[s] => Sighted(s)'
  BY <1>2, <1>5 DEF Sighted
<1> QED BY <1>2, <1>3, <1>4, <1>5, <1>6, <1>7, <1>8 DEF RowsInv

\* A new version is out of use.
LEMMA InsertKeeps ==
  ASSUME RowsInv, TenantsInv, NEW table, NEW slot, NEW scope \in Scopes, NEW content,
         table \in {"prompt", "schema", "template"}, slot \in Slots \cup {"report"},
         table = "schema" => content \in SoundSchemas[slot],
         table = "template" => content \in SoundDrafts,
         Insert(table, slot, scope, content)
  PROVE  /\ RowsInv'
         /\ \A s \in Session : Sighted(s) => Sighted(s)'
<1> DEFINE new == [table |-> table, slot |-> slot, scope |-> scope, content |-> content,
                   inUse |-> FALSE]
<1>1. /\ made' = made + 1 /\ made \in Nat /\ made' \in 0 .. MaxRows
      /\ DOMAIN rows' = DOMAIN rows \cup {made'}
      /\ \A r \in DOMAIN rows : rows'[r] = rows[r] /\ r # made' /\ r \in 1 .. made
      /\ rows'[made'] = new
  BY ScopedConfigAssumption DEF Insert, RowsInv, ConfigTypeOK
<1>2. Open' = Open /\ Folders' = Folders /\ home' = home /\ desk' = desk
  BY DEF Insert, tenantVars, Open, Folders
<1>3. /\ scope \in Scope /\ scope.portfolio \in Open \cup {None}
      /\ scope.folder # None =>
           scope.folder \in Folders /\ home[scope.folder] = scope.portfolio
  BY DEF Scopes, Scope, Global, Open, Folders, TenantsInv, TenantsTypeOK
<1>4. new \in Version(new.content)
  BY <1>3 DEF Version
<1>5. \A r \in DOMAIN rows' : rows'[r] \in Version(rows'[r].content)
  BY <1>1, <1>4 DEF RowsInv
<1>6. ConfigTypeOK'
  BY <1>1, <1>2, <1>3 DEF RowsInv, ConfigTypeOK
<1>7. \A r \in DOMAIN rows : Place(r)' = Place(r)
  BY <1>1 DEF Place
<1>8. InUseUnique'
  BY <1>1, <1>7 DEF RowsInv, InUseUnique
<1>9. \A r \in DOMAIN rows' : rows'[r].scope.folder # None => rows'[r].scope.folder \in Folders'
  BY <1>1, <1>2, <1>3 DEF RowsInv
<1>10. rows' = [r \in DOMAIN rows' |-> rows'[r]]
  BY DEF Insert
<1>11. ASSUME NEW s \in Session, Sighted(s) PROVE Sighted(s)'
  <2>1. desk[s].on = "activate" =>
          /\ desk[s].row \in 1 .. made' /\ desk[s].sees \subseteq 1 .. made'
          /\ desk[s].row # made' /\ made' \notin desk[s].sees
    BY <1>1, <1>11 DEF Sighted
  <2> QED BY <1>1, <1>2, <1>7, <1>11, <2>1 DEF Sighted
<1> QED BY <1>5, <1>6, <1>8, <1>9, <1>10, <1>11 DEF RowsInv

\* What an activation finds when it reads.
LEMMA ActivateSees ==
  ASSUME RowsInv, TenantsInv, NEW s \in Session, NEW r \in DOMAIN rows, Activate(s, r)
  PROVE  /\ [on |-> "activate", row |-> r, sees |-> Sweep(r)] \in Request
         /\ Sighted(s)'
<1>1. made \in Nat /\ DOMAIN rows \subseteq 1 .. made
  BY DEF RowsInv, ConfigTypeOK
<1>2. Sweep(r) \subseteq DOMAIN rows /\ \A q \in Sweep(r) : Place(q) = Place(r)
  BY DEF Sweep
<1>3. [on |-> "activate", row |-> r, sees |-> Sweep(r)] \in Request
  BY <1>1, <1>2 DEF Request, ActivationDesk
<1>4. desk'[s] = [on |-> "activate", row |-> r, sees |-> Sweep(r)]
  BY DEF Activate, Take, TenantsInv
<1>5. rows' = rows /\ made' = made
  BY DEF Activate, configVars
<1>6. \A q \in DOMAIN rows : Place(q)' = Place(q)
  BY <1>5 DEF Place
<1> QED BY <1>1, <1>2, <1>3, <1>4, <1>5, <1>6 DEF Sighted

\* An activation that goes through: the index has refused it if another version it did not
\* see is in use at the place of its row.
LEMMA ActivationMarks ==
  ASSUME RowsInv, TenantsInv, NEW s \in Session, Sighted(s), CommitActivation(s),
         desk[s].row \in DOMAIN rows, ~Clashes(desk[s].row, desk[s].sees)
  PROVE  \E u \in [DOMAIN rows -> BOOLEAN] :
           /\ rows' = [q \in DOMAIN rows |-> [rows[q] EXCEPT !.inUse = u[q]]]
           /\ \A q \in DOMAIN rows :
                u[q] = IF q = desk[s].row THEN TRUE
                       ELSE rows[q].inUse /\ q \notin desk[s].sees
<1> DEFINE r == desk[s].row
           u == [q \in DOMAIN rows |-> IF q = r THEN TRUE
                                       ELSE rows[q].inUse /\ q \notin desk[s].sees]
<1>1. \A q \in DOMAIN rows : rows[q].inUse \in BOOLEAN
  BY DEF RowsInv, Version
<1>2. u \in [DOMAIN rows -> BOOLEAN]
  BY <1>1
<1>3. rows' = [q \in DOMAIN rows |->
                 [rows[q] EXCEPT !.inUse = IF q = r THEN TRUE
                                           ELSE rows[q].inUse /\ q \notin desk[s].sees]]
  BY DEF CommitActivation
<1>4. rows' = [q \in DOMAIN rows |-> [rows[q] EXCEPT !.inUse = u[q]]]
  BY <1>3
<1> QED BY <1>2, <1>4

LEMMA CommitActivationKeeps ==
  ASSUME RowsInv, TenantsInv, NEW s \in Session, Sighted(s), CommitActivation(s)
  PROVE  /\ RowsInv'
         /\ \A t \in Session : Sighted(t) /\ desk'[t] = desk[t] => Sighted(t)'
<1>1. UNCHANGED tenantVars /\ made' = made
  BY DEF CommitActivation
<1>2. CASE desk[s].row \notin DOMAIN rows \/ Clashes(desk[s].row, desk[s].sees)
  <2>1. rows' = rows
    BY <1>2 DEF CommitActivation
  <2> QED BY <1>1, <2>1, RowsKept DEF configVars
<1>3. CASE desk[s].row \in DOMAIN rows /\ ~Clashes(desk[s].row, desk[s].sees)
  <2>1. PICK u \in [DOMAIN rows -> BOOLEAN] :
          /\ rows' = [q \in DOMAIN rows |-> [rows[q] EXCEPT !.inUse = u[q]]]
          /\ \A q \in DOMAIN rows :
               u[q] = IF q = desk[s].row THEN TRUE
                      ELSE rows[q].inUse /\ q \notin desk[s].sees
    BY <1>3, ActivationMarks
  <2>2. \A q, r \in DOMAIN rows : u[q] /\ u[r] /\ Place(q) = Place(r) => q = r
    BY <1>3, <2>1 DEF RowsInv, InUseUnique, Clashes
  <2> QED BY <1>1, <2>1, <2>2, RowsMarked
<1> QED BY <1>2, <1>3

LEMMA CommitDeactivationKeeps ==
  ASSUME RowsInv, TenantsInv, NEW s \in Session, CommitDeactivation(s)
  PROVE  /\ RowsInv'
         /\ \A t \in Session : Sighted(t) /\ desk'[t] = desk[t] => Sighted(t)'
         /\ \A r \in DOMAIN rows \cap DOMAIN rows' : rows'[r].inUse => rows[r].inUse
<1> DEFINE u == [q \in DOMAIN rows |-> rows[q].inUse /\ q # desk[s].row]
<1>1. UNCHANGED tenantVars /\ made' = made
  BY DEF CommitDeactivation
<1>2. u \in [DOMAIN rows -> BOOLEAN]
  OBVIOUS
<1>3. rows' = [q \in DOMAIN rows |->
                 [rows[q] EXCEPT !.inUse = rows[q].inUse /\ q # desk[s].row]]
  BY DEF CommitDeactivation
<1>4. rows' = [q \in DOMAIN rows |-> [rows[q] EXCEPT !.inUse = u[q]]]
  BY <1>3
<1>5. \A q, r \in DOMAIN rows : u[q] /\ u[r] /\ Place(q) = Place(r) => q = r
  BY DEF RowsInv, InUseUnique
<1>6. \A r \in DOMAIN rows : rows'[r].inUse => rows[r].inUse
  BY <1>3 DEF RowsInv, Version
<1> QED BY <1>1, <1>2, <1>4, <1>5, <1>6, RowsMarked

LEMMA DeleteKeeps ==
  ASSUME RowsInv, TenantsInv, NEW r \in DOMAIN rows, Delete(r)
  PROVE  RowsInv' /\ \A s \in Session : Sighted(s) => Sighted(s)'
<1>1. /\ rows' = Keep(DOMAIN rows \ {r}) /\ made' = made /\ desk' = desk
      /\ Open' = Open /\ Folders' = Folders /\ home' = home
  BY DEF Delete, tenantVars, Open, Folders
<1>2. ASSUME NEW q \in DOMAIN rows
      PROVE  /\ rows[q].scope.portfolio \in Open' \cup {None}
             /\ rows[q].scope.folder # None =>
                  /\ rows[q].scope.folder \in Folders'
                  /\ home'[rows[q].scope.folder] = rows[q].scope.portfolio
  BY <1>1 DEF RowsInv, ConfigTypeOK
<1>3. RowsInv' /\ \A s \in Session : Sighted(s) /\ desk'[s] = desk[s] => Sighted(s)'
  BY <1>1, <1>2, RowsShrink
<1> QED BY <1>1, <1>3

\* What the administrators do keeps the folders, the requests and the versions in order;
\* the requests of the others, and those that move files, are where they were.
LEMMA ConfigureStep ==
  ASSUME ConfigInv, Writes \/ Switches
  PROVE  /\ ConfigInv' /\ UNCHANGED tenantVars
         /\ Turned({"activate", "deactivate", "nothing"})
<1> USE DEF ConfigInv
<1>1. CASE Writes
  <2>1. ASSUME NEW table, NEW slot, NEW scope \in Scopes, NEW content,
               table \in {"prompt", "schema", "template"}, slot \in Slots \cup {"report"},
               table = "schema" => content \in SoundSchemas[slot],
               table = "template" => content \in SoundDrafts,
               Insert(table, slot, scope, content)
        PROVE  ConfigInv' /\ UNCHANGED tenantVars /\ desk' = desk
    BY <2>1, InsertKeeps, TenantsKept DEF Insert, TenantsInv
  <2>2. Global \in Scopes
    BY DEF Scopes
  <2>3. ConfigInv' /\ UNCHANGED tenantVars /\ desk' = desk
    BY <1>1, <2>1, <2>2 DEF Writes, CreatePrompt, UploadPrompt, CreateSchema, CreateTemplate,
                            UploadTemplate
  <2> QED BY <2>3 DEF Turned
<1>2. ASSUME NEW s \in Session, NEW r \in DOMAIN rows, Activate(s, r)
      PROVE  ConfigInv' /\ UNCHANGED tenantVars /\ Turned({"activate"})
  <2> DEFINE q == [on |-> "activate", row |-> r, sees |-> Sweep(r)]
  <2>1. /\ UNCHANGED tenantVars /\ UNCHANGED configVars /\ Turns(s, q)
        /\ q \in Request /\ Sighted(s)'
    BY <1>2, ActivateSees DEF Activate, Take, Turns
  <2>2. desk' \in [Session -> Request] /\ \A t \in Session \ {s} : desk'[t] = desk[t]
    BY <2>1, TurnShape
  <2>3. TenantsInv' /\ RowsInv' /\ \A t \in Session \ {s} : Sighted(t)'
    BY <2>1, <2>2, TenantsKept, RowsKept
  <2> QED BY <2>1, <2>3 DEF Turned
<1>3. ASSUME NEW s \in Session, NEW r \in DOMAIN rows, Deactivate(s, r)
      PROVE  ConfigInv' /\ UNCHANGED tenantVars /\ Turned({"deactivate"})
  <2> DEFINE q == [on |-> "deactivate", row |-> r]
  <2>1. UNCHANGED tenantVars /\ UNCHANGED configVars /\ Turns(s, q)
    BY <1>3 DEF Deactivate, Take, Turns
  <2>2. q \in Request /\ q.on # "activate"
    BY DEF Request, DeactivationDesk, RowsInv, ConfigTypeOK
  <2>3. /\ desk' \in [Session -> Request] /\ desk'[s] = q
        /\ \A t \in Session \ {s} : desk'[t] = desk[t]
    BY <2>1, <2>2, TurnShape
  <2>4. TenantsInv' /\ RowsInv' /\ \A t \in Session \ {s} : Sighted(t)'
    BY <2>1, <2>3, TenantsKept, RowsKept
  <2>5. Sighted(s)'
    BY <2>2, <2>3 DEF Sighted
  <2> QED BY <2>1, <2>2, <2>4, <2>5 DEF Turned
<1>4. ASSUME NEW s \in Session, CommitActivation(s) \/ CommitDeactivation(s)
      PROVE  ConfigInv' /\ UNCHANGED tenantVars /\ Turned({"nothing"})
  <2>1. UNCHANGED tenantVars /\ Turns(s, Free)
    BY <1>4 DEF CommitActivation, CommitDeactivation, Leave, Turns
  <2>2. /\ desk' \in [Session -> Request] /\ desk'[s] = Free
        /\ \A t \in Session \ {s} : desk'[t] = desk[t]
    BY <2>1, TurnShape, FreeShape
  <2>3. TenantsInv' /\ RowsInv' /\ \A t \in Session \ {s} : Sighted(t)'
    BY <1>4, <2>1, <2>2, TenantsKept, CommitActivationKeeps, CommitDeactivationKeeps
  <2>4. Sighted(s)'
    BY <2>2, FreeShape DEF Sighted
  <2> QED BY <2>1, <2>3, <2>4, FreeShape DEF Turned
<1>5. ASSUME NEW r \in DOMAIN rows, Delete(r)
      PROVE  ConfigInv' /\ UNCHANGED tenantVars /\ desk' = desk
  BY <1>5, DeleteKeeps, TenantsKept DEF Delete, TenantsInv
<1>6. CASE Switches
  <2> DEFINE Kept == ConfigInv' /\ UNCHANGED tenantVars /\ Turned({"activate", "deactivate", "nothing"})
  <2>1. ASSUME NEW s \in Session, NEW r \in DOMAIN rows, Activate(s, r) \/ Deactivate(s, r)
        PROVE  Kept
    BY <1>2, <1>3, <2>1 DEF Turned
  <2>2. ASSUME NEW s \in Session, CommitActivation(s) \/ CommitDeactivation(s)
        PROVE  Kept
    BY <1>4, <2>2 DEF Turned
  <2>3. ASSUME NEW r \in DOMAIN rows, Delete(r) PROVE Kept
    BY <1>5, <2>3 DEF Turned
  <2>4. \A scope : /\ ListPrompts(scope) \subseteq DOMAIN rows
                   /\ ListSchemas(scope) \subseteq DOMAIN rows
                   /\ ListTemplates(scope) \subseteq DOMAIN rows
    BY DEF ListPrompts, ListSchemas, ListTemplates, At
  <2> HIDE DEF Kept
  <2>5. Kept
    BY <1>6, <2>1, <2>2, <2>3, <2>4
    DEF Switches, ActivatePrompt, ActivateSchema, ActivateTemplate, DeactivatePrompt,
        DeactivateSchema, DeactivateTemplate, DeletePrompt, DeleteSchema, DeleteTemplate
  <2> QED BY <2>5 DEF Kept
<1> QED BY <1>1, <1>6

-----------------------------------------------------------------------------
(***************************************************************************)
(* Folders and portfolios that come and go.                                *)
(***************************************************************************)

\* A request that moves files leaves the versions alone.
LEMMA ConfigKept ==
  ASSUME ConfigInv, UNCHANGED tenantVars, UNCHANGED configVars, NEW kinds, Turned(kinds),
         "activate" \notin kinds
  PROVE  ConfigInv'
<1> USE DEF ConfigInv
<1>1. CASE desk' = desk
  BY <1>1, TenantsKept, RowsKept DEF TenantsInv
<1>2. ASSUME NEW s \in Session, NEW q \in Request, Turns(s, q), q.on \in kinds
      PROVE  ConfigInv'
  <2>1. /\ desk' \in [Session -> Request] /\ desk'[s] = q
        /\ \A t \in Session \ {s} : desk'[t] = desk[t]
    BY <1>2, TurnShape
  <2>2. TenantsInv' /\ RowsInv' /\ \A t \in Session \ {s} : Sighted(t)'
    BY <2>1, TenantsKept, RowsKept
  <2>3. Sighted(s)'
    BY <1>2, <2>1 DEF Sighted
  <2> QED BY <2>2, <2>3
<1> QED BY <1>1, <1>2 DEF Turned

LEMMA CreateFolderConfig ==
  ASSUME ConfigInv, NEW p \in Portfolio, NEW f \in Folder, CreateFolder(p, f),
         UNCHANGED <<desk, configVars>>
  PROVE  ConfigInv'
<1> USE DEF ConfigInv
<1>1. /\ home' = [home EXCEPT ![f] = p] /\ f \notin Folders
      /\ home \in [Folder -> Portfolio \cup {None}]
      /\ desk' = desk /\ rows' = rows /\ made' = made /\ Open' = Open
  BY DEF CreateFolder, TenantsInv, TenantsTypeOK, Open, configVars
<1>2. Folders' = Folders \cup {f}
  BY <1>1, TenantsAssumption DEF Folders
<1>3. TenantsInv'
  BY <1>1, <1>2 DEF TenantsInv, TenantsTypeOK, CreateFolder
<1>4. rows' = Keep(DOMAIN rows)
  BY <1>1 DEF Keep, RowsInv
<1>5. ASSUME NEW r \in DOMAIN rows
      PROVE  /\ rows[r].scope.portfolio \in Open' \cup {None}
             /\ rows[r].scope.folder # None =>
                  /\ rows[r].scope.folder \in Folders'
                  /\ home'[rows[r].scope.folder] = rows[r].scope.portfolio
  <2>1. rows[r].scope.folder # None =>
          /\ rows[r].scope.folder \in Folders /\ rows[r].scope.folder \in Folder
          /\ rows[r].scope.folder # f
          /\ home[rows[r].scope.folder] = rows[r].scope.portfolio
    BY <1>1 DEF RowsInv, ConfigTypeOK, Folders
  <2> QED BY <1>1, <1>2, <2>1 DEF RowsInv, ConfigTypeOK
<1>6. RowsInv' /\ \A s \in Session : Sighted(s)'
  BY <1>1, <1>4, <1>5, RowsShrink
<1> QED BY <1>3, <1>6

LEMMA CreatePortfolioConfig ==
  ASSUME ConfigInv, NEW p \in Portfolio, CreatePortfolio(p)
  PROVE  ConfigInv'
<1> USE DEF ConfigInv
<1>1. /\ home' = home /\ desk' = desk /\ rows' = rows /\ made' = made
      /\ spent' = spent /\ Folders' = Folders
      /\ portfolios' = [portfolios EXCEPT ![p] = "open"]
      /\ portfolios \in [Portfolio -> {"new", "open", "deleted"}]
  BY DEF CreatePortfolio, TenantsInv, TenantsTypeOK, Folders, configVars
<1>2. Open \subseteq Open'
  BY <1>1 DEF Open
<1>3. TenantsInv'
  BY <1>1, <1>2 DEF TenantsInv, TenantsTypeOK
<1>4. rows' = Keep(DOMAIN rows)
  BY <1>1 DEF Keep, RowsInv
<1>5. ASSUME NEW r \in DOMAIN rows
      PROVE  /\ rows[r].scope.portfolio \in Open' \cup {None}
             /\ rows[r].scope.folder # None =>
                  /\ rows[r].scope.folder \in Folders'
                  /\ home'[rows[r].scope.folder] = rows[r].scope.portfolio
  BY <1>1, <1>2 DEF RowsInv, ConfigTypeOK
<1>6. RowsInv' /\ \A s \in Session : Sighted(s)'
  BY <1>1, <1>4, <1>5, RowsShrink
<1> QED BY <1>3, <1>6

LEMMA DeletePortfolioConfig ==
  ASSUME ConfigInv, NEW p \in Portfolio, DeletePortfolio(p)
  PROVE  ConfigInv'
<1> USE DEF ConfigInv
<1> DEFINE R == {r \in DOMAIN rows : rows[r].scope.portfolio # p}
<1>1. /\ home' = [f \in Folder |-> IF home[f] = p THEN None ELSE home[f]]
      /\ desk' = desk /\ rows' = Keep(R) /\ made' = made /\ spent' = spent
      /\ portfolios' = [portfolios EXCEPT ![p] = "deleted"]
      /\ portfolios \in [Portfolio -> {"new", "open", "deleted"}]
      /\ home \in [Folder -> Portfolio \cup {None}]
  BY DEF DeletePortfolio, TenantsInv, TenantsTypeOK
<1>2. Open' = Open \ {p} /\ Folders' = {f \in Folders : home[f] # p}
  BY <1>1 DEF Open, Folders
<1>3. TenantsInv'
  BY <1>1, <1>2 DEF TenantsInv, TenantsTypeOK, Folders
<1>4. ASSUME NEW r \in R
      PROVE  /\ rows[r].scope.portfolio \in Open' \cup {None}
             /\ rows[r].scope.folder # None =>
                  /\ rows[r].scope.folder \in Folders'
                  /\ home'[rows[r].scope.folder] = rows[r].scope.portfolio
  <2>1. rows[r].scope.folder # None =>
          /\ rows[r].scope.folder \in Folders /\ rows[r].scope.folder \in Folder
          /\ home[rows[r].scope.folder] = rows[r].scope.portfolio
    BY DEF RowsInv, ConfigTypeOK, Folders
  <2> QED BY <1>1, <1>2, <2>1 DEF RowsInv, ConfigTypeOK
<1>5. R \in SUBSET DOMAIN rows
  OBVIOUS
<1> HIDE DEF R
<1>6. RowsInv' /\ \A s \in Session : Sighted(s)'
  BY <1>1, <1>4, <1>5, RowsShrink
<1> QED BY <1>3, <1>6

LEMMA DropFolderConfig ==
  ASSUME ConfigInv, NEW s \in Session, DropFolder(s)
  PROVE  ConfigInv'
<1> USE DEF ConfigInv
<1> DEFINE F == {desk[s].under} \cap Folders
           R == {r \in DOMAIN rows : rows[r].scope.folder \notin F}
<1>1. /\ home' = [f \in Folder |-> IF f \in F THEN None ELSE home[f]]
      /\ rows' = Keep(R) /\ made' = made /\ spent' = spent /\ portfolios' = portfolios
      /\ Turns(s, Free)
      /\ home \in [Folder -> Portfolio \cup {None}]
  BY DEF DropFolder, TenantsInv, TenantsTypeOK, Cascade, Leave, Turns
<1>2. /\ desk' \in [Session -> Request] /\ desk'[s] = Free
      /\ \A t \in Session \ {s} : desk'[t] = desk[t]
  BY <1>1, TurnShape, FreeShape
<1>3. Open' = Open /\ Folders' = Folders \ F
  BY <1>1 DEF Open, Folders
<1>4. TenantsInv'
  BY <1>1, <1>2, <1>3 DEF TenantsInv, TenantsTypeOK, Folders
<1>5. ASSUME NEW r \in R
      PROVE  /\ rows[r].scope.portfolio \in Open' \cup {None}
             /\ rows[r].scope.folder # None =>
                  /\ rows[r].scope.folder \in Folders'
                  /\ home'[rows[r].scope.folder] = rows[r].scope.portfolio
  <2>1. rows[r].scope.folder # None =>
          /\ rows[r].scope.folder \in Folders /\ rows[r].scope.folder \in Folder
          /\ home[rows[r].scope.folder] = rows[r].scope.portfolio
    BY DEF RowsInv, ConfigTypeOK, Folders
  <2> QED BY <1>1, <1>3, <2>1 DEF RowsInv, ConfigTypeOK
<1>6. R \in SUBSET DOMAIN rows
  OBVIOUS
<1> HIDE DEF R
<1>7. RowsInv' /\ \A t \in Session \ {s} : Sighted(t)'
  BY <1>1, <1>2, <1>5, <1>6, RowsShrink
<1>8. Sighted(s)'
  BY <1>2, FreeShape DEF Sighted
<1> QED BY <1>4, <1>7, <1>8

-----------------------------------------------------------------------------
(***************************************************************************)
(* What a call is judged with.                                             *)
(***************************************************************************)
LEMMA AtMostOne ==
  ASSUME NEW S, \A x, y \in S : x = y
  PROVE  Cardinality(S) <= 1
<1>1. CASE S = {}
  BY <1>1, FS_EmptySet
<1>2. CASE S # {}
  <2>1. PICK x \in S : S = {x}
    BY <1>2
  <2> QED BY <2>1, FS_Singleton
<1> QED BY <1>1, <1>2

\* Two versions that fit a folder equally well are of one scope.
LEMMA TieIsOneScope ==
  ASSUME ConfigInv, NEW f \in Folders, NEW q \in DOMAIN rows, NEW r \in DOMAIN rows,
         Rank(q, f) > 0, Rank(q, f) = Rank(r, f)
  PROVE  rows[q].scope = rows[r].scope
<1>1. \A x \in {q, r} :
        /\ rows[x].scope \in Scope
        /\ rows[x].scope.folder = f => rows[x].scope.portfolio = home[f]
  <2>1. f # None
    BY TenantsAssumption DEF Folders
  <2>2. \A x \in {q, r} : rows[x] \in Version(rows[x].content)
    BY DEF ConfigInv, RowsInv
  <2>3. \A x \in {q, r} : rows[x].scope \in Scope
    BY <2>2 DEF Version
  <2> QED BY <2>1, <2>3 DEF ConfigInv, RowsInv, ConfigTypeOK
<1>2. f # None
  BY TenantsAssumption DEF Folders
<1>3. \A x \in {q, r} :
        /\ Rank(x, f) \in 0 .. 3
        /\ Rank(x, f) = 3 => rows[x].scope.folder = f
        /\ Rank(x, f) = 2 => rows[x].scope.folder = None /\ rows[x].scope.portfolio = home[f]
        /\ Rank(x, f) = 1 => rows[x].scope.folder = None /\ rows[x].scope.portfolio = None
  BY <1>2 DEF Rank
<1>4. /\ rows[q].scope.folder = rows[r].scope.folder
      /\ rows[q].scope.portfolio = rows[r].scope.portfolio
  BY <1>1, <1>3
<1> QED BY <1>1, <1>4 DEF Scope

LEMMA ResolvesToOne ==
  ASSUME ConfigInv, NEW f \in Folders, NEW table, NEW slot
  PROVE  Cardinality(ResolveScoped(InUse(table, slot), f)) <= 1
<1>1. ASSUME NEW q \in ResolveScoped(InUse(table, slot), f),
             NEW r \in ResolveScoped(InUse(table, slot), f)
      PROVE  q = r
  <2>1. /\ q \in DOMAIN rows /\ r \in DOMAIN rows
        /\ rows[q].inUse /\ rows[q].table = table /\ rows[q].slot = slot
        /\ rows[r].inUse /\ rows[r].table = table /\ rows[r].slot = slot
    BY DEF ResolveScoped, InUse
  <2>2. Rank(q, f) > 0 /\ Rank(q, f) <= Rank(r, f) /\ Rank(r, f) <= Rank(q, f)
    BY DEF ResolveScoped
  <2>3. Rank(q, f) \in Nat /\ Rank(r, f) \in Nat
    BY DEF Rank
  <2>4. rows[q].scope = rows[r].scope
    BY <2>1, <2>2, <2>3, TieIsOneScope
  <2> QED BY <2>1, <2>4 DEF ConfigInv, RowsInv, InUseUnique, Place
<1> QED BY <1>1, AtMostOne

LEMMA ConfigUnambiguous == ConfigInv => Unambiguous
BY ResolvesToOne DEF Unambiguous, ActiveTemplate, LoadActivePrompts, LoadActiveSchemas

\* One step of ActivationLocal.
Local ==
  \A r \in DOMAIN rows \cap DOMAIN rows' : ~rows[r].inUse /\ rows'[r].inUse =>
    \A q \in (DOMAIN rows \cap DOMAIN rows') \ {r} :
      IF Place(q) = Place(r) THEN ~rows'[q].inUse ELSE rows'[q] = rows[q]

LEMMA CommitActivationLocal ==
  ASSUME ConfigInv, NEW s \in Session, CommitActivation(s)
  PROVE  Local
<1> USE DEF ConfigInv
<1>1. CASE desk[s].row \notin DOMAIN rows \/ Clashes(desk[s].row, desk[s].sees)
  BY <1>1 DEF CommitActivation, Local
<1>2. CASE desk[s].row \in DOMAIN rows /\ ~Clashes(desk[s].row, desk[s].sees)
  <2>1. PICK u \in [DOMAIN rows -> BOOLEAN] :
          /\ rows' = [q \in DOMAIN rows |-> [rows[q] EXCEPT !.inUse = u[q]]]
          /\ \A q \in DOMAIN rows :
               u[q] = IF q = desk[s].row THEN TRUE
                      ELSE rows[q].inUse /\ q \notin desk[s].sees
    BY <1>2, ActivationMarks
  <2>2. DOMAIN rows' = DOMAIN rows /\ \A q \in DOMAIN rows : rows'[q].inUse = u[q]
    BY <2>1 DEF RowsInv, Version
  <2>3. SUFFICES ASSUME NEW r \in DOMAIN rows, ~rows[r].inUse, rows'[r].inUse,
                        NEW q \in DOMAIN rows, q # r
                 PROVE  IF Place(q) = Place(r) THEN ~rows'[q].inUse ELSE rows'[q] = rows[q]
    BY <2>2 DEF Local
  <2>4. r = desk[s].row
    BY <2>1, <2>2, <2>3
  <2>5. CASE Place(q) = Place(r)
    BY <1>2, <2>1, <2>2, <2>3, <2>4, <2>5 DEF Clashes
  <2>6. CASE Place(q) # Place(r)
    <3>1. desk[s].on = "activate"
      BY DEF CommitActivation, Doing
    <3>2. q \notin desk[s].sees
      BY <2>4, <2>6, <3>1 DEF Sighted
    <3>3. u[q] = rows[q].inUse
      BY <2>1, <2>3, <2>4, <3>2 DEF RowsInv, Version
    <3> QED BY <2>1, <2>6, <3>3 DEF RowsInv, Version
  <2> QED BY <2>5, <2>6
<1> QED BY <1>1, <1>2

\* No other step puts a version in use.
LEMMA StepLocal ==
  ASSUME ConfigInv, Next
  PROVE  Local
<1> USE DEF ConfigInv
<1>1. ASSUME \A r \in DOMAIN rows \cap DOMAIN rows' : rows'[r].inUse => rows[r].inUse
      PROVE  Local
  BY <1>1 DEF Local
<1>2. ASSUME NEW R \in SUBSET DOMAIN rows, rows' = Keep(R) PROVE Local
  BY <1>1, <1>2 DEF Keep
<1>3. ASSUME rows' = rows PROVE Local
  BY <1>1, <1>3
<1>4. CASE Writes
  <2>1. ASSUME NEW table, NEW slot, NEW scope, NEW content, Insert(table, slot, scope, content)
        PROVE  Local
    BY <1>1, <2>1 DEF Insert
  <2> QED BY <1>4, <2>1 DEF Writes, CreatePrompt, UploadPrompt, CreateSchema, CreateTemplate,
                            UploadTemplate
<1>5. CASE Switches
  <2>1. ASSUME NEW s, NEW r, Activate(s, r) \/ Deactivate(s, r) PROVE Local
    BY <1>3, <2>1 DEF Activate, Deactivate, configVars
  <2>2. ASSUME NEW s \in Session, CommitActivation(s) PROVE Local
    BY <2>2, CommitActivationLocal
  <2>3. ASSUME NEW s \in Session, CommitDeactivation(s) PROVE Local
    BY <1>1, <2>3, CommitDeactivationKeeps
  <2>4. ASSUME NEW r, Delete(r) PROVE Local
    BY <1>2, <2>4 DEF Delete
  <2> HIDE DEF Local
  <2> QED
    BY <1>5, <2>1, <2>2, <2>3, <2>4
    DEF Switches, ActivatePrompt, ActivateSchema, ActivateTemplate, DeactivatePrompt,
        DeactivateSchema, DeactivateTemplate, DeletePrompt, DeleteSchema, DeleteTemplate
<1>6. CASE Files
  BY <1>3, <1>6 DEF Files, configVars
<1>7. CASE \E p \in Portfolio, f \in Folder :
             CreateFolder(p, f) /\ UNCHANGED <<desk, configVars, ingestVars>>
  BY <1>3, <1>7 DEF configVars
<1>8. CASE \E p \in Portfolio : CreatePortfolio(p)
  BY <1>3, <1>8 DEF CreatePortfolio, configVars
<1>9. CASE \E p \in Portfolio : DeletePortfolio(p)
  BY <1>2, <1>9 DEF DeletePortfolio
<1>10. CASE \E s \in Session : DropFolder(s)
  BY <1>2, <1>10 DEF DropFolder, Cascade
<1>11. CASE \E s \in Session : Abort(s)
  BY <1>3, <1>11 DEF Abort, configVars
<1> QED
  BY <1>4, <1>5, <1>6, <1>7, <1>8, <1>9, <1>10, <1>11 DEF Next, Configure

-----------------------------------------------------------------------------
(***************************************************************************)
(* The keys.                                                               *)
(***************************************************************************)

\* Keys are added and their registrations counted up, nothing else.
KeysGrow ==
  /\ Issued \subseteq Issued'
  /\ \A k \in Issued :
       /\ keys'[k].under = keys[k].under /\ keys'[k].portfolio = keys[k].portfolio
       /\ keys'[k].via = keys[k].via
       /\ keys'[k].times \in Nat /\ keys'[k].times >= keys[k].times

\* A folder stays in its portfolio until it is gone for good.
TenantsFade == \A f \in spent : f \in spent' /\ home'[f] \in {None, home[f]}

LEMMA IssuedKeys ==
  ASSUME KeysInv
  PROVE  /\ Len(keys) \in Nat /\ Issued = 1 .. Len(keys) /\ Issued \subseteq Nat
         /\ \A k \in Issued : keys[k] \in IssuedKey
BY LenProperties, ElementOfSeq DEF KeysInv, Issued

LEMMA KeysKept ==
  ASSUME KeysInv, TenantsInv, keys' = keys, TenantsFade
  PROVE  KeysInv' /\ KeysGrow
<1>1. \A k \in Issued : keys[k] \in IssuedKey
  BY IssuedKeys
<1>2. KeysGrow
  BY <1>1 DEF KeysGrow, Issued, IssuedKey
<1>3. KeysInv'
  BY DEF KeysInv, TenantsFade, Issued
<1> QED BY <1>2, <1>3

LEMMA KeysAppended ==
  ASSUME KeysInv, UNCHANGED tenantVars, NEW k \in IssuedKey, keys' = Append(keys, k),
         k.under \in Folder => k.under \in spent /\ home[k.under] \in {None, k.portfolio},
         k.under \in Portfolio => k.portfolio = k.under,
         k.times = 0
  PROVE  /\ KeysInv' /\ KeysGrow
         /\ Len(keys') = Len(keys) + 1 /\ Len(keys') \notin Issued
         /\ Issued' = Issued \cup {Len(keys')} /\ keys'[Len(keys')] = k
         /\ \A i \in Issued : keys'[i] = keys[i]
<1>1. /\ Len(keys) \in Nat /\ Issued = 1 .. Len(keys)
      /\ \A i \in Issued : keys[i] \in IssuedKey
  BY IssuedKeys
<1>2. /\ keys' \in Seq(IssuedKey) /\ Len(keys') = Len(keys) + 1
      /\ \A i \in 1 .. Len(keys) : keys'[i] = keys[i]
      /\ keys'[Len(keys) + 1] = k
  <2>1. keys \in Seq(IssuedKey)
    BY DEF KeysInv
  <2> QED BY <2>1, AppendProperties
<1>3. Issued' = 1 .. Len(keys')
  BY <1>2, LenProperties DEF Issued
<1>4. Issued' = Issued \cup {Len(keys')} /\ Len(keys') \notin Issued
  BY <1>1, <1>2, <1>3
<1>5. \A i \in Issued : keys'[i] = keys[i]
  BY <1>1, <1>2
<1>6. KeysGrow
  BY <1>1, <1>4, <1>5 DEF KeysGrow, IssuedKey
<1>7. home' = home /\ spent' = spent
  BY DEF tenantVars
<1>8. ASSUME NEW i \in Issued'
      PROVE  /\ keys'[i].under \in Folder =>
                  /\ keys'[i].under \in spent'
                  /\ home'[keys'[i].under] \in {None, keys'[i].portfolio}
             /\ keys'[i].under \in Portfolio => keys'[i].portfolio = keys'[i].under
             /\ keys'[i].via = "proxy" => keys'[i].times \in 0 .. 1
  <2>1. CASE i \in Issued
    BY <1>5, <1>7, <2>1 DEF KeysInv
  <2>2. CASE i = Len(keys')
    BY <1>2, <1>7, <2>2
  <2> QED BY <1>4, <2>1, <2>2
<1>9. KeysInv'
  BY <1>2, <1>8 DEF KeysInv
<1> QED BY <1>2, <1>4, <1>5, <1>6, <1>9

LEMMA KeysCounted ==
  ASSUME KeysInv, UNCHANGED tenantVars, NEW K \in SUBSET Issued, keys' = Counted(K),
         \A k \in K : keys[k].via = "proxy" => keys[k].times = 0
  PROVE  /\ KeysInv' /\ KeysGrow
         /\ Len(keys') = Len(keys) /\ Issued' = Issued
         /\ \A k \in Issued \ K : keys'[k] = keys[k]
         /\ \A k \in K : keys'[k].times = keys[k].times + 1
<1>1. /\ Len(keys) \in Nat /\ Issued = 1 .. Len(keys)
      /\ \A i \in Issued : keys[i] \in IssuedKey
  BY IssuedKeys
<1>2. DOMAIN keys' = Issued /\ \A k \in Issued \ K : keys'[k] = keys[k]
  BY DEF Counted
<1>3. ASSUME NEW k \in Issued
      PROVE  /\ keys'[k] \in IssuedKey
             /\ keys'[k].under = keys[k].under /\ keys'[k].portfolio = keys[k].portfolio
             /\ keys'[k].via = keys[k].via
             /\ keys'[k].times = IF k \in K THEN keys[k].times + 1 ELSE keys[k].times
  <2>1. keys[k] \in IssuedKey /\ keys[k].times \in Nat
    BY <1>1 DEF IssuedKey
  <2>2. CASE k \in K
    <3>1. keys'[k] = [keys[k] EXCEPT !.times = keys[k].times + 1]
      BY <2>2 DEF Counted
    <3> QED BY <2>1, <2>2, <3>1 DEF IssuedKey
  <2>3. CASE k \notin K
    BY <1>2, <2>1, <2>3
  <2> QED BY <2>2, <2>3
<1>4. keys' \in [1 .. Len(keys) -> IssuedKey]
  BY <1>1, <1>3 DEF Counted
<1>5. keys' \in Seq(IssuedKey) /\ Len(keys') = Len(keys)
  BY <1>1, <1>4, LenProperties
<1>6. Issued' = Issued
  BY <1>2 DEF Issued
<1>7. \A k \in Issued : keys[k].times \in Nat
  BY <1>1 DEF IssuedKey
<1>8. KeysGrow
  BY <1>3, <1>6, <1>7 DEF KeysGrow
<1>9. home' = home /\ spent' = spent
  BY DEF tenantVars
<1>10. \A k \in K : keys'[k].times = keys[k].times + 1
  BY <1>3
<1>11. \A k \in Issued : keys'[k].via = "proxy" => keys'[k].times \in 0 .. 1
  BY <1>3 DEF KeysInv
<1>12. KeysInv'
  BY <1>3, <1>5, <1>6, <1>9, <1>11 DEF KeysInv
<1> QED BY <1>2, <1>5, <1>6, <1>8, <1>10, <1>12

LEMMA RegisteredStays ==
  ASSUME NEW c, NEW P, Registered(c, P), KeysInv, KeysGrow
  PROVE  /\ Registered(c, P)'
         /\ KeyOf(c)'.under = KeyOf(c).under /\ KeyOf(c)'.portfolio = KeyOf(c).portfolio
         /\ KeyOf(c)'.via = KeyOf(c).via
<1>1. keys[c[1]].times \in Nat
  BY IssuedKeys DEF Registered, IssuedKey
<1> QED BY <1>1 DEF Registered, KeysGrow, KeyOf, RowId

\* A proxy key is registered at most once.
LEMMA SameRow ==
  ASSUME KeysInv, NEW c, NEW d, NEW P, NEW Q, Registered(c, P), Registered(d, Q),
         c[1] = d[1], KeyOf(c).via = "proxy"
  PROVE  c = d
<1>1. keys[c[1]].times \in 0 .. 1
  BY DEF KeysInv, Registered, KeyOf
<1>2. c[2] = 1 /\ d[2] = 1
  BY <1>1 DEF Registered
<1> QED BY <1>2 DEF Registered, RowId

-----------------------------------------------------------------------------
(***************************************************************************)
(* The requests that move files.                                           *)
(***************************************************************************)
Uploading(s) == desk[s].on \in {"upload", "uploadKb"}

\* Nothing that others do disturbs a request, unless it registers or deletes what the
\* request has stored.
LEMMA DeskStays ==
  ASSUME ConfigInv, KeysInv, NEW s \in Session, DeskInv(s), desk'[s] = desk[s],
         KeysGrow, TenantsFade,
         Uploading(s) =>
           \A k \in desk[s].got : keys[k].via = "proxy" /\ keys[k].times = 0 /\ k \in bucket
                                    => keys'[k].times = 0 /\ k \in bucket'
  PROVE  DeskInv(s)'
<1>1. ASSUME Uploading(s) PROVE Batch(s)'
  BY <1>1 DEF Uploading, DeskInv, Batch, KeysGrow
<1>2. desk[s].on = "upload" =>
       /\ desk[s].under \in spent'
       /\ home'[desk[s].under] \in {None, desk[s].portfolio}
       /\ \A k \in desk[s].got : keys'[k].portfolio = desk[s].portfolio
  BY DEF DeskInv, Batch, KeysGrow, TenantsFade
<1>3. Pending(s)' = Pending(s)
  BY DEF Pending
<1>4. \A c, P : Registered(c, P) => Registered(c, P)'
  BY RegisteredStays
<1> QED BY <1>1, <1>2, <1>3, <1>4 DEF Uploading, DeskInv

LEMMA ApartStays ==
  ASSUME StoreInv, NEW s \in Session, \A t \in Session \ {s} : desk'[t] = desk[t],
         KeysGrow,
         Uploading(s)' => \A k \in desk'[s].got : \/ keys'[k].via = "presigned"
                                                  \/ k \notin Issued
                                                  \/ Uploading(s) /\ k \in desk[s].got
  PROVE  Apart'
<1>1. \A t \in Session : Uploading(t) => desk[t].got \subseteq Issued
  BY DEF StoreInv, DeskInv, Batch, Uploading
<1>2. SUFFICES ASSUME NEW t \in Session, NEW u \in Session, Uploading(t)', Uploading(u)',
                      t # u, NEW k \in desk'[t].got \cap desk'[u].got
               PROVE  keys'[k].via = "presigned"
  BY DEF Apart, Uploading
<1>3. CASE t # s /\ u # s
  <2>1. keys[k].via = "presigned" /\ k \in Issued
    BY <1>1, <1>2, <1>3 DEF StoreInv, Apart, Uploading
  <2> QED BY <2>1 DEF KeysGrow
<1>4. ASSUME NEW v \in {t, u}, v # s, k \in desk'[s].got, Uploading(s)'
      PROVE  keys'[k].via = "presigned"
  <2>1. Uploading(v) /\ k \in desk[v].got /\ k \in Issued
    BY <1>1, <1>2, <1>4 DEF Uploading
  <2>2. CASE Uploading(s) /\ k \in desk[s].got
    BY <1>4, <2>1, <2>2 DEF StoreInv, Apart, Uploading, KeysGrow
  <2> QED BY <1>4, <2>1, <2>2
<1> QED BY <1>2, <1>3, <1>4

-----------------------------------------------------------------------------
(***************************************************************************)
(* The cap.                                                                *)
(***************************************************************************)
LEMMA Upto ==
  ASSUME NEW n \in Nat
  PROVE  IsFiniteSet(1 .. n) /\ Cardinality(1 .. n) = n
<1>1. IsFiniteSet(1 .. n) /\ Cardinality(1 .. n) = IF 1 > n THEN 0 ELSE n - 1 + 1
  BY FS_Interval
<1> QED BY <1>1

LEMMA Grid ==
  ASSUME NEW S, IsFiniteSet(S), NEW n \in Nat
  PROVE  IsFiniteSet(S \X (1 .. n)) /\ Cardinality(S \X (1 .. n)) = Cardinality(S) * n
<1> DEFINE N == 1 .. n
<1>1. IsFiniteSet(N) /\ Cardinality(N) = n
  BY Upto
<1> HIDE DEF N
<1>2. IsFiniteSet(S \X N) /\ Cardinality(S \X N) = Cardinality(S) * Cardinality(N)
  BY <1>1, FS_Product
<1> QED BY <1>1, <1>2 DEF N

Busy(p) == {c \in RegisteredIn(p) : calls[c]}

\* What the requests await, and the most they may.
LEMMA AwaitedBounds ==
  ASSUME TenantsInv, \A s \in Session : DeskInv(s), NEW p
  PROVE  /\ \A s \in Admitted(p) : Pending(s) \in 0 .. Cap
         /\ Awaited(p) \subseteq Session \X (1 .. Cap)
         /\ IsFiniteSet(Awaited(p)) /\ Cardinality(Awaited(p)) \in Nat
<1>1. Cap \in Nat
  BY IngestAssumption
<1>2. ASSUME NEW s \in Admitted(p) PROVE s \in Session /\ Pending(s) \in 0 .. Cap
  <2>1. s \in Session /\ desk[s].on = "upload"
    BY DEF Admitted, Doing
  <2>2. desk[s] \in UploadDesk /\ Batch(s) /\ Pending(s) <= Cap
    BY <2>1, DeskShape DEF DeskInv
  <2>3. desk[s].left \in Nat /\ Cardinality(desk[s].got) \in Nat
    BY <2>2, FS_CardinalityType DEF UploadDesk, Batch
  <2> QED BY <1>1, <2>1, <2>2, <2>3 DEF Pending
<1>3. Awaited(p) \subseteq Session \X (1 .. Cap)
  BY <1>1, <1>2 DEF Awaited
<1>4. IsFiniteSet(Session \X (1 .. Cap))
  BY <1>1, TenantsAssumption, Grid
<1> QED BY <1>2, <1>3, <1>4, FS_Subset, FS_CardinalityType

LEMMA BusyFinite ==
  ASSUME FilesInv, NEW p
  PROVE  IsFiniteSet(Busy(p)) /\ Cardinality(Busy(p)) \in Nat
<1>1. Busy(p) \subseteq DOMAIN calls
  BY DEF Busy, RegisteredIn
<1> QED BY <1>1, FS_Subset, FS_CardinalityType DEF FilesInv

\* Nothing more is in flight or awaited.
LEMMA QuotaBelow ==
  ASSUME WorkspaceInv, NEW p \in Portfolio,
         Busy(p)' \subseteq Busy(p), Awaited(p)' \subseteq Awaited(p)
  PROVE  InFlight(p)' + Cardinality(Awaited(p)') <= Cap * Cardinality(Session)
<1>1. InFlight(p) + Cardinality(Awaited(p)) <= Cap * Cardinality(Session)
  BY DEF WorkspaceInv, QuotaOvershoot
<1>2. IsFiniteSet(Busy(p)) /\ Cardinality(Busy(p)) \in Nat
  BY BusyFinite DEF WorkspaceInv, StoreInv
<1>3. IsFiniteSet(Awaited(p)) /\ Cardinality(Awaited(p)) \in Nat
  BY AwaitedBounds DEF WorkspaceInv, StoreInv, ConfigInv
<1>4. /\ Cardinality(Busy(p)') <= Cardinality(Busy(p)) /\ Cardinality(Busy(p)') \in Nat
      /\ Cardinality(Awaited(p)') <= Cardinality(Awaited(p))
      /\ Cardinality(Awaited(p)') \in Nat
  BY <1>2, <1>3, FS_Subset, FS_CardinalityType
<1>5. InFlight(p) = Cardinality(Busy(p)) /\ InFlight(p)' = Cardinality(Busy(p)')
  BY DEF InFlight, Busy
<1>6. Cap * Cardinality(Session) \in Nat
  BY IngestAssumption, TenantsAssumption, FS_CardinalityType
<1> QED BY <1>1, <1>2, <1>3, <1>4, <1>5, <1>6

\* A session that is in no upload awaits nothing, and the others what they did.
LEMMA AwaitedShrinks ==
  ASSUME NEW s \in Session, \A t \in Session \ {s} : desk'[t] = desk[t],
         desk'[s].on # "upload", NEW p
  PROVE  Awaited(p)' \subseteq Awaited(p)
<1>1. \A t \in Admitted(p)' : t \in Admitted(p) /\ Pending(t)' = Pending(t)
  BY DEF Admitted, Doing, Pending
<1> QED BY <1>1 DEF Awaited

LEMMA AwaitedSame ==
  ASSUME NEW s \in Session, \A t \in Session \ {s} : desk'[t] = desk[t],
         desk[s].on = "upload", desk'[s].on = "upload",
         desk'[s].portfolio = desk[s].portfolio, Pending(s)' = Pending(s), NEW p
  PROVE  Awaited(p)' \subseteq Awaited(p)
<1>1. \A t \in Admitted(p)' : t \in Admitted(p) /\ Pending(t)' = Pending(t)
  BY DEF Admitted, Doing, Pending
<1> QED BY <1>1 DEF Awaited

\* One more request is admitted: the others await at most the cap each, and what it takes
\* on is within the cap of what is in flight.
LEMMA QuotaAdmits ==
  ASSUME WorkspaceInv, NEW s \in Session, \A t \in Session \ {s} : desk'[t] = desk[t],
         NEW p \in Portfolio, desk'[s].on = "upload", Busy(p)' = Busy(p),
         NEW n \in Nat, Pending(s)' = n, n <= Cap - InFlight(p)
  PROVE  InFlight(p)' + Cardinality(Awaited(p)') <= Cap * Cardinality(Session)
<1> DEFINE Rest == (Session \ {s}) \X (1 .. Cap)
           Mine == {s} \X (1 .. n)
<1>1. Cap \in Nat /\ IsFiniteSet(Session) /\ Cardinality(Session) \in Nat
  BY IngestAssumption, TenantsAssumption, FS_CardinalityType
<1>2. IsFiniteSet(Session \ {s}) /\ Cardinality(Session \ {s}) = Cardinality(Session) - 1
  BY <1>1, FS_RemoveElement
<1>3. IsFiniteSet({s}) /\ Cardinality({s}) = 1
  BY FS_Singleton
<1>4. IsFiniteSet(Rest) /\ Cardinality(Rest) = Cardinality(Session \ {s}) * Cap
  BY <1>1, <1>2, Grid
<1>5. IsFiniteSet(Mine) /\ Cardinality(Mine) = 1 * n
  BY <1>3, Grid
<1>6. Awaited(p)' \subseteq Rest \cup Mine
  <2>1. \A t \in Admitted(p) : Pending(t) \in 0 .. Cap
    BY AwaitedBounds DEF WorkspaceInv, StoreInv, ConfigInv
  <2>2. ASSUME NEW t \in Admitted(p)', t # s PROVE t \in Session \ {s} /\ Pending(t)' \in 0 .. Cap
    <3>1. t \in Admitted(p) /\ Pending(t)' = Pending(t)
      BY <2>2 DEF Admitted, Doing, Pending
    <3> QED BY <2>1, <2>2, <3>1 DEF Admitted
  <2> QED BY <1>1, <2>2 DEF Awaited
<1>7. /\ IsFiniteSet(Rest \cup Mine)
      /\ Cardinality(Rest \cup Mine) = Cardinality(Rest) + Cardinality(Mine)
                                         - Cardinality(Rest \cap Mine)
  BY <1>4, <1>5, FS_Union
<1>8. Rest \cap Mine = {}
  OBVIOUS
<1>9. Cardinality(Rest \cap Mine) = 0
  BY <1>8, FS_EmptySet
<1>10. /\ IsFiniteSet(Awaited(p)') /\ Cardinality(Awaited(p)') \in Nat
       /\ Cardinality(Awaited(p)') <= Cardinality(Rest \cup Mine)
  BY <1>6, <1>7, FS_Subset, FS_CardinalityType
<1>11. /\ InFlight(p)' = Cardinality(Busy(p)) /\ InFlight(p) = Cardinality(Busy(p))
       /\ Cardinality(Busy(p)) \in Nat
  BY BusyFinite DEF WorkspaceInv, StoreInv, InFlight, Busy
<1> HIDE DEF Rest, Mine
<1>12. (Cardinality(Session) - 1) * Cap + Cap = Cap * Cardinality(Session)
  BY <1>1
<1>13. /\ (Cardinality(Session) - 1) * Cap \in Int
       /\ Cardinality(Rest) = (Cardinality(Session) - 1) * Cap /\ Cardinality(Mine) = n
  BY <1>1, <1>2, <1>4, <1>5
<1>14. Cardinality(Awaited(p)') <= (Cardinality(Session) - 1) * Cap + n
  BY <1>7, <1>9, <1>10, <1>13
<1> QED BY <1>1, <1>10, <1>11, <1>12, <1>13, <1>14

LEMMA RowsForBound ==
  ASSUME NEW K, IsFiniteSet(K)
  PROVE  /\ IsFiniteSet(RowsFor(K)) /\ Cardinality(RowsFor(K)) \in Nat
         /\ Cardinality(RowsFor(K)) <= Cardinality(K)
<1> DEFINE f == [k \in K |-> <<k, keys[k].times + 1>>]
<1>1. f \in Surjection(K, RowsFor(K))
  BY DEF Surjection, RowsFor
<1> QED BY <1>1, FS_Surjection, FS_CardinalityType

\* An upload that registers its recordings awaits them no more.
LEMMA QuotaRegisters ==
  ASSUME WorkspaceInv, NEW s \in Session, \A t \in Session \ {s} : desk'[t] = desk[t],
         desk[s].on = "upload", desk'[s].on # "upload", desk[s].left = 0,
         NEW p \in Portfolio, desk[s].portfolio = p,
         Busy(p)' \subseteq Busy(p) \cup RowsFor(desk[s].got)
  PROVE  InFlight(p)' + Cardinality(Awaited(p)') <= Cap * Cardinality(Session)
<1> DEFINE n == Cardinality(desk[s].got)
           New == RowsFor(desk[s].got)
           Mine == {s} \X (1 .. n)
<1>1. IsFiniteSet(desk[s].got) /\ n \in Nat
  BY FS_CardinalityType DEF WorkspaceInv, StoreInv, DeskInv, Batch
<1>2. Pending(s) = n /\ s \in Admitted(p)
  BY <1>1 DEF Pending, Admitted, Doing
<1>3. IsFiniteSet(New) /\ Cardinality(New) \in Nat /\ Cardinality(New) <= n
  BY <1>1, RowsForBound
<1>4. IsFiniteSet(Busy(p)) /\ Cardinality(Busy(p)) \in Nat
  BY BusyFinite DEF WorkspaceInv, StoreInv
<1>5. IsFiniteSet(Awaited(p)) /\ Cardinality(Awaited(p)) \in Nat
  BY AwaitedBounds DEF WorkspaceInv, StoreInv, ConfigInv
<1>6. Mine \subseteq Awaited(p) /\ Awaited(p)' \subseteq Awaited(p) \ Mine
  <2>1. s \notin Admitted(p)'
    BY DEF Admitted, Doing
  <2>2. \A t \in Admitted(p)' : t # s
    BY <2>1
  <2>3. Awaited(p)' \subseteq Awaited(p)
    BY AwaitedShrinks
  <2>4. \A x \in Awaited(p)' : x \notin Mine
    BY <2>2 DEF Awaited
  <2> QED BY <1>2, <2>3, <2>4 DEF Awaited
<1>7. IsFiniteSet(Mine) /\ Cardinality(Mine) = n
  <2>1. IsFiniteSet({s}) /\ Cardinality({s}) = 1
    BY FS_Singleton
  <2> HIDE DEF n
  <2>2. IsFiniteSet(Mine) /\ Cardinality(Mine) = 1 * n
    BY <1>1, <2>1, Grid
  <2> QED BY <1>1, <2>2
<1> HIDE DEF Mine, New, n
<1>8. /\ IsFiniteSet(Awaited(p) \ Mine)
      /\ Cardinality(Awaited(p) \ Mine) = Cardinality(Awaited(p)) - Cardinality(Awaited(p) \cap Mine)
  BY <1>5, FS_Difference
<1>9. Awaited(p) \cap Mine = Mine
  BY <1>6
<1>10. Cardinality(Awaited(p)') \in Nat /\ Cardinality(Awaited(p)') <= Cardinality(Awaited(p)) - n
  BY <1>6, <1>7, <1>8, <1>9, FS_Subset, FS_CardinalityType
<1>11. /\ IsFiniteSet(Busy(p) \cup New) /\ Cardinality(Busy(p) \cup New) \in Nat
       /\ Cardinality(Busy(p) \cup New) <= Cardinality(Busy(p)) + n
  <2>1. /\ IsFiniteSet(Busy(p) \cup New)
        /\ Cardinality(Busy(p) \cup New) =
             Cardinality(Busy(p)) + Cardinality(New) - Cardinality(Busy(p) \cap New)
    BY <1>3, <1>4, FS_Union
  <2>2. Cardinality(Busy(p) \cap New) \in Nat
    BY <1>4, FS_Intersection, FS_CardinalityType
  <2>3. Cardinality(Busy(p) \cup New) \in Nat
    BY <2>1, FS_CardinalityType
  <2> QED BY <1>1, <1>3, <1>4, <2>1, <2>2, <2>3
<1>12. Cardinality(Busy(p)') \in Nat /\ Cardinality(Busy(p)') <= Cardinality(Busy(p)) + n
  <2>1. Busy(p)' \subseteq Busy(p) \cup New
    BY DEF New
  <2>2. IsFiniteSet(Busy(p)') /\ Cardinality(Busy(p)') <= Cardinality(Busy(p) \cup New)
    BY <1>11, <2>1, FS_Subset
  <2>3. Cardinality(Busy(p)') \in Nat
    BY <2>2, FS_CardinalityType
  <2> QED BY <1>1, <1>4, <1>11, <2>2, <2>3
<1>13. InFlight(p) = Cardinality(Busy(p)) /\ InFlight(p)' = Cardinality(Busy(p)')
  BY DEF InFlight, Busy
<1>14. InFlight(p) + Cardinality(Awaited(p)) <= Cap * Cardinality(Session)
  BY DEF WorkspaceInv, QuotaOvershoot
<1>15. Cap * Cardinality(Session) \in Nat
  BY IngestAssumption, TenantsAssumption, FS_CardinalityType
<1> QED BY <1>1, <1>4, <1>5, <1>10, <1>12, <1>13, <1>14, <1>15

-----------------------------------------------------------------------------
(***************************************************************************)
(* Recordings and documents.                                               *)
(***************************************************************************)
StoreKept == StoreInv' /\ UploadedKept' /\ QuotaOvershoot'

LEMMA NothingFades ==
  ASSUME UNCHANGED tenantVars
  PROVE  TenantsFade /\ Open' = Open /\ Folders' = Folders /\ home' = home /\ spent' = spent
BY DEF tenantVars, TenantsFade, Open, Folders

\* Rows go, keys may come and be counted.
LEMMA FilesShrink ==
  ASSUME FilesInv, KeysInv, KeysInv', KeysGrow, Len(keys') <= MaxKeys, bucket' \subseteq Issued',
         NEW R, calls' = Without(R), docs' \subseteq docs,
         purged' \subseteq DOMAIN calls' \cup docs',
         \A c \in DOMAIN calls \ R : home'[KeyOf(c).under] = home[KeyOf(c).under],
         \A d \in docs' : KeyOf(d).under \in Open'
  PROVE  /\ FilesInv'
         /\ DOMAIN calls' = DOMAIN calls \ R
         /\ \A p : Busy(p)' \subseteq Busy(p)
<1>1. DOMAIN calls' = DOMAIN calls \ R /\ \A c \in DOMAIN calls \ R : calls'[c] = calls[c]
  BY DEF Without
<1>2. \A c \in DOMAIN calls : /\ Registered(c, Folder) /\ Registered(c, Folder)'
                              /\ KeyOf(c)'.under = KeyOf(c).under
                              /\ KeyOf(c)'.portfolio = KeyOf(c).portfolio
  BY RegisteredStays DEF FilesInv
<1>3. \A d \in docs : /\ Registered(d, Portfolio)' /\ KeyOf(d)'.under = KeyOf(d).under
  BY RegisteredStays DEF FilesInv
<1>4. IsFiniteSet(DOMAIN calls')
  BY <1>1, FS_Subset DEF FilesInv
<1>5. calls' \in [DOMAIN calls' -> BOOLEAN]
  BY <1>1 DEF FilesInv, Without
<1>6. IngestTypeOK'
  <2>1. \A k \in Issued' : keys'[k].via \in {"proxy", "presigned"}
    <3>1. \A k \in Issued' : keys'[k] \in IssuedKey
      BY LenProperties, ElementOfSeq DEF KeysInv, Issued
    <3> QED BY <3>1 DEF IssuedKey
  <2>2. \A c \in DOMAIN calls' : /\ calls'[c] \in BOOLEAN /\ c[1] \in Issued'
                                 /\ home'[KeyOf(c)'.under] = KeyOf(c)'.portfolio
    BY <1>1, <1>2 DEF FilesInv, IngestTypeOK, Registered
  <2>3. \A d \in docs' : d[1] \in Issued' /\ KeyOf(d)'.under \in Open'
    BY <1>3 DEF Registered
  <2> QED BY <2>1, <2>2, <2>3 DEF IngestTypeOK
<1>7. \A p : Busy(p)' \subseteq Busy(p)
  BY <1>1, <1>2 DEF Busy, RegisteredIn
<1> QED BY <1>1, <1>2, <1>3, <1>4, <1>5, <1>6, <1>7 DEF FilesInv

LEMMA SameCalls == FilesInv => calls = Without({})
BY DEF FilesInv, Without

\* A request that neither stores nor registers anything.
LEMMA QuietStep ==
  ASSUME WorkspaceInv, UNCHANGED tenantVars, UNCHANGED ingestVars,
         NEW s \in Session, NEW q \in Request, Turns(s, q),
         DeskInv(s)', Uploading(s)' => \A k \in desk'[s].got : keys[k].via = "presigned"
  PROVE  /\ StoreInv' /\ UploadedKept'
         /\ \A t \in Session \ {s} : desk'[t] = desk[t]
         /\ desk'[s] = q
         /\ \A p : Busy(p)' = Busy(p)
         /\ q.on # "upload" => QuotaOvershoot'
<1> USE DEF WorkspaceInv, StoreInv, ConfigInv
<1>1. keys' = keys /\ bucket' = bucket /\ calls' = calls /\ docs' = docs /\ purged' = purged
  BY DEF ingestVars
<1>2. desk'[s] = q /\ \A t \in Session \ {s} : desk'[t] = desk[t]
  BY TurnShape
<1>3. KeysInv' /\ KeysGrow /\ TenantsFade /\ Open' = Open /\ home' = home
  BY <1>1, NothingFades, KeysKept
<1>4. calls' = Without({})
  BY <1>1, SameCalls
<1>5. FilesInv'
  BY <1>1, <1>3, <1>4, FilesShrink DEF FilesInv, IngestTypeOK, Issued
<1>6. \A t \in Session : DeskInv(t)'
  BY <1>1, <1>2, <1>3, DeskStays DEF Uploading
<1>7. Apart'
  BY <1>1, <1>2, <1>3, ApartStays
<1>8. UploadedKept'
  BY <1>1 DEF UploadedKept, KeyOf
<1>9. \A p : Busy(p)' = Busy(p)
  BY <1>1 DEF Busy, RegisteredIn, KeyOf
<1>10. ASSUME q.on # "upload" PROVE QuotaOvershoot'
  <2>1. \A p : Awaited(p)' \subseteq Awaited(p)
    BY <1>2, <1>10, AwaitedShrinks
  <2> QED BY <1>9, <2>1, QuotaBelow DEF QuotaOvershoot
<1> QED BY <1>2, <1>3, <1>5, <1>6, <1>7, <1>8, <1>9, <1>10

LEMMA QuietTurn ==
  ASSUME WorkspaceInv, UNCHANGED tenantVars, UNCHANGED ingestVars,
         Turned({"activate", "deactivate", "nothing"})
  PROVE  StoreKept
<1>1. CASE desk' = desk
  <2>1. StoreInv' /\ UploadedKept' /\ QuotaOvershoot'
    <3>1. keys' = keys /\ bucket' = bucket /\ calls' = calls /\ docs' = docs /\ purged' = purged
          /\ home' = home /\ spent' = spent /\ portfolios' = portfolios
      BY DEF ingestVars, tenantVars
    <3> QED
      BY <1>1, <3>1
      DEF WorkspaceInv, StoreInv, UploadedKept, QuotaOvershoot, KeysInv, FilesInv, Apart,
          DeskInv, Batch, Registered, KeyOf, Issued, IngestTypeOK, Open, Pending, Awaited,
          Admitted, Doing, InFlight, RegisteredIn
  <2> QED BY <2>1 DEF StoreKept
<1>2. ASSUME NEW s \in Session, NEW q \in Request, Turns(s, q),
             q.on \in {"activate", "deactivate", "nothing"}
      PROVE  StoreKept
  <2>1. desk'[s] = q
    BY <1>2, TurnShape DEF WorkspaceInv, ConfigInv
  <2>2. DeskInv(s)' /\ ~Uploading(s)'
    BY <1>2, <2>1 DEF DeskInv, Uploading
  <2> QED BY <1>2, <2>1, <2>2, QuietStep DEF StoreKept
<1> QED BY <1>1, <1>2 DEF Turned

\* The kinds of requests that move files, and the end of one.
Moving == {"nothing", "upload", "uploadKb", "deleteCall", "deleteKb", "deleteFolder"}

\* A key is issued: nothing lies under it yet, and no row or request names it.
LEMMA KeyIssued ==
  ASSUME WorkspaceInv, UNCHANGED tenantVars, UNCHANGED <<desk, bucket, calls, docs, purged>>,
         Len(keys) < MaxKeys, NEW k \in IssuedKey, keys' = Append(keys, k), k.times = 0,
         k.under \in Folder => k.under \in spent /\ home[k.under] \in {None, k.portfolio},
         k.under \in Portfolio => k.portfolio = k.under
  PROVE  StoreKept
<1> USE DEF WorkspaceInv, StoreInv, ConfigInv
<1>1. /\ KeysInv' /\ KeysGrow /\ Len(keys') = Len(keys) + 1
      /\ Issued' = Issued \cup {Len(keys')} /\ \A i \in Issued : keys'[i] = keys[i]
  BY KeysAppended
<1>2. TenantsFade /\ Open' = Open /\ home' = home
  BY NothingFades
<1>3. Len(keys) \in Nat /\ MaxKeys \in Nat
  BY IssuedKeys, IngestAssumption
<1>4. Len(keys') <= MaxKeys
  BY <1>1, <1>3
<1>5. bucket' \subseteq Issued' /\ purged' \subseteq DOMAIN calls' \cup docs'
      /\ \A d \in docs' : KeyOf(d).under \in Open'
  BY <1>1, <1>2 DEF FilesInv, IngestTypeOK
<1>6. calls' = Without({})
  BY SameCalls
<1>7. FilesInv' /\ \A p : Busy(p)' \subseteq Busy(p)
  BY <1>1, <1>2, <1>4, <1>5, <1>6, FilesShrink
<1>8. ASSUME NEW s \in Session PROVE DeskInv(s)'
  <2>1. Uploading(s) => desk[s].got \subseteq Issued
    BY DEF Uploading, DeskInv, Batch
  <2> QED BY <1>1, <1>2, <2>1, DeskStays
<1>9. \A t \in Session : Uploading(t) => desk[t].got \subseteq Issued
  BY DEF Uploading, DeskInv, Batch
<1>10. Apart'
  <2>1. SUFFICES ASSUME NEW t \in Session, NEW u \in Session, Uploading(t), Uploading(u),
                        t # u, NEW i \in desk[t].got \cap desk[u].got
                 PROVE  keys'[i].via = "presigned"
    BY DEF Apart, Uploading
  <2>2. i \in Issued /\ keys[i].via = "presigned"
    BY <1>9, <2>1 DEF Apart, Uploading
  <2> QED BY <1>1, <2>2
<1>11. UploadedKept'
  BY <1>1 DEF UploadedKept, FilesInv, Registered, KeyOf
<1>12. \A p : Awaited(p)' = Awaited(p)
  BY DEF Awaited, Admitted, Doing, Pending
<1>13. QuotaOvershoot'
  BY <1>7, <1>12, QuotaBelow DEF QuotaOvershoot
<1> QED BY <1>1, <1>7, <1>8, <1>10, <1>11, <1>13 DEF StoreKept

LEMMA PresignStep ==
  ASSUME WorkspaceInv, NEW f \in Folders, Presign(f)
  PROVE  StoreKept /\ Turned(Moving)
<1> DEFINE k == Key(f, home[f], "presigned")
<1>1. f \in Folder /\ home[f] \in Portfolio /\ f \in spent /\ f \notin Portfolio
  BY TenantsAssumption DEF WorkspaceInv, ConfigInv, TenantsInv, TenantsTypeOK, Folders, Open
<1>2. k \in IssuedKey /\ k.times = 0 /\ k.under = f /\ k.portfolio = home[f]
  BY <1>1 DEF Key, IssuedKey
<1>3. /\ UNCHANGED tenantVars /\ UNCHANGED <<desk, bucket, calls, docs, purged>>
      /\ Len(keys) < MaxKeys /\ keys' = Append(keys, k)
  BY DEF Presign
<1> HIDE DEF k
<1>4. StoreKept
  BY <1>1, <1>2, <1>3, KeyIssued
<1> QED BY <1>3, <1>4 DEF Turned

LEMMA PresignKbStep ==
  ASSUME WorkspaceInv, NEW p \in Open, PresignKb(p)
  PROVE  StoreKept /\ Turned(Moving)
<1> DEFINE k == KbKey(p, "presigned")
<1>1. p \in Portfolio /\ p \notin Folder
  BY TenantsAssumption DEF Open
<1>2. k \in IssuedKey /\ k.times = 0 /\ k.under = p /\ k.portfolio = p
  BY <1>1 DEF Key, KbKey, IssuedKey
<1>3. /\ UNCHANGED tenantVars /\ UNCHANGED <<desk, bucket, calls, docs, purged>>
      /\ Len(keys) < MaxKeys /\ keys' = Append(keys, k)
  BY DEF PresignKb
<1> HIDE DEF k
<1>4. StoreKept
  BY <1>1, <1>2, <1>3, KeyIssued
<1> QED BY <1>3, <1>4 DEF Turned

\* A file is stored under a new key, which its request keeps until it registers it.
LEMMA FileStored ==
  ASSUME WorkspaceInv, UNCHANGED tenantVars, UNCHANGED <<calls, docs, purged>>,
         NEW s \in Session, Uploading(s), desk[s].left > 0, Len(keys) < MaxKeys,
         NEW k \in IssuedKey, keys' = Append(keys, k),
         k.times = 0, k.via = "proxy", k.under = desk[s].under,
         desk[s].on = "upload" => k.portfolio = desk[s].portfolio,
         desk[s].on = "uploadKb" => k.portfolio = desk[s].under,
         bucket' = bucket \cup {Len(keys')},
         desk' = [desk EXCEPT ![s].left = @ - 1, ![s].got = @ \cup {Len(keys')}]
  PROVE  StoreKept /\ Turned(Moving)
<1> USE DEF WorkspaceInv, StoreInv, ConfigInv
<1> DEFINE n == Len(keys')
           q == [desk[s] EXCEPT !.left = @ - 1, !.got = @ \cup {n}]
<1>1. desk[s].on = "upload" => desk[s] \in UploadDesk
  BY DeskShape
<1>2. desk[s].on = "uploadKb" => desk[s] \in DocumentsDesk
  BY DeskShape
<1>3. /\ k.under \in Folder => k.under \in spent /\ home[k.under] \in {None, k.portfolio}
      /\ k.under \in Portfolio => k.portfolio = k.under
  BY <1>1, <1>2, TenantsAssumption DEF Uploading, DeskInv, UploadDesk, DocumentsDesk
<1>4. /\ KeysInv' /\ KeysGrow /\ n = Len(keys) + 1 /\ n \notin Issued
      /\ Issued' = Issued \cup {n} /\ keys'[n] = k /\ \A i \in Issued : keys'[i] = keys[i]
  BY <1>3, KeysAppended
<1>5. Len(keys) \in Nat /\ n \in Nat /\ MaxKeys \in Nat
  BY <1>4, IssuedKeys, IngestAssumption
<1>6. desk' = [desk EXCEPT ![s] = q]
  OBVIOUS
<1>7. /\ q \in Request /\ q.on = desk[s].on /\ q.under = desk[s].under
      /\ q.left = desk[s].left - 1 /\ q.got = desk[s].got \cup {n}
      /\ q.on = "upload" => q.portfolio = desk[s].portfolio
  <2>1. CASE desk[s].on = "upload"
    <3>1. desk[s] \in UploadDesk
      BY <1>1, <2>1
    <3>2. desk[s].left - 1 \in Nat /\ desk[s].got \cup {n} \in SUBSET Nat
      BY <1>5, <3>1 DEF UploadDesk
    <3>3. /\ q \in UploadDesk /\ q.on = desk[s].on /\ q.under = desk[s].under
          /\ q.left = desk[s].left - 1 /\ q.got = desk[s].got \cup {n}
          /\ q.portfolio = desk[s].portfolio
      BY <3>1, <3>2 DEF UploadDesk
    <3> QED BY <3>3 DEF Request
  <2>2. CASE desk[s].on = "uploadKb"
    <3>1. desk[s] \in DocumentsDesk
      BY <1>2, <2>2
    <3>2. desk[s].left - 1 \in Nat /\ desk[s].got \cup {n} \in SUBSET Nat
      BY <1>5, <3>1 DEF DocumentsDesk
    <3>3. /\ q \in DocumentsDesk /\ q.on = desk[s].on /\ q.under = desk[s].under
          /\ q.left = desk[s].left - 1 /\ q.got = desk[s].got \cup {n}
      BY <3>1, <3>2 DEF DocumentsDesk
    <3> QED BY <2>2, <3>3 DEF Request
  <2> QED BY <2>1, <2>2 DEF Uploading
<1>8. TenantsFade /\ Open' = Open /\ home' = home /\ spent' = spent
  BY NothingFades
<1> HIDE DEF q
<1>9. desk'[s] = q /\ (\A t \in Session \ {s} : desk'[t] = desk[t]) /\ Turned(Moving)
  <2>1. Turns(s, q)
    BY <1>6 DEF Turns
  <2>2. q.on \in Moving
    BY <1>7 DEF Uploading, Moving
  <2> QED BY <1>7, <2>1, <2>2, TurnShape DEF Turned
<1>10. FilesInv' /\ \A p : Busy(p)' \subseteq Busy(p)
  <2>1. calls' = Without({})
    BY SameCalls
  <2>2. Len(keys') <= MaxKeys
    BY <1>4, <1>5
  <2>3. bucket' \subseteq Issued' /\ purged' \subseteq DOMAIN calls' \cup docs'
        /\ \A d \in docs' : KeyOf(d).under \in Open'
    BY <1>4, <1>8 DEF FilesInv, IngestTypeOK
  <2> QED BY <1>4, <1>8, <2>1, <2>2, <2>3, FilesShrink
<1>11. \A t \in Session : Uploading(t) => desk[t].got \subseteq Issued
  BY DEF Uploading, DeskInv, Batch
<1>12. ASSUME NEW t \in Session \ {s} PROVE DeskInv(t)'
  <2>1. Uploading(t) =>
          \A i \in desk[t].got : keys[i].via = "proxy" /\ keys[i].times = 0 /\ i \in bucket
                                    => keys'[i].times = 0 /\ i \in bucket'
    BY <1>4, <1>11
  <2> QED BY <1>4, <1>8, <1>9, <2>1, DeskStays
<1>13. IsFiniteSet(desk[s].got) /\ n \notin desk[s].got
  BY <1>4, <1>11 DEF Uploading, DeskInv, Batch
<1>14. IsFiniteSet(q.got) /\ Cardinality(q.got) = Cardinality(desk[s].got) + 1
       /\ Cardinality(desk[s].got) \in Nat
  BY <1>7, <1>13, FS_AddElement, FS_CardinalityType
<1>15. desk[s].left \in Nat
  BY <1>1, <1>2 DEF Uploading, UploadDesk, DocumentsDesk
<1>16. Pending(s)' = Pending(s)
  <2>1. Pending(s)' = q.left + Cardinality(q.got)
    BY <1>9 DEF Pending
  <2>2. q.left = desk[s].left - 1
    BY <1>7
  <2>3. Pending(s) = desk[s].left + Cardinality(desk[s].got)
    BY DEF Pending
  <2>4. \A a, b \in Nat : (a - 1) + (b + 1) = a + b
    OBVIOUS
  <2> HIDE DEF WorkspaceInv, StoreInv, ConfigInv, n
  <2> QED BY <1>14, <1>15, <2>1, <2>2, <2>3, <2>4
<1>17. Batch(s)'
  <2>1. q.got \subseteq Issued'
    BY <1>4, <1>7, <1>11
  <2>2. ASSUME NEW i \in q.got
        PROVE  /\ keys'[i].under = q.under
               /\ keys'[i].via = "proxy" => keys'[i].times = 0 /\ i \in bucket'
    <3>1. CASE i = n
      BY <1>4, <1>7, <3>1
    <3>2. CASE i \in desk[s].got
      <4>1. keys'[i] = keys[i]
        BY <1>4, <1>11, <3>2
      <4> QED BY <1>7, <3>2, <4>1 DEF Uploading, DeskInv, Batch
    <3> QED BY <1>7, <3>1, <3>2
  <2> QED BY <1>9, <1>14, <2>1, <2>2 DEF Batch
<1>18. DeskInv(s)'
  <2>1. CASE desk[s].on = "uploadKb"
    BY <1>7, <1>9, <1>17, <2>1 DEF DeskInv
  <2>2. CASE desk[s].on = "upload"
    <3>1. q.under \in spent' /\ home'[q.under] \in {None, q.portfolio}
      BY <1>7, <1>8, <2>2 DEF DeskInv
    <3>2. ASSUME NEW i \in q.got PROVE keys'[i].portfolio = q.portfolio
      <4>1. CASE i = n
        BY <1>4, <1>7, <2>2, <4>1
      <4>2. CASE i \in desk[s].got
        BY <1>4, <1>7, <1>11, <2>2, <4>2 DEF Uploading, DeskInv
      <4> QED BY <1>7, <4>1, <4>2
    <3>3. Pending(s)' <= Cap
      BY <1>16, <2>2 DEF DeskInv
    <3> QED BY <1>7, <1>9, <1>17, <2>2, <3>1, <3>2, <3>3 DEF DeskInv
  <2> QED BY <2>1, <2>2 DEF Uploading
<1>19. Apart'
  <2>1. \A i \in desk'[s].got : i \notin Issued \/ (Uploading(s) /\ i \in desk[s].got)
    BY <1>4, <1>7, <1>9
  <2> QED BY <1>4, <1>9, <2>1, ApartStays
<1>20. UploadedKept'
  BY <1>4 DEF UploadedKept, FilesInv, Registered, KeyOf
<1>21. QuotaOvershoot'
  <2>1. CASE desk[s].on = "uploadKb"
    BY <1>7, <1>9, <1>10, <2>1, AwaitedShrinks, QuotaBelow DEF QuotaOvershoot
  <2>2. CASE desk[s].on = "upload"
    BY <1>7, <1>9, <1>10, <1>16, <2>2, AwaitedSame, QuotaBelow DEF QuotaOvershoot
  <2> QED BY <2>1, <2>2 DEF Uploading
<1>22. \A t \in Session : DeskInv(t)'
  BY <1>12, <1>18
<1> QED BY <1>4, <1>9, <1>10, <1>19, <1>20, <1>21, <1>22 DEF StoreKept

LEMMA StoreStep ==
  ASSUME WorkspaceInv, NEW s \in Session, StoreRecording(s) \/ StoreDocument(s)
  PROVE  StoreKept /\ Turned(Moving)
<1>1. CASE StoreRecording(s)
  <2> DEFINE k == Key(desk[s].under, desk[s].portfolio, "proxy")
  <2>1. desk[s].on = "upload" /\ desk[s] \in UploadDesk
    BY <1>1, DeskShape DEF StoreRecording, Doing, WorkspaceInv, ConfigInv
  <2>2. /\ k \in IssuedKey /\ k.times = 0 /\ k.via = "proxy" /\ k.under = desk[s].under
        /\ k.portfolio = desk[s].portfolio
    BY <2>1 DEF Key, IssuedKey, UploadDesk
  <2>3. /\ UNCHANGED tenantVars /\ UNCHANGED <<calls, docs, purged>>
        /\ desk[s].left > 0 /\ Len(keys) < MaxKeys /\ keys' = Append(keys, k)
        /\ bucket' = bucket \cup {Len(keys')}
        /\ desk' = [desk EXCEPT ![s].left = @ - 1, ![s].got = @ \cup {Len(keys')}]
    BY <1>1 DEF StoreRecording
  <2> HIDE DEF k
  <2> QED BY <2>1, <2>2, <2>3, FileStored DEF Uploading
<1>2. CASE StoreDocument(s)
  <2> DEFINE k == KbKey(desk[s].under, "proxy")
  <2>1. desk[s].on = "uploadKb" /\ desk[s] \in DocumentsDesk
    BY <1>2, DeskShape DEF StoreDocument, Doing, WorkspaceInv, ConfigInv
  <2>2. /\ k \in IssuedKey /\ k.times = 0 /\ k.via = "proxy" /\ k.under = desk[s].under
        /\ k.portfolio = desk[s].under
    BY <2>1 DEF Key, KbKey, IssuedKey, DocumentsDesk
  <2>3. /\ UNCHANGED tenantVars /\ UNCHANGED <<calls, docs, purged>>
        /\ desk[s].left > 0 /\ Len(keys) < MaxKeys /\ keys' = Append(keys, k)
        /\ bucket' = bucket \cup {Len(keys')}
        /\ desk' = [desk EXCEPT ![s].left = @ - 1, ![s].got = @ \cup {Len(keys')}]
    BY <1>2 DEF StoreDocument
  <2> HIDE DEF k
  <2> QED BY <2>1, <2>2, <2>3, FileStored DEF Uploading
<1> QED BY <1>1, <1>2

\* The next rows of keys that have been counted.
LEMMA NewRows ==
  ASSUME KeysInv, NEW K \in SUBSET Issued, NEW P, \A k \in K : keys[k].under \in P,
         KeysGrow, \A k \in K : keys'[k].times = keys[k].times + 1,
         NEW c \in RowsFor(K)
  PROVE  /\ c[1] \in K /\ Registered(c, P)'
         /\ KeyOf(c)'.under = keys[c[1]].under /\ KeyOf(c)'.portfolio = keys[c[1]].portfolio
         /\ KeyOf(c)'.via = keys[c[1]].via
<1>1. PICK k \in K : c = <<k, keys[k].times + 1>>
  BY DEF RowsFor
<1>2. keys[k] \in IssuedKey /\ k \in Nat /\ k \in Issued
  BY IssuedKeys
<1>3. keys[k].times \in Nat
  BY <1>2 DEF IssuedKey
<1>4. c \in RowId /\ c[1] = k /\ c[2] = keys[k].times + 1
  BY <1>1, <1>2, <1>3 DEF RowId
<1>5. c[2] \in 1 .. keys'[k].times
  BY <1>3, <1>4
<1>6. /\ keys'[k].under = keys[k].under /\ keys'[k].portfolio = keys[k].portfolio
      /\ keys'[k].via = keys[k].via /\ k \in Issued'
  BY <1>2 DEF KeysGrow
<1> QED BY <1>4, <1>5, <1>6 DEF Registered, KeyOf

LEMMA CallsRegistered ==
  ASSUME WorkspaceInv, UNCHANGED tenantVars, UNCHANGED <<bucket, docs, purged>>,
         NEW K \in SUBSET Issued, IsFiniteSet(K),
         \A k \in K : /\ keys[k].under \in Folders
                      /\ keys[k].via = "proxy" => keys[k].times = 0 /\ k \in bucket,
         keys' = Counted(K), calls' = With(RowsFor(K))
  PROVE  /\ FilesInv' /\ UploadedKept'
         /\ \A p : Busy(p)' \subseteq Busy(p) \cup RowsFor(K)
         /\ \A p : (\A k \in K : keys[k].portfolio # p) => Busy(p)' \subseteq Busy(p)
<1> USE DEF WorkspaceInv, StoreInv, ConfigInv
<1>1. /\ KeysInv' /\ KeysGrow /\ Len(keys') = Len(keys) /\ Issued' = Issued
      /\ \A k \in K : keys'[k].times = keys[k].times + 1
  BY KeysCounted
<1>2. Open' = Open /\ home' = home /\ Folders \subseteq Folder
  BY NothingFades DEF Folders
<1>3. \A c \in RowsFor(K) :
        /\ c[1] \in K /\ Registered(c, Folder)'
        /\ KeyOf(c)'.under = keys[c[1]].under /\ KeyOf(c)'.portfolio = keys[c[1]].portfolio
        /\ KeyOf(c)'.via = keys[c[1]].via
  BY <1>1, <1>2, NewRows
<1>4. \A c \in DOMAIN calls : /\ Registered(c, Folder) /\ Registered(c, Folder)'
                              /\ KeyOf(c)'.under = KeyOf(c).under
                              /\ KeyOf(c)'.portfolio = KeyOf(c).portfolio
                              /\ KeyOf(c)'.via = KeyOf(c).via
  BY <1>1, RegisteredStays DEF FilesInv
<1>5. \A d \in docs : /\ Registered(d, Portfolio)' /\ KeyOf(d)'.under = KeyOf(d).under
                      /\ KeyOf(d)'.via = KeyOf(d).via
  BY <1>1, RegisteredStays DEF FilesInv
<1>6. /\ DOMAIN calls' = DOMAIN calls \cup RowsFor(K)
      /\ \A c \in DOMAIN calls' : calls'[c] = IF c \in RowsFor(K) THEN TRUE ELSE calls[c]
  BY DEF With
<1>7. /\ calls' \in [DOMAIN calls' -> BOOLEAN] /\ \A c \in DOMAIN calls' : calls'[c] \in BOOLEAN
  <2>1. \A c \in DOMAIN calls : calls[c] \in BOOLEAN
    BY DEF FilesInv
  <2>2. \A c \in DOMAIN calls' : calls'[c] \in BOOLEAN
    BY <1>6, <2>1
  <2>3. calls' = [c \in DOMAIN calls' |-> calls'[c]]
    BY DEF With
  <2> QED BY <2>2, <2>3
<1>8. IsFiniteSet(DOMAIN calls')
  <2>1. IsFiniteSet(DOMAIN calls)
    BY DEF FilesInv
  <2>2. IsFiniteSet(RowsFor(K))
    BY RowsForBound
  <2>3. IsFiniteSet(DOMAIN calls \cup RowsFor(K))
    BY <2>1, <2>2, FS_Union
  <2> QED BY <1>6, <2>3
<1>9. \A c \in DOMAIN calls' : Registered(c, Folder)'
  BY <1>3, <1>4, <1>6
<1>10. \A c \in DOMAIN calls' : home'[KeyOf(c)'.under] = KeyOf(c)'.portfolio
  <2>1. ASSUME NEW c \in RowsFor(K) PROVE home[keys[c[1]].under] = keys[c[1]].portfolio
    <3>1. c[1] \in K /\ keys[c[1]].under \in Folders /\ keys[c[1]].under \in Folder
      BY <1>2, <1>3
    <3> QED BY <3>1 DEF KeysInv, Folders
  <2>2. \A c \in DOMAIN calls : home[KeyOf(c).under] = KeyOf(c).portfolio
    BY DEF FilesInv, IngestTypeOK
  <2> QED BY <1>2, <1>3, <1>4, <1>6, <2>1, <2>2
<1>11. IngestTypeOK'
  <2>1. \A k \in Issued' : keys'[k].via \in {"proxy", "presigned"}
    BY <1>1, IssuedKeys DEF KeysGrow, IssuedKey
  <2>2. \A c \in DOMAIN calls' : c[1] \in Issued'
    BY <1>9 DEF Registered
  <2>3. \A d \in docs' : d[1] \in Issued' /\ KeyOf(d)'.under \in Open'
    BY <1>2, <1>5 DEF FilesInv, IngestTypeOK, Registered
  <2>4. Len(keys') <= MaxKeys /\ bucket' \subseteq Issued' /\ purged' \subseteq DOMAIN calls' \cup docs'
    BY <1>1, <1>6 DEF FilesInv, IngestTypeOK
  <2> QED BY <1>7, <1>10, <2>1, <2>2, <2>3, <2>4 DEF IngestTypeOK
<1>12. FilesInv'
  BY <1>5, <1>7, <1>8, <1>9, <1>11 DEF FilesInv
<1>13. UploadedKept'
  <2>1. ASSUME NEW c \in RowsFor(K), KeyOf(c)'.via = "proxy" PROVE c[1] \in bucket'
    BY <1>3, <2>1
  <2>2. ASSUME NEW c \in DOMAIN calls \cup docs, KeyOf(c)'.via = "proxy"
        PROVE  c[1] \in bucket' \/ c \in purged'
    BY <1>4, <1>5, <2>2 DEF UploadedKept
  <2> QED BY <1>6, <2>1, <2>2 DEF UploadedKept
<1>14. \A p, c : c \in Busy(p)' =>
         c \in Busy(p) \/ (c \in RowsFor(K) /\ keys[c[1]].portfolio = p)
  BY <1>3, <1>4, <1>6 DEF Busy, RegisteredIn
<1> QED BY <1>3, <1>12, <1>13, <1>14

LEMMA DocsRegistered ==
  ASSUME WorkspaceInv, UNCHANGED tenantVars, UNCHANGED <<bucket, calls, purged>>,
         NEW K \in SUBSET Issued,
         \A k \in K : /\ keys[k].under \in Open
                      /\ keys[k].via = "proxy" => keys[k].times = 0 /\ k \in bucket,
         keys' = Counted(K), docs' = docs \cup RowsFor(K)
  PROVE  FilesInv' /\ UploadedKept' /\ \A p : Busy(p)' \subseteq Busy(p)
<1> USE DEF WorkspaceInv, StoreInv, ConfigInv
<1>1. /\ KeysInv' /\ KeysGrow /\ Len(keys') = Len(keys) /\ Issued' = Issued
      /\ \A k \in K : keys'[k].times = keys[k].times + 1
  BY KeysCounted
<1>2. Open' = Open /\ home' = home /\ Open \subseteq Portfolio
  BY NothingFades DEF Open
<1>3. \A d \in RowsFor(K) :
        /\ d[1] \in K /\ Registered(d, Portfolio)'
        /\ KeyOf(d)'.under = keys[d[1]].under
        /\ KeyOf(d)'.via = keys[d[1]].via
  BY <1>1, <1>2, NewRows
<1>4. \A c \in DOMAIN calls : /\ Registered(c, Folder) /\ Registered(c, Folder)'
                              /\ KeyOf(c)'.under = KeyOf(c).under
                              /\ KeyOf(c)'.portfolio = KeyOf(c).portfolio
                              /\ KeyOf(c)'.via = KeyOf(c).via
  BY <1>1, RegisteredStays DEF FilesInv
<1>5. \A d \in docs : /\ Registered(d, Portfolio)' /\ KeyOf(d)'.under = KeyOf(d).under
                      /\ KeyOf(d)'.via = KeyOf(d).via
  BY <1>1, RegisteredStays DEF FilesInv
<1>6. \A d \in docs' : Registered(d, Portfolio)' /\ KeyOf(d)'.under \in Open'
  BY <1>2, <1>3, <1>5 DEF FilesInv, IngestTypeOK
<1>7. IngestTypeOK'
  <2>1. \A k \in Issued' : keys'[k].via \in {"proxy", "presigned"}
    BY <1>1, IssuedKeys DEF KeysGrow, IssuedKey
  <2>2. \A c \in DOMAIN calls' : /\ calls'[c] \in BOOLEAN /\ c[1] \in Issued'
                                 /\ home'[KeyOf(c)'.under] = KeyOf(c)'.portfolio
    BY <1>2, <1>4 DEF FilesInv, IngestTypeOK, Registered
  <2>3. \A d \in docs' : d[1] \in Issued' /\ KeyOf(d)'.under \in Open'
    BY <1>6 DEF Registered
  <2>4. Len(keys') <= MaxKeys /\ bucket' \subseteq Issued' /\ purged' \subseteq DOMAIN calls' \cup docs'
    BY <1>1 DEF FilesInv, IngestTypeOK
  <2> QED BY <2>1, <2>2, <2>3, <2>4 DEF IngestTypeOK
<1>8. FilesInv'
  BY <1>4, <1>6, <1>7 DEF FilesInv
<1>9. UploadedKept'
  <2>1. ASSUME NEW d \in RowsFor(K), KeyOf(d)'.via = "proxy" PROVE d[1] \in bucket'
    BY <1>3, <2>1
  <2>2. ASSUME NEW c \in DOMAIN calls \cup docs, KeyOf(c)'.via = "proxy"
        PROVE  c[1] \in bucket' \/ c \in purged'
    BY <1>4, <1>5, <2>2 DEF UploadedKept
  <2> QED BY <2>1, <2>2 DEF UploadedKept
<1>10. \A p : Busy(p)' \subseteq Busy(p)
  BY <1>4 DEF Busy, RegisteredIn
<1> QED BY <1>8, <1>9, <1>10

\* The requests of the others, when the keys of one request are counted: theirs are others.
LEMMA CountedForOne ==
  ASSUME WorkspaceInv, UNCHANGED tenantVars, bucket' = bucket, NEW s \in Session, Uploading(s),
         NEW K \in SUBSET desk[s].got, keys' = Counted(K),
         \A t \in Session \ {s} : desk'[t] = desk[t], desk'[s] = Free
  PROVE  /\ KeysInv' /\ KeysGrow /\ Apart' /\ \A t \in Session : DeskInv(t)'
         /\ K \subseteq Issued /\ IsFiniteSet(K)
         /\ \A k \in K : keys[k].via = "proxy" => keys[k].times = 0 /\ k \in bucket
<1> USE DEF WorkspaceInv, StoreInv, ConfigInv
<1>1. \A t \in Session : Uploading(t) => Batch(t)
  BY DEF Uploading, DeskInv
<1>2. /\ K \subseteq Issued /\ IsFiniteSet(K)
      /\ \A k \in K : keys[k].via = "proxy" => keys[k].times = 0 /\ k \in bucket
  BY <1>1, FS_Subset DEF Batch
<1>3. KeysInv' /\ KeysGrow /\ \A k \in Issued \ K : keys'[k] = keys[k]
  BY <1>2, KeysCounted
<1>4. TenantsFade
  BY NothingFades
<1>5. ~Uploading(s)' /\ DeskInv(s)'
  BY FreeShape DEF Uploading, DeskInv
<1>6. ASSUME NEW t \in Session \ {s} PROVE DeskInv(t)'
  <2>1. ASSUME Uploading(t), NEW k \in desk[t].got, keys[k].via = "proxy", keys[k].times = 0,
               k \in bucket
        PROVE  keys'[k].times = 0 /\ k \in bucket'
    <3>1. k \in Issued
      BY <1>1, <2>1 DEF Batch
    <3>2. k \notin desk[s].got
      BY <2>1 DEF Apart, Uploading
    <3> QED BY <1>3, <2>1, <3>1, <3>2
  <2> QED BY <1>3, <1>4, <2>1, DeskStays
<1>7. Apart'
  BY <1>3, <1>5, ApartStays
<1> QED BY <1>2, <1>3, <1>5, <1>6, <1>7

LEMMA RegisterKeysStep ==
  ASSUME WorkspaceInv, NEW s \in Session, RegisterKeys(s)
  PROVE  StoreKept /\ Turned(Moving)
<1> USE DEF WorkspaceInv, StoreInv, ConfigInv
<1> DEFINE K == IF desk[s].under \in Folders THEN desk[s].got ELSE {}
<1>1. /\ desk[s].on = "upload" /\ desk[s].left = 0 /\ Turns(s, Free)
      /\ keys' = Counted(K) /\ calls' = With(RowsFor(K))
      /\ UNCHANGED tenantVars /\ UNCHANGED <<bucket, docs, purged>> /\ bucket' = bucket
  BY DEF RegisterKeys, Doing, Leave, Turns
<1>2. desk[s] \in UploadDesk
  BY <1>1, DeskShape
<1>3. /\ desk'[s] = Free /\ (\A t \in Session \ {s} : desk'[t] = desk[t]) /\ Turned(Moving)
  BY <1>1, TurnShape, FreeShape DEF Turned, Moving
<1>4. K \subseteq desk[s].got /\ \A k \in K : keys[k].under \in Folders
  BY <1>1 DEF DeskInv, Batch
<1> HIDE DEF K
<1>5. /\ KeysInv' /\ KeysGrow /\ Apart' /\ \A t \in Session : DeskInv(t)'
      /\ K \subseteq Issued /\ IsFiniteSet(K)
      /\ \A k \in K : keys[k].via = "proxy" => keys[k].times = 0 /\ k \in bucket
  BY <1>1, <1>3, <1>4, CountedForOne DEF Uploading
<1>6. /\ FilesInv' /\ UploadedKept'
      /\ \A p : Busy(p)' \subseteq Busy(p) \cup RowsFor(K)
      /\ \A p : (\A k \in K : keys[k].portfolio # p) => Busy(p)' \subseteq Busy(p)
  BY <1>1, <1>4, <1>5, CallsRegistered
<1>7. ASSUME NEW p \in Portfolio
      PROVE  InFlight(p)' + Cardinality(Awaited(p)') <= Cap * Cardinality(Session)
  <2>1. CASE p = desk[s].portfolio
    <3>1. RowsFor(K) \subseteq RowsFor(desk[s].got)
      BY <1>4 DEF RowsFor
    <3>2. Busy(p)' \subseteq Busy(p) \cup RowsFor(desk[s].got)
      BY <1>6, <3>1
    <3>3. desk'[s].on # "upload"
      BY <1>3, FreeShape
    <3> QED BY <1>1, <1>3, <2>1, <3>2, <3>3, QuotaRegisters
  <2>2. CASE p # desk[s].portfolio
    <3>1. \A k \in K : keys[k].portfolio # p
      BY <1>1, <1>4, <2>2 DEF DeskInv
    <3>2. Awaited(p)' \subseteq Awaited(p)
      BY <1>3, FreeShape, AwaitedShrinks
    <3> QED BY <1>6, <3>1, <3>2, QuotaBelow
  <2> QED BY <2>1, <2>2
<1> QED BY <1>3, <1>5, <1>6, <1>7 DEF StoreKept, QuotaOvershoot

LEMMA RegisterDocumentsStep ==
  ASSUME WorkspaceInv, NEW s \in Session, RegisterDocuments(s)
  PROVE  StoreKept /\ Turned(Moving)
<1> USE DEF WorkspaceInv, StoreInv, ConfigInv
<1> DEFINE K == IF desk[s].under \in Open THEN desk[s].got ELSE {}
<1>1. /\ desk[s].on = "uploadKb" /\ Turns(s, Free)
      /\ keys' = Counted(K) /\ docs' = docs \cup RowsFor(K)
      /\ UNCHANGED tenantVars /\ UNCHANGED <<bucket, calls, purged>> /\ bucket' = bucket
  BY DEF RegisterDocuments, Doing, Leave, Turns
<1>2. /\ desk'[s] = Free /\ (\A t \in Session \ {s} : desk'[t] = desk[t]) /\ Turned(Moving)
  BY <1>1, TurnShape, FreeShape DEF Turned, Moving
<1>3. K \subseteq desk[s].got /\ \A k \in K : keys[k].under \in Open
  BY <1>1 DEF DeskInv, Batch
<1> HIDE DEF K
<1>4. /\ KeysInv' /\ KeysGrow /\ Apart' /\ \A t \in Session : DeskInv(t)'
      /\ K \subseteq Issued
      /\ \A k \in K : keys[k].via = "proxy" => keys[k].times = 0 /\ k \in bucket
  BY <1>1, <1>2, <1>3, CountedForOne DEF Uploading
<1>5. FilesInv' /\ UploadedKept' /\ \A p : Busy(p)' \subseteq Busy(p)
  BY <1>1, <1>3, <1>4, DocsRegistered
<1>6. \A p : Awaited(p)' \subseteq Awaited(p)
  BY <1>2, FreeShape, AwaitedShrinks
<1>7. QuotaOvershoot'
  BY <1>5, <1>6, QuotaBelow DEF QuotaOvershoot
<1> QED BY <1>2, <1>4, <1>5, <1>7 DEF StoreKept

LEMMA RegisterKbStep ==
  ASSUME WorkspaceInv, NEW k \in Issued, RegisterKb(k)
  PROVE  StoreKept /\ Turned(Moving)
<1> USE DEF WorkspaceInv, StoreInv, ConfigInv
<1>1. /\ keys[k].under \in Open /\ keys[k].via = "presigned"
      /\ keys' = Counted({k}) /\ docs' = docs \cup RowsFor({k})
      /\ UNCHANGED tenantVars /\ UNCHANGED <<bucket, calls, purged>>
      /\ desk' = desk /\ bucket' = bucket
  BY DEF RegisterKb
<1>2. keys[k].via # "proxy"
  BY <1>1
<1>3. KeysInv' /\ KeysGrow /\ \A i \in Issued \ {k} : keys'[i] = keys[i]
  <2> DEFINE K == {k}
  <2>1. /\ UNCHANGED tenantVars /\ K \in SUBSET Issued /\ keys' = Counted(K)
        /\ \A i \in K : keys[i].via = "proxy" => keys[i].times = 0
    BY <1>1, <1>2
  <2> HIDE DEF K
  <2>2. KeysInv' /\ KeysGrow /\ \A i \in Issued \ K : keys'[i] = keys[i]
    BY <2>1, KeysCounted
  <2> QED BY <2>2 DEF K
<1>4. FilesInv' /\ UploadedKept' /\ \A p : Busy(p)' \subseteq Busy(p)
  BY <1>1, <1>2, DocsRegistered
<1>5. \A t \in Session : Uploading(t) => desk[t].got \subseteq Issued
  BY DEF Uploading, DeskInv, Batch
<1>6. TenantsFade
  BY <1>1, NothingFades
<1>7. ASSUME NEW t \in Session PROVE DeskInv(t)'
  <2>1. Uploading(t) =>
          \A i \in desk[t].got : keys[i].via = "proxy" /\ keys[i].times = 0 /\ i \in bucket
                                    => keys'[i].times = 0 /\ i \in bucket'
    BY <1>1, <1>2, <1>3, <1>5
  <2>2. desk'[t] = desk[t]
    BY <1>1
  <2> QED BY <1>3, <1>6, <2>1, <2>2, DeskStays
<1>8. Apart'
  <2>1. SUFFICES ASSUME NEW t \in Session, NEW u \in Session, Uploading(t), Uploading(u),
                        t # u, NEW i \in desk[t].got \cap desk[u].got
                 PROVE  keys'[i].via = "presigned"
    BY <1>1 DEF Apart, Uploading
  <2>2. i \in Issued /\ keys[i].via = "presigned"
    BY <1>5, <2>1 DEF Apart, Uploading
  <2> QED BY <1>3, <2>2 DEF KeysGrow
<1>9. \A p : Awaited(p)' = Awaited(p)
  BY <1>1 DEF Awaited, Admitted, Doing, Pending
<1>10. QuotaOvershoot'
  BY <1>4, <1>9, QuotaBelow DEF QuotaOvershoot
<1> QED BY <1>1, <1>3, <1>4, <1>7, <1>8, <1>10 DEF StoreKept, Turned

\* A job ends.
LEMMA FinishJobStep ==
  ASSUME WorkspaceInv, NEW c \in DOMAIN calls, FinishJob(c)
  PROVE  StoreKept /\ Turned(Moving)
<1> USE DEF WorkspaceInv, StoreInv, ConfigInv
<1>1. /\ calls' = [calls EXCEPT ![c] = FALSE]
      /\ keys' = keys /\ bucket' = bucket /\ docs' = docs /\ purged' = purged /\ desk' = desk
      /\ UNCHANGED tenantVars
  BY DEF FinishJob
<1>2. /\ DOMAIN calls' = DOMAIN calls /\ calls' \in [DOMAIN calls' -> BOOLEAN]
      /\ \A d \in DOMAIN calls : calls'[d] => calls[d]
  BY <1>1 DEF FilesInv
<1>3. KeysInv' /\ KeysGrow /\ TenantsFade /\ Open' = Open /\ home' = home
  BY <1>1, NothingFades, KeysKept
<1>4. FilesInv'
  <2>1. \A d, P : Registered(d, P) => Registered(d, P)'
    BY <1>3, RegisteredStays
  <2>2. IngestTypeOK'
    BY <1>1, <1>2, <1>3 DEF FilesInv, IngestTypeOK, Issued, KeyOf
  <2> QED BY <1>1, <1>2, <2>1, <2>2 DEF FilesInv
<1>5. \A t \in Session : DeskInv(t)'
  BY <1>1, <1>3, DeskStays
<1>6. Apart'
  BY <1>1 DEF Apart
<1>7. UploadedKept'
  BY <1>1, <1>2 DEF UploadedKept, KeyOf
<1>8. \A p : Busy(p)' \subseteq Busy(p)
  BY <1>1, <1>2 DEF Busy, RegisteredIn, KeyOf
<1>9. \A p : Awaited(p)' = Awaited(p)
  BY <1>1 DEF Awaited, Admitted, Doing, Pending
<1>10. QuotaOvershoot'
  BY <1>8, <1>9, QuotaBelow DEF QuotaOvershoot
<1> QED BY <1>1, <1>3, <1>4, <1>5, <1>6, <1>7, <1>10 DEF StoreKept, Turned

\* A deletion of the row c begins: its file goes, if storage answers, and then only rows of
\* its key lack a file.
LEMMA Purge ==
  ASSUME WorkspaceInv, UNCHANGED tenantVars, UNCHANGED <<keys, calls, docs>>,
         NEW c, NEW P, Registered(c, P), NEW s \in Session, NEW q \in Request, Turns(s, q),
         DeskInv(s)', q.on \notin {"upload", "uploadKb"},
         bucket' = bucket \ {c[1]} \/ bucket' = bucket,
         purged' = purged \cup ({c} \cap (DOMAIN calls \cup docs))
  PROVE  StoreKept
<1> USE DEF WorkspaceInv, StoreInv, ConfigInv
<1>1. keys' = keys /\ calls' = calls /\ docs' = docs /\ bucket' \subseteq bucket
  OBVIOUS
<1>2. desk'[s] = q /\ \A t \in Session \ {s} : desk'[t] = desk[t]
  BY TurnShape
<1>3. KeysInv' /\ KeysGrow /\ TenantsFade /\ Open' = Open /\ home' = home
  BY <1>1, NothingFades, KeysKept
<1>4. calls' = Without({}) /\ Issued' = Issued
  BY <1>1, SameCalls DEF Issued
<1>5. FilesInv' /\ \A p : Busy(p)' \subseteq Busy(p)
  <2>1. Len(keys') <= MaxKeys /\ bucket' \subseteq Issued' /\ docs' \subseteq docs
        /\ purged' \subseteq DOMAIN calls' \cup docs'
        /\ \A d \in docs' : KeyOf(d).under \in Open'
    BY <1>1, <1>3, <1>4 DEF FilesInv, IngestTypeOK
  <2> QED BY <1>3, <1>4, <2>1, FilesShrink
<1>6. ASSUME NEW t \in Session \ {s} PROVE DeskInv(t)'
  <2>1. keys[c[1]].times # 0
    BY DEF Registered
  <2>2. Uploading(t) =>
          \A k \in desk[t].got : keys[k].via = "proxy" /\ keys[k].times = 0 /\ k \in bucket
                                    => keys'[k].times = 0 /\ k \in bucket'
    BY <1>1, <2>1
  <2> QED BY <1>2, <1>3, <2>2, DeskStays
<1>7. Apart'
  BY <1>2, <1>3, ApartStays DEF Uploading
<1>8. UploadedKept'
  <2>1. SUFFICES ASSUME NEW d \in DOMAIN calls \cup docs, KeyOf(d).via = "proxy"
                 PROVE  d[1] \in bucket' \/ d \in purged'
    BY <1>1 DEF UploadedKept, KeyOf
  <2>2. d[1] \in bucket \/ d \in purged
    BY <2>1 DEF UploadedKept
  <2>3. Registered(d, Folder) \/ Registered(d, Portfolio)
    BY <2>1 DEF FilesInv
  <2>4. CASE d[1] = c[1]
    <3>1. d = c
      BY <2>1, <2>3, <2>4, SameRow
    <3> QED BY <2>1, <3>1
  <2> QED BY <2>2, <2>4
<1>9. QuotaOvershoot'
  BY <1>2, <1>5, AwaitedShrinks, QuotaBelow DEF QuotaOvershoot
<1>10. \A t \in Session : DeskInv(t)'
  BY <1>6
<1> QED BY <1>3, <1>5, <1>7, <1>8, <1>9, <1>10 DEF StoreKept

LEMMA DeleteCallStep ==
  ASSUME WorkspaceInv, NEW s \in Session, NEW c \in DOMAIN calls, DeleteCall(s, c)
  PROVE  StoreKept /\ Turned(Moving)
<1> USE DEF WorkspaceInv, StoreInv, ConfigInv
<1> DEFINE q == [on |-> "deleteCall", row |-> c]
<1>1. /\ Turns(s, q) /\ UNCHANGED tenantVars /\ UNCHANGED <<keys, calls, docs>> /\ keys' = keys
      /\ bucket' = bucket \ {c[1]} /\ purged' = purged \cup {c}
  BY DEF DeleteCall, Take, Turns
<1>2. Registered(c, Folder)
  BY DEF FilesInv
<1>3. q \in Request /\ q.on = "deleteCall" /\ q.row = c
  BY <1>2 DEF Request, DeletionDesk, Registered
<1> HIDE DEF q
<1>4. desk'[s] = q
  BY <1>1, <1>3, TurnShape
<1>5. Registered(c, Folder)'
  BY <1>1, <1>2 DEF Registered, KeyOf, Issued
<1>6. DeskInv(s)'
  BY <1>3, <1>4, <1>5 DEF DeskInv
<1>7. purged' = purged \cup ({c} \cap (DOMAIN calls \cup docs))
  BY <1>1
<1>8. StoreKept
  BY <1>1, <1>2, <1>3, <1>6, <1>7, Purge
<1> QED BY <1>1, <1>3, <1>8 DEF Turned, Moving

LEMMA DeleteKbStep ==
  ASSUME WorkspaceInv, NEW s \in Session, NEW d \in docs, NEW answers, DeleteKb(s, d, answers)
  PROVE  StoreKept /\ Turned(Moving)
<1> USE DEF WorkspaceInv, StoreInv, ConfigInv
<1> DEFINE q == [on |-> "deleteKb", row |-> d]
<1>1. /\ Turns(s, q) /\ UNCHANGED tenantVars /\ UNCHANGED <<keys, calls, docs>> /\ keys' = keys
      /\ bucket' = bucket \ {d[1]} \/ bucket' = bucket
      /\ purged' = purged \cup {d}
  BY DEF DeleteKb, Take, Turns
<1>2. Registered(d, Portfolio)
  BY DEF FilesInv
<1>3. q \in Request /\ q.on = "deleteKb" /\ q.row = d
  BY <1>2 DEF Request, DeletionDesk, Registered
<1> HIDE DEF q
<1>4. desk'[s] = q
  BY <1>1, <1>3, TurnShape
<1>5. Registered(d, Portfolio)'
  BY <1>1, <1>2 DEF Registered, KeyOf, Issued
<1>6. DeskInv(s)'
  BY <1>3, <1>4, <1>5 DEF DeskInv
<1>7. purged' = purged \cup ({d} \cap (DOMAIN calls \cup docs))
  BY <1>1
<1>8. StoreKept
  BY <1>1, <1>2, <1>3, <1>6, <1>7, Purge
<1> QED BY <1>1, <1>3, <1>8 DEF Turned, Moving

LEMMA PurgeNextStep ==
  ASSUME WorkspaceInv, NEW s \in Session, NEW c, PurgeNext(s, c)
  PROVE  StoreKept /\ Turned(Moving)
<1> USE DEF WorkspaceInv, StoreInv, ConfigInv
<1> DEFINE q == [desk[s] EXCEPT !.left = @ \ {c}]
<1>1. /\ desk[s].on = "deleteFolder" /\ c \in desk[s].left
      /\ desk' = [desk EXCEPT ![s].left = @ \ {c}]
      /\ UNCHANGED tenantVars /\ UNCHANGED <<keys, calls, docs>> /\ keys' = keys
      /\ bucket' = bucket \ {c[1]} /\ purged' = purged \cup ({c} \cap DOMAIN calls)
  BY DEF PurgeNext, Doing
<1>2. desk[s] \in FolderDesk
  BY <1>1, DeskShape
<1>3. Turns(s, q)
  BY <1>1 DEF Turns
<1>4. q \in FolderDesk /\ q.on = "deleteFolder" /\ q.left = desk[s].left \ {c}
  BY <1>2 DEF FolderDesk
<1>5. q \in Request
  BY <1>4 DEF Request
<1> HIDE DEF q
<1>6. desk'[s] = q
  BY <1>3, <1>5, TurnShape
<1>7. Registered(c, Folder) /\ c \notin docs
  <2>1. Registered(c, Folder)
    BY <1>1 DEF DeskInv
  <2>2. KeyOf(c).under \notin Portfolio
    BY <2>1, TenantsAssumption DEF Registered
  <2> QED BY <2>1, <2>2 DEF FilesInv, Registered
<1>8. \A d : Registered(d, Folder) => Registered(d, Folder)'
  BY <1>1 DEF Registered, KeyOf, Issued
<1>9. DeskInv(s)'
  BY <1>1, <1>4, <1>6, <1>8 DEF DeskInv
<1>10. purged' = purged \cup ({c} \cap (DOMAIN calls \cup docs))
  BY <1>1, <1>7
<1>11. StoreKept
  BY <1>1, <1>3, <1>4, <1>5, <1>7, <1>9, <1>10, Purge
<1> QED BY <1>3, <1>4, <1>5, <1>11 DEF Turned, Moving

\* Rows go with what they belong to; the requests are where they were, or over.
LEMMA RowsDrop ==
  ASSUME WorkspaceInv, TenantsFade, keys' = keys, bucket' = bucket,
         NEW R, calls' = Without(R), docs' \subseteq docs,
         purged' \subseteq DOMAIN calls' \cup docs',
         \A c \in DOMAIN calls' \cup docs' : c \in purged => c \in purged',
         \A c \in DOMAIN calls \ R : home'[KeyOf(c).under] = home[KeyOf(c).under],
         \A d \in docs' : KeyOf(d).under \in Open',
         \A t \in Session : desk'[t] = desk[t] \/ desk'[t] = Free
  PROVE  StoreKept
<1> USE DEF WorkspaceInv, StoreInv, ConfigInv
<1>1. KeysInv' /\ KeysGrow /\ Issued' = Issued
  BY KeysKept DEF Issued
<1>2. Len(keys') <= MaxKeys /\ bucket' \subseteq Issued'
  BY <1>1 DEF FilesInv, IngestTypeOK
<1>3. FilesInv' /\ DOMAIN calls' = DOMAIN calls \ R /\ \A p : Busy(p)' \subseteq Busy(p)
  BY <1>1, <1>2, FilesShrink
<1>4. \A t \in Session : desk'[t] = Free => ~Uploading(t)' /\ DeskInv(t)'
  BY FreeShape DEF Uploading, DeskInv
<1>5. ASSUME NEW t \in Session PROVE DeskInv(t)'
  <2>1. CASE desk'[t] = desk[t]
    BY <1>1, <2>1, DeskStays
  <2> QED BY <1>4, <2>1
<1>6. Apart'
  <2>1. \A t \in Session : Uploading(t)' => desk'[t] = desk[t] /\ Uploading(t)
    BY <1>4 DEF Uploading
  <2> QED BY <2>1 DEF Apart, Uploading
<1>7. UploadedKept'
  BY <1>3 DEF UploadedKept, KeyOf
<1>8. \A p : Awaited(p)' \subseteq Awaited(p)
  <2>1. \A t \in Session : desk'[t].on = "upload" => desk'[t] = desk[t]
    BY FreeShape
  <2>2. \A p : \A t \in Admitted(p)' : t \in Admitted(p) /\ Pending(t)' = Pending(t)
    BY <2>1 DEF Admitted, Doing, Pending
  <2> QED BY <2>2 DEF Awaited
<1>9. QuotaOvershoot'
  BY <1>3, <1>8, QuotaBelow DEF QuotaOvershoot
<1> QED BY <1>1, <1>3, <1>5, <1>6, <1>7, <1>9 DEF StoreKept

LEMMA DropCallStep ==
  ASSUME WorkspaceInv, NEW s \in Session, DropCall(s)
  PROVE  StoreKept /\ Turned(Moving)
<1> USE DEF WorkspaceInv, StoreInv, ConfigInv
<1> DEFINE R == {desk[s].row}
<1>1. /\ desk[s].on = "deleteCall" /\ Turns(s, Free) /\ UNCHANGED tenantVars
      /\ calls' = Without(R) /\ purged' = purged \ R
      /\ keys' = keys /\ bucket' = bucket /\ docs' = docs
  BY DEF DropCall, Doing, Leave, Turns
<1>2. \A t \in Session : desk'[t] = desk[t] \/ desk'[t] = Free
  BY <1>1, TurnShape, FreeShape
<1>3. desk[s].row \notin docs
  BY <1>1, TenantsAssumption DEF DeskInv, FilesInv, Registered
<1>4. DOMAIN calls' = DOMAIN calls \ R
  BY <1>1 DEF Without
<1>5. /\ purged' \subseteq DOMAIN calls' \cup docs'
      /\ \A c \in DOMAIN calls' \cup docs' : c \in purged => c \in purged'
  BY <1>1, <1>3, <1>4 DEF FilesInv, IngestTypeOK
<1>6. TenantsFade /\ home' = home /\ Open' = Open
  BY <1>1, NothingFades
<1>7. \A d \in docs' : KeyOf(d).under \in Open'
  BY <1>1, <1>6 DEF FilesInv, IngestTypeOK
<1> HIDE DEF R
<1>8. StoreKept
  BY <1>1, <1>2, <1>5, <1>6, <1>7, RowsDrop
<1> QED BY <1>1, <1>8, FreeShape DEF Turned, Moving

LEMMA DropDocumentStep ==
  ASSUME WorkspaceInv, NEW s \in Session, DropDocument(s)
  PROVE  StoreKept /\ Turned(Moving)
<1> USE DEF WorkspaceInv, StoreInv, ConfigInv
<1>1. /\ desk[s].on = "deleteKb" /\ Turns(s, Free) /\ UNCHANGED tenantVars
      /\ docs' = docs \ {desk[s].row} /\ purged' = purged \ {desk[s].row}
      /\ keys' = keys /\ bucket' = bucket /\ calls' = calls
  BY DEF DropDocument, Doing, Leave, Turns
<1>2. \A t \in Session : desk'[t] = desk[t] \/ desk'[t] = Free
  BY <1>1, TurnShape, FreeShape
<1>3. desk[s].row \notin DOMAIN calls
  BY <1>1, TenantsAssumption DEF DeskInv, FilesInv, Registered
<1>4. calls' = Without({})
  BY <1>1, SameCalls
<1>5. /\ purged' \subseteq DOMAIN calls' \cup docs' /\ docs' \subseteq docs
      /\ \A c \in DOMAIN calls' \cup docs' : c \in purged => c \in purged'
  BY <1>1, <1>3 DEF FilesInv, IngestTypeOK
<1>6. TenantsFade /\ home' = home /\ Open' = Open
  BY <1>1, NothingFades
<1>7. \A d \in docs' : KeyOf(d).under \in Open'
  BY <1>1, <1>6 DEF FilesInv, IngestTypeOK
<1>8. StoreKept
  BY <1>1, <1>2, <1>4, <1>5, <1>6, <1>7, RowsDrop
<1> QED BY <1>1, <1>8, FreeShape DEF Turned, Moving

\* What is in a folder that goes is gone with it.
LEMMA DropFolderStep ==
  ASSUME WorkspaceInv, NEW s \in Session, DropFolder(s)
  PROVE  StoreKept
<1> USE DEF WorkspaceInv, StoreInv, ConfigInv
<1> DEFINE F == {desk[s].under} \cap Folders
           R == UNION {CallsOf(f) : f \in F}
<1>1. /\ desk[s].on = "deleteFolder" /\ Turns(s, Free)
      /\ home' = [f \in Folder |-> IF f \in F THEN None ELSE home[f]]
      /\ calls' = Without(R) /\ purged' = purged \ CallsOf(desk[s].under)
      /\ keys' = keys /\ bucket' = bucket /\ docs' = docs
      /\ portfolios' = portfolios /\ spent' = spent
  BY DEF DropFolder, Doing, Leave, Turns, Cascade
<1>2. \A t \in Session : desk'[t] = desk[t] \/ desk'[t] = Free
  BY <1>1, TurnShape, FreeShape
<1>3. \A c \in DOMAIN calls : KeyOf(c).under \in Folders
  <2>1. ASSUME NEW c \in DOMAIN calls PROVE KeyOf(c).under \in Folders
    <3>1. Registered(c, Folder) /\ home[KeyOf(c).under] = KeyOf(c).portfolio
      BY DEF FilesInv, IngestTypeOK
    <3>2. KeyOf(c) \in IssuedKey
      BY <3>1, IssuedKeys DEF Registered, KeyOf
    <3>3. KeyOf(c).portfolio \in Portfolio /\ KeyOf(c).under \in Folder
      BY <3>1, <3>2 DEF IssuedKey, Registered
    <3> QED BY <3>1, <3>3, TenantsAssumption DEF Folders
  <2> QED BY <2>1
<1>4. R = CallsOf(desk[s].under)
  <2>1. CASE desk[s].under \in Folders
    BY <2>1
  <2>2. CASE desk[s].under \notin Folders
    BY <1>3, <2>2 DEF CallsOf
  <2> QED BY <2>1, <2>2
<1>5. DOMAIN calls' = DOMAIN calls \ R /\ R \subseteq DOMAIN calls
  BY <1>1, <1>4 DEF Without, CallsOf
<1>6. R \cap docs = {}
  BY <1>5, TenantsAssumption DEF FilesInv, Registered
<1>7. /\ purged' \subseteq DOMAIN calls' \cup docs' /\ docs' \subseteq docs
      /\ \A c \in DOMAIN calls' \cup docs' : c \in purged => c \in purged'
  BY <1>1, <1>4, <1>5, <1>6 DEF FilesInv, IngestTypeOK
<1>8. TenantsFade
  BY <1>1 DEF TenantsFade, TenantsInv
<1>9. Open' = Open
  BY <1>1 DEF Open
<1>10. \A d \in docs' : KeyOf(d).under \in Open'
  BY <1>1, <1>9 DEF FilesInv, IngestTypeOK
<1>11. \A c \in DOMAIN calls \ R : home'[KeyOf(c).under] = home[KeyOf(c).under]
  <2>1. \A c \in DOMAIN calls \ R : KeyOf(c).under \in Folder /\ KeyOf(c).under \notin F
    BY <1>3, <1>4 DEF CallsOf, Folders
  <2> QED BY <1>1, <2>1
<1> HIDE DEF R
<1> QED BY <1>1, <1>2, <1>7, <1>8, <1>10, <1>11, RowsDrop

LEMMA DeletePortfolioStep ==
  ASSUME WorkspaceInv, NEW p \in Portfolio, DeletePortfolio(p)
  PROVE  StoreKept
<1> USE DEF WorkspaceInv, StoreInv, ConfigInv
<1> DEFINE R == RegisteredIn(p)
<1>1. /\ home' = [f \in Folder |-> IF home[f] = p THEN None ELSE home[f]]
      /\ calls' = Without(R) /\ purged' = purged \ (R \cup DocsOf(p))
      /\ keys' = keys /\ bucket' = bucket /\ docs' = docs \ DocsOf(p) /\ desk' = desk
      /\ portfolios' = [portfolios EXCEPT ![p] = "deleted"] /\ spent' = spent
  BY DEF DeletePortfolio
<1>2. \A c \in DOMAIN calls : /\ KeyOf(c).under \in Folder
                              /\ home[KeyOf(c).under] = KeyOf(c).portfolio
  BY DEF FilesInv, IngestTypeOK, Registered
<1>3. DOMAIN calls' = DOMAIN calls \ R /\ R \subseteq DOMAIN calls
  BY <1>1 DEF Without, RegisteredIn
<1>4. R \cap docs = {} /\ DocsOf(p) \cap DOMAIN calls = {}
  BY <1>2, TenantsAssumption DEF FilesInv, Registered, RegisteredIn, DocsOf
<1>5. /\ purged' \subseteq DOMAIN calls' \cup docs' /\ docs' \subseteq docs
      /\ \A c \in DOMAIN calls' \cup docs' : c \in purged => c \in purged'
  BY <1>1, <1>3, <1>4 DEF FilesInv, IngestTypeOK
<1>6. TenantsFade
  BY <1>1 DEF TenantsFade, TenantsInv
<1>7. Open' = Open \ {p}
  BY <1>1 DEF Open, TenantsInv, TenantsTypeOK
<1>8. \A d \in docs' : KeyOf(d).under \in Open'
  BY <1>1, <1>7 DEF FilesInv, IngestTypeOK, DocsOf
<1>9. \A c \in DOMAIN calls \ R : home'[KeyOf(c).under] = home[KeyOf(c).under]
  BY <1>1, <1>2 DEF RegisteredIn
<1>10. \A t \in Session : desk'[t] = desk[t]
  BY <1>1
<1> HIDE DEF R
<1> QED BY <1>1, <1>5, <1>6, <1>8, <1>9, <1>10, RowsDrop

LEMMA CreateStep ==
  ASSUME WorkspaceInv,
         \/ \E p \in Portfolio : CreatePortfolio(p)
         \/ \E p \in Portfolio, f \in Folder :
              CreateFolder(p, f) /\ UNCHANGED <<desk, configVars, ingestVars>>
  PROVE  StoreKept
<1> USE DEF WorkspaceInv, StoreInv, ConfigInv
<1>1. /\ keys' = keys /\ bucket' = bucket /\ calls' = calls /\ docs' = docs /\ purged' = purged
      /\ desk' = desk
  BY DEF CreatePortfolio, ingestVars
<1>2. home \in [Folder -> Portfolio \cup {None}] /\ spent \subseteq Folder
  BY DEF TenantsInv, TenantsTypeOK
<1>3. \A f \in spent : f \in spent' /\ home'[f] = home[f]
  BY <1>2 DEF CreatePortfolio, CreateFolder
<1>4. Open \subseteq Open'
  BY DEF CreatePortfolio, CreateFolder, Open, TenantsInv, TenantsTypeOK
<1>5. TenantsFade
  BY <1>3 DEF TenantsFade
<1>6. calls' = Without({})
  BY <1>1, SameCalls
<1>7. \A c \in DOMAIN calls : KeyOf(c).under \in spent
  BY DEF FilesInv, Registered, KeysInv, KeyOf
<1>8. /\ purged' \subseteq DOMAIN calls' \cup docs'
      /\ \A d \in docs' : KeyOf(d).under \in Open'
  BY <1>1, <1>4 DEF FilesInv, IngestTypeOK
<1>9. /\ \A c \in DOMAIN calls \ {} : home'[KeyOf(c).under] = home[KeyOf(c).under]
      /\ \A c \in DOMAIN calls' \cup docs' : c \in purged => c \in purged'
      /\ \A t \in Session : desk'[t] = desk[t]
  BY <1>1, <1>3, <1>7
<1> QED BY <1>1, <1>5, <1>6, <1>8, <1>9, RowsDrop

\* Admissions: the request takes its place on the desk, and has stored nothing yet.
LEMMA AdmitStep ==
  ASSUME WorkspaceInv, UNCHANGED tenantVars, UNCHANGED ingestVars, NEW s \in Session,
         desk[s] = Free, NEW f \in Folders, NEW p, p = home[f], NEW n \in Nat, NEW K \in SUBSET Issued,
         IsFiniteSet(K),
         Turns(s, [on |-> "upload", under |-> f, portfolio |-> p, left |-> n, got |-> K]),
         \A k \in K : keys[k].under = f /\ keys[k].via = "presigned",
         InflightQuota(p, n + Cardinality(K))
  PROVE  StoreKept /\ Turned(Moving)
<1> USE DEF WorkspaceInv, StoreInv, ConfigInv
<1> DEFINE q == [on |-> "upload", under |-> f, portfolio |-> p, left |-> n, got |-> K]
           m == n + Cardinality(K)
<1>1. f \in Folder /\ p \in Portfolio /\ f \in spent
  BY DEF Folders, TenantsInv, TenantsTypeOK, Open
<1>2. K \in SUBSET Nat /\ Cardinality(K) \in Nat /\ m \in Nat
  BY IssuedKeys, FS_CardinalityType
<1>3. /\ q \in Request /\ q.on = "upload" /\ q.under = f /\ q.portfolio = p
      /\ q.left = n /\ q.got = K
  BY <1>1, <1>2 DEF Request, UploadDesk
<1>4. Turns(s, q)
  OBVIOUS
<1> HIDE DEF q
<1>5. desk'[s] = q /\ \A t \in Session \ {s} : desk'[t] = desk[t]
  BY <1>3, <1>4, TurnShape
<1>6. keys' = keys /\ bucket' = bucket /\ calls' = calls /\ home' = home /\ spent' = spent
      /\ Issued' = Issued
  BY DEF ingestVars, tenantVars, Issued
<1>7. Pending(s)' = m
  BY <1>3, <1>5 DEF Pending
<1>8. InFlight(p) \in Nat /\ Cap \in Nat
  BY BusyFinite, IngestAssumption DEF InFlight, Busy
<1>9. m <= Cap - InFlight(p)
  BY DEF InflightQuota
<1> HIDE DEF m
<1>10. m <= Cap
  BY <1>2, <1>8, <1>9
<1>11. Batch(s)'
  BY <1>3, <1>5, <1>6 DEF Batch
<1>12. \A k \in K : keys[k].portfolio = p
  BY <1>1, TenantsAssumption DEF KeysInv
<1>13. DeskInv(s)'
  BY <1>1, <1>3, <1>5, <1>6, <1>7, <1>10, <1>11, <1>12 DEF DeskInv
<1>14. /\ StoreInv' /\ UploadedKept' /\ \A x : Busy(x)' = Busy(x)
  <2>1. Uploading(s)' => \A k \in desk'[s].got : keys[k].via = "presigned"
    BY <1>3, <1>5
  <2> QED BY <1>3, <1>4, <1>13, <2>1, QuietStep
<1>15. ASSUME NEW x \in Portfolio
       PROVE  InFlight(x)' + Cardinality(Awaited(x)') <= Cap * Cardinality(Session)
  <2>1. CASE x = p
    <3>1. desk'[s].on = "upload" /\ Busy(p)' = Busy(p)
      BY <1>3, <1>5, <1>14
    <3> QED BY <1>2, <1>5, <1>7, <1>9, <2>1, <3>1, QuotaAdmits
  <2>2. CASE x # p
    <3>1. s \notin Admitted(x)'
      BY <1>3, <1>5, <2>2 DEF Admitted
    <3>2. \A t \in Admitted(x)' : t \in Admitted(x) /\ Pending(t)' = Pending(t)
      BY <1>5, <3>1 DEF Admitted, Doing, Pending
    <3>3. Awaited(x)' \subseteq Awaited(x)
      BY <3>2 DEF Awaited
    <3> QED BY <1>14, <3>3, QuotaBelow
  <2> QED BY <2>1, <2>2
<1>16. Turned(Moving)
  BY <1>3, <1>4 DEF Turned, Moving
<1> QED BY <1>14, <1>15, <1>16 DEF StoreKept, QuotaOvershoot

LEMMA RegisterStep ==
  ASSUME WorkspaceInv, NEW s \in Session, NEW f \in Folders, NEW K \in SUBSET Issued,
         Register(s, f, K)
  PROVE  StoreKept /\ Turned(Moving)
<1>1. IsFiniteSet(K) /\ Cardinality(K) \in Nat
  <2>1. IsFiniteSet(Issued)
    BY IssuedKeys, FS_Interval DEF WorkspaceInv, StoreInv
  <2> QED BY <2>1, FS_Subset, FS_CardinalityType
<1>2. /\ desk[s] = Free /\ UNCHANGED tenantVars /\ UNCHANGED ingestVars
      /\ Turns(s, [on |-> "upload", under |-> f, portfolio |-> home[f], left |-> 0, got |-> K])
      /\ \A k \in K : keys[k].under = f /\ keys[k].via = "presigned"
      /\ InflightQuota(home[f], Cardinality(K))
  BY DEF Register, Take, Turns
<1>3. 0 + Cardinality(K) = Cardinality(K)
  BY <1>1
<1>4. InflightQuota(home[f], 0 + Cardinality(K))
  BY <1>2, <1>3
<1> QED BY <1>1, <1>2, <1>4, AdmitStep

LEMMA UploadStep ==
  ASSUME WorkspaceInv, NEW s \in Session, NEW f \in Folders, NEW n \in Nat, Upload(s, f, n)
  PROVE  StoreKept /\ Turned(Moving)
<1>1. IsFiniteSet({}) /\ Cardinality({}) = 0 /\ {} \in SUBSET Issued
  BY FS_EmptySet
<1>2. /\ desk[s] = Free /\ UNCHANGED tenantVars /\ UNCHANGED ingestVars
      /\ Turns(s, [on |-> "upload", under |-> f, portfolio |-> home[f], left |-> n, got |-> {}])
      /\ InflightQuota(home[f], n)
  BY DEF Upload, Take, Turns
<1>3. n + Cardinality({}) = n
  BY <1>1
<1>4. InflightQuota(home[f], n + Cardinality({}))
  BY <1>2, <1>3
<1> QED BY <1>1, <1>2, <1>4, AdmitStep

LEMMA UploadKbStep ==
  ASSUME WorkspaceInv, NEW s \in Session, NEW p \in Open, NEW n \in Nat, UploadKb(s, p, n)
  PROVE  StoreKept /\ Turned(Moving)
<1> USE DEF WorkspaceInv, StoreInv, ConfigInv
<1> DEFINE q == [on |-> "uploadKb", under |-> p, left |-> n, got |-> {}]
<1>1. UNCHANGED tenantVars /\ UNCHANGED ingestVars /\ Turns(s, q)
  BY DEF UploadKb, Take, Turns
<1>2. q \in Request /\ q.on = "uploadKb" /\ q.got = {}
  BY DEF Request, DocumentsDesk, Open
<1> HIDE DEF q
<1>3. desk'[s] = q
  BY <1>1, <1>2, TurnShape
<1>4. DeskInv(s)'
  BY <1>2, <1>3, FS_EmptySet DEF DeskInv, Batch
<1>5. StoreInv' /\ UploadedKept' /\ QuotaOvershoot'
  BY <1>1, <1>2, <1>3, <1>4, QuietStep
<1> QED BY <1>1, <1>2, <1>5 DEF StoreKept, Turned, Moving

LEMMA DeleteFolderStep ==
  ASSUME WorkspaceInv, NEW s \in Session, NEW f \in Folders, DeleteFolder(s, f)
  PROVE  StoreKept /\ Turned(Moving)
<1> USE DEF WorkspaceInv, StoreInv, ConfigInv
<1> DEFINE q == [on |-> "deleteFolder", under |-> f, left |-> CallsOf(f)]
<1>1. UNCHANGED tenantVars /\ UNCHANGED ingestVars /\ keys' = keys /\ Turns(s, q)
  BY DEF DeleteFolder, Take, Turns, ingestVars
<1>2. \A c \in CallsOf(f) : Registered(c, Folder) /\ c \in RowId
  BY DEF CallsOf, FilesInv, Registered
<1>3. q \in Request /\ q.on = "deleteFolder" /\ q.left = CallsOf(f)
  BY <1>2 DEF Request, FolderDesk, Folders
<1> HIDE DEF q
<1>4. desk'[s] = q
  BY <1>1, <1>3, TurnShape
<1>5. \A c : Registered(c, Folder) => Registered(c, Folder)'
  BY <1>1 DEF Registered, KeyOf, Issued
<1>6. DeskInv(s)' /\ ~Uploading(s)'
  BY <1>2, <1>3, <1>4, <1>5 DEF DeskInv, Uploading
<1>7. StoreInv' /\ UploadedKept' /\ QuotaOvershoot'
  BY <1>1, <1>3, <1>6, QuietStep
<1> QED BY <1>1, <1>3, <1>7 DEF StoreKept, Turned, Moving

-----------------------------------------------------------------------------
(***************************************************************************)
(* Every step.                                                             *)
(***************************************************************************)
LEMMA FilesStep ==
  ASSUME WorkspaceInv, Files
  PROVE  WorkspaceInv'
<1>1. UNCHANGED configVars /\ UNCHANGED tenantVars
  BY DEF Files, Recordings, Documents, Presign, Register, Upload, StoreRecording, RegisterKeys,
         FinishJob, DeleteCall, DropCall, DeleteFolder, PurgeNext, PresignKb, RegisterKb,
         UploadKb, StoreDocument, RegisterDocuments, DeleteKb, DropDocument
<1>2. StoreKept /\ Turned(Moving)
  <2>1. CASE Recordings
    <3>1. \A n \in 1 .. MaxFiles : n \in Nat
      OBVIOUS
    <3> QED
      BY <2>1, <3>1, PresignStep, RegisterStep, UploadStep, StoreStep, RegisterKeysStep,
         FinishJobStep, DeleteCallStep, DropCallStep, DeleteFolderStep, PurgeNextStep
      DEF Recordings
  <2>2. CASE Documents
    <3>1. \A n \in 1 .. MaxFiles : n \in Nat
      OBVIOUS
    <3> QED
      BY <2>2, <3>1, PresignKbStep, RegisterKbStep, UploadKbStep, StoreStep,
         RegisterDocumentsStep, DeleteKbStep, DropDocumentStep
      DEF Documents
  <2> QED BY <2>1, <2>2 DEF Files
<1>3. ConfigInv'
  BY <1>1, <1>2, ConfigKept DEF WorkspaceInv, Moving
<1> QED BY <1>2, <1>3 DEF WorkspaceInv, StoreKept

LEMMA InvStep ==
  ASSUME WorkspaceInv, [Next]_vars
  PROVE  WorkspaceInv'
<1>1. CASE Configure
  <2>1. ConfigInv' /\ UNCHANGED tenantVars /\ Turned({"activate", "deactivate", "nothing"})
    BY <1>1, ConfigureStep DEF WorkspaceInv, Configure
  <2>2. StoreKept
    BY <1>1, <2>1, QuietTurn DEF Configure
  <2> QED BY <2>1, <2>2 DEF WorkspaceInv, StoreKept
<1>2. CASE Files
  BY <1>2, FilesStep
<1>3. CASE \E p \in Portfolio, f \in Folder :
             CreateFolder(p, f) /\ UNCHANGED <<desk, configVars, ingestVars>>
  BY <1>3, CreateFolderConfig, CreateStep DEF WorkspaceInv, StoreKept
<1>4. CASE \E p \in Portfolio : CreatePortfolio(p)
  BY <1>4, CreatePortfolioConfig, CreateStep DEF WorkspaceInv, StoreKept
<1>5. CASE \E p \in Portfolio : DeletePortfolio(p)
  BY <1>5, DeletePortfolioConfig, DeletePortfolioStep DEF WorkspaceInv, StoreKept
<1>6. CASE \E s \in Session : DropFolder(s)
  BY <1>6, DropFolderConfig, DropFolderStep DEF WorkspaceInv, StoreKept
<1>7. CASE \E s \in Session : Abort(s)
  <2>1. /\ UNCHANGED tenantVars /\ UNCHANGED configVars /\ UNCHANGED ingestVars
        /\ Turned({"nothing"})
    BY <1>7, FreeShape DEF Abort, Leave, Turned, Turns
  <2>2. Turned({"activate", "deactivate", "nothing"})
    BY <2>1 DEF Turned
  <2>3. StoreKept
    BY <2>1, <2>2, QuietTurn
  <2>4. ConfigInv'
    BY <2>1, ConfigKept DEF WorkspaceInv
  <2> QED BY <2>3, <2>4 DEF WorkspaceInv, StoreKept
<1>8. CASE UNCHANGED vars
  <2>1. /\ UNCHANGED tenantVars /\ UNCHANGED configVars /\ UNCHANGED ingestVars
        /\ desk' = desk
    BY <1>8 DEF vars
  <2>2. Turned({"activate", "deactivate", "nothing"}) /\ Turned({"nothing"})
    BY <2>1 DEF Turned
  <2>3. StoreKept
    BY <2>1, <2>2, QuietTurn
  <2>4. ConfigInv'
    BY <2>1, <2>2, ConfigKept DEF WorkspaceInv
  <2> QED BY <2>3, <2>4 DEF WorkspaceInv, StoreKept
<1> QED BY <1>1, <1>2, <1>3, <1>4, <1>5, <1>6, <1>7, <1>8 DEF Next

LEMMA InvInit ==
  ASSUME Init
  PROVE  WorkspaceInv
<1> USE DEF Init, TenantsInit, ConfigInit, IngestInit
<1>1. Open = {} /\ Folders = {}
  BY DEF Open, Folders
<1>2. TenantsInv
  BY <1>1, FreeShape DEF TenantsInv, TenantsTypeOK
<1>3. /\ rows = <<>> /\ DOMAIN rows = {} /\ made = 0 /\ keys = <<>> /\ Issued = {}
      /\ Len(keys) = 0 /\ DOMAIN calls = {} /\ docs = {}
  BY DEF Issued
<1>4. RowsInv
  <2>1. rows = [r \in DOMAIN rows |-> rows[r]]
    BY <1>3
  <2> QED BY <1>3, <2>1, ScopedConfigAssumption DEF RowsInv, ConfigTypeOK, InUseUnique
<1>5. \A s \in Session : Sighted(s) /\ DeskInv(s) /\ ~Uploading(s)
  BY FreeShape DEF Sighted, DeskInv, Uploading
<1>6. KeysInv
  BY <1>3 DEF KeysInv
<1>7. FilesInv
  <2>1. calls \in [DOMAIN calls -> BOOLEAN]
    BY <1>3
  <2> QED BY <1>3, <2>1, FS_EmptySet, IngestAssumption DEF FilesInv, IngestTypeOK
<1>8. Apart
  BY <1>5 DEF Apart, Uploading
<1>9. UploadedKept
  BY <1>3 DEF UploadedKept
<1>10. QuotaOvershoot
  <2>1. ASSUME NEW p \in Portfolio PROVE Busy(p) = {} /\ Awaited(p) = {}
    BY <1>3, FreeShape DEF Busy, RegisteredIn, Awaited, Admitted, Doing
  <2>2. Cap * Cardinality(Session) \in Nat
    BY IngestAssumption, TenantsAssumption, FS_CardinalityType
  <2>3. Cardinality({}) = 0 /\ 0 + 0 <= Cap * Cardinality(Session)
    BY <2>2, FS_EmptySet
  <2>4. \A p : InFlight(p) = Cardinality(Busy(p))
    BY DEF InFlight, Busy
  <2>5. ASSUME NEW p \in Portfolio
        PROVE  InFlight(p) + Cardinality(Awaited(p)) <= Cap * Cardinality(Session)
    BY <2>1, <2>3, <2>4
  <2> QED BY <2>5 DEF QuotaOvershoot
<1> QED
  BY <1>2, <1>4, <1>5, <1>6, <1>7, <1>8, <1>9, <1>10 DEF WorkspaceInv, ConfigInv, StoreInv

LEMMA WorkspaceHolds == Spec => []WorkspaceInv
BY InvInit, InvStep, PTL DEF Spec

\* Whatever is deleted while it is written to, no version, call or document refers to a
\* folder, portfolio or key that is gone: delete_agent, delete_portfolio and the cascade.
THEOREM WorkspaceTypeCorrect == Spec => []TypeOK
<1>1. WorkspaceInv => TypeOK
  BY DEF WorkspaceInv, ConfigInv, StoreInv, TenantsInv, RowsInv, FilesInv, TypeOK
<1> QED BY <1>1, WorkspaceHolds, PTL

\* For the scopes the front end sends, resolve_scoped never has two rows of the highest rank
\* to choose from: the unique index refuses what two activations that overlap would leave
\* in use at one place.
THEOREM OneVersionApplies == Spec => []Unambiguous
<1>1. WorkspaceInv => Unambiguous
  BY ConfigUnambiguous DEF WorkspaceInv
<1> QED BY <1>1, WorkspaceHolds, PTL

\* Putting a version in use ends the use of the others at its place and touches nothing else.
THEOREM ActivatesInItsScope == Spec => ActivationLocal
<1>1. ASSUME WorkspaceInv, [Next]_vars PROVE [Local]_rows
  BY <1>1, StepLocal DEF WorkspaceInv, vars, configVars
<1> QED BY <1>1, WorkspaceHolds, PTL DEF Spec, ActivationLocal, Local

\* Files are stored before their rows are written and deleted only with them, so a row never
\* lacks the file it was uploaded with, however requests are cut short or overlap.
THEOREM FilesOutliveRows == Spec => []UploadedKept
<1>1. WorkspaceInv => UploadedKept
  BY DEF WorkspaceInv
<1> QED BY <1>1, WorkspaceHolds, PTL

\* assert_inflight_quota reads a count that others are about to raise: what is in flight and
\* admitted stays within the cap once for each request served at a time.
THEOREM CapHeldPerRequest == Spec => []QuotaOvershoot
<1>1. WorkspaceInv => QuotaOvershoot
  BY DEF WorkspaceInv
<1> QED BY <1>1, WorkspaceHolds, PTL

=============================================================================
