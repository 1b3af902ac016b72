---------------------------- MODULE ScopedConfig ----------------------------
(***************************************************************************)
(* Prompts, output schemas and report templates: versions an administrator *)
(* writes for all calls, for a portfolio or for a folder, one of which may *)
(* be in use at each of these scopes.  Sources under backend/app:          *)
(* api/prompts.py, api/output_schemas.py, api/report_templates.py,         *)
(* judge/scope.py, judge/prompt_store.py, judge/schema_store.py,           *)
(* reports/service.py and the three tables of models/__init__.py.          *)
(*                                                                         *)
(* The three tables are one set of rows, told apart by "table"; "slot" is  *)
(* the judge agent or stage (the column "agent").  A request reads its row *)
(* and, at the start of a bulk UPDATE, sees the committed rows; the write  *)
(* and the commit follow.  The UPDATE locks what it changes, so requests   *)
(* that change the same row commit one after the other, and a row created  *)
(* after the UPDATE began escapes it.                                      *)
(***************************************************************************)
EXTENDS Tenants, Templates, OutputSchemas

CONSTANTS
  Prompts,     \* prompt bodies administrators write; <<>> is an empty one
  Schemas,     \* output schemas they submit
  Drafts,      \* report templates they submit
  Slots,       \* judge agents whose configuration is edited
  MaxRows      \* bound: versions created

ASSUME ScopedConfigAssumption ==
  /\ Slots \subseteq Stages /\ MaxRows \in Nat
  /\ \A draft \in Drafts :
       draft \in Seq(Range(draft)) /\ \A t \in Range(draft) : t.tag \in {"var", "#", "^", "/"}

VARIABLES
  rows,        \* the stored versions by id
  made         \* versions created so far: the last id

configVars == <<rows, made>>

\* The submissions that pass the check of their upload.
SoundSchemas == [stage \in Slots |-> {schema \in Schemas : ValidSchema(stage, schema)}]
SoundDrafts == {draft \in Drafts : Valid(draft)}

Global == [portfolio |-> None, folder |-> None]
\* The scopes the front end sends: global, a portfolio, a folder with its portfolio.  The
\* API itself checks the pair of ids it is given in no way.
Scopes == {Global} \cup [portfolio : Open, folder : {None}]
                   \cup {[portfolio |-> home[f], folder |-> f] : f \in Folders}

\* uq_agent_prompt_inuse, uq_report_template_inuse and uq_output_schema_inuse: what a row
\* in use is alone at.  NULLs are not distinct.
Place(r) == <<rows[r].table, rows[r].slot, rows[r].scope>>

At(table, scope) == {r \in DOMAIN rows : rows[r].table = table /\ rows[r].scope = scope}
ListPrompts(scope)   == At("prompt", scope)
ListSchemas(scope)   == At("schema", scope)
ListTemplates(scope) == At("template", scope)

ConfigTypeOK ==
  /\ made \in 0 .. MaxRows /\ DOMAIN rows \subseteq 1 .. made
  /\ \A r \in DOMAIN rows :
       /\ rows[r].scope.portfolio \in Open \cup {None}
       /\ rows[r].scope.folder # None => home[rows[r].scope.folder] = rows[r].scope.portfolio
       /\ rows[r].table = "schema" => rows[r].content \in SoundSchemas[rows[r].slot]
       /\ rows[r].table = "template" => rows[r].content \in SoundDrafts

ConfigInit == rows = <<>> /\ made = 0

-----------------------------------------------------------------------------
(***************************************************************************)
(* Writing versions.                                                       *)
(***************************************************************************)
Insert(table, slot, scope, content) ==
  /\ made < MaxRows
  /\ made' = made + 1
  /\ rows' = [r \in DOMAIN rows \cup {made + 1} |->
                IF r \in DOMAIN rows THEN rows[r]
                ELSE [table |-> table, slot |-> slot, scope |-> scope,
                      content |-> content, inUse |-> FALSE]]
  /\ UNCHANGED <<tenantVars, desk>>

\* _check_agent and _check_stage let only the known agents and stages in: Slots.
CreatePrompt(slot, scope, body) == body # <<>> /\ Insert("prompt", slot, scope, body)
\* upload_prompt takes no scope: the prompt is written for all calls.
UploadPrompt(slot, body) == body # <<>> /\ Insert("prompt", slot, Global, body)
CreateSchema(stage, scope, schema) ==
  schema \in SoundSchemas[stage] /\ Insert("schema", stage, scope, schema)
CreateTemplate(scope, template) ==
  template \in SoundDrafts /\ Insert("template", "report", scope, template)
\* upload_template: a file, which must hold something.
UploadTemplate(scope, template) ==
  template # <<>> /\ template \in SoundDrafts /\ Insert("template", "report", scope, template)

-----------------------------------------------------------------------------
(***************************************************************************)
(* Putting versions in and out of use.                                     *)
(***************************************************************************)

\* Fault: the sweep forgets which judge agent the version is for.
SweepScope(r) == {q \in DOMAIN rows : rows[q].scope = rows[r].scope /\ rows[q].table = rows[r].table}

\* The rows the bulk UPDATE of an activation finds.
Sweep(r) == {q \in DOMAIN rows : Place(q) = Place(r)}

\* The read of an activation and the start of its UPDATE.
Activate(s, r) ==
  /\ Take(s, [on |-> "activate", row |-> r, sees |-> Sweep(r)])
  /\ UNCHANGED <<tenantVars, configVars>>
ActivatePrompt(s, scope)   == \E r \in ListPrompts(scope) : Activate(s, r)
ActivateSchema(s, scope)   == \E r \in ListSchemas(scope) : Activate(s, r)
ActivateTemplate(s, scope) == \E r \in ListTemplates(scope) : Activate(s, r)

\* Fault: the index takes two NULLs for different scopes.
DistinctNulls(r, sees) ==
  \E q \in DOMAIN rows \ sees :
     rows[q].inUse /\ Place(q) = Place(r) /\ rows[q].scope.folder # None

\* The unique index finds another row in use at the same place.
Clashes(r, sees) == \E q \in DOMAIN rows \ sees : rows[q].inUse /\ Place(q) = Place(r)

\* The rest of an activation.  The row may be gone (the write finds no row) or the index
\* may refuse the commit (IntegrityError, 409): then nothing changes.
CommitActivation(s) ==
  /\ Doing(s, "activate") /\ Leave(s)
  /\ LET r == desk[s].row  sees == desk[s].sees
     IN  rows' = IF r \notin DOMAIN rows \/ Clashes(r, sees) THEN rows
                 ELSE [q \in DOMAIN rows |->
                         [rows[q] EXCEPT !.inUse = IF q = r THEN TRUE ELSE @ /\ q \notin sees]]
  /\ UNCHANGED <<tenantVars, made>>

\* Deactivation reads the row and writes it only if it was in use when read.
Deactivate(s, r) ==
  /\ Take(s, [on |-> "deactivate", row |-> r])
  /\ rows[r].inUse
  /\ UNCHANGED <<tenantVars, configVars>>
DeactivatePrompt(s, scope)   == \E r \in ListPrompts(scope) : Deactivate(s, r)
DeactivateSchema(s, scope)   == \E r \in ListSchemas(scope) : Deactivate(s, r)
DeactivateTemplate(s, scope) == \E r \in ListTemplates(scope) : Deactivate(s, r)

CommitDeactivation(s) ==
  /\ Doing(s, "deactivate") /\ Leave(s)
  /\ rows' = [q \in DOMAIN rows |->
                [rows[q] EXCEPT !.inUse = @ /\ q # desk[s].row]]
  /\ UNCHANGED <<tenantVars, made>>

\* Restriction of the table to the rows of R, as a deletion leaves it.
Keep(R) == [r \in R |-> rows[r]]

Delete(r) == rows' = Keep(DOMAIN rows \ {r}) /\ UNCHANGED <<tenantVars, made, desk>>
DeletePrompt(scope)   == \E r \in ListPrompts(scope) : Delete(r)
DeleteSchema(scope)   == \E r \in ListSchemas(scope) : Delete(r)
DeleteTemplate(scope) == \E r \in ListTemplates(scope) : Delete(r)

-----------------------------------------------------------------------------
(***************************************************************************)
(* Reading: what a call of folder f is judged and reported with.           *)
(***************************************************************************)

\* _rank: how well a row fits the folder; 0 when it does not apply.
Rank(r, f) ==
  LET scope == rows[r].scope
  IN  CASE scope.folder # None -> IF scope.folder = f THEN 3 ELSE 0
        [] scope.folder = None /\ scope.portfolio # None ->
             IF scope.portfolio = home[f] THEN 2 ELSE 0
        [] OTHER -> 1

\* resolve_scoped returns the first row of the highest rank: one of these.
ResolveScoped(R, f) ==
  {r \in R : Rank(r, f) > 0 /\ \A q \in R : Rank(q, f) <= Rank(r, f)}

InUse(table, slot) ==
  {r \in DOMAIN rows : rows[r].inUse /\ rows[r].table = table /\ rows[r].slot = slot}
LoadActivePrompts(f) == [slot \in Slots |-> ResolveScoped(InUse("prompt", slot), f)]
LoadActiveSchemas(f) == [slot \in Slots |-> ResolveScoped(InUse("schema", slot), f)]
ActiveTemplate(f) == ResolveScoped(InUse("template", "report"), f)

\* render_html: the template the page of folder f is made with.  One that no longer passes
\* the check, like none at all, gives the built-in page.
RenderHtml(f) == {rows[r].content : r \in ActiveTemplate(f)} \cap SoundDrafts

\* The submissions some reference of which finds nothing in some report.
Gappy == {draft \in Drafts : \E report \in Report : Lost(draft, report) # {}}

-----------------------------------------------------------------------------
(***************************************************************************)
(* Properties.                                                             *)
(***************************************************************************)

\* Whatever is created for the scopes the front end sends, activated, switched off and
\* deleted at the same time, and whatever folders and portfolios go meanwhile, a call of a
\* folder is judged with one prompt and one schema for each judge agent and shown with one
\* template: the most specific versions in use never tie (resolve_scoped would take
\* either).  The API takes any pair of portfolio and folder: versions of one folder sent
\* with and without its portfolio do tie.
Unambiguous ==
  \A f \in Folders :
    /\ Cardinality(ActiveTemplate(f)) <= 1
    /\ \A slot \in Slots : /\ Cardinality(LoadActivePrompts(f)[slot]) <= 1
                           /\ Cardinality(LoadActiveSchemas(f)[slot]) <= 1

\* A step that puts a version in use leaves it the only one in use at its scope and for its
\* judge agent, and leaves every version of other scopes and agents as it was, whichever
\* requests for them are under way.
ActivationLocal ==
  [][\A r \in DOMAIN rows \cap DOMAIN rows' : ~rows[r].inUse /\ rows'[r].inUse =>
       \A q \in (DOMAIN rows \cap DOMAIN rows') \ {r} :
         IF Place(q) = Place(r) THEN ~rows'[q].inUse ELSE rows'[q] = rows[q]]_rows

\* A template the upload accepted shows what its author referred to: every reference finds
\* a value, whatever the report holds, outside the blocks of empty lists and of "extra".  This
\* is said of the templates folders show and of every template that can be written (Unfound).
TemplateFound ==
  /\ Unfound = {}
  /\ \A f \in Folders : RenderHtml(f) \cap Gappy = {}

=============================================================================
