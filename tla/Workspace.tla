----------------------------- MODULE Workspace -----------------------------
(***************************************************************************)
(* The API's working data as people change it at the same time: portfolios *)
(* and folders that come and go, the versions bound to them (ScopedConfig) *)
(* and the recordings and documents in them (Ingest).  Sources under       *)
(* backend/app: api/portfolios.py, api/agents.py, the ON DELETE CASCADE of *)
(* models/__init__.py, and those of the two modules.                       *)
(***************************************************************************)
EXTENDS ScopedConfig, Ingest

CONSTANT MaxTotal   \* bound: versions and keys together

vars == <<tenantVars, desk, configVars, ingestVars>>

\* No version, call or document outlives the folder or the portfolio it belongs to.
TypeOK == TenantsTypeOK /\ ConfigTypeOK /\ IngestTypeOK

Init == TenantsInit /\ ConfigInit /\ IngestInit

\* create_portfolio.  The checklist it ships with is in Checklists; the documents
\* seed_default_kb ships are left out: they have no object in the bucket.
CreatePortfolio(p) ==
  /\ portfolios[p] = "new"
  /\ portfolios' = [portfolios EXCEPT ![p] = "open"]
  /\ UNCHANGED <<home, spent, desk, configVars, ingestVars>>

\* Fault: the versions bound to a folder are left when it goes.
KeepsVersions(F) ==
  /\ home' = [f \in Folder |-> IF f \in F THEN None ELSE home[f]]
  /\ calls' = Without(UNION {CallsOf(f) : f \in F})
  /\ rows' = rows

\* The cascade of the folders F: calls with their jobs, and versions.
Cascade(F) ==
  /\ home' = [f \in Folder |-> IF f \in F THEN None ELSE home[f]]
  /\ calls' = Without(UNION {CallsOf(f) : f \in F})
  /\ rows' = Keep({r \in DOMAIN rows : rows[r].scope.folder \notin F})

\* The end of delete_agent.  Calls registered since it listed the calls go with the folder,
\* and their recordings stay.
DropFolder(s) ==
  /\ Doing(s, "deleteFolder") /\ desk[s].left = {} /\ Leave(s)
  /\ Cascade({desk[s].under} \cap Folders)
  /\ purged' = purged \ CallsOf(desk[s].under)
  /\ UNCHANGED <<portfolios, spent, made, keys, bucket, docs>>

\* delete_portfolio: one DELETE and its cascade; nothing is deleted from the buckets.
DeletePortfolio(p) ==
  /\ p \in Open
  /\ portfolios' = [portfolios EXCEPT ![p] = "deleted"]
  /\ home' = [f \in Folder |-> IF home[f] = p THEN None ELSE home[f]]
  /\ calls' = Without(RegisteredIn(p))
  /\ docs' = docs \ DocsOf(p) /\ purged' = purged \ (RegisteredIn(p) \cup DocsOf(p))
  /\ rows' = Keep({r \in DOMAIN rows : rows[r].scope.portfolio # p})
  /\ UNCHANGED <<spent, desk, made, keys, bucket>>

\* A request ends early: a file is empty or too large, a form field does not parse, storage
\* or the database fails, the client or the process goes away.  What it committed or stored
\* stays.
Abort(s) == desk[s] # Free /\ Leave(s) /\ UNCHANGED <<tenantVars, configVars, ingestVars>>

-----------------------------------------------------------------------------
Writes ==
  \/ \E slot \in Slots, scope \in Scopes, body \in Prompts : CreatePrompt(slot, scope, body)
  \/ \E slot \in Slots, body \in Prompts : UploadPrompt(slot, body)
  \/ \E slot \in Slots, scope \in Scopes, schema \in Schemas : CreateSchema(slot, scope, schema)
  \/ \E scope \in Scopes, draft \in Drafts : CreateTemplate(scope, draft)
  \/ \E scope \in Scopes, draft \in Drafts : UploadTemplate(scope, draft)

Switches ==
  \/ \E s \in Session, scope \in Scopes :
       \/ ActivatePrompt(s, scope) \/ ActivateSchema(s, scope) \/ ActivateTemplate(s, scope)
       \/ DeactivatePrompt(s, scope) \/ DeactivateSchema(s, scope)
       \/ DeactivateTemplate(s, scope)
  \/ \E s \in Session : CommitActivation(s)
  \/ \E s \in Session : CommitDeactivation(s)
  \/ \E scope \in Scopes : DeletePrompt(scope) \/ DeleteSchema(scope) \/ DeleteTemplate(scope)

Configure == (Writes \/ Switches) /\ UNCHANGED ingestVars

Recordings ==
  \/ \E f \in Folders : Presign(f)
  \/ \E s \in Session, f \in Folders, K \in SUBSET Issued : K # {} /\ Register(s, f, K)
  \/ \E s \in Session, f \in Folders, n \in 1 .. MaxFiles : Upload(s, f, n)
  \/ \E s \in Session : StoreRecording(s)
  \/ \E s \in Session : RegisterKeys(s)
  \/ \E c \in DOMAIN calls : FinishJob(c)
  \/ \E s \in Session, c \in DOMAIN calls : DeleteCall(s, c)
  \/ \E s \in Session : DropCall(s)
  \/ \E s \in Session, f \in Folders : DeleteFolder(s, f)
  \/ \E s \in Session : desk[s].on = "deleteFolder" /\ \E c \in desk[s].left : PurgeNext(s, c)

Documents ==
  \/ \E p \in Open : PresignKb(p)
  \/ \E k \in Issued : RegisterKb(k)
  \/ \E s \in Session, p \in Open, n \in 1 .. MaxFiles : UploadKb(s, p, n)
  \/ \E s \in Session : StoreDocument(s)
  \/ \E s \in Session : RegisterDocuments(s)
  \/ \E s \in Session, d \in docs, answers \in BOOLEAN : DeleteKb(s, d, answers)
  \/ \E s \in Session : DropDocument(s)

Files == (Recordings \/ Documents) /\ UNCHANGED configVars

Next ==
  /\ \/ Configure
     \/ Files
     \/ \E p \in Portfolio, f \in Folder :
          CreateFolder(p, f) /\ UNCHANGED <<desk, configVars, ingestVars>>
     \/ \E p \in Portfolio : CreatePortfolio(p)
     \/ \E p \in Portfolio : DeletePortfolio(p)
     \/ \E s \in Session : DropFolder(s)
     \/ \E s \in Session : Abort(s)
  /\ made' + Len(keys') <= MaxTotal

Spec == Init /\ [][Next]_vars

=============================================================================
