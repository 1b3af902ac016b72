# Verification of the call audit supervisor

TLA+ modules beside the backend (`src/backend/app`, paths below are relative to it), the
TLC instances that check them, and TLAPS proofs. The program takes recordings of collection
calls, has them transcribed by AssemblyAI, judges the transcript (and the audio) against a
checklist with an LLM, and keeps reports that supervisors review. Everything that matters
is in PostgreSQL rows and in objects of a bucket; API processes and worker processes share
nothing else.

## Inventory

| part | state it keeps | operations | what must hold |
|---|---|---|---|
| job queue `orchestration/queue.py`, `states.py` | rows of `jobs` | enqueue, claim with lease, park, complete, defer, retry, dead-letter, advance / fail by transcript, touch, list overdue | legal transitions only, one task per job, attempts never lost, every job settles |
| engine, retry, handlers `orchestration/` | none of its own; one open transaction per step | `process_one`, `handle_transcription`, `handle_judge`, `decide_failure` | no second submission of a recorded job, judge works on a finished transcript |
| worker `worker/loop.py` | leases in the rows, one transaction per task or sweep | claim/process tick, reconciler loop, retention loop | survives failing cycles |
| reconciler `orchestration/reconciler.py` | one transaction per sweep | list overdue, poll each, advance / fail / touch | a lost webhook strands nobody |
| provider webhook `api/webhooks.py` | none | advance or fail by transcript id | late and repeated deliveries are no-ops |
| daily cap `ratelimit/caps.py` | rows of `daily_usage` | conditional upsert | the cap is never oversold |
| limiters `ratelimit/buckets.py`, `backoff.py` | tokens and slots in memory of a process | `guard`, `retry_async` | bounded rate, no slot leaked, everyone in line admitted, the buckets never stop |
| judge pipeline `judge/service.py`, `options.py`, `routing.py` | reports and scored items | the agents an option asks for, escalation and breaker, replacement of a report | one report per call, every escalation reaches a person |
| checklists `checklists/service.py`, `api/checklists.py` | families of versioned rows with items | create, edit in place or supersede, soft delete, default, CSV | reports keep what they asked, a version with reports does not change, a default is always there |
| reports and verification `reports/`, `verification/`, `tuning/` | none; verifications; overrides | page, HTML document, CSV, batch summaries, verify, recompute overrides | history stays readable, a document does not contradict itself |
| prompts, schemas, templates `api/prompts.py`, `api/output_schemas.py`, `api/report_templates.py`, `judge/scope.py` | rows with a scope and an `in_use` flag | write with validation, activate, deactivate, delete, resolve by scope | one version in use per scope; what was accepted works |
| calls, uploads, storage `api/calls.py`, `api/uploads.py`, `storage.py` | rows of `calls`, objects | presign, register, upload, delete, quota | no row without its object, in-flight quota |
| knowledge base `api/kb.py` | rows of documents, objects | presign, register, upload, delete | no row without its object |
| retention `retention.py` | none | purge of calls past the cutoff | what is old goes, with its objects |
| PII redaction `stt/redaction.py`, handlers | `portfolios.pii_mode` | set level; read by each step | no raw transcript while redaction is on; the judge hears the original |
| agents (folders), portfolios `api/` | their rows | create, delete with cascade | as for calls |
| access control, notifier, checklist parsing, offline evaluation, web front end | see `PROJECT.json` | | |

How they meet: the API writes `calls` and `jobs` rows in one transaction; workers find jobs
by polling; the provider calls the webhook; webhook, reconciler and worker meet only in the
job's row; deletions, the retention loop, report exports and the worker meet in the bucket.

Hard behaviours: a step runs without a row lock under a lease that is not renewed and writes
by row id at its end; the submission to the provider and the commit of its id are not
atomic; webhooks are lost, late and repeated; a sweep is one transaction over many polls;
the cap row stays locked from reservation to commit, across midnight; the level of
redaction is read at three points of a call's life; the bucket takes no part in any
transaction; editors, judges, verifiers and deletions commit in any order between one
another's reads and writes, and only foreign keys and unique indexes settle their races; a
template or a schema is checked when it is uploaded and used much later. `PROJECT.json` lists each such hazard with its line and the properties on it.

## Modules

| module | models | lines of the code |
|---|---|---|
| `JobStates` | states and the `_ALLOWED` table | `states.py`, `models` |
| `JobLifecycle` | abstract specification: what is promised for a job | header of `states.py` |
| `JobQueue` | rows, worker tasks, cap, provider, webhook, reconciler | queue, engine, retry, handlers, reconciler, loop, caps, webhooks |
| `MCJobQueue` | instances of it | |
| `JobQueueProofs` | type correctness and the cap, proved | |
| `JobLeaseProofs` | what the lease buys, and that the queue implements the lifecycle, proved | |
| `CallArtifacts` | a call's rows against its objects under steps, deletion, retention, export, level changes | handlers, retention, storage, redaction, calls, agents, portfolios, reports |
| `MCCallArtifacts` | instances of it | |
| `ArtifactsProofs` | URIs, deletions, redaction and retried judges, proved | |
| `Limiter` | the guard: semaphore, two token buckets, the ticks of a clock | `ratelimit/buckets.py` |
| `Metered` | the guard before a provider that meters what reaches it | `ratelimit/buckets.py`, handlers |
| `JudgePass` | passes of a worker under the guard: agents of each option, retries, restarts | handlers, `judge/`, `backoff.py` |
| `LimiterProofs` | quota, slots, refinement and the requests of a pass, proved | |
| `Checklists` | families and versions of checklists and the transactions of their editors | `checklists/service.py`, its API |
| `Routing` | which verdicts a person must look at | `judge/routing.py` |
| `Reports` | what people read of reports | `reports/`, CSV export |
| `Review` | composes the three: judging, verifying, overrides, deletion | `judge/service.py`, `verification/`, `tuning/`, API |
| `ReviewProofs` | immutable versions, verifications of what was read, proved | |
| `ReportProofs` | what people read of a report, and the default checklist, proved | |
| `Tenants` | portfolios, folders, requests under way | `models`, `api/agents.py`, `api/portfolios.py` |
| `Templates` | the report template language: checker and renderer | `reports/template.py` |
| `OutputSchemas` | contracts of the judge stages | `judge/schema_validate.py` |
| `ScopedConfig` | prompts, schemas, templates by scope | their APIs, `judge/scope.py`, stores |
| `Ingest` | recordings and documents between bucket and tables | `api/uploads.py`, `api/calls.py`, `api/kb.py` |
| `Workspace` | composes `ScopedConfig` and `Ingest`, with the cascades | |
| `WorkspaceProofs` | versions in use, files of rows and the cap, proved | |
| `TemplateProofs` | accepted templates lose no reference, proved | |
| `MCMetered`, `MCJudgePass`, `MCReview`, `MCWorkspace` | instances | |

### JobQueue

One variable per column of `jobs` (`state`, `tid` = `transcript_id`, `attempts`, `wait` for
`next_attempt_at`, `lease` for `locked_until`, `overdue` for the age of `updated_at`), one
per part of a running task (`pc`, `snap` = the `ClaimedJob`, `got` = the id the provider
returned, `holds` = its reservation on a `daily_usage` row), and `used`, `sweep`, `transcript`,
`crashes`.

- A *worker* is one asyncio task slot: `tick` runs every job of a batch in its own task and
  transaction, so a batch of n is n slots claiming. The `gather` barrier only delays the
  next claim and is left out, which allows more interleavings, never fewer; when a failing
  task ends the `gather` early the code has those too.
- A task is cut where others can interleave: claim (its own transaction), reservation (locks
  the cap row), submission, and the final write with its commit. Handlers hold no lock on
  the job's row, so nothing else is visible between.
- `SetRow` is `queue._set`: by id, whatever the row has become, clearing the lease. It waits
  for a sweep that has written the row. `Matches` is the `WHERE` of the by-transcript writes.
- A second `Submit` of the same task is `retry_async` posting again after the provider
  accepted a request that it answered with a 5xx or 429. `TaskLost` is a crash or a commit
  that fails; the lease stays until it runs out.
- A *sweep* collects its writes (which lock their rows) and makes them visible at its commit;
  an exception of a poll drops them all: an outage, or a job in `Unpollable`, whose transcript the
  provider answers with a 4xx.
- Webhooks are enabled whenever the transcript has finished, any number of times: duplicates
  and reordering are behaviours, a loss is a webhook never taken.
- Time is a flag that may turn at any moment: lease, backoff, overdue window, midnight. A task
  reads the day before it waits for the row's lock (`caps.py:122`). At midnight `NewDay` decides
  for those that wait what they will find on the row of the day that ends (`Finds`): room, and
  they reserve a slot of a day that is over, or none, and they wait for the midnight that is
  next by then.

Left out: `locked_by` (never read), `last_error`, error rows, notifications, delays in
seconds. All jobs belong to one portfolio.
`Park` with an id the claim already named (`handlers.py:140`) is in the model, but no
reachable row is `PENDING_TRANSCRIPTION` with an id.

### CallArtifacts

Rows (`row`, `state`, `uri`, `report`), the level `mode`, objects (`recording`, `text`,
`html`), open steps (`pc`, `asked` = the level the provider's transcript was ordered with,
`found` = the level the step has read, `heard` = the recording the judge was given), and the
open `purge` and `viewing` of each request. Four variables only observe: `old`, `purged`,
`stray` (calls an object was stored for after their purge had begun, or that a cascade took) and
`losses`.

- A step is cut at its awaits: level, fetch and store, audio, judge, swap, commit. The
  update of the transcript URI locks the calls row, so a deletion waits for the step.
- A purge has a list of calls and takes the objects of one after the other, in the code's
  order; the rows go at the end in one transaction. `delete_call`, `delete_agent` and
  `retention.run_once` differ in the list. `delete_agent` lists the agent's calls once, and the
  cascade of its row takes those registered later as well (`late`); a call that nothing has
  touched stands for one that has just been registered (`Fresh`).
- The swap swallows every error; the other awaits may raise, and then the step is retried
  or the job dead-lettered.
- One task at a time works a call (that is `JobQueue`'s subject) and every call starts
  registered with its recording uploaded. A report is HTML and PDF taken together.
- `LiveLevel` needs no fallback for a missing portfolio (`handlers.py:45-48`), since a step begins
  with the call's row, and a step never finds a URI set (`handlers.py:239-240`), since the URI
  commits together with `DONE`.
- The bucket's own expiry rule, which a worker sets at start-up where the bucket allows it
  (`worker/main.py:201-226`, `storage.py:80-100`), is left out: it is best-effort, and counts
  from the upload of an object and not from the creation of the call. Where it is in force an
  object that nothing names goes in the end, and so may the objects of a call that is still there.

### Limiter and JudgePass

`pc` says where a task is: `line` (queued at the semaphore, first come first served), `rpm` and
`tpm` (a slot in hand, in one of the buckets), `inside`, `away`. `tokens` and `idle` are a
bucket's level when it was last refilled and the ticks since; `doze` is a sleeper's rest of
sleep. A request larger than the bucket (`Asked`) takes the whole bucket (`Amount`).

`Metered` adds a provider that meters with buckets of the same sizes, tick by tick, and counts
what a pass uses, clamped or not: `quota`. A restart (`StartAnew`) fills the guard's buckets
and not the provider's. What a pass uses is its estimate: the code's number is meant as an upper
bound (`handlers.py:121`), and how many requests a pass really sends is `PassBounded`'s subject.

`JudgePass` puts inside the guard what `handle_judge` does there: the requests of the option's
pipeline one after the other (`Merged`, `Feedback`, `Checklist`, `Ideal`, `Embed`), each with
its attempts. How many items escalate and how many objections are found is chosen when the
pass begins. `sent` observes the requests of a pass. A task begins passes without end. `Die` is the
end of the process: all its passes go, the buckets are full again. `UsesLimiter` says that `JudgePass` implements
`LimiterSpec`, the guard without its users; it is proved and no run checks it.

The wait of a backoff is any delay. The guard of the transcription provider is the same class
with no second bucket (`Est = 0`).

### Checklists, Routing, Reports and Review

`versions` is the table of checklist rows with the items of each, `tab` the open transaction of
each editor. `Load` is the read of `update_checklist` with its `is_used_by_report`; an edit in
place is then cut once more, at its `DELETE`: `Sweep` fixes the rows the statement sees, and
`Revise` (or `Refuse`, by the foreign key) deletes those that are still there, adds the new ones
and commits. Nothing locks the version's row where its name is kept, so two editors may be there at
once, and a report may be written between any two steps. An item is a row: its version, the edit
that made it, its `sort_order`, and what it asks; a body may ask the same thing twice, and items that
differ may have the same `Text`. A report refers to such rows as foreign keys do, and `Stored`
says whether a row is still there.

`Review` has the calls (`call`), the passes under way (`worker`, with the items `asked`), the
reports, their verifications (`reviews`), the learned `overrides` and the page each verifier
has open (`screen`). `Begin` is `judge_call` up to the first request, `Persist` its transaction;
any answer of the model on any of the items comes between, or `Fail`. A report keeps, beside
its rows, what the judge was asked and what it answered; only the properties look at those.

`Reports` has the readers as operators on a report and the tables as they are now: the page
(`Page`), the built-in document by blocks (`Document`, with `ReportCard` and `Overall`), the CSV
(`Columns`; `CsvCells`, the values a cell may show: it is found by the text of its column, and of
several items of one text any may be the last one read) and the counts of the two summaries
of a batch, of which the lists of worst calls and items are left out. Items are put in order
by the number of those before them (`InOrder`), which is what `ORDER BY sort_order, id` comes to.

Left out: names and `rename_checklist`, notes, the agent-name override, objections, the second
judging tier (no deployment configures one). The feedback agent is taken to write some coaching
always.

### Tenants, Templates, OutputSchemas, ScopedConfig, Ingest and Workspace

A request is a session that sits at a `desk` from its first read to its commit or its `Abort`
(a file too large, a field that does not parse, storage or database down, the client gone):
what it stored or committed until then stays. Requests of one transaction with nothing between
are one action.

`ScopedConfig` keeps prompts, schemas and templates in one table of `rows`. An activation is
two steps: the bulk `UPDATE` that takes what is in use at the same place as it finds it
(`sees`), and the write with the commit, where the unique index may refuse (`Clashes`). The lock on
the rows merges the write and the commit. The scopes are those the front end sends: global, a
portfolio, a folder with its own portfolio. The APIs take any pair of the two ids (`prompts.py:82-85`), with
which versions of one folder can tie; `InUseUnique` and `Unambiguous` are not claimed for those. `Templates` is the checker (`Valid`) and the
renderer (`Lost`: references that found nothing) of the template language over sequences of
tags; `OutputSchemas` the check of a schema against the core fields of its stage.

`Ingest` issues a key per file (`keys`), stores objects (`bucket`) and registers rows (`calls`,
`docs`), in the code's order and file by file; `purged` observes which rows some request has
begun to delete. The job of a call is open or finished: the rest is in `JobQueue`.
`Workspace` adds the deletions of folders and portfolios with what cascades.

Left out: objects a client writes itself under a presigned URL, extracted text and the seeded documents of
the knowledge base, renames, lists, members.

## Runs

| run | instance | what it shows |
|---|---|---|
| `queue_leased` | 2 jobs (one unpollable), 2 slots, 1 reconciler, cap 1, 2 attempts, 2 submissions, 1 crash; slots symmetric | with leases that outlive steps: types, one task per job, claims never stale, parked jobs pollable, judge has text, cap, legal transitions, no second submission of a recorded job, attempts |
| `queue_overrun` | 1 job, 2 slots, leases may run out under a task | what survives that: `ParkedHasTranscript`, `JudgeHasText`, and the job still ends for good |
| `queue_fair` | 2 jobs, 1 slot, cap 1, 1 crash, fair | every job settles with all webhooks lost; the queue implements `JobLifecycle`, fairness included |
| `queue_poisoned` | 2 jobs, one unpollable | counterexample: one 4xx aborts every sweep, the other job stays parked |
| `queue_stale_write` | 1 job, 2 slots, leases may run out | counterexample: a late write takes a job out of `FAILED` |
| `artifacts` | 2 calls (one `RAW_ONLY`), 1 purge, 1 reader, 2 levels, portfolio deletion, registrations during an agent's deletion | redaction gates, the retry hears the original, deletions leave nothing they could see |
| `artifacts_expire` | 1 call, 2 purges, 3 levels, 1 loss, fair | the call past the cutoff goes; its URI resolves until a purge begins |
| `artifacts_orphan` | 1 call, no loss | counterexample: a transcript stored after its row is gone, which no deletion or sweep finds again |
| `judge_pass` | 3 tasks, 2 slots, request bucket of 1, token bucket of 2 and passes of 3, every option, 2 attempts, 1 objection, passes and restarts without end, fair | no slot leaks, who queues at the semaphore is admitted, the buckets always let someone through (one who asks for more than the bucket included), the requests of a pass are bounded |
| `metered` | 3 tasks, 2 slots, request bucket of 2, token bucket of 3 and passes of 2, 1 restart | a provider that meters what passes use refuses nothing but what a restart costs |
| `review` | 1 call, 2 workers (symmetric), 1 editor, 1 verifier, 2 versions, 1 edit, 2 reports, 1 verification; a critical, an ordinary and a free-text item, which one body asks twice | history reads as judged after every edit, a default is there, escalations reach a person, documents do not contradict themselves, a verification stands beside what was read |
| `workspace` | 1 portfolio, 1 folder, 2 sessions (symmetric), 2 slots of agents, 2 objects in all (versions or keys), cap 1, 2 files a request; every template of up to 5 tags of 8 | one version in use per scope, activations are local, accepted templates find what they name, the overshoot of the quota, no row without its file |

Six smaller configurations stand beside the runs, on the same modules; `PROJECT.json` does not list them
and TLC takes a minute for all of them. Five give a counterexample, and show where a run or a
theorem has to stop:

| configuration | module | what TLC finds |
|---|---|---|
| `ArtifactsRehear.cfg` | `MCCallArtifacts` | the commit is lost after the swap, the retry hears the beeped copy (`JudgeHearsOriginal`) |
| `MeteredOversized.cfg` | `MCMetered` | a pass above the bucket pays for a bucket only, and outruns the provider (`WithinQuota`) |
| `JudgePassStarved.cfg` | `MCJudgePass` | one waiter at a bucket is overtaken at every wake (`Served`) |
| `ReviewMutable.cfg` | `MCReview` | two edits in place meet: the version of a report gains the items of the second (`Immutable`) |
| `ReviewTwins.cfg` | `MCReview` | two items of one text: both columns of the CSV show one verdict (`CsvFaithful`) |
| `ReviewEditors.cfg` | `MCReview` | no error: however two edits in place meet, reports still read as judged (`HistoryResolves`) |

The bounds. Two slots and one reconciler give every pair of actors that can meet on a row; two
jobs let one sweep carry two rows and two tasks race for the one slot of the cap. Two
attempts make a retry and a dead-letter. Two submissions let a transcript be lost and another
come after it. One crash may fall anywhere; a second one only repeats the first, since a
crash leaves nothing but the lease. Two calls let a purge be between two calls, three levels
are all there are, and `OFF` with the highest has every gate open and shut.
`MaxSubmissions`, `MaxCrashes` and `MaxLosses` are the bounds of counters; all other state is
finite by itself. In `queue_fair` a job is submitted once at most; a lost submission and
another after it, with liveness, are in `queue_overrun` (one job).

In `judge_pass` three tasks keep one in line while two sleep at the buckets; ticks are bounded
by the buckets being full, and passes by nothing. In `metered` three tasks in two slots are two
at the buckets and one that comes late; `MaxStarts` bounds the restarts. In `review` two versions are one in use and the one that supersedes
it, or a second family; two reports are one and its replacement; one call is enough since calls
meet only through the versions, whose users are counted as a set. In `workspace` two versions
are two that clash or one of each of two scopes; two keys are two files of a request or one of
each of two requests; `MaxTimes = 1` leaves the double registration of a presigned key out (the
code refuses none; `UploadedKept` is about files the API stored). Templates are checked
exhaustively up to five tags, 37,449 of them: a list in a list with a reference inside needs
five. Deadlock: `NewDay` is always possible in `JobQueue`, so the deadlock check
says nothing there and `Settles` takes its place; `CallArtifacts` does stop when all rows are
gone, and so do the later three when their bounds are used up; their runs say so.

`MeterTypeOK` has no run either: the proof of `WithinQuota` rests on it and has it inductive. Each
property of a passing run is tied to a definition that a plausible bug replaces (the
definitions commented `Fault:`), and fails under it.

## Fairness

`JobQueue`: a task's steps are weakly fair (every await has a timeout, the loop goes on after
a bad cycle), so are the loops of the reconciler, the clocks and the provider. The claim is
strongly fair per job: it orders by `created_at`, so a job that is due again and again is
not passed over for ever. Webhooks have no fairness at all. Liveness needs a cap of one or
more.

`CallArtifacts`: open steps and purges go on, and the sweep lists again and again what is old
(the loop runs while `RETENTION_ENABLED` is on, its default). A purge is strongly fair: its
`DELETE` queues for the row lock of a step and gets it when the step ends, whoever claims
next. `StepLost`, `PurgeLost`, requests and level changes have none.

`JudgePass`: the event loop runs every task that can run, and time passes (weak fairness of
each task and of `Elapse`). Beginning a pass is part of a task's steps, so no bound on the passes
keeps a task from being overtaken for ever: that is why `judge_pass` claims `Admitted` (the
semaphore is first come, first served) and `Flows` (some waiter gets on), and `Served` (each
waiter does) fails (`JudgePassStarved.cfg`). A restart has no fairness.
A request to a provider ends, by its time-out at the latest. `Review` and `Workspace` state
safety only: people owe nobody a next click.

## Proofs

`JobQueueProofs` assumes only `QueueAssumption` (the constants have sensible types). `TypeOK` is
not inductive: `Park` adds one to `used`, and only the row lock tells that there is still room.
`TypeInv` adds `CapRow`: at most one open transaction holds today's `daily_usage` row, and it
found `used < Cap`. One lemma per action keeps it. `TypeCorrect` and `CapSafe` follow, leases
that run out and crashes included.

`JobLeaseProofs` assumes in addition `LeaseOutlivesStep`: no lease runs out under a task that
still works. The code does not enforce it (300 s, never renewed), the documentation assumes
it (`docs/RATE_LIMITS_AND_COST.md:95`), and `queue_stale_write` shows what happens without.
The invariant `LeaseInv` joins

- `TaskInv`: a working task's snapshot is its row, the row is claimable and its lease live;
  this is why `queue._set` may write by id alone, and with `OneTaskPerJob` why no other
  task writes that row;
- `RowInv`: what each state says of the transcript id, the transcript and the attempts;
- `ListInv`, `AnswerInv`, `WriteInv`, `OneWriter`: what a sweep has listed, heard and written
  stays true until it commits, since a transcript never changes its answer, a row keeps its
  id, and a written row is locked; this is why `mark_failed` by id never hits a row that a
  webhook has advanced.

`InitLeaseInv` and `NextLeaseInv` make it inductive, by one lemma per action; only
`LeaseExpiresCore` uses the assumption on leases. From it `LeaseExclusive`, `ClaimCurrent`,
`ParkedPollable` and `JudgeGrounded` follow at once, and `OnlyLegal`, `NoResubmission` and
`BudgetKept` from one look at each action under it (`NextAct`). They hold for any number of
jobs, slots, reconcilers, submissions and crashes, where the runs have two or one of each.
`QueueRefinesLifecycle` maps each step to one of `JobLifecycle` or to a stutter: a submission
is none, because the row does not name the transcript before `Park`; a webhook is `Advance` or
`Reject`; the commit of a sweep is `Settle` of the jobs it found parked, and `WriteInv` says that
any other row it writes has failed already.
Before it was proved `LeaseInv` was checked as an invariant of the instance of `queue_leased`, and of one
with two reconcilers.

`LimiterProofs` assumes that the constants have sensible types and that the tasks are a finite
set. `WithinQuota` is not
inductive: between a refill and the payment what counts is what the bucket holds. `Budget`
relates the two, for each bucket: the provider's quota is at least what the bucket would hold
now, less one capacity for each restart. `GuardWithinQuota` assumes that the estimate fits into
the bucket (`Est <= TpmCap`), and needs it where a pass pays: only then is what it pays what it
uses (`MeteredOversized.cfg` shows the rest). It and `GuardKeepsSlots` (by
cardinalities of the tasks that hold a slot) are proved for any number of tasks, slots and
tokens; `PassesUseLimiter` proves the refinement, since `LimiterSpec` states no fairness.

For the passes, `PassesBounded` needs a relation between what is sent and what may still be:
`Budgeted` says that the requests sent and those the agents left may send, less the tries
already used of the current one, come to at most `MostRequests`. A failed attempt moves one from the
second to the first, a retry that gives up drops the rest, and `LineInv` says that a task
that enters the guard has not begun. `PassTypeCorrect` comes with it.

`ReviewProofs` assumes only the named assumptions on the constants. What a version asks may
change only by an edit in place, and the foreign key of `report_items` refuses its `DELETE` for
items some report scores. Two facts make this an argument about all reports (`HistoryInv`):

- `Grounded`: a report scores what its pass was asked, in that order, and every item of it is
  stored still;
- `Asked`: a pass under way asks what its version asked when it began. If the version was
  edited in place since, those rows are gone, and `Persist`, which needs them, fails.

`Kept` says of every step that items some report scores stay in their version; others may join
them. `NextHistory` proves it of each action, with `HistoryInv` (`HistoryHolds`).

That a version does not change at all once a report uses it does not follow: two edits in
place that meet leave both bodies (`ReviewMutable.cfg`). So `VersionsImmutable` says
`Spec /\ []EditsApart => Immutable`: no edit reaches its `DELETE` while another of the same
version is between `DELETE` and commit. The code does not enforce this. Under it `SweptInv` is
kept, that what a `DELETE` saw is what its version still asks; so an edit that would change a
version with a report deletes a scored item, and is refused (`ScoredRefuses`).
`OneEditorImmutable` says that one editor is enough.

For `VerifiedAsRead`, `PageInv` adds that the page on a verifier's screen is the report's if
their ids agree: an id is never used again, and `PageStays` shows that a report reads the same
for as long as it is there. All but `Immutable` holds for any number of calls, workers, editors, verifiers,
versions and reports, edits in place that meet included.

`ArtifactsProofs` assumes only `ArtifactsAssumption`. Beside types (`Shape`) the invariant
`ArtifactsInv` has one part for each property that is not inductive:

- `UriInv`: from the fetch of a step to its commit the transcript is stored, so the URI that the
  commit writes resolves. Every deletion of a transcript is by a purge, which has marked
  the call before (`PurgeInv`);
- `HearInv`: a beeped recording is that of a call between its swap and its commit, of one that is
  DONE or of one without a row, so no step takes it up again. A lost step breaks this, hence `losses = 0`;
- `PurgeInv`: a purge has taken every object of the calls it has passed, and of the call it is
  at those before `left`, but for `stray` calls. `Fewer` says of every step that
  other objects of such calls only go, so one purge never spoils what another has done.

With them `UrisResolve`, `RetriesHearOriginal`, `DeletionsComplete` and `RawOnlyWhenOff` hold for
any number of calls, purges, readers, level changes and losses. `ArtifactsInv` was checked by TLC on
both instances first.

`WorkspaceProofs` assumes the named assumptions on the constants: `None` is no folder and no
portfolio, no folder is a portfolio, and the sessions are finitely many at a time.
`WorkspaceInv` joins `ConfigInv` (versions), `StoreInv` (files) and two of the properties:

- `InUseUnique`: no two versions in use at one place. Activations keep it although they write
  what they saw some steps before: `Sighted` says that all an activation saw is of its own place,
  and what else is in use there makes the unique index refuse. `OneVersionApplies` follows, as
  versions of one rank in one folder have one scope (`TieIsOneScope`), and
  `ActivatesInItsScope` from `Sighted`;
- `KeysInv`, `FilesInv`: each key lies in a folder or a portfolio that was there, a key the API
  issued for itself is registered at most once, and every row names a registered key;
- `Batch`, `Apart`: what a request has stored is in the bucket, unregistered, and no other
  request's. So a row is written after its file, and a deletion, which takes the key of one row,
  takes the file of no other (`SameRow`): `FilesOutliveRows`;
- `QuotaOvershoot` itself: a request is let in when the calls in flight and its own are within
  the cap, so it adds at most one cap for its session (`QuotaAdmits`); a row it writes is
  one it awaits no more (`QuotaRegisters`).

They hold for any number of sessions, folders, portfolios, versions, files and registrations of a
presigned key. `WorkspaceInv` was checked by TLC as an invariant of the instance of `workspace` first.

`ReportProofs` builds on `HistoryInv` and `PageInv`. `ReportInv` says what a report keeps of its
pass (`Told`): its rows are the items the pass was asked, scored from the verdicts of the judge
and the routing; its flag is the routing's, and a failed compliance item has its prose. It does
not mention what readers do, and stays true since a written report does not change and its
items stay stored. From these and the operators of `Reports`

- `HistoryStaysIntact`: every item is still found by the join; in the order by `sort_order`
  (`InOrder`) no item is lost or repeated, since of two items one comes before and there are as
  many ranks as items (`InOrderOf`); the page has them so (`PageResolves`); the two tables of the
  document partition them, and the first of them begins with the first item
  (`DocumentResolves`); the CSV has a column for the text of each, since scored items stay in
  their version, and with an item's verdict where no other has its text (`CsvResolves`). That
  each column shows the verdict of its own item is `CsvFaithful`, which fails (`ReviewTwins.cfg`);
- `EscalationsReachPeople`: what the breaker drops is not of elevated or critical risk; when
  it drops anything the report is flagged, what it leaves is marked (`DueRouted`), and the
  summary's count of calls for review is at least that of the calls with either (`Counted`);
- `ReportsAgree`: a compliance FAIL is a verdict of the judge, so the prose was asked for and the
  document has its block (`FailedFinds`), and the summary counts at least as many concerns.

`DefaultStays` needs `DefaultInv`: the versions of a family are all defaults or none, and an
open transaction still knows the flag and the number of its row (`FamilyInv`). So what
supersedes a default is listed with the flag and the next number, and if the superseded one was
the newest default it is the newest now; deletion of a default is refused. `ReviewTypeCorrect` is the
conjunction. They hold for any bodies, with the same item twice or not, for any number of editors
at once, and of calls, workers, verifiers, versions and reports. `ReportInv` and `DefaultInv` were
checked by TLC first, on an instance with two editors as well.

`TemplateProofs` assumes that templates are sequences of the four kinds of tag, and has two parts.
The first makes runs of the two folds: `FoldLeft` takes any function on sets of indices that
iterates its operator, so one is built for `Check` and for `Render` by induction on the number of tags
(`SomeIterate`), with a set of numbers in the place of a predicate (`Induction`). The second
compares the runs. `Sound`: while the checker accepts, it has as many sections open as the renderer
has blocks, nothing is lost, and each block is beside the point or all its contexts agree with
the sections (`Agrees`): every name the sections know is found, innermost first in both, and the value is
what the dictionary says. `TurnSound` keeps it for each tag; what a list's section knows
is what each of its elements has (`Pushed`), and a section on a scalar knows nothing and hides nothing.
`CheckedRendersInFull` follows for templates and lists of any length and sections of any depth, where
the run has five tags and lists of two; `TemplatesFindAll` applies it to what folders show.

Only model-checked: liveness (`Settles`, `SettlesForGood`, `Expires`, `Admitted`, `Flows`) and
the fairness in the refinement of `JobLifecycle`, which the prover has no rules for.

## Where code and text disagree

The findings in `PROJECT.json` quote the texts. Three have a run that ends in a counterexample: a
poisoned sweep (`reconciler.py:53`), writes by id after the lease (`queue.py:121`), objects
stored after a deletion (`handlers.py:237`). Five have one of the further configurations: the
swap before the commit (`handlers.py:289`), a pass that pays a bucket for more than a bucket (`buckets.py:65`), a waiter overtaken at every
wake (`buckets.py:76`), two edits in place that meet (`checklists/service.py:108`), the CSV by
the text of the item (`api/checklists.py:230`).
The others came up while modelling, and the models do what the code does:

- deletion and storage: portfolios deleted without their objects (`portfolios.py:161`), calls
  registered while their agent is deleted (`agents.py:98`), files
  left by requests that end early (`uploads.py:169`), the quota counted before the uploads
  (`calls.py:80`);
- limits: one token for many requests (`handlers.py:259`), the transcription guard around the
  submission only (`handlers.py:160`), uncapped waits (`backoff.py:98`), a setting nobody reads
  (`config.py:46`), one embedding request per text (`embeddings.py:71`), the daily slot given back by a
  rollback (`engine.py:145`);
- checklists and reports: edits of archived and deleted versions (`checklists/service.py:104`),
  overrides that the breaker drops (`router_tuning.py:30`), summaries without the corrected
  name (`summary.py:86`), verdicts left out by the model (`judge/schema.py:45`), the CSV of a mixed
  batch (`api/checklists.py:296`), the knowledge base and the rubric (`kb.py:115`);
- configuration: inverted sections (`template.py:119`), schemas that are accepted and then fail
  (`schema_validate.py:191`), two scopes of one rank (`scope.py:36`).

## Not modelled

- Access control is a pure table of roles and actions, with tokens checked by a library: no
  action of the models depends on who acts.
- Notifications and events are best-effort broadcasts on which no state depends.
- Checklist parsing, the texts of prompts, payloads of the providers, CSS, PDF conversion and
  extraction of text have no state; where a result matters it is a parameter (a `Body`, a
  verdict, the presence of a redacted recording).
- Offline evaluation and clustering are numeric tools beside the program.
- The front end is a client of the API and keeps nothing.
- Of modelled parts: what each section above names as left out. Every action of a component
  marked `partly` in `PROJECT.json` that changes shared state in the scope of a property is
  there; what is missing changes a text, a name or a list.
