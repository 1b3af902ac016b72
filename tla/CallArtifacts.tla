---------------------------- MODULE CallArtifacts ----------------------------
(***************************************************************************)
(* A call's rows in the database against its objects in the bucket: the    *)
(* recording, the stored transcript and the exported report.  The steps of *)
(* a job are cut at their awaits, where an admin may change the redaction  *)
(* level, a deletion or the retention sweep may purge the objects, and a   *)
(* reader may export the report.  Sources under backend/app:               *)
(* orchestration/handlers.py, retention.py, storage.py, stt/redaction.py,  *)
(* stt/assemblyai.py, api/calls.py, agents.py, portfolios.py, reports.py.  *)
(*                                                                         *)
(* All calls belong to one agent of one portfolio and start registered,    *)
(* their recording uploaded; one that nothing has touched may as well have *)
(* been registered this moment.  One task at a time works a call: the      *)
(* lease is JobQueue's subject.  The bucket's own lifecycle rule, set at   *)
(* start-up if the bucket allows it, is left out.                          *)
(***************************************************************************)
EXTENDS JobStates, Naturals, Sequences

CONSTANTS
  Call,             \* rows of the calls table
  RawOnly,          \* calls uploaded with the option RAW_ONLY: no judge, no report
  Purger,           \* delete requests and retention sweeps
  Viewer,           \* requests that export a report
  Level,            \* redaction levels the admin sets
  PortfolioDeletes, \* TRUE: the portfolio may be deleted
  LateCalls,        \* TRUE: calls may be registered while their agent is being deleted
  MaxLosses         \* bound: steps and purges lost to a crash or an outage

ASSUME ArtifactsAssumption ==
  /\ RawOnly \subseteq Call
  /\ Level \subseteq {"OFF", "TRANSCRIPT", "TRANSCRIPT_AND_RECORDING"} /\ Level # {}
  /\ PortfolioDeletes \in BOOLEAN /\ LateCalls \in BOOLEAN
  /\ MaxLosses \in Nat

VARIABLES
  \* The database.
  row,        \* the calls row exists
  state,      \* state of its job
  uri,        \* r2_transcript_uri is set
  report,     \* its reports row exists
  mode,       \* pii_mode of the portfolio
  \* The bucket.
  recording,  \* "none", "original", "beeped"
  text,       \* the transcript object: "none", "raw", "redacted"
  html,       \* the report artifacts exist
  \* Open steps, purges and exports.
  pc,         \* where the call's step is
  asked,      \* level the provider's transcript was ordered with, "none" before
  found,      \* level the open step has read
  heard,      \* recording the open judge pass was given
  purge,      \* the purge of each purger
  viewing,    \* calls whose report each viewer is about to store
  \* Observed.
  old,        \* past the retention cutoff
  purged,     \* calls a purge has begun on
  stray,      \* calls an object was stored for after that, or whose row went by a cascade
  losses

dbVars     == <<row, state, uri, report>>
bucketVars == <<recording, text, html>>
stepVars   == <<pc, asked, found, heard>>
otherVars  == <<purge, viewing, old, purged>>
vars == <<dbVars, mode, bucketVars, stepVars, otherVars, stray, losses>>

PiiMode == {"OFF", "TRANSCRIPT", "TRANSCRIPT_AND_RECORDING"}
RedactsTranscript(m) == m # "OFF"
RedactsRecording(m)  == m = "TRANSCRIPT_AND_RECORDING"

\* The objects of one call in the order every deletion takes them.
Objects == <<"recording", "transcript", "report">>

Idle == [on |-> FALSE, calls |-> {}, late |-> {}, todo |-> {}, at |-> {}, left |-> <<>>]

TypeOK ==
  /\ row \in [Call -> BOOLEAN] /\ uri \in [Call -> BOOLEAN] /\ report \in [Call -> BOOLEAN]
  /\ state \in [Call -> JobState]
  /\ mode \in PiiMode
  /\ recording \in [Call -> {"none", "original", "beeped"}]
  /\ text \in [Call -> {"none", "raw", "redacted"}]
  /\ html \in [Call -> BOOLEAN]
  /\ pc \in [Call -> {"idle", "submitting", "fetching", "hearing", "judging", "swapping",
                      "finishing"}]
  /\ asked \in [Call -> PiiMode \cup {"none"}]
  /\ found \in [Call -> PiiMode]
  /\ heard \in [Call -> {"none", "original", "beeped"}]
  /\ \A p \in Purger :
       /\ purge[p].calls \cup purge[p].late \subseteq Call
       /\ purge[p].todo \cup purge[p].at \subseteq purge[p].calls
       /\ \E n \in 0 .. 3 : purge[p].left = SubSeq(Objects, n + 1, 3)
  /\ viewing \in [Viewer -> SUBSET Call]
  /\ old \in [Call -> BOOLEAN]
  /\ purged \subseteq Call /\ stray \subseteq Call
  /\ losses \in 0 .. MaxLosses

Init ==
  /\ row = [c \in Call |-> TRUE]
  /\ state = [c \in Call |-> PendingTranscription]
  /\ uri = [c \in Call |-> FALSE]
  /\ report = [c \in Call |-> FALSE]
  /\ mode \in Level
  /\ recording = [c \in Call |-> "original"]
  /\ text = [c \in Call |-> "none"]
  /\ html = [c \in Call |-> FALSE]
  /\ pc = [c \in Call |-> "idle"]
  /\ asked = [c \in Call |-> "none"]
  /\ found = [c \in Call |-> "OFF"]
  /\ heard = [c \in Call |-> "none"]
  /\ purge = [p \in Purger |-> Idle]
  /\ viewing = [v \in Viewer |-> {}]
  /\ old = [c \in Call |-> FALSE]
  /\ purged = {} /\ stray = {}
  /\ losses = 0

-----------------------------------------------------------------------------
(***************************************************************************)
(* Steps of a job.                                                         *)
(***************************************************************************)

GoTo(c, to) == pc' = [pc EXCEPT ![c] = to]

EndStep(c) ==
  /\ GoTo(c, "idle")
  /\ found' = [found EXCEPT ![c] = "OFF"]
  /\ heard' = [heard EXCEPT ![c] = "none"]

\* An UPDATE of the job by id: without a row it changes nothing.
SetState(c, s) == state' = [state EXCEPT ![c] = IF row[c] THEN s ELSE @]

\* An object stored for a call that is being purged, or is gone, outlives it.
Stores(c) == stray' = IF c \in purged \/ ~row[c] THEN stray \cup {c} ELSE stray

\* The update of r2_transcript_uri locks the calls row until the step's commit.
RowLocked(c) == pc[c] \in {"hearing", "judging", "swapping", "finishing"}

\* Fault: the level is the one copied onto the call.
LevelOfOrder(c) == asked[c]

\* get_portfolio_pii_mode: read live by every step.  The portfolio is there: a step begins
\* with the row, which goes with its portfolio (else the code takes OFF).
LiveLevel(c) == mode

\* handle_transcription: a missing recording is fatal.
Submission(c) ==
  /\ row[c] /\ pc[c] = "idle" /\ state[c] = PendingTranscription
  /\ IF recording[c] = "none"
       THEN /\ SetState(c, Failed)
            /\ UNCHANGED <<pc, found>>
       ELSE /\ GoTo(c, "submitting")
            /\ found' = [found EXCEPT ![c] = LiveLevel(c)]
            /\ UNCHANGED state
  /\ UNCHANGED <<row, uri, report, mode, bucketVars, asked, heard, otherVars, stray, losses>>

\* stt.submit and the park.
Submits(c) ==
  /\ pc[c] = "submitting"
  /\ asked' = [asked EXCEPT ![c] = found[c]]
  /\ SetState(c, AwaitingTranscript)
  /\ EndStep(c)
  /\ UNCHANGED <<row, uri, report, mode, bucketVars, otherVars, stray, losses>>

\* Webhook or reconciler, with text or with an error.
ProviderAnswers(c) ==
  /\ row[c] /\ state[c] = AwaitingTranscript
  /\ \E s \in {PendingJudge, Failed} : SetState(c, s)
  /\ UNCHANGED <<row, uri, report, mode, bucketVars, stepVars, otherVars, stray, losses>>

\* handle_judge starts with the live level.  A URI is set only together with DONE, so a
\* step never finds one to be cleared.
Judgement(c) ==
  /\ row[c] /\ pc[c] = "idle" /\ state[c] = PendingJudge
  /\ GoTo(c, "fetching")
  /\ found' = [found EXCEPT ![c] = LiveLevel(c)]
  /\ UNCHANGED <<dbVars, mode, bucketVars, asked, heard, otherVars, stray, losses>>

\* Fault: the provider's answer is taken as it comes.
AcceptsAny(c) == TRUE

\* Both gates: what the provider did not redact is refused when redaction is on.
Accepts(c) == RedactsTranscript(found[c]) => RedactsTranscript(asked[c])

\* Fault: only a redacted transcript is stored.
KeepsOnlyRedacted(c) == IF RedactsTranscript(asked[c]) THEN "redacted" ELSE text[c]

\* put_transcript stores what the provider returns for the order.
StoredText(c) == IF RedactsTranscript(asked[c]) THEN "redacted" ELSE "raw"

\* fetch_transcript and put_transcript, or the FatalError of the gates.  RAW_ONLY
\* needs no judge.
Fetch(c) ==
  /\ pc[c] = "fetching"
  /\ IF Accepts(c)
       THEN /\ text' = [text EXCEPT ![c] = StoredText(c)]
            /\ Stores(c)
            /\ GoTo(c, CASE c \notin RawOnly \/ ~row[c]  -> "hearing"
                         [] RedactsRecording(found[c])   -> "swapping"
                         [] OTHER                        -> "finishing")
            /\ UNCHANGED <<state, found, heard>>
       ELSE /\ SetState(c, Failed)
            /\ EndStep(c)
            /\ UNCHANGED <<text, stray>>
  /\ UNCHANGED <<row, uri, report, mode, recording, html, asked, otherVars, losses>>

\* _resolve_audio: without a recording the judge works from the text alone.
Hear(c) ==
  /\ pc[c] = "hearing"
  /\ heard' = [heard EXCEPT ![c] = recording[c]]
  /\ GoTo(c, "judging")
  /\ UNCHANGED <<dbVars, mode, bucketVars, asked, found, otherVars, stray, losses>>

\* judge_call returns; the report row waits for the commit and needs the calls row.
Judge(c) ==
  /\ pc[c] = "judging"
  /\ row[c]
  /\ GoTo(c, IF RedactsRecording(found[c]) THEN "swapping" ELSE "finishing")
  /\ UNCHANGED <<dbVars, mode, bucketVars, asked, found, heard, otherVars, stray, losses>>

\* _redact_stored_recording, best-effort: there is a beeped copy only if it was
\* ordered with the transcript, and the download may fail.
Swap(c) ==
  /\ pc[c] = "swapping"
  /\ \/ /\ RedactsRecording(asked[c])
        /\ recording' = [recording EXCEPT ![c] = "beeped"]
        /\ Stores(c)
     \/ UNCHANGED <<recording, stray>>
  /\ GoTo(c, "finishing")
  /\ UNCHANGED <<dbVars, mode, text, html, asked, found, heard, otherVars, losses>>

\* The step commits: DONE, transcript URI and report row together.
Finish(c) ==
  /\ pc[c] = "finishing"
  /\ SetState(c, Done)
  /\ uri' = [uri EXCEPT ![c] = row[c]]
  /\ report' = [report EXCEPT ![c] = row[c] /\ c \notin RawOnly]
  /\ EndStep(c)
  /\ UNCHANGED <<row, mode, bucketVars, asked, otherVars, stray, losses>>

\* Fault: the swap raises like any other call.
MayRaiseAnywhere(c) == pc[c] # "idle"

\* Submitting, fetching, storing and judging may raise; the swap swallows its errors.
MayRaise(c) == pc[c] \in {"submitting", "fetching", "hearing", "judging"}

\* A handler raises: rolled back, then retried or dead-lettered.
Raise(c) ==
  /\ MayRaise(c)
  /\ \E s \in {state[c], Failed} : SetState(c, s)
  /\ EndStep(c)
  /\ UNCHANGED <<row, uri, report, mode, bucketVars, asked, otherVars, stray, losses>>

\* The process dies or the commit fails: what was stored stays stored.
StepLost(c) ==
  /\ pc[c] # "idle"
  /\ losses < MaxLosses
  /\ losses' = losses + 1
  /\ EndStep(c)
  /\ UNCHANGED <<dbVars, mode, bucketVars, asked, otherVars, stray>>

Step(c) ==
  \/ Submission(c) \/ Submits(c) \/ Judgement(c) \/ Fetch(c) \/ Hear(c) \/ Judge(c)
  \/ Swap(c) \/ Finish(c) \/ Raise(c)

-----------------------------------------------------------------------------
(***************************************************************************)
(* Deletions, the retention sweep, exports, settings and time.             *)
(***************************************************************************)

Rows == {c \in Call : row[c]}

\* Fault: the sweep looks for finished calls only.
ExpiredDone == {c \in Rows : old[c] /\ state[c] = Done}

\* Calls past the cutoff, whatever their job is doing.
Expired == {c \in Rows : old[c]}

\* What is purged together: one call (delete_call), every call of the agent
\* (delete_agent), or every call past the cutoff (retention.run_once).
Listed == {{c} : c \in Rows} \cup {Rows} \cup {Expired}

\* A call that may have been registered this moment.
Fresh(c) ==
  /\ LateCalls
  /\ row[c] /\ state[c] = PendingTranscription /\ pc[c] = "idle" /\ ~old[c]
  /\ c \notin purged /\ \A p \in Purger : c \notin purge[p].calls

\* delete_agent has listed the agent's calls; late ones are registered after that.
PurgeStarts(p, S, late) ==
  /\ ~purge[p].on
  /\ \/ S \in Listed \ {{}} /\ late = {}
     \/ late # {} /\ S = Rows \ late /\ \A c \in late : Fresh(c)
  /\ purge' = [purge EXCEPT ![p] =
                 [Idle EXCEPT !.on = TRUE, !.calls = S, !.late = late, !.todo = S]]
  /\ UNCHANGED <<dbVars, mode, bucketVars, stepVars, viewing, old, purged, stray, losses>>

\* The next call of the list.
PurgeCall(p, c) ==
  /\ c \in purge[p].todo /\ purge[p].left = <<>>
  /\ purge' = [purge EXCEPT ![p].todo = @ \ {c}, ![p].at = {c}, ![p].left = Objects]
  /\ purged' = purged \cup {c}
  /\ UNCHANGED <<dbVars, mode, bucketVars, stepVars, viewing, old, stray, losses>>

\* Fault: delete_report is forgotten.
KeepsReport(p, c, kind) == c \in purge[p].at /\ kind = Head(purge[p].left) /\ kind # "report"

\* The object that the next delete call removes; a missing object is no error.
Deletes(p, c, kind) == c \in purge[p].at /\ kind = Head(purge[p].left)

PurgeObject(p) ==
  /\ purge[p].left # <<>>
  /\ recording' = [c \in Call |-> IF Deletes(p, c, "recording") THEN "none" ELSE recording[c]]
  /\ text' = [c \in Call |-> IF Deletes(p, c, "transcript") THEN "none" ELSE text[c]]
  /\ html' = [c \in Call |-> html[c] /\ ~Deletes(p, c, "report")]
  /\ purge' = [purge EXCEPT ![p].left = Tail(@)]
  /\ UNCHANGED <<dbVars, mode, stepVars, viewing, old, purged, stray, losses>>

\* The rows of the given calls go, and by cascade their jobs and reports.
DeleteRows(S) ==
  /\ \A c \in S : ~(row[c] /\ RowLocked(c))
  /\ row' = [c \in Call |-> row[c] /\ c \notin S]
  /\ uri' = [c \in Call |-> uri[c] /\ c \notin S]
  /\ report' = [c \in Call |-> report[c] /\ c \notin S]

\* All objects are gone: the rows follow in one transaction, and with those of an agent
\* whatever other calls it has by then.
PurgeCommits(p) ==
  /\ purge[p].on /\ purge[p].todo = {} /\ purge[p].left = <<>>
  /\ DeleteRows(purge[p].calls \cup purge[p].late)
  /\ stray' = stray \cup (purge[p].late \cap Rows)
  /\ purge' = [purge EXCEPT ![p] = Idle]
  /\ UNCHANGED <<state, mode, bucketVars, stepVars, viewing, old, purged, losses>>

\* The process dies or the bucket fails: the rows stay, the deleted objects do not.
PurgeLost(p) ==
  /\ purge[p].on
  /\ losses < MaxLosses
  /\ losses' = losses + 1
  /\ purge' = [purge EXCEPT ![p] = Idle]
  /\ UNCHANGED <<dbVars, mode, bucketVars, stepVars, viewing, old, purged, stray>>

PurgeStep(p) ==
  \/ \E c \in Call : PurgeCall(p, c)
  \/ PurgeObject(p)
  \/ PurgeCommits(p)

\* delete_portfolio removes every row and no object.
DeletePortfolio ==
  /\ PortfolioDeletes
  /\ Rows # {}
  /\ DeleteRows(Rows)
  /\ stray' = stray \cup Rows
  /\ UNCHANGED <<state, mode, bucketVars, stepVars, otherVars, losses>>

SetPiiMode(m) ==
  /\ Rows # {}
  /\ mode' = m
  /\ UNCHANGED <<dbVars, bucketVars, stepVars, otherVars, stray, losses>>

\* get_report and the downloads: the report is loaded and rendered ...
View(v, c) ==
  /\ viewing[v] = {}
  /\ report[c]
  /\ viewing' = [viewing EXCEPT ![v] = {c}]
  /\ UNCHANGED <<dbVars, mode, bucketVars, stepVars, purge, old, purged, stray, losses>>

\* ... and then stored, unless the bucket fails.
Export(v, c) ==
  /\ c \in viewing[v]
  /\ \/ /\ html' = [html EXCEPT ![c] = TRUE]
        /\ Stores(c)
     \/ UNCHANGED <<html, stray>>
  /\ viewing' = [viewing EXCEPT ![v] = {}]
  /\ UNCHANGED <<dbVars, mode, recording, text, stepVars, purge, old, purged, losses>>

Ages(c) ==
  /\ row[c] /\ ~old[c]
  /\ old' = [old EXCEPT ![c] = TRUE]
  /\ UNCHANGED <<dbVars, mode, bucketVars, stepVars, purge, viewing, purged, stray, losses>>

Next ==
  \/ \E c \in Call : Step(c) \/ StepLost(c) \/ ProviderAnswers(c) \/ Ages(c)
  \/ \E p \in Purger, S \in SUBSET Call, late \in SUBSET Call : PurgeStarts(p, S, late)
  \/ \E p \in Purger : PurgeStep(p) \/ PurgeLost(p)
  \/ \E v \in Viewer, c \in Call : View(v, c) \/ Export(v, c)
  \/ \E m \in Level \ {mode} : SetPiiMode(m)
  \/ DeletePortfolio

Spec == Init /\ [][Next]_vars

\* Steps and purges go on; the sweep runs again and again and lists what is old.  A
\* DELETE that waits for a step's row lock is queued and gets it when the step ends,
\* whatever claims the job next (strong fairness).
Fairness ==
  /\ \A c \in Call : WF_vars(Step(c) /\ pc[c] # "idle")
  /\ \A p \in Purger : /\ SF_vars(PurgeStep(p))
                       /\ WF_vars(PurgeStarts(p, Expired, {}))

FairSpec == Spec /\ Fairness

-----------------------------------------------------------------------------
(***************************************************************************)
(* Properties.                                                             *)
(***************************************************************************)

Stored(c) == recording[c] # "none" \/ text[c] # "none" \/ html[c]

\* A deleted or expired call leaves no object behind, if no step or export stored one
\* after its purge had begun and no cascade of its portfolio, or of its agent after the
\* calls were listed, took the row: the deletions take every kind of object before the
\* row that names them goes.
DeletedLeavesNothing == \A c \in Call \ stray : Stored(c) => row[c]

\* The transcript URI of a call resolves: the object is there, and is not lost to a
\* retry, a crash or a level change, until a deletion has begun on the call.
UriResolves == \A c \in Call \ purged : uri[c] => text[c] # "none"

\* No unredacted transcript is stored for a call whose submission found redaction on, nor
\* by a judge step that found it on, however the level changes between the two.
NoRawUnderRedaction ==
  [][\A c \in Call : text'[c] = "raw" /\ text[c] # "raw" =>
       asked[c] = "OFF" /\ found[c] = "OFF"]_vars

\* A failed judge is retried with the original recording: the beeped copy is stored only
\* by a step that the retry policy can no longer send back.  A step that was lost may
\* have stored it.
RetryHearsOriginal == losses = 0 => \A c \in Call : heard[c] # "beeped"

\* The same with no proviso, as the comments of handle_judge have it.
JudgeHearsOriginal == \A c \in Call : heard[c] # "beeped"

\* No object is left without its row, as the deletions and the swap promise.
NoOrphan == \A c \in Call : Stored(c) => row[c]

\* What is past the cutoff goes, although sweeps fail, requests delete the same calls
\* and steps hold their rows.
Expires == \A c \in Call : old[c] ~> ~row[c]
=============================================================================
