------------------------------- MODULE Review -------------------------------
(***************************************************************************)
(* Calls judged against checklists that people go on editing, and reports  *)
(* that verifiers read and judge while calls are judged again or deleted.  *)
(* Sources under backend/app: judge/service.py, orchestration/handlers.py, *)
(* verification/service.py, tuning/router_tuning.py, api/verification.py,  *)
(* api/reports.py, api/calls.py.                                           *)
(*                                                                         *)
(* A judge pass reads the checklist, waits for the model, and writes in    *)
(* one transaction.  Two workers may judge one call, where the lease of    *)
(* the first ran out (JobQueue).  Any failure rolls a pass back.           *)
(***************************************************************************)
EXTENDS Reports

CONSTANTS
  Call,        \* calls that may be registered
  Worker,      \* worker slots
  Verifier,    \* people who verify reports
  Option,      \* processing options in use
  Verdicts,    \* verdicts the model may return on each key
  MinSample,   \* min_sample of the tuning
  Threshold,   \* error_threshold, in percent
  MaxReports,  \* bound: reports written
  MaxReviews   \* bound: verifications of one report

NoReport == [id |-> 0]
NoCall == [state |-> "new"]
Idle == [on |-> "nothing"]
NoPage == [of |-> "nothing"]

ASSUME ReviewAssumption ==
  /\ IsFiniteSet(Call)
  /\ Verdicts \in [Key -> SUBSET Verdict]
  /\ Option \subseteq {"FULL", "FEEDBACK_IDEAL", "CHECKLIST_ONLY"}
  /\ "nothing" \notin Call
  /\ MinSample \in Nat \ {0} /\ Threshold \in 0 .. 100
  /\ MaxReports \in Nat /\ MaxReviews \in Nat

VARIABLES
  call,       \* each call: its option, the checklist chosen for it, whether it is judged
  worker,     \* the pass each worker is in
  report,     \* the report of each call
  written,    \* reports written so far: the last id
  reviews,    \* verifications of the report of each call
  overrides,  \* learned force-escalations
  screen      \* the report each verifier has open

reviewVars == <<call, worker, report, written, reviews, overrides, screen>>
vars == <<checklistVars, reviewVars>>

Judgement == {"CORRECT", "WRONG", "CANT_SAY"}
Reported == {c \in Call : report[c] # NoReport}

\* is_used_by_report.
Used(v) == \E c \in Reported : report[c].version = v

\* The items a foreign key of report_items protects.
Held == UNION {DOMAIN report[c].rows : c \in Reported}

TypeOK ==
  /\ ChecklistTypeOK
  /\ \A c \in Call :
       /\ call[c] = NoCall \/ call[c] \in
            [state : {"ready", "judged", "failed", "deleted"}, option : Option,
             chosen : 0 .. MaxVersions]
       /\ report[c] # NoReport =>
            /\ report[c].id \in 1 .. written /\ report[c].version \in 0 .. MaxVersions
            /\ DOMAIN report[c].rows \subseteq Item
            /\ \A i \in DOMAIN report[c].rows : report[c].rows[i] \in ReportRow
       /\ Len(reviews[c]) \in 0 .. MaxReviews
       /\ report[c] = NoReport => reviews[c] = <<>>
  /\ \A w \in Worker : worker[w] # Idle =>
       worker[w].on \in Call /\ Range(worker[w].asked) \subseteq Item
  /\ written \in 0 .. MaxReports
  /\ overrides \subseteq Item
  /\ \A u \in Verifier : screen[u] # NoPage => screen[u].of \in Call

Init ==
  /\ ChecklistInit
  /\ call = [c \in Call |-> NoCall]
  /\ worker = [w \in Worker |-> Idle]
  /\ report = [c \in Call |-> NoReport]
  /\ written = 0
  /\ reviews = [c \in Call |-> <<>>]
  /\ overrides = {}
  /\ screen = [u \in Verifier |-> NoPage]

-----------------------------------------------------------------------------
(***************************************************************************)
(* Judging.                                                                *)
(***************************************************************************)

\* A call is registered with an option, and a checklist version or the default (0).
Register(c, o, v) ==
  /\ call[c] = NoCall
  /\ v \in {0} \cup DOMAIN versions
  /\ call' = [call EXCEPT ![c] = [state |-> "ready", option |-> o, chosen |-> v]]
  /\ UNCHANGED <<checklistVars, worker, report, written, reviews, overrides, screen>>

\* _resolve_checklist: the chosen version, whatever its status, or the portfolio's default.
Resolved(c) == IF call[c].chosen # 0 THEN {call[c].chosen} ELSE Defaults

\* The first half of judge_call: what the agents are asked.
Begin(w, c) ==
  /\ worker[w] = Idle /\ call[c].state = "ready"
  /\ IF ~NeedsChecklist(call[c].option)
     THEN /\ worker' = [worker EXCEPT ![w] = [on |-> c, version |-> 0, asked |-> <<>>]]
          /\ UNCHANGED call
     ELSE IF Resolved(c) = {}
     THEN call' = [call EXCEPT ![c].state = "failed"] /\ UNCHANGED worker
     ELSE /\ \E v \in Resolved(c) :
               worker' = [worker EXCEPT ![w] = [on |-> c, version |-> v, asked |-> Items(v)]]
          /\ UNCHANGED call
  /\ UNCHANGED <<checklistVars, report, written, reviews, overrides, screen>>

\* Fault: what the feedback agent wrote of compliance is taken as it is.
AsWritten(option, verdicts, prose) == prose

\* The compliance prose is backfilled from the marks where the agent left it blank.
Prose(option, verdicts, prose) ==
  \/ prose
  \/ /\ option = "FULL"
     /\ \E i \in DOMAIN verdicts : i.key \in Compliance /\ verdicts[i].answer = "FAIL"

Score(i, verdicts, routed) ==
  [answer |-> IF i \in DOMAIN verdicts THEN verdicts[i].answer ELSE NoAnswer,
   review |-> i \in routed.review]

\* _load_overrides.
Forced(items) == overrides \cap items

\* The report row and its items, from the verdicts the model returned.
Judged(id, c, pass, verdicts, prose) ==
  LET items == Range(pass.asked)
      routed == Decide(Objective(items), verdicts, Forced(items))
  IN  [id |-> id, version |-> pass.version, option |-> call[c].option,
       flagged |-> routed.flagged, prose |-> Prose(call[c].option, verdicts, prose),
       rows |-> [i \in items |-> Score(i, verdicts, routed)],
       passes |-> verdicts, asked |-> pass.asked, forced |-> Forced(items)]

Finish(w, s) ==
  /\ worker' = [worker EXCEPT ![w] = Idle]
  /\ call' = [call EXCEPT ![worker[w].on].state = s]

\* Fault: the report row of an earlier pass is kept, and what hangs on it.
Overwrites(w, verdicts, prose) ==
  LET c == worker[w].on
      id == IF report[c] = NoReport THEN written + 1 ELSE report[c].id
  IN  /\ worker[w] # Idle /\ call[c].state # "deleted" /\ written < MaxReports
      /\ \A i \in Range(worker[w].asked) : Stored(i)
      /\ report' = [report EXCEPT ![c] = Judged(id, c, worker[w], verdicts, prose)]
      /\ written' = written + 1
      /\ Finish(w, "judged")
      /\ UNCHANGED <<checklistVars, reviews, overrides, screen>>

\* The second half: an earlier report goes with all that hangs on it.  The foreign keys
\* ask for the call and for every item judged.
Persist(w, verdicts, prose) ==
  LET c == worker[w].on
  IN  /\ worker[w] # Idle /\ call[c].state # "deleted" /\ written < MaxReports
      /\ \A i \in Range(worker[w].asked) : Stored(i)
      /\ report' = [report EXCEPT ![c] = Judged(written + 1, c, worker[w], verdicts, prose)]
      /\ reviews' = [reviews EXCEPT ![c] = <<>>]
      /\ written' = written + 1
      /\ Finish(w, "judged")
      /\ UNCHANGED <<checklistVars, overrides, screen>>

\* What the model may answer: a verdict for some of the items.
Answers(w) ==
  IF worker[w] = Idle THEN {}
  ELSE UNION {{v \in [some -> UNION {Verdicts[i.key] : i \in some}] :
                 \A i \in some : v[i] \in Verdicts[i.key]} :
                some \in SUBSET Range(worker[w].asked)}

\* A pass fails and is rolled back: malformed output, a foreign key, a second worker's report.
Fail(w) ==
  /\ worker[w] # Idle
  /\ worker' = [worker EXCEPT ![w] = Idle]
  /\ UNCHANGED <<checklistVars, call, report, written, reviews, overrides, screen>>

\* Fault: the verifications do not go with their report.
KeepsReviews(c) ==
  /\ call[c].state \in {"ready", "judged"}
  /\ call' = [call EXCEPT ![c].state = "deleted"]
  /\ report' = [report EXCEPT ![c] = NoReport]
  /\ UNCHANGED <<checklistVars, worker, written, reviews, overrides, screen>>

\* delete_call: the rows of the call cascade.
Delete(c) ==
  /\ call[c].state \in {"ready", "judged"}
  /\ call' = [call EXCEPT ![c].state = "deleted"]
  /\ report' = [report EXCEPT ![c] = NoReport]
  /\ reviews' = [reviews EXCEPT ![c] = <<>>]
  /\ UNCHANGED <<checklistVars, worker, written, overrides, screen>>

-----------------------------------------------------------------------------
(***************************************************************************)
(* Verifying.                                                              *)
(***************************************************************************)

\* get_report.
Open(u, c) ==
  /\ screen[u] = NoPage /\ c \in Reported
  /\ screen' = [screen EXCEPT ![u] = [of |-> c, id |-> report[c].id, page |-> Page(report[c])]]
  /\ UNCHANGED <<checklistVars, call, worker, report, written, reviews, overrides>>

\* create_verification: for the report of that id, which must still exist.
Verify(u, j) ==
  LET s == screen[u]
  IN  /\ s # NoPage
      /\ screen' = [screen EXCEPT ![u] = NoPage]
      /\ reviews' = IF report[s.of].id = s.id /\ Len(reviews[s.of]) < MaxReviews
                    THEN [reviews EXCEPT ![s.of] =
                            Append(@, [judgement |-> j, by |-> u, page |-> s.page])]
                    ELSE reviews
      /\ UNCHANGED <<checklistVars, call, worker, report, written, overrides>>

\* The verified reports that score item i, of those with a judgement j.
Verified(i, j) ==
  {c \in Reported : /\ i \in DOMAIN report[c].rows
                    /\ \E n \in DOMAIN reviews[c] : reviews[c][n].judgement = j}

\* recompute_overrides: items with enough verified reports and enough of them wrong.
Recompute ==
  LET correct(i) == Cardinality(Verified(i, "CORRECT"))
      wrong(i) == Cardinality(Verified(i, "WRONG"))
  IN  /\ overrides' = {i \in Held :
           /\ correct(i) + wrong(i) >= MinSample
           /\ 100 * wrong(i) >= Threshold * (correct(i) + wrong(i))}
      /\ overrides' # overrides
      /\ UNCHANGED <<checklistVars, call, worker, report, written, reviews, screen>>

-----------------------------------------------------------------------------
\* An edit of the checklists.  Overrides go with the items they are for.
Edit ==
  /\ \/ \E b \in Body : Create(b)
     \/ \E e \in Editor, v \in DOMAIN versions, b \in Body : Load(e, v, b, Used(v))
     \/ \E e \in Editor : Sweep(e) \/ Revise(e, Held) \/ Refuse(e, Held) \/ Publish(e)
     \/ \E v \in DOMAIN versions : SoftDelete(v)
  /\ overrides' = {i \in overrides : Stored(i)'}
  /\ UNCHANGED <<call, worker, report, written, reviews, screen>>

Next ==
  \/ Edit
  \/ \E c \in Call : Delete(c) \/ \E o \in Option, v \in 0 .. MaxVersions : Register(c, o, v)
  \/ \E w \in Worker :
       \/ Fail(w)
       \/ \E c \in Call : Begin(w, c)
       \/ \E verdicts \in Answers(w), prose \in BOOLEAN : Persist(w, verdicts, prose)
  \/ \E u \in Verifier : (\E c \in Call : Open(u, c)) \/ \E j \in Judgement : Verify(u, j)
  \/ Recompute

Spec == Init /\ [][Next]_vars

-----------------------------------------------------------------------------
(***************************************************************************)
(* Properties.                                                             *)
(***************************************************************************)

\* What the judge answered on an item, if it did.
Said(r, i) == IF i \in DOMAIN r.passes THEN r.passes[i].answer ELSE NoAnswer

\* The items a report asks under one text.
AskedAs(r, text) == {n \in DOMAIN r.asked : Text[r.asked[n].key] = text}

\* History stays intact: whatever is edited, superseded or deleted after, the page of a
\* report shows every item the judge was asked, in the order it was asked, with the verdict
\* the judge gave; the HTML document, whole or its checklist alone, has each of them in one
\* row, the first of them first; and the CSV of its version has a column for each, with
\* that verdict where no other item has the same text.
HistoryResolves ==
  \A c \in Reported :
    LET r == report[c]
        lines == Page(r).items
        columns == IF r.version = 0 THEN {} ELSE Range(Columns(r.version))
    IN  /\ [n \in DOMAIN lines |-> <<lines[n].item, lines[n].score.answer>>] =
           [n \in DOMAIN r.asked |-> <<r.asked[n], Said(r, r.asked[n])>>]
        /\ \A section \in {"whole", "checklist"} :
             LET card == Document(r, section).card
                 rows == card[1] \o card[2]
                 told(n) == [item |-> r.asked[n], review |-> r.rows[r.asked[n]].review,
                             status |-> Cell(r.asked[n], Said(r, r.asked[n]))]
             IN  /\ Len(rows) = Len(r.asked)
                 /\ Range(rows) = {told(n) : n \in DOMAIN r.asked}
                 /\ r.asked # <<>> => card[1] # <<>> /\ rows[1] = told(1)
        /\ r.version # 0 =>
             \A n \in DOMAIN r.asked :
               LET text == Text[r.asked[n].key]
               IN  /\ text \in columns
                   /\ AskedAs(r, text) = {n} =>
                        CsvCells(r, text) = {Cell(r.asked[n], Said(r, r.asked[n]))}

\* The CSV has a column for the verdict of each item, whatever the items are called.  The
\* code finds a cell by the text alone, so two items of one text show one verdict.
CsvFaithful ==
  \A c \in Reported :
    LET r == report[c]
    IN  r.version # 0 =>
          \A n \in DOMAIN r.asked :
            CsvCells(r, Text[r.asked[n].key]) = {Cell(r.asked[n], Said(r, r.asked[n]))}

\* A version is immutable once used by a report: no step that keeps the report changes
\* what its version asks.  It holds while edits of one version are apart (EditsApart).
Immutable ==
  [][\A c \in Reported :
       report[c].version # 0 /\ report'[c] = report[c] =>
         versions'[report[c].version].items = versions[report[c].version].items]_vars

\* No two transactions are between their DELETE and their commit on one version.
EditsApart ==
  \A d, e \in Editor :
    tab[d] # NoTab /\ tab[e] # NoTab /\ tab[d].at = tab[e].at
      /\ tab[d].swept /\ tab[e].swept
    => d = e

\* The portfolio always has an active default, so no call fails for want of a checklist.
DefaultAvailable ==
  /\ Defaults # {}
  /\ \A c \in Call : call[c] # NoCall => call[c].state # "failed"

\* The items of a report whose verdict calls for a person.
Due(r) == Raw(Objective(DOMAIN r.rows), r.passes, r.forced)

\* A verdict that calls for a person reaches one: the summary counts at least the calls with
\* such a verdict for review, each has its flag or an item marked for review, and the breaker
\* never hides an item of elevated or critical risk.
EscalationsSurface ==
  /\ Cardinality({c \in Reported : Due(report[c]) # {}})
       <= Summary([c \in Reported |-> report[c]]).review
  /\ \A c \in Reported :
       LET r == report[c]
       IN  /\ Due(r) # {} => r.flagged \/ \E i \in Joined(r) : r.rows[i].review
           /\ \A i \in Due(r) : i.key \in Critical \cup Elevated => r.rows[i].review

\* The template's verdict or the badge of the document is a compliance FAIL.
Failed(r) ==
  LET pills == Document(r, "whole").pills
  IN  Overall(r, TRUE) = "FAIL" \/ (pills # <<>> /\ pills[1] = "FAIL")

\* A full report does not contradict itself: where it fails compliance its document has
\* findings, and the feedback summary of the batch counts at least the calls that do as
\* compliance concerns.
NeverContradicts ==
  LET failed == {c \in Reported : report[c].option = "FULL" /\ Failed(report[c])}
  IN  /\ \A c \in failed : \A section \in {"whole", "feedback"} :
           Document(report[c], section).findings
      /\ Cardinality(failed) <= FeedbackSummary([c \in Reported |-> report[c]]).concerns

\* A verification stands beside the report its verifier read, as it reads now.
ReviewsWhatWasRead ==
  \A c \in Call : \A n \in DOMAIN reviews[c] :
    c \in Reported /\ reviews[c][n].page = Page(report[c])
=============================================================================
