------------------------------ MODULE Reports ------------------------------
(***************************************************************************)
(* What people read of the reports: the report page, the built-in HTML     *)
(* document, the CSV of a checklist, the summaries of a batch and the      *)
(* verdict of a section.  Sources under backend/app: reports/service.py,   *)
(* reports/render.py, reports/summary.py, reports/template.py,             *)
(* api/checklists.py, judge/options.py.                                    *)
(*                                                                         *)
(* A report has the raw output of the judge (passes) and a row for every   *)
(* item; both are functions of items.  All of it is read through joins     *)
(* with the items as they are stored now.                                  *)
(***************************************************************************)
EXTENDS Checklists, Routing, SequencesExt

CONSTANTS
  Compliance,  \* keys of items in a compliance section
  Text         \* the text of each key; keys that differ in section or risk may share it

ASSUME ReportAssumption == Key \subseteq DOMAIN Text

NeedsFeedback(o)  == o \in {"FULL", "FEEDBACK_IDEAL"}
NeedsChecklist(o) == o \in {"FULL", "CHECKLIST_ONLY"}

NoAnswer == "none"
ReportRow == [answer : Answer \cup {NoAnswer}, review : BOOLEAN]

\* The scored items the join with checklist_items still finds.
Joined(r) == {i \in DOMAIN r.rows : Stored(i)}

\* load_report: the items in order, with their scores.
Page(r) ==
  LET rows == InOrder(Joined(r))
  IN  [flagged |-> r.flagged, prose |-> r.prose,
       items |-> [n \in DOMAIN rows |-> [item |-> rows[n], score |-> r.rows[rows[n]]]]]

\* export_checklist_csv: a column for each item of the version asked for, headed by its text.
Columns(v) == LET items == Items(v) IN [n \in DOMAIN items |-> Text[items[n].key]]

\* _load_verdicts: written answers, verdicts, and NA for an item the judge left out.
Cell(i, answer) ==
  IF i.key \in FreeText THEN IF answer = NoAnswer THEN "-" ELSE "words"
  ELSE IF answer = NoAnswer THEN "NA" ELSE answer

\* A cell is found by the text of its column, and empty if the report did not ask it.  Of
\* several items of one text the last one read is shown; they are read in no order.
CsvCells(r, text) ==
  LET asked == {i \in Joined(r) : Text[i.key] = text}
  IN  IF asked = {} THEN {""} ELSE {Cell(i, r.rows[i].answer) : i \in asked}

\* _overall: the verdict of the compliance section, or of the rest.
Overall(r, compliance) ==
  LET scope == {i \in Objective(Joined(r)) : (i.key \in Compliance) = compliance}
  IN  IF scope = {} THEN "NA"
      ELSE IF \E i \in scope : r.rows[i].answer = "FAIL" THEN "FAIL" ELSE "PASS"

\* _report_card: a table for each section, in order of appearance, with its items in order.
ReportCard(r) ==
  LET first == Joined(r) # {} /\ InOrder(Joined(r))[1].key \in Compliance
      table(compliance) == InOrder({i \in Joined(r) : (i.key \in Compliance) = compliance})
      shown(i) == [item |-> i, status |-> Cell(i, r.rows[i].answer), review |-> r.rows[i].review]
  IN  [n \in 1 .. 2 |-> LET rows == table(IF n = 1 THEN first ELSE ~first)
                        IN  [k \in DOMAIN rows |-> shown(rows[k])]]

\* render_report_html: the blocks in order.  The feedback agent always has some coaching.
Blocks(r) ==
  (IF NeedsFeedback(r.option)
   THEN <<[kind |-> "feedback", of |-> "coaching"], [kind |-> "feedback", of |-> "compliance"],
          [kind |-> "feedback", of |-> "development"], [kind |-> "ideal", of |-> "conversation"]>>
   ELSE <<>>)
  \o (IF Joined(r) # {} THEN <<[kind |-> "checklist", of |-> "card"]>> ELSE <<>>)

\* The whole document, or the one section of it asked for.
Document(r, section) ==
  LET shown == {b \in Range(Blocks(r)) : section \in {"whole", b.kind}}
      has(part) == \E b \in shown : b.of = part
  IN  [findings |-> r.prose /\ has("compliance"),
       card     |-> IF has("card") THEN ReportCard(r) ELSE <<<<>>, <<>>>>,
       pills    |-> IF Joined(r) # {} /\ section \in {"whole", "checklist"}
                    THEN <<Overall(r, TRUE), Overall(r, FALSE)>> ELSE <<>>,
       head     |-> IF r.flagged THEN "flagged" ELSE "reviewed"]

\* checklist_summary: a call somebody must look at.
NeedsReview(r) == r.flagged \/ \E i \in Joined(r) : r.rows[i].review

Fails(r) == {i \in Joined(r) : r.rows[i].answer = "FAIL"}

\* checklist_summary of the reports in a function of calls: the counts for the batch.  The
\* same counts by agent are left out, and so are its lists, which are cut to the worst few.
Summary(reports) ==
  LET scored == {c \in DOMAIN reports : reports[c].version # 0}
  IN  [clean    |-> Cardinality({c \in scored : Fails(reports[c]) = {}}),
       review   |-> Cardinality({c \in scored : NeedsReview(reports[c])}),
       critical |-> Cardinality(UNION {{c} \X {i \in Fails(reports[c]) : i.key \in Critical} :
                                         c \in scored})]

\* feedback_summary_html: how many calls it briefs on, and how many of them are a compliance
\* concern: the sums of what it shows for each agent.
FeedbackSummary(reports) ==
  LET briefed == {c \in DOMAIN reports : NeedsFeedback(reports[c].option)}
  IN  [briefed  |-> Cardinality(briefed),
       concerns |-> Cardinality({c \in briefed : reports[c].prose})]
=============================================================================
