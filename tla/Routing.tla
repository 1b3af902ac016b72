------------------------------ MODULE Routing ------------------------------
(***************************************************************************)
(* The routing layer: which verdicts of the judge a person must look at.   *)
(* Sources under backend/app: judge/routing.py, judge/service.py,          *)
(* checklists/__init__.py.                                                 *)
(*                                                                         *)
(* A verdict keeps what routing asks of it: the answer, whether confidence *)
(* reaches the threshold, whether the quote is long enough, and whether    *)
(* the model flagged itself.  One tier judges: no deployment configures a  *)
(* second.                                                                 *)
(***************************************************************************)
EXTENDS Naturals, FiniteSets

CONSTANTS
  FreeText,       \* keys of items answered in words
  Critical,       \* keys of items of CRITICAL risk
  Elevated,       \* keys of items of ELEVATED risk
  MaxEscalation   \* max_escalation_fraction, in percent

ASSUME RoutingAssumption ==
  /\ Critical \cap Elevated = {}
  /\ MaxEscalation \in 0 .. 100

Answer == {"PASS", "FAIL", "NA"}
Verdict == [answer : Answer, sure : BOOLEAN, quoted : BOOLEAN, doubts : BOOLEAN]

Objective(items) == {i \in items : i.key \notin FreeText}

\* _escalation_reason: a reason not to accept the verdict v on item i.
Escalates(i, v, overrides) ==
  \/ i \in overrides
  \/ ~v.sure
  \/ i.key \in Critical /\ v.answer = "FAIL"
  \/ v.doubts
  \/ v.answer \in {"PASS", "FAIL"} /\ ~v.quoted

\* Items whose verdict escalates; an item without a verdict does not.
Raw(items, verdicts, overrides) ==
  {i \in items \cap DOMAIN verdicts : Escalates(i, verdicts[i], overrides)}

\* The circuit breaker: more than the allowed share escalates.
Trips(items, raw) ==
  100 * Cardinality(raw) > MaxEscalation * Cardinality(items)

\* Fault: above the share nothing is escalated, and nobody is told.
DropsAll(items, verdicts, overrides) ==
  LET raw == Raw(items, verdicts, overrides)
  IN  [flagged |-> FALSE, review |-> IF Trips(items, raw) THEN {} ELSE raw]

\* decide_routing: the items for human review, and the flag of the whole call.
Decide(items, verdicts, overrides) ==
  LET raw == Raw(items, verdicts, overrides)
      trips == Trips(items, raw)
  IN  [flagged |-> trips,
       review |-> IF trips THEN {i \in raw : i.key \in Critical \cup Elevated} ELSE raw]
=============================================================================
