------------------------------ MODULE MCReview ------------------------------
(***************************************************************************)
(* Review on an instance for TLC: one question of critical risk in a       *)
(* compliance section, one ordinary, one answered in words.                *)
(***************************************************************************)
EXTENDS Review, TLC

MCSeed == <<"consent", "tone">>

\* Two bodies, one of which asks the same thing twice.
MCBodies == {MCSeed, <<"notes", "notes">>}

V(answer, sure) == [answer |-> answer, sure |-> sure, quoted |-> TRUE, doubts |-> FALSE]
MCVerdicts == [consent |-> {V("FAIL", TRUE)}, tone |-> {V("PASS", FALSE)},
               notes |-> {V("NA", TRUE)}]

\* Texts that differ, and one text in two sections.
MCText == [consent |-> "was it asked", tone |-> "was it kind", notes |-> "notes"]
MCTwins == [consent |-> "was it clear", tone |-> "was it clear", notes |-> "notes"]

Symmetry == Permutations(Worker) \cup Permutations(Editor)
=============================================================================
