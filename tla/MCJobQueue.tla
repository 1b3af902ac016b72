----------------------------- MODULE MCJobQueue -----------------------------
(* Small instances of JobQueue for TLC. *)
EXTENDS JobQueue, TLC

\* Slots are interchangeable; jobs are not, where one of them is unpollable.
Symmetry == Permutations(Worker)
=============================================================================
