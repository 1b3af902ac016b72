----------------------------- MODULE MCMetered -----------------------------
(***************************************************************************)
(* Metered on an instance for TLC.                                         *)
(***************************************************************************)
EXTENDS Metered

=============================================================================
