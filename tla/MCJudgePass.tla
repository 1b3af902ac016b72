---------------------------- MODULE MCJudgePass ----------------------------
(***************************************************************************)
(* JudgePass on an instance for TLC.                                       *)
(***************************************************************************)
EXTENDS JudgePass

=============================================================================
