--------------------------- MODULE MCCallArtifacts ---------------------------
(* Small instances of CallArtifacts for TLC. *)
EXTENDS CallArtifacts
=============================================================================
