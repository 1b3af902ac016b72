----------------------------- MODULE JobStates -----------------------------
(***************************************************************************)
(* The states of a job and the transitions the program declares legal:     *)
(* backend/app/orchestration/states.py.  Pure definitions, no state.       *)
(***************************************************************************)

PendingTranscription == "PENDING_TRANSCRIPTION"
AwaitingTranscript   == "AWAITING_TRANSCRIPT"
PendingJudge         == "PENDING_JUDGE"
Done                 == "DONE"
Failed               == "FAILED"

JobState == {PendingTranscription, AwaitingTranscript, PendingJudge, Done, Failed}

\* Worked by the claim loop; the parked state is left to webhook and reconciler.
Claimable == {PendingTranscription, PendingJudge}
Terminal  == {Done, Failed}

\* The _ALLOWED table: a state without a row of its own has no successor.
Allowed(src) ==
  CASE src = PendingTranscription -> {AwaitingTranscript, Failed}
    [] src = AwaitingTranscript   -> {PendingJudge, Failed}
    [] src = PendingJudge         -> {Done, Failed}
    [] OTHER                      -> {}

CanTransition(src, dst) == dst \in Allowed(src)
=============================================================================
