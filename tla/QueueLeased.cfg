SPECIFICATION Spec
CONSTANTS
  Job = {j1, j2}
  Worker = {w1, w2}
  Sweeper = {r1}
  NoJob = NoJob
  MaxAttempts = 2
  Cap = 1
  Unpollable = {j2}
  LeaseOutlivesStep = TRUE
  MaxSubmissions = 2
  MaxCrashes = 1
SYMMETRY Symmetry
INVARIANT TypeOK
INVARIANT OneTaskPerJob
INVARIANT ClaimStillHolds
INVARIANT ParkedHasTranscript
INVARIANT JudgeHasText
INVARIANT CapNotOversold
PROPERTY LegalTransitions
PROPERTY NeverResubmitRecorded
PROPERTY AttemptsCounted
