SPECIFICATION Spec
CONSTANTS
  Job = {j1}
  Worker = {w1, w2}
  Sweeper = {r1}
  NoJob = NoJob
  MaxAttempts = 2
  Cap = 1
  Unpollable = {}
  LeaseOutlivesStep = FALSE
  MaxSubmissions = 2
  MaxCrashes = 0
PROPERTY LegalTransitions
