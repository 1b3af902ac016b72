SPECIFICATION FairSpec
CONSTANTS
  Job = {j1, j2}
  Worker = {w1}
  Sweeper = {r1}
  NoJob = NoJob
  MaxAttempts = 2
  Cap = 2
  Unpollable = {j2}
  LeaseOutlivesStep = TRUE
  MaxSubmissions = 1
  MaxCrashes = 0
PROPERTY Settles
