SPECIFICATION FairSpec
CONSTANTS
  Job = {j1, j2}
  Worker = {w1}
  Sweeper = {r1}
  NoJob = NoJob
  MaxAttempts = 2
  Cap = 1
  Unpollable = {}
  LeaseOutlivesStep = TRUE
  MaxSubmissions = 1
  MaxCrashes = 1
PROPERTY Settles
PROPERTY ImplementsLifecycle
