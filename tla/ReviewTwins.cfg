SPECIFICATION Spec
CONSTANTS
  Editor = {e1}
  Body <- MCBodies
  Seed <- MCSeed
  MaxVersions = 1
  MaxEdits = 0
  FreeText = {"notes"}
  Critical = {"consent"}
  Elevated = {}
  Compliance = {"consent"}
  Text <- MCTwins
  MaxEscalation = 50
  Call = {c1}
  Worker = {w1}
  Verifier = {}
  Option = {"FULL"}
  Verdicts <- MCVerdicts
  MinSample = 1
  Threshold = 30
  MaxReports = 1
  MaxReviews = 0
SYMMETRY Symmetry
CHECK_DEADLOCK FALSE
INVARIANT CsvFaithful
