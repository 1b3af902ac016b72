SPECIFICATION FairSpec
CONSTANTS
  Call = {c1}
  RawOnly = {}
  Purger = {p1, p2}
  Viewer = {v1}
  Level = {"OFF", "TRANSCRIPT", "TRANSCRIPT_AND_RECORDING"}
  PortfolioDeletes = TRUE
  LateCalls = TRUE
  MaxLosses = 1
CHECK_DEADLOCK FALSE
INVARIANT DeletedLeavesNothing
INVARIANT UriResolves
PROPERTY Expires
