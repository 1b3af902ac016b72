SPECIFICATION Spec
CONSTANTS
  Call = {c1}
  RawOnly = {}
  Purger = {p1}
  Viewer = {v1}
  Level = {"OFF", "TRANSCRIPT", "TRANSCRIPT_AND_RECORDING"}
  PortfolioDeletes = FALSE
  LateCalls = FALSE
  MaxLosses = 0
CHECK_DEADLOCK FALSE
INVARIANT NoOrphan
