SPECIFICATION Spec
CONSTANTS
  Call = {c1, c2}
  RawOnly = {c2}
  Purger = {p1}
  Viewer = {v1}
  Level = {"OFF", "TRANSCRIPT_AND_RECORDING"}
  PortfolioDeletes = TRUE
  LateCalls = TRUE
  MaxLosses = 0
CHECK_DEADLOCK FALSE
INVARIANT TypeOK
INVARIANT DeletedLeavesNothing
INVARIANT RetryHearsOriginal
PROPERTY NoRawUnderRedaction
