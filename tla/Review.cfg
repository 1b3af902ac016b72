SPECIFICATION Spec
CONSTANTS
  Editor = {e1}
  Body <- MCBodies
  Seed <- MCSeed
  MaxVersions = 2
  MaxEdits = 1
  FreeText = {"notes"}
  Critical = {"consent"}
  Elevated = {}
  Compliance = {"consent"}
  Text <- MCText
  MaxEscalation = 50
  Call = {c1}
  Worker = {w1, w2}
  Verifier = {u1}
  Option = {"FULL", "FEEDBACK_IDEAL"}
  Verdicts <- MCVerdicts
  MinSample = 1
  Threshold = 30
  MaxReports = 2
  MaxReviews = 1
SYMMETRY Symmetry
CHECK_DEADLOCK FALSE
INVARIANT TypeOK
INVARIANT HistoryResolves
INVARIANT DefaultAvailable
INVARIANT EscalationsSurface
INVARIANT NeverContradicts
INVARIANT ReviewsWhatWasRead
PROPERTY Immutable
