SPECIFICATION Spec
CONSTANTS
  Task = {t1, t2, t3}
  Slots = 2
  RpmCap = 1
  RpmRate = 1
  TpmCap = 2
  TpmRate = 1
  Est = 3
  Option = {"FULL", "FEEDBACK_IDEAL", "CHECKLIST_ONLY"}
  HigherTier = TRUE
  Tries = 2
  MaxObjections = 1
CHECK_DEADLOCK FALSE
INVARIANT TypeOK
INVARIANT SlotsConserved
INVARIANT PassBounded
PROPERTY Admitted
PROPERTY Flows
