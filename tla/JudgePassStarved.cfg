SPECIFICATION Spec
CONSTANTS
  Task = {t1, t2}
  Slots = 2
  RpmCap = 1
  RpmRate = 1
  TpmCap = 2
  TpmRate = 1
  Est = 0
  Option = {"CHECKLIST_ONLY"}
  HigherTier = FALSE
  Tries = 1
  MaxObjections = 0
CHECK_DEADLOCK FALSE
PROPERTY Served
