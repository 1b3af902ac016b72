SPECIFICATION MeterSpec
CONSTANTS
  Task = {t1, t2, t3}
  Slots = 2
  RpmCap = 2
  RpmRate = 1
  TpmCap = 3
  TpmRate = 3
  Est = 2
  MaxStarts = 1
INVARIANT WithinQuota
