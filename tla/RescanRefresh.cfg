CONSTANTS
  Task = {t1, t2}
  Ip = {i1, i2}
  ScanId = {s1, s2}
  Agent = {a1, a2}
  MaxRetries = 1
  ScanWindow = 0
  Day = 3
  MaxTime = 1
  Faults = {}
  None = None
SPECIFICATION Spec
INVARIANTS RefreshedRequestWaits
