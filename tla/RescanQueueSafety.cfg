CONSTANTS
  Task = {t1, t2, t3}
  Ip = {i1, i2}
  ScanId = {s1, s2}
  Agent = {a1, a2}
  MaxRetries = 2
  ScanWindow = 0
  Day = 2
  MaxTime = 1
  Faults = {"restart", "commit", "elastic", "network", "agent"}
  None = None
SPECIFICATION Spec
INVARIANTS TypeOK CachesExact OneOpenRequestPerTarget CompletedByScanOfTarget
PROPERTIES LifecycleSpec
SYMMETRY Symmetry
