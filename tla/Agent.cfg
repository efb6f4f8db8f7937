CONSTANTS
  Thread = {t1, t2}
  Version = {"v1", "v2"}
  MaxUpdates = 2
  MaxTargets = 3
  MaxRetries = 2
  FaultSets = {{}, {"raise", "linger", "refuse", "forbid"}}
SPECIFICATION FairSpec
INVARIANTS TypeOK FinishedIsFinished WrongFileIsNoticed
PROPERTIES UnansweredFilesAreKept ManualRunEnds ServicesArrive
CHECK_DEADLOCK FALSE
