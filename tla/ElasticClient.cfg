CONSTANTS
  Interval = 3
  Day = 7
  MaxStops = 2
SPECIFICATION FairSpec
INVARIANTS TypeOK ServingIsInitialized
PROPERTIES OutageEnds
