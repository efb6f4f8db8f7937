CONSTANTS
  Scopes <- MCScopes
SPECIFICATION FairSpec
INVARIANTS TypeOK SliceSpansNumber
PROPERTIES HandsOutCycles SearchEnds
