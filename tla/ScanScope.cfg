CONSTANTS
  Item = {"net", "host", "other"}
  Addr = {1, 2, 3}
  Covers <- MCCovers
  Agent = {a1}
  MaxEvents = 3
  Faults = {"restart", "cli"}
  None = None
SPECIFICATION FairSpec
INVARIANTS TypeOK GroupIsTable GroupFitsTogether
PROPERTIES WorkIsInScope HostInScopeIsStored EveryAddressIsScanned
