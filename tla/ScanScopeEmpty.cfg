CONSTANTS
  Item = {"net", "host", "other"}
  Addr = {1, 2, 3}
  Covers <- MCCovers
  Agent = {a1}
  MaxEvents = 1
  Faults = {}
  None = None
SPECIFICATION Spec
PROPERTIES WorkNeedsScope
