CONSTANTS
  Scan = {1, 2, 3, 4}
  Ip = {"h1", "h2"}
  IpOf <- MCIpOf
  MaxDocs = 3
  FaultSets = {{}, {"elastic", "retry", "lag"}}
  None = None
SPECIFICATION Spec
INVARIANTS TypeOK LatestIsNewest DeletedScanIsGone DeletionIsReported AcceptedScanIsKept
