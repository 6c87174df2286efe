CONSTANTS
  r1 = r1
  r2 = r2
  w1 = w1
  w2 = w2
  b1 = b1
  b2 = b2
  None = None
  Browsers <- MCBrowsers
  WebOf <- MCWebOf
  Requests <- MCOneRequest
  Webs <- MCWebs
  MaxSnapshots = 2
  MaxLosses = 1
SPECIFICATION FairSpec
INVARIANTS
  TypeOK
  SnapshotsAccounted
PROPERTY EverySnapshotReceived
CHECK_DEADLOCK FALSE
