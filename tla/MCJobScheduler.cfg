SPECIFICATION FairSpec
CONSTANTS
  none = none  p1 = p1  p2 = p2
  Process = {p1, p2}
  NoProcess = none
  Timeout = 2
  Lease = 3
INVARIANTS LiveOwnsLease OneLiveRun HeartbeatKeepsLease
PROPERTIES JobKeepsRunning
