SPECIFICATION RoleSpec
CONSTANTS
  none = none  p1 = p1
  Process = {p1}
  NoProcess = none
  Timeout = 2
  Lease = 3
PROPERTIES RelayKeepsRunning
