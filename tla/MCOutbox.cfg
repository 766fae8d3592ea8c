SPECIFICATION Spec
CONSTANTS
  run = run
  one = one
  other = other
  job = job
  api = api
  Dispatch = {1, 2}
  Malformed = {}
  Caller = {run, one, other}
  Scheduled = {run, other}
  Owner = {job, api}
  OwnerOf <- Owners
  NoOwner = NoOwner
  Crashing = {api}
  BatchLimit = 2
  MaxAttempts = 2
  MaxStream = 2
INVARIANTS PublishedWasAdded DeadIsExhausted
PROPERTIES LeaseProtects ImplementsDurableDispatch
