SPECIFICATION FairSpec
CONSTANTS
  run = run
  one = one
  other = other
  job = job
  api = api
  Dispatch = {1, 2}
  Malformed = {1}
  Caller = {run, other}
  Scheduled = {run}
  Owner = {job, api}
  OwnerOf <- Owners
  NoOwner = NoOwner
  Crashing = {api}
  BatchLimit = 1
  MaxAttempts = 2
  MaxStream = 2
PROPERTIES EventuallySettled
