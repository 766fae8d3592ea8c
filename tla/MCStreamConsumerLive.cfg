SPECIFICATION FairSpec
CONSTANTS
  i1 = i1  i2 = i2  w1 = w1  w2 = w2  task = task
  Entry = {1, 2}
  Task = {task}
  TaskOf <- Tasks
  Unreadable = {1}
  Instance = {i1}
  Worker = {w1}
  InstanceOf <- Instances
  ScanLimit = 1
  MaxLosses = 1
CHECK_DEADLOCK FALSE
PROPERTIES EntryLeadsToClaim CloseReturns
