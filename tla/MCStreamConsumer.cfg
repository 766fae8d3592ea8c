SPECIFICATION Spec
CONSTANTS
  i1 = i1  i2 = i2  w1 = w1  w2 = w2  task = task
  Entry = {1, 2}
  Task = {task}
  TaskOf <- Tasks
  Unreadable = {}
  Instance = {i1, i2}
  Worker = {w1, w2}
  InstanceOf <- Instances
  ScanLimit = 1
  MaxLosses = 1
SYMMETRY Exchange
INVARIANTS NoLostWakeUp ExecutedOnce
CHECK_DEADLOCK FALSE
