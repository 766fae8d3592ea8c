SPECIFICATION Spec
CONSTANTS
  Client = {1}
  Department = {1, 2, 10, 11, 12}
  Menu = {}
  Role = {1}
  Account = {1}
  Root = 1
  MaxListed = 1
INVARIANTS DescendantsAreBelow
CHECK_DEADLOCK FALSE
