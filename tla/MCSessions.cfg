SPECIFICATION Spec
CONSTANTS
  
  Account = {a1, a2}
  Family = {f1, f2}
  Pair = {p1, p2, p3}
  Request = {r1, r2}
  NoAccount = NoAccount
  NoFamily = NoFamily
  NoPair = NoPair
  AccessTTL = 1
  RefreshTTL = 2
SYMMETRY Exchange
INVARIANTS UsableIsCurrent EndedStaysEnded SessionsMatchAccount
