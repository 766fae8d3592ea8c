SPECIFICATION FairSpec
CONSTANTS
  none = none  k1 = k1  k2 = k2  v1 = v1  v2 = v2  r1 = r1  w1 = w1
  Key = {k1, k2}
  Value = {v1, v2}
  NoValue = none
  Reader = {r1}
  Writer = {w1}
  MaxGeneration = 2
  MaxLosses = 1
INVARIANTS CacheIsFresh
PROPERTIES StaleEntriesGo
