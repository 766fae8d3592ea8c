SPECIFICATION ProducerSpec
CONSTANTS
  c1 = c1  c2 = c2  c3 = c3
  Call = {c1, c2, c3}
  FailureThreshold = 2
  HalfOpenMax = 2
  MaxGeneration = 5
INVARIANTS InFlightIsExact
PROPERTIES ReadinessRecovers
