SPECIFICATION Spec
CONSTANTS
  p1 = p1
  p2 = p2
  Client = {p1, p2}
  Department = {1, 2, 3, 4}
  Menu = {1, 2, 3}
  Role = {1, 2, 3, 4}
  Account = {1, 2, 3}
  Root = 1
  MaxListed = 1
  Dict = {1, 2}
  Item = {1, 2}
  Code = {"a", "b", "c"}
  Notice = {1}
  User = {"u", "v"}
  Conn = {1, 2}
  Owner <- MCOwner
  Event = {"e1", "e2"}
  Target <- MCTarget
  Capacity = 1
  Retries = 1
  Handler = {1, 2, 3}
  AuditCapacity = 1
  Address = {"x", "y"}
  Captcha = {1}
  Burst = 2
  ClientTTL = 2
  LoginLimit = 1
  LoginWindow = 2
  MaxClock = 3
SYMMETRY Exchange
INVARIANTS ReferencesAreLive TreesAreSound ItemsHaveDictionary ChangesAreAnnounced WhatIsToldIsTrue NoSilentGap OriginOrder PresenceHolds AuditIsComplete ReadyMeansOpen  KeptOutOnlyByOverlap GuessesAreLimited
PROPERTIES PublishedIsFixed
CHECK_DEADLOCK FALSE
