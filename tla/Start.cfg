SPECIFICATION Spec
CONSTANTS
  None = None
  Torn = Torn
  h1 = h1
  h2 = h2
  a1 = a1
  a2 = a2
  MaxFaults = 1
  MaxTries = 2
INVARIANTS
  BundleIsWhole
PROPERTIES
  VaultIsKept
  RunsNewestComplete
  OneBridge
  LogsAreKept
CHECK_DEADLOCK FALSE
