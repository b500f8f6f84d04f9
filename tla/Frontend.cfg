SPECIFICATION Spec
CONSTANTS
  None = None
  u1 = u1
  u2 = u2
  Callers = {1, 2}
  MaxCalls = 2
  MaxStarts = 1
INVARIANTS
  SettingsTakeEffect
PROPERTIES
  StreamDelivers
  LoginIsSafe
  ShellKeepsUp
CHECK_DEADLOCK FALSE
