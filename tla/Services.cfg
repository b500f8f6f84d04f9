SPECIFICATION Spec
CONSTANTS
  None = None
  u1 = u1
  u2 = u2
  t1 = t1
  t2 = t2
  d1 = d1
  d2 = d2
  p1 = p1
  a1 = a1
  a2 = a2
  r1 = r1
  r2 = r2
  Users = {u1, u2}
  Texts = {t1, t2}
  MaxTime = 3
  MaxEvents = 2
  MaxCrashes = 1
  Reporters = {r1, r2}
  MaxSteps = 4
INVARIANTS
  HeartbeatTells
  NotifiedOnce
PROPERTIES
  MetricsDelivered
  FlagsRemembered
  DialsSafely
  SubscribersSafe
  IdentityAgrees
CHECK_DEADLOCK FALSE
