SPECIFICATION MCSpec
CONSTANTS
  None = None
  r1 = r1
  r2 = r2
  u1 = u1
  MaxEvents = 5
  MaxFaults = 2
  Faults = {"crash", "fail"}
  Rewinders = {r1, r2}
  Kinds = {"label", "message"}
INVARIANT MailboxesServed
PROPERTIES
  EventsKept
  SyncSkipsDone
CHECK_DEADLOCK FALSE
