CONSTANTS
    Users = {u1}
    None = None
    Ended = Ended
    MaxObjects = 3
    MaxSessions = 2
    MaxFaults = 1
    MaxCalls = 4
SPECIFICATION Spec
INVARIANT UsersAgree
PROPERTY Reloaded
CHECK_DEADLOCK FALSE
