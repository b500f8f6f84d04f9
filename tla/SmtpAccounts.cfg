SPECIFICATION FairSpec
CONSTANTS
    NoUser = NoUser
    Users = {u1, u2}
    Sessions = {s1, s2}
    MaxFailedCommands = 2
    ErrTimeout = 1
    SuccessiveErrInterval = 0
    MaxTime = 1
    Logouts = {u1}
    Closes = {u2}
INVARIANT SessionsServed
PROPERTIES
    OnlyLogoutBlocks
CHECK_DEADLOCK FALSE
