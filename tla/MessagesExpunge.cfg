SPECIFICATION Spec
CONSTANTS
    m1 = m1
    a1 = a1
    a2 = a2
    L = L
    Msgs = {m1}
    Addrs = {a1, a2}
    Primary = a1
    External = {a2}
    UserLabels = {L}
    UserFolders = {}
    Setups <- AllSetups
    MaxChanges = 3
    MaxFaults = 1
    MaxBatch = 2
    None = None
    Unborn = Unborn
    Gone = Gone
INVARIANT ExpungeSparesLabelled
CHECK_DEADLOCK FALSE
