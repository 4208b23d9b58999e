SPECIFICATION FairSpec
CONSTANTS
    None = None
    Foreign = Foreign
    s1 = s1
    s2 = s2
    o1 = o1
    o2 = o2
    o3 = o3
    Procs = {p1, p2}
    Sessions = {s1, s2}
    OpsOf <- OnePerSession
    AskStatus = TRUE
    MaxAttach = 2
    MaxSeq = 2
    MaxForeign = 0
    MaxExpiry = 0
    MaxFaults = 0
CHECK_DEADLOCK FALSE
PROPERTIES
    PendingResolved
