SPECIFICATION Spec
CONSTANTS
    None = None
    Foreign = Foreign
    s1 = s1
    s2 = s2
    o1 = o1
    o2 = o2
    o3 = o3
    Procs = {p1, p2}
    Sessions = {s1, s2}
    OpsOf <- TwoSessions
    AskStatus = TRUE
    MaxAttach = 2
    MaxSeq = 2
    MaxForeign = 0
    MaxExpiry = 0
    MaxFaults = 1
SYMMETRY Symmetric
CHECK_DEADLOCK FALSE
INVARIANTS
    TypeOK
    CommittedIsPublished
    PendingRecoverable
PROPERTIES
    HeadExtends
    ImplementsLog
