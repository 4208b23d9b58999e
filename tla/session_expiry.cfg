SPECIFICATION Spec
CONSTANTS
    None = None
    Foreign = Foreign
    s1 = s1
    s2 = s2
    o1 = o1
    o2 = o2
    o3 = o3
    Procs = {p1, p2}
    Sessions = {s1}
    OpsOf <- OneOperation
    AskStatus = TRUE
    MaxAttach = 2
    MaxSeq = 1
    MaxForeign = 1
    MaxExpiry = 1
    MaxFaults = 0
SYMMETRY Symmetric
CHECK_DEADLOCK FALSE
PROPERTIES
    ImplementsLog
