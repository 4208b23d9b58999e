SPECIFICATION Spec
CONSTANTS
    s1 = s1
    o1 = o1
    c1 = c1
    c2 = c2
    x1 = x1
    x2 = x2
    SessionWriters = {s1}
    OrdinaryWriters = {o1}
    Sweepers = {c1, c2}
    SessionBlock = {x1}
    OrdinaryBlock = {x2}
    Prompt = {x1}
    None = None
    MaxOwner = 3
    MaxVer = 3
    MaxFaults = 1
SYMMETRY Symmetric
CHECK_DEADLOCK FALSE
INVARIANTS
    TypeOK
    SweepExclusive
    ProtectedKept
    PublishedKept
    SweepOwned
PROPERTY OnlyPublicationMaps
