SPECIFICATION Spec
CONSTANTS
    None = None
    c1 = c1
    c2 = c2
    a = a
    b = b
    c = c
    e = e
    t = t
    u = u
    l = l
    main = main
    dev = dev
    Clients = {c1, c2}
    Chunks <- MCChunks
    Commits <- MCCommits
    Children <- MCChildren
    Branches = {main, dev}
    Default = main
    InitRefs <- MCInitRefs
    Pushes <- MCPushes
    MaxAttempts = 3
    MaxPushes = 3
    MaxGc = 1
SYMMETRY Symmetry
CHECK_DEADLOCK FALSE
INVARIANTS
    TypeOK
    RefsComplete
    ResumedIsWhole
PROPERTIES
    ReplacesWhatItSaw
