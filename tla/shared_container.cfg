SPECIFICATION Spec
CONSTANTS
    None = None
    Published0 <- HeaderPublished
    Dbs = {d1, d2}
    Pos = {0}
    Slots = {s1, s2, s3}
    Clients = {c1}
    Contents = {x, y}
    ContentNames = TRUE
    PollWhileWriting = FALSE
    LocalFaults = TRUE
    SlotFaults = FALSE
    Calls = {"read", "poll", "crash"}
    BatchLimit = 2
    StageWatermark = 4
    MaxGen = 4
    MaxSeq = 2
    MaxAttempt = 1
    MaxVersion = 2
SYMMETRY Symmetric
INVARIANTS
    DurablyRecoverable
PROPERTIES
    PublishesCurrent
