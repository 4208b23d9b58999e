SPECIFICATION Spec
CONSTANTS
    None = None
    Published0 <- HeaderPublished
    Dbs = {d1}
    Pos = {0, 1}
    Slots = {s1, s2}
    Clients = {c1}
    Contents = {x, y}
    ContentNames = TRUE
    PollWhileWriting = FALSE
    LocalFaults = TRUE
    SlotFaults = FALSE
    Calls = {"read", "truncate", "revert", "crash"}
    BatchLimit = 2
    StageWatermark = 2
    MaxGen = 3
    MaxSeq = 2
    MaxAttempt = 2
    MaxVersion = 0
SYMMETRY Symmetric
INVARIANTS
    DurablyRecoverable
    DeleteListSafe
PROPERTIES
    PublishedStable
