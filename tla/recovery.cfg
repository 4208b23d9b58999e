SPECIFICATION Spec
CONSTANTS
    None = None
    Published0 <- HeaderPublished
    Dbs = {d1}
    Pos = {0, 1}
    Slots = {s1}
    Clients = {c1}
    Contents = {x, y}
    ContentNames = FALSE
    PollWhileWriting = FALSE
    LocalFaults = TRUE
    SlotFaults = FALSE
    Calls = {"read", "poll", "crash"}
    BatchLimit = 2
    StageWatermark = 1
    MaxGen = 3
    MaxSeq = 2
    MaxAttempt = 2
    MaxVersion = 1
SYMMETRY Symmetric
INVARIANTS
    TypeOK
    CurrentBytes
    DurablyRecoverable
