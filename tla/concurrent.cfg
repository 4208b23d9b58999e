SPECIFICATION Spec
CONSTANTS
    None = None
    Published0 <- HeaderPublished
    Dbs = {d1}
    Pos = {0, 1}
    Slots = {s1, s2}
    Clients = {c1, c2}
    Contents = {x, y}
    ContentNames = TRUE
    PollWhileWriting = FALSE
    LocalFaults = FALSE
    SlotFaults = FALSE
    Calls = {"read"}
    BatchLimit = 2
    StageWatermark = 2
    MaxGen = 3
    MaxSeq = 1
    MaxAttempt = 1
    MaxVersion = 0
SYMMETRY Symmetric
INVARIANTS
    CurrentBytes
    ReadReturnsCurrent
    PublishedComplete
