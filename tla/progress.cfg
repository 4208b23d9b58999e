SPECIFICATION LiveSpec
CONSTANTS
    None = None
    Published0 <- HeaderPublished
    Dbs = {d1}
    Pos = {0, 1}
    Slots = {s1}
    Clients = {c1, c2}
    Contents = {x}
    ContentNames = FALSE
    PollWhileWriting = FALSE
    LocalFaults = TRUE
    SlotFaults = TRUE
    Calls = {"read", "poll"}
    BatchLimit = 2
    StageWatermark = 1
    MaxGen = 2
    MaxSeq = 1
    MaxAttempt = 1
    MaxVersion = 0
INVARIANTS
    StoredInv
PROPERTIES
    
    StateReleased
