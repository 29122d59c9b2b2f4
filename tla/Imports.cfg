\* Two batches, overlapping reviews, a worker that dies once.
SPECIFICATION Spec
CONSTANTS
    Broken = Broken
    Keep = Keep
    Idle = Idle
    Batches <- MCBatches
    Statement <- MCStatement
    PatchLines = {Broken}
    PatchStatuses <- MCPatchStatuses
    UtcOffset <- MCBehindUtc
    Slots = {w1, w2}
    MaxRequests = 2
    MaxCrashes = 1
INVARIANTS
    TypeOK
    NothingDropped
    ImportedOnce
    CountsExact
PROPERTIES
    ReimportIsFlagged
SYMMETRY SlotSymmetry
CHECK_DEADLOCK FALSE
