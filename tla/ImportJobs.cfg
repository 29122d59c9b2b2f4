\* Jobs to their end, with a worker that dies twice.
SPECIFICATION Spec
CONSTANTS
    Broken = Broken
    Keep = Keep
    Idle = Idle
    Batches <- MCBatches
    Statement <- MCStatement
    PatchLines = {Broken}
    PatchStatuses <- MCPatchStatuses
    UtcOffset <- MCBehindUtc
    Slots = {w1}
    MaxRequests = 1
    MaxCrashes = 2
PROPERTY TakenBatchesFinish
CHECK_DEADLOCK FALSE
