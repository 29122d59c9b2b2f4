\* Uploads that nobody processes.
SPECIFICATION Spec
CONSTANTS
    Broken = Broken
    Keep = Keep
    Idle = Idle
    Batches <- MCBatches
    Statement <- MCStatement
    PatchLines = {Broken}
    PatchStatuses <- MCPatchStatuses
    UtcOffset <- MCBehindUtc
    Slots = {w1}
    MaxRequests = 0
    MaxCrashes = 1
PROPERTY UploadsAreProcessed
CHECK_DEADLOCK FALSE
