\* A user in a time zone ahead of UTC.
SPECIFICATION Spec
CONSTANTS
    Broken = Broken
    Keep = Keep
    Idle = Idle
    Batches <- MCBatches
    Statement <- MCStatement
    PatchLines = {Broken}
    PatchStatuses <- MCPatchStatuses
    UtcOffset <- MCAheadOfUtc
    Slots = {w1}
    MaxRequests = 2
    MaxCrashes = 1
PROPERTY ReimportIsFlagged
CHECK_DEADLOCK FALSE
