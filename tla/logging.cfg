SPECIFICATION Spec
CONSTANTS
    RingCapacity = 1
    KeepMessages = 2
    TrimCount = 1
    FileOpens = TRUE
    KeepFiles = 3
    OldLogs <- MCOldLogs
    LockedLogs <- MCLockedLogs
    Texts <- MCTexts
    Printed <- MCPrinted
    Searches <- MCSearches
    MaxViewers = 2
    MaxUses = 2
INVARIANTS KeepsTheNewest LogIsComplete ViewerFollowsLog
PROPERTIES ShutdownCompletes
CHECK_DEADLOCK FALSE
