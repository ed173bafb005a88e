SPECIFICATION Spec
CONSTANTS
    p1 = p1
    p2 = p2
    None = None
    MaxChecks = 2
    RetryCount = 1
    Limit = 1
    Handlers <- MCHandlers
    Ids <- MCIds
INVARIANTS StreamMissesOnlyOvertaken HistoryIsExact ChecksAreCountedByAttempt
PROPERTY ViewersSeeLatest
CHECK_DEADLOCK FALSE
