SPECIFICATION Spec
CONSTANTS
    u1 = u1
    q1 = q1
    q2 = q2
    r1 = r1
    r2 = r2
    p1 = p1
    None = None
    Users <- MCUsers
    Projects <- MCProjects
    Rows <- MCRows
    Handlers <- MCHandlers
INVARIANTS RowsShareProject LayersAgree
PROPERTIES AccessIsAuthorized RemovedStopWatching
