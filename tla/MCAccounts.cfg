SPECIFICATION RecoverySpec
CONSTANTS
    p1 = p1
    p2 = p2
    u1 = u1
    u2 = u2
    None = None
    Users = {u1, u2}
    Bystander = u2
    MaxUpsets = 3
    MaxSessions = 6
    MaxTokens = 5
    Handlers <- MCHandlers
    SessionIds <- MCSessionIds
    TokenIds <- MCTokenIds
INVARIANT ResetRevokes
PROPERTIES LinksAreSpentOnce SessionsEndByTheirUser UsersGetIn
CHECK_DEADLOCK FALSE
