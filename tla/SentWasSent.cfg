SPECIFICATION RecoverySpec
CONSTANTS
    p1 = p1
    p2 = p2
    own = own
    other = other
    desk = desk
    None = None
    Senders = {own, other}
    Own = own
    Targets = {desk}
    Desk = desk
    Severities = {1, 2}
    MaxUpsets = 2
    MaxRecipients = 4
    MaxNotices = 1
    Notices <- MCNotices
    RecipientIds <- MCRecipientIds
    Handlers <- MCHandlers
    Env <- NoEnv
INVARIANT SentWasSent
CHECK_DEADLOCK FALSE
