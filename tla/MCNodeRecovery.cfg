SPECIFICATION RecoverySpec
CONSTANTS
    r1 = r1
    n1 = n1
    p1 = p1
    p2 = p2
    Job = job
    None = None
    All = All
    TTL = 1
    MaxUpsets = 2
    Rules <- MCRules
    Targets <- MCNodes
    Visible <- MCNodes
    Handlers <- MCHandlers
    AlertIds <- MCAlertIds
INVARIANTS TypeOK LedgersAgree
PROPERTIES LiveNodesRecover DeadNodesExpire EndedForGood
