SPECIFICATION RecoverySpec
CONSTANTS
    r1 = r1
    s1 = s1
    p1 = p1
    p2 = p2
    None = None
    All = All
    MaxUpsets = 2
    Rules <- MCRules
    Services <- MCServices
    Handlers <- MCHandlers
    AlertIds <- MCAlertIds
INVARIANT AlertsAreEarned
PROPERTIES OutagesAlert RecoveriesResolve
VIEW View
