SPECIFICATION SerialSpec
CONSTANTS
    r1 = r1
    n1 = n1
    n2 = n2
    p1 = p1
    Job = job
    None = None
    All = All
    TTL = 1
    Rules <- MCRules
    Targets <- MCNodes
    Visible <- MCVisible
    Handlers <- MCHandlers
    AlertIds <- MCAlertIds
INVARIANTS AlertsTrackNodes NoStrayAlerts LogTracksNodes
PROPERTY NoFalseRecovery
