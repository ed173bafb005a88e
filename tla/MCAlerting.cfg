SPECIFICATION AlertingSpec
CONSTANTS
    r1 = r1
    r2 = r2
    s1 = s1
    s2 = s2
    p1 = p1
    p2 = p2
    n1 = n1
    cpu = cpu
    memory = memory
    None = None
    All = All
    MaxBatches = 2
    MaxSpoilt = 1
    Limit = 1
    Rules <- MCRules
    Services <- MCServices
    Handlers <- MCHandlers
    AlertIds <- MCAlertIds
    MetricHandlers <- MCMetricHandlers
    Nodes <- MCNodes
    Batch <- MCBatch
    Readings <- MCReadings
    Bars <- MCBars
    PageRules <- MCPageRules
    PageTargets <- MCPageTargets
    PageAlertIds <- MCPageAlertIds
    Times <- MCTimes
INVARIANTS ServicesTellResults ServiceAlertsTrack MetricAlertsTrack PagesShowAll
CHECK_DEADLOCK FALSE
VIEW View
