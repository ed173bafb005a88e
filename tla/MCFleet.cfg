SPECIFICATION Spec
CONSTANTS
    n1 = n1
    a1 = a1
    s1 = s1
    s2 = s2
    p1 = p1
    p2 = p2
    http1 = http1
    http2 = http2
    tcp = tcp
    None = None
    Capacity = 1
    MaxUpsets = 5
    Nodes <- MCNodes
    Agents <- MCAgents
    Services <- MCServices
    Handlers <- MCHandlers
    Checks <- MCChecks
    Supported <- MCSupported
PROPERTIES DeletionSparesWhatWasThere AgentsCatchUp RetiredAgentsFallSilent
CHECK_DEADLOCK FALSE
