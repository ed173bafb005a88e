------------------------ MODULE MCNodeMonitorSerial ------------------------
EXTENDS NodeMonitor
CONSTANTS r1, n1, n2, p1
MCRules == {r1}
MCNodes == {n1, n2}
MCVisible == {n1}
MCHandlers == {p1}
MCAlertIds == 1 .. 2
=============================================================================
