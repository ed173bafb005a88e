--------------------------- MODULE MCNodeRecovery ---------------------------
(* Four alert ids last for every behaviour of two upsets: no goroutine is   *)
(* ever held up for want of one.                                           *)
EXTENDS NodeRecovery
CONSTANTS r1, n1, p1, p2
MCRules == {r1}
MCNodes == {n1}
MCHandlers == {p1, p2}
MCAlertIds == 1 .. 4
=============================================================================
