-------------------------- MODULE MCServiceRecovery --------------------------
(* Each outage and recovery of two, with errors or updates in place of     *)
(* either, and two results in flight all along.  Results that cross end an *)
(* alert and raise it again several times; fifteen ids last for every      *)
(* behaviour, so no goroutine is held up for want of one.  What is written *)
(* but never read by an action, and not by the properties of this run,     *)
(* does not tell states apart.                                             *)
EXTENDS ServiceRecovery
CONSTANTS r1, s1, p1, p2
MCRules == {r1}
MCServices == {s1}
MCHandlers == {p1, p2}
MCAlertIds == 1 .. 15
View == <<alerts, rules, call, service, failed, task, up, upsets>>
=============================================================================
