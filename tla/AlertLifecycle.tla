--------------------------- MODULE AlertLifecycle ---------------------------
(***************************************************************************)
(* What the alerting half of the backend promises, whoever evaluates a     *)
(* rule and however evaluations interleave: an incident opens at most once *)
(* per rule and target at a time, ends at most once and for good, and each *)
(* turn of it is written to the event log, and sent to recipients, at most *)
(* once and only after it has happened.  No processes and no order of      *)
(* evaluation here: AlertEvaluator is shown to implement this.             *)
(***************************************************************************)
EXTENDS AlertStore

VARIABLES
    events,  \* [AlertIds -> [EventKinds -> Nat]]: rows of app.events
    notices  \* [AlertIds -> [NoticeKinds -> Nat]]: rounds of e-mail sent

lifecycleVars == <<alerts, events, notices>>

EventKinds == {"triggered", "resolved", "closed"}
NoticeKinds == {"triggered", "resolved"}

LedgersTypeOK ==
    /\ events \in [AlertIds -> [EventKinds -> Nat]]
    /\ notices \in [AlertIds -> [NoticeKinds -> Nat]]

TypeOK == AlertsTypeOK /\ LedgersTypeOK

Init ==
    /\ alerts = [a \in AlertIds |-> NoRow]
    /\ events = [a \in AlertIds |-> [k \in EventKinds |-> 0]]
    /\ notices = [a \in AlertIds |-> [k \in NoticeKinds |-> 0]]

Open(a, r, t) ==
    /\ InsertActive(a, r, t)
    /\ UNCHANGED <<events, notices>>

Resolve(a) ==
    /\ MarkResolved(a)
    /\ UNCHANGED <<events, notices>>

Close(a, why) ==
    /\ MarkClosed(a, why)
    /\ UNCHANGED <<events, notices>>

Purge(r) ==
    /\ DropAlertsOf(r)
    /\ UNCHANGED <<events, notices>>

\* The statuses an incident can have when its turn k has happened.
StatusesAfter(k) ==
    CASE k = "triggered" -> {"active", "resolved", "closed", "deleted"}
      [] k = "resolved"  -> {"resolved", "deleted"}
      [] k = "closed"    -> {"closed", "deleted"}

Record(a, k) ==
    /\ alerts[a].status \in StatusesAfter(k)
    /\ events[a][k] = 0
    /\ k = "resolved" => events[a]["closed"] = 0
    /\ k = "closed" => events[a]["resolved"] = 0
    /\ events' = [events EXCEPT ![a][k] = 1]
    /\ UNCHANGED <<alerts, notices>>

Send(a, k) ==
    /\ events[a][k] = 1
    /\ notices[a][k] = 0
    /\ notices' = [notices EXCEPT ![a][k] = 1]
    /\ UNCHANGED <<alerts, events>>

Next ==
    \/ \E a \in AlertIds, r \in Rules, t \in Targets : Open(a, r, t)
    \/ \E a \in AlertIds : Resolve(a)
    \/ \E a \in AlertIds, why \in ClosureReasons : Close(a, why)
    \/ \E r \in Rules : Purge(r)
    \/ \E a \in AlertIds, k \in EventKinds : Record(a, k)
    \/ \E a \in AlertIds, k \in NoticeKinds : Send(a, k)

Spec == Init /\ [][Next]_lifecycleVars

-----------------------------------------------------------------------------

\* Recipients are told of a turn only if it is in the event log, once, and
\* nobody reads both "resolved" and "closed" about one incident.
LedgersAgree ==
    \A a \in AlertIds :
        /\ \A k \in NoticeKinds : notices[a][k] <= events[a][k]
        /\ \A k \in EventKinds :
              /\ events[a][k] <= 1
              /\ events[a][k] = 1 => alerts[a].status \in StatusesAfter(k)
        /\ events[a]["resolved"] + events[a]["closed"] <= 1

\* An incident that has ended stays ended, for the reason first given: no
\* later evaluation reopens it or turns "resolved" into "closed".
EndedForGood ==
    [][\A a \in AlertIds :
          alerts[a].status \in {"resolved", "closed", "deleted"} =>
              \/ alerts'[a] = alerts[a]
              \/ alerts'[a].status = "deleted"]_lifecycleVars
=============================================================================
