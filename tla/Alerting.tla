------------------------------ MODULE Alerting ------------------------------
(***************************************************************************)
(* The alerts of services, those of metrics and the pages they are read    *)
(* on.  Rules are listed by their type and alerts looked up by their rule, *)
(* so requests about rules of different types touch different rows, and    *)
(* the pages only read: what holds of each by itself holds of all side by  *)
(* side.  A behaviour is therefore about one of the three, chosen at the   *)
(* beginning, and the variables of the others are not used.                *)
(***************************************************************************)
EXTENDS ServiceMonitor

CONSTANTS
    MetricHandlers, Nodes, Batch, Readings, Bars, MaxBatches, MaxSpoilt, \* as in MetricMonitor
    PageRules, PageTargets, PageAlertIds, Times, Limit                   \* as in AlertPages

ASSUME AlertingAssumption ==
    /\ None \notin Nodes /\ All \notin Nodes /\ None \notin Nat
    /\ MetricHandlers # {}
    /\ Batch \in Seq({Batch[i] : i \in DOMAIN Batch}) /\ Batch # <<>>
    /\ Readings \subseteq [{Batch[i] : i \in DOMAIN Batch} -> Nat]
    /\ Bars \subseteq Nat \ {0}
    /\ MaxBatches \in Nat /\ MaxSpoilt \in Nat
    /\ PageAlertIds \subseteq Nat
    /\ None \notin PageRules \cup PageTargets \cup (Times \X PageAlertIds)
    /\ All \notin PageTargets
    /\ Times \subseteq Nat
    /\ Limit \in Nat \ {0}

VARIABLES
    topic,                                    \* "services", "metrics" or "pages"
    about, readings, stored, errand, sound, spoilt, \* as in MetricMonitor
    triggered, reader                         \* as in AlertPages

metricVars == <<about, readings, stored, errand, sound, spoilt>>
pageVars == <<triggered, reader>>
ledgerVars == <<rules, events, notices, call>>
alertingVars == <<vars, topic, metricVars, pageVars>>

\* AlertRuleService and the alert tables as MetricMonitor has them.
Metrics == INSTANCE MetricMonitor WITH
    Handlers <- MetricHandlers, MaxUpsets <- MaxSpoilt, task <- errand, upsets <- spoilt

Pages == INSTANCE AlertPages WITH
    Rules <- PageRules, Targets <- PageTargets, AlertIds <- PageAlertIds

NoServices ==
    /\ service = None /\ recent = None /\ failed = None /\ logged = None
    /\ task = None
NoMetrics ==
    /\ about = None /\ readings = None /\ stored = None
    /\ errand = None /\ sound = None /\ spoilt = None
NoPages == triggered = None /\ reader = None
NoLedgers == rules = None /\ events = None /\ notices = None /\ call = None

AlertingInit ==
    \/ topic = "services" /\ Init /\ NoMetrics /\ NoPages
    \/ topic = "metrics" /\ Metrics!Init /\ NoServices /\ NoPages
    \/ topic = "pages" /\ Pages!Init /\ NoLedgers /\ NoServices /\ NoMetrics

AlertingNext ==
    /\ UNCHANGED topic
    /\ \/ /\ topic = "services"
          /\ SerialNext
          /\ UNCHANGED <<metricVars, pageVars>>
       \/ /\ topic = "metrics"
          /\ Metrics!Next
          /\ UNCHANGED <<serviceVars, task, pageVars>>
       \/ /\ topic = "pages"
          /\ Pages!Next
          /\ UNCHANGED <<ledgerVars, serviceVars, task, metricVars>>

AlertingSpec == AlertingInit /\ [][AlertingNext]_alertingVars

-----------------------------------------------------------------------------

\* calculateServiceState and the event log follow the stored results: see
\* ServiceMonitor.
ServicesTellResults == topic = "services" => StateTellsResults

\* A rule has an active alert for a service exactly when the service it
\* watches is unhealthy: see ServiceMonitor.
ServiceAlertsTrack == topic = "services" => AlertsTrackServices

\* One batch of samples served alone repairs the alerts of its node: see
\* MetricMonitor.
MetricAlertsTrack == topic = "metrics" => Metrics!AlertsTrackMetrics

\* The active list and the pages of the history together show every alert:
\* see AlertPages.
PagesShowAll == topic = "pages" => Pages!NoAlertIsLost
=============================================================================
