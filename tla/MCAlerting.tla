----------------------------- MODULE MCAlerting -----------------------------
(* Two services and one rule, one request at a time; two metrics of a node *)
(* that never agree on which is high, one rule, and two requests of which  *)
(* one may overlap the other or break off; three alerts of two rules, of   *)
(* which a page shows one.  events and notices are written but never read, *)
(* no property of this run is about them, nor are the reasons of closing   *)
(* about the pages: states that differ in them alone are taken as one.     *)
EXTENDS Alerting, TLC
CONSTANTS r1, r2, s1, s2, p1, p2, n1, cpu, memory
MCRules == {r1}
MCServices == {s1, s2}
MCHandlers == {p1}
MCAlertIds == 1 .. 2

MCMetricHandlers == {p1, p2}
MCNodes == {n1}
MCBatch == <<cpu, memory>>
MCReadings == {(cpu :> 1) @@ (memory :> 2), (cpu :> 2) @@ (memory :> 1)}
MCBars == 1 .. 2

MCPageRules == {r1, r2}
MCPageTargets == {n1}
MCPageAlertIds == 1 .. 3
MCTimes == 1 .. 2

View ==
    <<topic,
      IF topic = "pages" THEN [a \in PageAlertIds |-> <<alerts[a].status, alerts[a].rule>>]
      ELSE alerts,
      rules, call, serviceVars, task, metricVars, pageVars>>
=============================================================================
