--------------------------- MODULE MetricMonitor ---------------------------
(***************************************************************************)
(* Metrics and the alerts of threshold rules: an agent takes a reading of  *)
(* every metric and posts it as one batch; the backend stores the batch    *)
(* sample by sample and after each evaluates the rules of that metric on   *)
(* the latest sample there is, which need not be the one just stored.      *)
(* Batches are delayed, repeated and overtaken, because a request that     *)
(* timed out goes on being served while the agent sends the next.  The     *)
(* alerting is AlertEvaluator; a target is a node.                         *)
(***************************************************************************)
EXTENDS Naturals, Sequences

CONSTANTS
    Rules, AlertIds, None, All,
    Nodes,     \* that an agent reports for
    Handlers,  \* goroutines that serve requests
    Batch,     \* the metrics in the order they are sent, each of a rule type
    Readings,  \* [Names -> Nat]s: what an agent may find
    Bars,      \* thresholds, positive
    MaxBatches, MaxUpsets \* bounds of the model: readings an agent takes, and
                          \* requests that overlap another or end in an error

Names == {Batch[i] : i \in DOMAIN Batch}

VARIABLES
    alerts, rules, events, notices, call, \* as in AlertEvaluator
    about,    \* [Rules -> About]: the metric of a rule and its threshold
    readings, \* [Nodes -> Seq(Readings)]: by observed_at
    stored,   \* [Nodes -> [Names -> SUBSET Nat]]: the readings in metric_samples
    task,     \* [Handlers -> Task]: the request being served
    sound,    \* SUBSET Nodes: see Begins, read by no action
    upsets    \* 0 .. MaxUpsets: how many are still to come

Evaluator == INSTANCE AlertEvaluator WITH Targets <- Nodes, Procs <- Handlers

evaluatorVars == <<alerts, rules, events, notices, call>>
metricVars == <<about, readings, stored>>
history == <<sound, upsets>>
vars == <<evaluatorVars, metricVars, task, history>>

Levels == {reading[name] : reading \in Readings, name \in Names}

About == [name : Names, bar : Bars]

\* at and turn are the reading and the place in its batch of the sample in
\* hand, turn 0 being that of a rule edit; level is the latest sample read,
\* todo the rules as they were listed, rest the nodes left to evaluate.
Task == [pc      : {"idle", "store", "latest", "list", "rules", "call",
                    "reconcile", "reconciling", "load", "evaluate"},
         node    : Nodes \cup {None},
         at      : 0 .. MaxBatches,
         turn    : 0 .. Len(Batch),
         name    : Names \cup {None},
         level   : Levels \cup {None},
         todo    : SUBSET (Rules \X Bars),
         rest    : SUBSET Nodes,
         rule    : Rules \cup {None},
         ruleRow : Evaluator!RuleRow \cup {None}]

NoTask == [pc |-> "idle", node |-> None, at |-> 0, turn |-> 0, name |-> None,
           level |-> None, todo |-> {}, rest |-> {}, rule |-> None, ruleRow |-> None]

TypeOK ==
    /\ Evaluator!TypeOK
    /\ about \in [Rules -> About \cup {None}]
    /\ readings \in [Nodes -> Seq(Readings)]
    /\ \A n \in Nodes : Len(readings[n]) <= MaxBatches
    /\ stored \in [Nodes -> [Names -> SUBSET Nat]]
    /\ \A n \in Nodes, name \in Names : stored[n][name] \subseteq DOMAIN readings[n]
    /\ task \in [Handlers -> Task]
    /\ sound \subseteq Nodes
    /\ upsets \in 0 .. MaxUpsets

Init ==
    /\ Evaluator!Init
    /\ rules = [r \in Rules |-> [state |-> "unborn", enabled |-> FALSE, scope |-> All]]
    /\ about = [r \in Rules |-> None]
    /\ readings = [n \in Nodes |-> <<>>]
    /\ stored = [n \in Nodes |-> [m \in Names |-> {}]]
    /\ task = [p \in Handlers |-> NoTask]
    /\ sound = Nodes
    /\ upsets = MaxUpsets

At(p, pc) == task[p].pc = pc
Continue(p, t) == task' = [task EXCEPT ![p] = t]

Settled == task = [p \in Handlers |-> NoTask]

\* A request that nothing overlaps leaves the nodes in still as they should
\* be and does not spoil the others; one that begins beside another may spoil all.
Upset == upsets > 0 /\ upsets' = upsets - 1 /\ sound' = {}
Begins(still) ==
    \/ Settled /\ sound' = sound \cup still /\ UNCHANGED upsets
    \/ ~Settled /\ Upset

-----------------------------------------------------------------------------
(* Samples.                                                                *)

\* Collect and BuildMetricsRequest: one clock, so observed_at increases.
Collect(n, reading) ==
    /\ Len(readings[n]) < MaxBatches
    /\ readings' = [readings EXCEPT ![n] = Append(@, reading)]
    /\ UNCHANGED <<evaluatorVars, about, stored, task, history>>

\* A batch arrives, for the first time or again, the newest or a late one.
Deliver(p, n, t) ==
    /\ At(p, "idle")
    /\ t \in DOMAIN readings[n]
    /\ Continue(p, [NoTask EXCEPT !.pc = "store", !.node = n, !.at = t, !.turn = 1])
    /\ Begins({n})
    /\ UNCHANGED <<evaluatorVars, metricVars>>

\* CreateMetricSample.
StoreSample(p) ==
    /\ At(p, "store")
    /\ LET t == task[p]
           name == Batch[t.turn]
       IN  /\ stored' = [stored EXCEPT ![t.node][name] = @ \cup {t.at}]
           /\ Continue(p, [t EXCEPT !.pc = "latest", !.name = name])
    /\ UNCHANGED <<evaluatorVars, about, readings, history>>

\* GetLatestNodeMetricSampleByName.  A sample that was stored twice has two
\* rows that agree.
Latest(n, name) ==
    IF stored[n][name] = {} THEN None
    ELSE LET t == CHOOSE i \in stored[n][name] : \A j \in stored[n][name] : i >= j
         IN  readings[n][t][name]

\* What is left when the rules are through: the next sample, the next node.
AfterRules(t) ==
    IF 0 < t.turn /\ t.turn < Len(Batch)
    THEN [NoTask EXCEPT !.pc = "store", !.node = t.node, !.at = t.at, !.turn = t.turn + 1]
    ELSE IF t.rest # {}
    THEN [NoTask EXCEPT !.pc = "evaluate", !.rest = t.rest, !.name = t.name]
    ELSE NoTask

\* Evaluating the sample in hand, if it is a sample that is stored.
ReadOwn(p) ==
    /\ At(p, "latest")
    /\ LET t == task[p]
           level == IF t.turn = 0 THEN Latest(t.node, t.name)
                    ELSE readings[t.node][t.at][t.name]
       IN  Continue(p, IF level = None THEN AfterRules(t)
                       ELSE [t EXCEPT !.pc = "list", !.level = level])
    /\ UNCHANGED <<evaluatorVars, metricVars, history>>

\* EvaluateMetricRules: no sample, nothing to evaluate ...
ReadLatest(p) ==
    /\ At(p, "latest")
    /\ LET t == task[p]
           level == Latest(t.node, t.name)
       IN  Continue(p, IF level = None THEN AfterRules(t)
                       ELSE [t EXCEPT !.pc = "list", !.level = level])
    /\ UNCHANGED <<evaluatorVars, metricVars, history>>

NextRule(t) == IF t.todo # {} THEN [t EXCEPT !.pc = "rules"] ELSE AfterRules(t)

\* ... ListEnabled, by rule type, metric and node ...
ListRules(p) ==
    /\ At(p, "list")
    /\ LET listed == {r \in Rules : /\ rules[r].state = "live"
                                    /\ rules[r].enabled
                                    /\ rules[r].scope \in {task[p].node, All}
                                    /\ about[r].name = task[p].name}
       IN  Continue(p, NextRule([task[p] EXCEPT
                          !.todo = {<<r, about[r].bar>> : r \in listed}]))
    /\ UNCHANGED <<evaluatorVars, metricVars, history>>

\* ... and the loop over them, on the thresholds as they were listed.
EvaluateRule(p) ==
    /\ At(p, "rules")
    /\ \E next \in task[p].todo :
          /\ Evaluator!Apply(p, next[1], task[p].node, task[p].level > next[2])
          /\ Continue(p, [task[p] EXCEPT !.pc = "call", !.todo = @ \ {next}])
    /\ UNCHANGED <<metricVars, history>>

\* An error ends the request: the samples left in the batch are not stored.
EndCall(p) ==
    /\ At(p, "call")
    /\ Continue(p, IF Evaluator!At(p, "failed") THEN NoTask ELSE NextRule(task[p]))
    /\ Evaluator!Return(p)
    /\ UNCHANGED <<metricVars, history>>

-----------------------------------------------------------------------------
(* Rule edits.                                                             *)

PutRule(r, row, ask) ==
    /\ Evaluator!PutRule(r, row)
    /\ about' = [about EXCEPT ![r] = ask]
    /\ UNCHANGED <<readings, stored>>
    /\ Begins({})

\* AlertRuleService.Create.
CreateRule(p, r, scope, ask) ==
    /\ At(p, "idle")
    /\ rules[r].state = "unborn"
    /\ LET row == [state |-> "live", enabled |-> TRUE, scope |-> scope] IN
         /\ PutRule(r, row, ask)
         /\ Continue(p, [NoTask EXCEPT !.pc = "load", !.rule = r, !.ruleRow = row])

\* AlertRuleService.Update: the metric stays ...
UpdateRule(p, r, scope, enabled, bar) ==
    /\ At(p, "idle")
    /\ rules[r].state = "live"
    /\ LET row == [state |-> "live", enabled |-> enabled, scope |-> scope] IN
         /\ PutRule(r, row, [about[r] EXCEPT !.bar = bar])
         /\ Continue(p, [NoTask EXCEPT !.pc = "reconcile", !.rule = r, !.ruleRow = row])

\* ... then ReconcileRule ...
ReconcileRule(p) ==
    /\ At(p, "reconcile")
    /\ Evaluator!Reconcile(p, task[p].rule, task[p].ruleRow)
    /\ Continue(p, [task[p] EXCEPT !.pc = "reconciling"])
    /\ UNCHANGED <<metricVars, history>>

\* ... then, if it is enabled, evaluateCurrentState.
EndReconcile(p) ==
    /\ At(p, "reconciling")
    /\ Continue(p, IF Evaluator!At(p, "done") /\ task[p].ruleRow.enabled
                   THEN [task[p] EXCEPT !.pc = "load"] ELSE NoTask)
    /\ Evaluator!Return(p)
    /\ UNCHANGED <<metricVars, history>>

\* nodesForRule, and the metric of the rule.
LoadNodes(p) ==
    /\ At(p, "load")
    /\ LET t == task[p] IN
         Continue(p, AfterRules([NoTask EXCEPT
            !.rest = IF t.ruleRow.scope = All THEN Nodes ELSE {t.ruleRow.scope},
            !.name = about[t.rule].name]))
    /\ UNCHANGED <<evaluatorVars, metricVars, history>>

\* The loop over them.
EvaluateNode(p) ==
    /\ At(p, "evaluate")
    /\ \E n \in task[p].rest :
          Continue(p, [task[p] EXCEPT !.pc = "latest", !.node = n, !.rest = @ \ {n}])
    /\ UNCHANGED <<evaluatorVars, metricVars, history>>

\* AlertRuleService.Delete is one statement.  A request that is about to raise
\* an alert of the rule ends there, with an error.
DeleteRule(r) ==
    /\ Evaluator!DropRule(r)
    /\ sound' = IF Settled THEN sound ELSE {}
    /\ UNCHANGED <<metricVars, task, upsets>>

-----------------------------------------------------------------------------
(* Failures: a statement outside the evaluator, and one inside.            *)

Abort(p) ==
    /\ task[p].pc \notin {"idle", "call", "reconciling"}
    /\ Continue(p, NoTask)
    /\ Upset
    /\ UNCHANGED <<evaluatorVars, metricVars>>

AbortCall(p) ==
    /\ task[p].pc \in {"call", "reconciling"}
    /\ Evaluator!Fail(p)
    /\ Upset
    /\ UNCHANGED <<metricVars, task>>

EvaluatorStep(p) ==
    /\ Evaluator!Step(p)
    /\ UNCHANGED <<metricVars, task, history>>

-----------------------------------------------------------------------------

Edit(p) ==
    \E r \in Rules, scope \in Nodes \cup {All}, bar \in Bars :
        \/ \E name \in Names : CreateRule(p, r, scope, [name |-> name, bar |-> bar])
        \/ \E enabled \in BOOLEAN : UpdateRule(p, r, scope, enabled, bar)

Begin ==
    \/ \E n \in Nodes, reading \in Readings : Collect(n, reading)
    \/ \E p \in Handlers :
          \/ \E n \in Nodes : \E t \in DOMAIN readings[n] : Deliver(p, n, t)
          \/ Edit(p)
    \/ \E r \in Rules : DeleteRule(r)

Work(p) ==
    \/ StoreSample(p) \/ ReadLatest(p)
    \/ ListRules(p) \/ EvaluateRule(p) \/ EndCall(p)
    \/ ReconcileRule(p) \/ EndReconcile(p) \/ LoadNodes(p) \/ EvaluateNode(p)
    \/ EvaluatorStep(p)

Break(p) == Abort(p) \/ AbortCall(p)

Next == Begin \/ \E p \in Handlers : Work(p) \/ Break(p)

Spec == Init /\ [][Next]_vars

-----------------------------------------------------------------------------

Watches(r, n) ==
    rules[r].state = "live" /\ rules[r].enabled /\ rules[r].scope \in {n, All}

Exceeds(r, n) ==
    Latest(n, about[r].name) # None /\ Latest(n, about[r].name) > about[r].bar

\* Evaluations that cross or break off leave alerts that are wrong.  One
\* batch that is served alone, even one that was sent long ago, repairs them
\* all: after it and any edits that follow one by one, a rule has an active
\* alert for a node exactly when the node's latest sample is over its
\* threshold.
AlertsTrackMetrics ==
    Settled => \A n \in sound, r \in Rules :
                  Watches(r, n) => (Evaluator!ActiveFor(r, n) # {} <=> Exceeds(r, n))
=============================================================================
