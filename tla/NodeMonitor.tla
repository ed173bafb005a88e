---------------------------- MODULE NodeMonitor ----------------------------
(***************************************************************************)
(* Node liveness and node_offline alerts: agents send heartbeats and a     *)
(* shutdown notice, a job expires silent nodes, users edit rules.  Every   *)
(* one of these reads and writes the database in separate transactions,    *)
(* so handlers run as sequences of steps that interleave.  The alerting    *)
(* they end in is AlertEvaluator, which this module is shown to implement. *)
(***************************************************************************)
EXTENDS AlertConstants

CONSTANTS
    Visible,  \* the nodes with is_visible: the managed node is not
    Handlers, \* goroutines that serve requests
    Job,      \* the goroutine of NodeExpiryJob
    TTL       \* heartbeatTTL, in ticks

Nodes == Targets \* the monitored nodes of a project

ASSUME MonitorAssumption ==
    /\ Visible \subseteq Nodes
    /\ TTL \in Nat \ {0}
    /\ Job \notin Handlers
    /\ None \notin Nat

Procs == Handlers \cup {Job}

VARIABLES
    alerts, rules, events, notices, call, \* as in AlertEvaluator
    nodeState, \* [Nodes -> NodeStates]: nodes.current_state
    silence,   \* [Nodes -> Ages]: time since nodes.last_heartbeat_at
    logged,    \* [Nodes -> NodeStates]: what the last node event says
    task       \* [Procs -> Task]: the request or job run being handled

nodeVars == <<nodeState, silence, logged>>

Evaluator == INSTANCE AlertEvaluator

evaluatorVars == <<alerts, rules, events, notices, call>>
vars == <<evaluatorVars, nodeVars, task>>

NodeStates == {"online", "offline"}

\* Ages are counted up to TTL + 1, which stands for all that is longer ago.
Ages == 0 .. TTL + 1

Older(age) == IF age \in 0 .. TTL THEN age + 1 ELSE age

\* A task names the statement its goroutine executes next, and holds what
\* it has read: node and state are the row it evaluates, rest the rows it
\* still has to.
Task == [pc    : {"idle", "touch", "set", "list", "rules", "call", "log",
                  "expire", "reconcile", "reconciling", "load", "evaluate"},
         node  : Nodes \cup {None},
         state : NodeStates \cup {None},
         age   : Ages \cup {None},      \* of the heartbeat's observed_at
         log   : BOOLEAN,               \* a node event is to be written
         todo  : SUBSET (Rules \X BOOLEAN), \* rules listed; is each for all?
         rest  : SUBSET (Nodes \X NodeStates),
         rule  : Rules \cup {None},
         row   : Evaluator!RuleRow \cup {None}]

NoTask == [pc |-> "idle", node |-> None, state |-> None, age |-> None,
           log |-> FALSE, todo |-> {}, rest |-> {}, rule |-> None, row |-> None]

\* What the statement a task is at needs of it.
TaskOK(t) ==
    /\ t.pc \in {"touch", "set", "list", "rules", "call", "log"}
          => t.node \in Nodes /\ t.state \in NodeStates
    /\ t.pc = "touch" => t.age \in Ages
    /\ t.pc \in {"reconcile", "reconciling", "load"}
          => t.rule \in Rules /\ t.row \in Evaluator!RuleRow

MonitorTypeOK ==
    /\ nodeState \in [Nodes -> NodeStates]
    /\ silence \in [Nodes -> Ages \cup {None}]
    /\ logged \in [Nodes -> NodeStates]
    /\ task \in [Procs -> Task]
    /\ \A p \in Procs : TaskOK(task[p])

TypeOK == Evaluator!TypeOK /\ MonitorTypeOK

\* A new installation: CreateNode inserts nodes 'offline', without heartbeat.
Init ==
    /\ Evaluator!Init
    /\ rules = [r \in Rules |-> [state |-> "unborn", enabled |-> FALSE, scope |-> All]]
    /\ nodeState = [n \in Nodes |-> "offline"]
    /\ silence = [n \in Nodes |-> None]
    /\ logged = [n \in Nodes |-> "offline"]
    /\ task = [p \in Procs |-> NoTask]

-----------------------------------------------------------------------------

At(p, pc) == task[p].pc = pc
Continue(p, t) == task' = [task EXCEPT ![p] = t]

\* The work left when t is through with its node, and with its rules.
NextNode(p, t) ==
    IF t.rest = {} THEN NoTask
    ELSE [NoTask EXCEPT !.pc = IF p = Job THEN "expire" ELSE "evaluate",
                        !.rest = t.rest]

\* Returning early when no rule is left to apply.
NextRuleUnlogged(p, t) ==
    IF t.todo # {} THEN [t EXCEPT !.pc = "rules"] ELSE NextNode(p, t)

NextRule(p, t) ==
    IF t.todo # {} THEN [t EXCEPT !.pc = "rules"]
    ELSE IF t.log THEN [t EXCEPT !.pc = "log"]
    ELSE NextNode(p, t)

\* An error ends a request; the job logs it and takes the next node.
GiveUp(p, t) == IF p = Job THEN NextNode(p, t) ELSE NoTask

(* Agents.                                                                 *)

\* IngestHeartbeat up to GetByID in MarkOnlineFromHeartbeat; the request
\* was stamped age ticks ago.
Heartbeat(p, n, age) ==
    /\ At(p, "idle")
    /\ Continue(p, [NoTask EXCEPT !.pc = "touch", !.node = n,
                                  !.state = nodeState[n], !.age = age])
    /\ UNCHANGED <<evaluatorVars, nodeVars>>

\* Evaluating transitions only.
TouchQuietly(p) ==
    /\ At(p, "touch")
    /\ LET t == task[p] IN
         /\ silence' = [silence EXCEPT ![t.node] = t.age]
         /\ Continue(p, IF t.state = "online" THEN NoTask
                        ELSE [t EXCEPT !.pc = "set", !.state = "online", !.age = None])
    /\ UNCHANGED <<evaluatorVars, nodeState, logged>>

\* TouchHeartbeat.  A node read as online is evaluated as the row returned.
Touch(p) ==
    /\ At(p, "touch")
    /\ LET t == task[p] IN
         /\ silence' = [silence EXCEPT ![t.node] = t.age]
         /\ Continue(p, [t EXCEPT
               !.pc = IF t.state = "online" THEN "list" ELSE "set",
               !.state = IF t.state = "online" THEN nodeState[t.node] ELSE "online",
               !.age = None])
    /\ UNCHANGED <<evaluatorVars, nodeState, logged>>

\* With an empty state.
ShutdownStateless(p, n) ==
    /\ At(p, "idle")
    /\ nodeState[n] = "online"
    /\ Continue(p, [NoTask EXCEPT !.pc = "set", !.node = n])
    /\ UNCHANGED <<evaluatorVars, nodeVars>>

\* IngestShutdown: MarkOfflineFromShutdown on a node it reads as online.
Shutdown(p, n) ==
    /\ At(p, "idle")
    /\ nodeState[n] = "online"
    /\ Continue(p, [NoTask EXCEPT !.pc = "set", !.node = n, !.state = "offline"])
    /\ UNCHANGED <<evaluatorVars, nodeVars>>

(* The expiry job.                                                         *)

\* last_heartbeat_at IS NULL.
StaleUnseen(n) ==
    nodeState[n] = "online" /\ silence[n] = None

Stale(n) ==
    nodeState[n] = "online" /\ silence[n] # None /\ silence[n] > TTL

\* runOnce: ListStaleOnline with the cutoff of this run.
RunExpiry ==
    /\ At(Job, "idle")
    /\ \E n \in Nodes : Stale(n)
    /\ Continue(Job, [NoTask EXCEPT !.pc = "expire",
          !.rest = {<<n, nodeState[n]>> : n \in {m \in Nodes : Stale(m)}}])
    /\ UNCHANGED <<evaluatorVars, nodeVars>>

(* Node state transitions and the evaluation that follows.                 *)

\* UpdateState in transitionNodeState, unconditional.
SetNodeState(p, t) ==
    /\ nodeState' = [nodeState EXCEPT ![t.node] = t.state]
    /\ Continue(p, [t EXCEPT !.pc = "list", !.log = TRUE])
    /\ UNCHANGED <<evaluatorVars, silence, logged>>

SetState(p) == At(p, "set") /\ SetNodeState(p, task[p])

\* MarkOfflineIfStale judges the row as it was listed.
Expire(p) ==
    /\ At(p, "expire")
    /\ \E row \in task[p].rest :
          SetNodeState(p, [task[p] EXCEPT !.node = row[1], !.state = "offline",
                                          !.rest = @ \ {row}])

\* ListEnabled.
Listed(n) ==
    {<<r, rules[r].scope = All>> :
        r \in {q \in Rules : /\ rules[q].state = "live"
                             /\ rules[q].enabled
                             /\ rules[q].scope \in {n, All}}}

\* EvaluateNodeRules, up to ListEnabled, on a row in hand.
ListRules(p) ==
    /\ At(p, "list")
    /\ Continue(p, NextRule(p, [task[p] EXCEPT !.todo = Listed(task[p].node)]))
    /\ UNCHANGED <<evaluatorVars, nodeVars>>

\* The body of its loop: one rule is applied, or closed for a hidden node.
EvaluateRule(p) ==
    /\ At(p, "rules")
    /\ \E r \in Rules, global \in BOOLEAN :
          /\ <<r, global>> \in task[p].todo
          /\ IF global /\ task[p].node \notin Visible
             THEN Evaluator!CloseForTarget(p, r, task[p].node)
             ELSE Evaluator!Apply(p, r, task[p].node, task[p].state = "offline")
          /\ Continue(p, [task[p] EXCEPT !.pc = "call", !.todo = @ \ {<<r, global>>}])
    /\ UNCHANGED nodeVars

\* The evaluator returns to it, with or without an error.
EndCall(p) ==
    /\ At(p, "call")
    /\ Continue(p, IF Evaluator!At(p, "failed") THEN GiveUp(p, task[p])
                   ELSE NextRule(p, task[p]))
    /\ Evaluator!Return(p)
    /\ UNCHANGED nodeVars

\* CreateNodeStateChange.
LogState(p) ==
    /\ At(p, "log")
    /\ logged' = [logged EXCEPT ![task[p].node] = task[p].state]
    /\ Continue(p, NextNode(p, task[p]))
    /\ UNCHANGED <<evaluatorVars, nodeState, silence>>

(* Rule edits.                                                             *)

\* AlertRuleService.Create.
CreateRule(p, r, scope) ==
    /\ At(p, "idle")
    /\ rules[r].state = "unborn"
    /\ LET row == [state |-> "live", enabled |-> TRUE, scope |-> scope] IN
         /\ Evaluator!PutRule(r, row)
         /\ Continue(p, [NoTask EXCEPT !.pc = "load", !.rule = r, !.row = row])
    /\ UNCHANGED nodeVars

\* AlertRuleService.Update: fields not given keep their value, which is one
\* of the choices here.
UpdateRule(p, r, enabled, scope) ==
    /\ At(p, "idle")
    /\ rules[r].state = "live"
    /\ LET row == [state |-> "live", enabled |-> enabled, scope |-> scope] IN
         /\ Evaluator!PutRule(r, row)
         /\ Continue(p, [NoTask EXCEPT !.pc = "reconcile", !.rule = r, !.row = row])
    /\ UNCHANGED nodeVars

\* ... then ReconcileRule on the row returned by the update ...
ReconcileRule(p) ==
    /\ At(p, "reconcile")
    /\ Evaluator!Reconcile(p, task[p].rule, task[p].row)
    /\ Continue(p, [task[p] EXCEPT !.pc = "reconciling"])
    /\ UNCHANGED nodeVars

\* Without evaluateCurrentState.
EndReconcileOnly(p) ==
    /\ At(p, "reconciling")
    /\ Continue(p, NoTask)
    /\ Evaluator!Return(p)
    /\ UNCHANGED nodeVars

\* ... then, if it is enabled, evaluateCurrentState.
EndReconcile(p) ==
    /\ At(p, "reconciling")
    /\ Continue(p, IF Evaluator!At(p, "done") /\ task[p].row.enabled
                   THEN [task[p] EXCEPT !.pc = "load"] ELSE NoTask)
    /\ Evaluator!Return(p)
    /\ UNCHANGED nodeVars

\* nodesForRule.
LoadNodes(p) ==
    /\ At(p, "load")
    /\ LET scope == task[p].row.scope
           found == IF scope = All THEN Visible ELSE {scope}
       IN  Continue(p, NextNode(p, [NoTask EXCEPT
                          !.rest = {<<n, nodeState[n]>> : n \in found}]))
    /\ UNCHANGED <<evaluatorVars, nodeVars>>

\* The loop over them: EvaluateNodeRules on the row as it was loaded.
EvaluateNode(p) ==
    /\ At(p, "evaluate")
    /\ \E row \in task[p].rest :
          Continue(p, NextRule(p, [task[p] EXCEPT
             !.node = row[1], !.state = row[2], !.rest = @ \ {row},
             !.todo = Listed(row[1])]))
    /\ UNCHANGED <<evaluatorVars, nodeVars>>

\* AlertRuleService.Delete is one statement.
DeleteRule(r) ==
    /\ Evaluator!DropRule(r)
    /\ UNCHANGED <<nodeVars, task>>

(* Time and failures.                                                      *)

\* Time passes for the nodes and for the heartbeats in flight.
Tick ==
    /\ silence' = [n \in Nodes |-> Older(silence[n])]
    /\ task' = [p \in Procs |-> [task[p] EXCEPT !.age = Older(@)]]
    /\ UNCHANGED <<evaluatorVars, nodeState, logged>>

\* A statement outside the evaluator fails.
Abort(p) ==
    /\ task[p].pc \notin {"idle", "call", "reconciling", "expire"}
    /\ Continue(p, GiveUp(p, task[p]))
    /\ UNCHANGED <<evaluatorVars, nodeVars>>

\* UpdateState fails for one of the nodes to expire.
SkipNode(p) ==
    /\ At(p, "expire")
    /\ \E row \in task[p].rest :
          Continue(p, NextNode(p, [task[p] EXCEPT !.rest = @ \ {row}]))
    /\ UNCHANGED <<evaluatorVars, nodeVars>>

\* A statement inside the evaluator fails.
AbortCall(p) ==
    /\ task[p].pc \in {"call", "reconciling"}
    /\ Evaluator!Fail(p)
    /\ UNCHANGED <<nodeVars, task>>

EvaluatorStep(p) ==
    /\ Evaluator!Step(p)
    /\ UNCHANGED <<nodeVars, task>>

-----------------------------------------------------------------------------

\* Requests and job runs begin ...
Agent(p) ==
    \/ \E n \in Nodes, age \in Ages : Heartbeat(p, n, age)
    \/ \E n \in Nodes : Shutdown(p, n)

Edit(p) ==
    \E r \in Rules, scope \in Nodes \cup {All} :
        \/ CreateRule(p, r, scope)
        \/ \E enabled \in BOOLEAN : UpdateRule(p, r, enabled, scope)

Begin ==
    \/ \E p \in Handlers : Agent(p) \/ Edit(p)
    \/ RunExpiry
    \/ \E r \in Rules : DeleteRule(r)

\* ... go on ...
Work(p) ==
    \/ Touch(p) \/ SetState(p) \/ Expire(p)
    \/ ListRules(p) \/ EvaluateRule(p) \/ EndCall(p) \/ LogState(p)
    \/ ReconcileRule(p) \/ EndReconcile(p) \/ LoadNodes(p) \/ EvaluateNode(p)
    \/ EvaluatorStep(p)

\* ... and may fail.
Break(p) == Abort(p) \/ SkipNode(p) \/ AbortCall(p)

Next ==
    \/ Tick
    \/ Begin
    \/ \E p \in Procs : Work(p) \/ Break(p)

Spec == Init /\ [][Next]_vars

-----------------------------------------------------------------------------
(* What the code is written to achieve, and does when nothing overlaps.    *)

Settled == \A p \in Procs : task[p] = NoTask

\* One request or job run at a time, and no failures.
SerialNext ==
    \/ Tick
    \/ Settled /\ Begin
    \/ \E p \in Procs : Work(p)

SerialSpec == Init /\ [][SerialNext]_vars

Alerting(r, n) == Evaluator!ActiveFor(r, n) # {}

\* A rule looks at its node, or at all nodes that are visible.
Watches(r, n) ==
    /\ rules[r].state = "live" /\ rules[r].enabled
    /\ rules[r].scope = n \/ (rules[r].scope = All /\ n \in Visible)

\* A rule has an active alert for a node it watches exactly when the node is
\* offline, whatever heartbeats, expiries and edits came before.
AlertsTrackNodes ==
    Settled => \A r \in Rules, n \in Nodes :
                  Watches(r, n) => (Alerting(r, n) <=> nodeState[n] = "offline")

\* No alert is left active by a rule that is disabled, deleted or moved to
\* another node.
NoStrayAlerts ==
    Settled => \A r \in Rules, n \in Nodes :
                  Alerting(r, n) => /\ rules[r].state = "live" /\ rules[r].enabled
                                    /\ rules[r].scope \in {n, All}

\* The last node event tells the state the node is in.
LogTracksNodes == Settled => logged = nodeState

\* "Resolved" means recovered: no alert is resolved while its node is
\* offline, however the rule was edited.
NoFalseRecovery ==
    [][\A a \in AlertIds :
          alerts[a].status = "active" /\ alerts'[a].status = "resolved"
             => nodeState[alerts[a].target] = "online"]_vars

\* The monitor calls the evaluator as AlertEvaluator allows.
ImplementsEvaluator == Evaluator!Spec

\* However requests, expiries and edits overlap and break off, recipients are
\* told of a turn of an incident only if it is in the event log, once, and
\* nobody reads both "resolved" and "closed" about one incident.
LedgersAgree == Evaluator!LedgersAgree

\* An incident that has ended stays ended, for the reason first given: no
\* request still under way reopens it or turns "resolved" into "closed".
EndedForGood == Evaluator!EndedForGood
=============================================================================
