------------------------- MODULE NodeMonitorProofs -------------------------
(***************************************************************************)
(* For any rules, nodes, handlers and TTL: the node monitor is well typed, *)
(* it implements AlertEvaluator, and so what AlertEvaluatorProofs proves   *)
(* of the evaluator holds of the monitor; and while requests and job runs  *)
(* follow one another, alerts and events follow the nodes.                 *)
(***************************************************************************)
EXTENDS NodeMonitor, TLAPS

USE MonitorAssumption, AlertStoreAssumption, ScopeAssumption DEF Nodes

(* Typing.                                                                 *)

\* Typed, and at a statement that has what it needs.
GoodTask == {t \in Task : TaskOK(t)}

\* The monitor's rows.
RowsTypeOK ==
    /\ nodeState \in [Nodes -> NodeStates]
    /\ silence \in [Nodes -> Ages \cup {None}]
    /\ logged \in [Nodes -> NodeStates]

\* MonitorTypeOK in the form the steps keep it.
LEMMA TypeSplit ==
    MonitorTypeOK <=> RowsTypeOK /\ task \in [Procs -> GoodTask]
<1>1. ASSUME task \in [Procs -> Task]
      PROVE  (\A p \in Procs : TaskOK(task[p])) <=> task \in [Procs -> GoodTask]
  BY <1>1 DEF GoodTask
<1>2. ASSUME task \in [Procs -> GoodTask]
      PROVE  task \in [Procs -> Task]
  BY <1>2 DEF GoodTask
<1>3. QED
  BY <1>1, <1>2 DEF MonitorTypeOK, RowsTypeOK

\* No task at all is a good one.
LEMMA NoTaskGood == NoTask \in GoodTask /\ NoTask.pc = "idle"
<1>1. NoTask \in Task /\ NoTask.pc = "idle"
  BY DEF NoTask, Task
<1>2. TaskOK(NoTask)
  BY <1>1 DEF TaskOK
<1>3. QED
  BY <1>1, <1>2 DEF GoodTask

\* A task that starts on rows it has read.
LEMMA FreshGood ==
    ASSUME NEW rows \in SUBSET (Nodes \X NodeStates), NEW pc \in {"expire", "evaluate"}
    PROVE  [NoTask EXCEPT !.pc = pc, !.rest = rows] \in GoodTask
<1> DEFINE f == [NoTask EXCEPT !.pc = pc, !.rest = rows]
<1>1. ASSUME NEW t \in Task
      PROVE  /\ [t EXCEPT !.pc = pc] \in Task
             /\ [t EXCEPT !.pc = pc].pc = pc
  BY DEF Task
<1>2. ASSUME NEW t \in Task
      PROVE  /\ [t EXCEPT !.rest = rows] \in Task
             /\ [t EXCEPT !.rest = rows].pc = t.pc
  BY DEF Task
<1>3. f \in Task /\ f.pc = pc
  <2>1. f = [[NoTask EXCEPT !.pc = pc] EXCEPT !.rest = rows]
    OBVIOUS
  <2>2. NoTask \in Task
    BY NoTaskGood DEF GoodTask
  <2> HIDE DEF f
  <2>3. QED BY <1>1, <1>2, <2>1, <2>2
<1> HIDE DEF f
<1>4. TaskOK(f)
  <2>1. f.pc \notin {"touch", "set", "list", "rules", "call", "log",
                    "reconcile", "reconciling", "load"}
    BY <1>3
  <2>2. QED BY <2>1 DEF TaskOK
<1>5. f \in GoodTask
  BY <1>3, <1>4 DEF GoodTask
<1>6. QED
  BY <1>5 DEF f

\* What a task goes on to is as good as the task.
LEMMA NextNodeGood ==
    ASSUME NEW p \in Procs, NEW t \in Task
    PROVE  NextNode(p, t) \in GoodTask /\ GiveUp(p, t) \in GoodTask
<1>1. t.rest \in SUBSET (Nodes \X NodeStates)
  BY DEF Task
<1>2. NextNode(p, t) \in GoodTask
  BY <1>1, NoTaskGood, FreshGood DEF NextNode
<1>3. QED
  BY <1>2, NoTaskGood DEF GiveUp

\* ... and so is the statement after a rule has been applied.
LEMMA NextRuleGood ==
    ASSUME NEW p \in Procs, NEW t \in Task,
           t.node \in Nodes /\ t.state \in NodeStates
    PROVE  NextRule(p, t) \in GoodTask
<1>1. [t EXCEPT !.pc = "rules"] \in GoodTask /\ [t EXCEPT !.pc = "log"] \in GoodTask
  BY DEF GoodTask, Task, TaskOK
<1>2. QED
  BY <1>1, NextNodeGood DEF NextRule

\* A row a caller has listed is a rule and whether it is for all nodes.
LEMMA ListedTyped == \A n : Listed(n) \in SUBSET (Rules \X BOOLEAN)
<1>1. ASSUME NEW n, NEW x \in Listed(n)
      PROVE  x \in Rules \X BOOLEAN
  <2>1. PICK r \in Rules : x = <<r, rules[r].scope = All>>
    BY DEF Listed
  <2>2. (rules[r].scope = All) \in BOOLEAN
    OBVIOUS
  <2>3. QED
    BY <2>1, <2>2, Zenon
<1>2. QED
  BY <1>1

(* The steps.                                                              *)

\* A goroutine moves on to a good task, and the rows stay typed.
LEMMA Moved ==
    ASSUME MonitorTypeOK, RowsTypeOK', NEW p \in Procs, NEW f \in GoodTask,
           Continue(p, f)
    PROVE  MonitorTypeOK'
<1>1. task' \in [Procs -> GoodTask]
  BY TypeSplit DEF Continue
<1>2. MonitorTypeOK' <=> RowsTypeOK' /\ task' \in [Procs -> GoodTask]
  <2>1. (task' \in [Procs -> Task] /\ \A q \in Procs : TaskOK(task'[q]))
           <=> task' \in [Procs -> GoodTask]
    BY DEF GoodTask
  <2>2. QED BY <2>1 DEF MonitorTypeOK, RowsTypeOK, TaskOK
<1>3. QED
  BY <1>1, <1>2

\* The same, when the nodes' rows are left alone.
LEMMA MovedOnly ==
    ASSUME MonitorTypeOK, NEW p \in Procs, NEW f \in GoodTask, Continue(p, f),
           UNCHANGED nodeVars
    PROVE  MonitorTypeOK'
<1>1. RowsTypeOK'
  BY DEF MonitorTypeOK, RowsTypeOK, nodeVars
<1>2. QED
  BY <1>1, Moved

\* What is known of the task of a goroutine.
LEMMA TaskKnown ==
    ASSUME MonitorTypeOK, NEW p \in Procs
    PROVE  task[p] \in Task /\ TaskOK(task[p]) /\ task[p] \in GoodTask
  BY DEF MonitorTypeOK, GoodTask

\* Heartbeats and shutdown notices.
LEMMA AgentInv ==
    ASSUME MonitorTypeOK, NEW p \in Procs, Agent(p) \/ Touch(p)
    PROVE  MonitorTypeOK'
<1>1. ASSUME NEW n \in Nodes, NEW age \in Ages, Heartbeat(p, n, age)
      PROVE  MonitorTypeOK'
  <2>1. nodeState[n] \in NodeStates
    BY DEF MonitorTypeOK
  <2>2. [NoTask EXCEPT !.pc = "touch", !.node = n, !.state = nodeState[n], !.age = age]
           \in GoodTask
    BY <2>1 DEF NoTask, GoodTask, Task, TaskOK
  <2>3. QED
    BY <1>1, <2>2, MovedOnly DEF Heartbeat
<1>2. ASSUME NEW n \in Nodes, Shutdown(p, n)
      PROVE  MonitorTypeOK'
  <2>1. [NoTask EXCEPT !.pc = "set", !.node = n, !.state = "offline"] \in GoodTask
    BY DEF NoTask, GoodTask, Task, TaskOK, NodeStates
  <2>2. QED
    BY <1>2, <2>1, MovedOnly DEF Shutdown
<1>3. ASSUME Touch(p)
      PROVE  MonitorTypeOK'
  <2> DEFINE t == task[p]
             pc == IF t.state = "online" THEN "list" ELSE "set"
             state == IF t.state = "online" THEN nodeState[t.node] ELSE "online"
             f == [t EXCEPT !.pc = pc, !.state = state, !.age = None]
  <2>1. t \in Task /\ t.node \in Nodes /\ t.age \in Ages
    BY <1>3, TaskKnown DEF Touch, At, TaskOK
  <2>2. state \in NodeStates /\ pc \in {"list", "set"}
    BY <2>1 DEF MonitorTypeOK, NodeStates
  <2>3. silence' = [silence EXCEPT ![t.node] = t.age] /\ Continue(p, f)
        /\ UNCHANGED <<nodeState, logged>>
    BY <1>3 DEF Touch
  <2> HIDE DEF pc, state
  <2>4. f \in GoodTask
    BY <2>1, <2>2 DEF GoodTask, Task, TaskOK
  <2>5. RowsTypeOK'
    BY <2>1, <2>3 DEF MonitorTypeOK, RowsTypeOK
  <2> HIDE DEF f
  <2>6. QED
    BY <2>3, <2>4, <2>5, Moved
<1>4. QED
  BY <1>1, <1>2, <1>3 DEF Agent

\* The transition of a node's state.
LEMMA SetInv ==
    ASSUME MonitorTypeOK, NEW p \in Procs, NEW t \in Task,
           t.node \in Nodes, t.state \in NodeStates, SetNodeState(p, t)
    PROVE  MonitorTypeOK'
<1>1. [t EXCEPT !.pc = "list", !.log = TRUE] \in GoodTask
  BY DEF GoodTask, Task, TaskOK
<1>2. RowsTypeOK'
  BY DEF MonitorTypeOK, RowsTypeOK, SetNodeState
<1>3. QED
  BY <1>1, <1>2, Moved DEF SetNodeState

\* The expiry job.
LEMMA ExpiryInv ==
    ASSUME MonitorTypeOK, NEW p \in Procs,
           RunExpiry \/ SetState(p) \/ Expire(p) \/ SkipNode(p)
    PROVE  MonitorTypeOK'
<1>1. ASSUME RunExpiry PROVE MonitorTypeOK'
  <2> DEFINE rows == {<<n, nodeState[n]>> : n \in {m \in Nodes : Stale(m)}}
  <2>1. rows \in SUBSET (Nodes \X NodeStates)
    BY DEF MonitorTypeOK
  <2>2. [NoTask EXCEPT !.pc = "expire", !.rest = rows] \in GoodTask
    BY <2>1, FreshGood
  <2>3. Job \in Procs
    BY DEF Procs
  <2>4. QED
    BY <1>1, <2>2, <2>3, MovedOnly DEF RunExpiry
<1>2. ASSUME SetState(p) PROVE MonitorTypeOK'
  BY <1>2, TaskKnown, SetInv DEF SetState, At, TaskOK
<1>3. ASSUME Expire(p) PROVE MonitorTypeOK'
  <2>1. PICK row \in task[p].rest :
           SetNodeState(p, [task[p] EXCEPT !.node = row[1], !.state = "offline",
                                           !.rest = @ \ {row}])
    BY <1>3 DEF Expire
  <2> DEFINE t == [task[p] EXCEPT !.node = row[1], !.state = "offline", !.rest = @ \ {row}]
  <2>2. task[p] \in Task /\ row \in Nodes \X NodeStates
    BY TaskKnown DEF Task
  <2>3. t \in Task /\ t.node \in Nodes /\ t.state \in NodeStates
    BY <2>2 DEF Task, NodeStates
  <2> HIDE DEF t
  <2>4. SetNodeState(p, t)
    BY <2>1 DEF t
  <2>5. QED
    BY <2>3, <2>4, SetInv
<1>4. ASSUME SkipNode(p) PROVE MonitorTypeOK'
  <2>1. PICK row \in task[p].rest :
           Continue(p, NextNode(p, [task[p] EXCEPT !.rest = @ \ {row}]))
    BY <1>4 DEF SkipNode
  <2>2. [task[p] EXCEPT !.rest = @ \ {row}] \in Task
    BY TaskKnown DEF Task
  <2>3. NextNode(p, [task[p] EXCEPT !.rest = @ \ {row}]) \in GoodTask
    BY <2>2, NextNodeGood
  <2>4. QED
    BY <1>4, <2>1, <2>3, MovedOnly DEF SkipNode
<1>5. QED
  BY <1>1, <1>2, <1>3, <1>4

\* Going through the rules for a node.
LEMMA RulesInv ==
    ASSUME MonitorTypeOK, NEW p \in Procs,
           ListRules(p) \/ EvaluateRule(p) \/ EndCall(p) \/ LogState(p) \/ EvaluateNode(p)
    PROVE  MonitorTypeOK'
<1>1. task[p] \in Task /\ TaskOK(task[p])
  BY TaskKnown
<1>2. ASSUME ListRules(p) PROVE MonitorTypeOK'
  <2> DEFINE t == [task[p] EXCEPT !.todo = Listed(task[p].node)]
  <2>1. task[p].node \in Nodes /\ task[p].state \in NodeStates
    BY <1>1, <1>2 DEF ListRules, At, TaskOK
  <2>2. t \in Task /\ t.node = task[p].node /\ t.state = task[p].state
    BY <1>1, ListedTyped DEF Task
  <2>3. NextRule(p, t) \in GoodTask
    BY <2>1, <2>2, NextRuleGood
  <2>4. QED
    BY <1>2, <2>3, MovedOnly DEF ListRules
<1>3. ASSUME EvaluateRule(p) PROVE MonitorTypeOK'
  <2>1. PICK x \in task[p].todo :
           Continue(p, [task[p] EXCEPT !.pc = "call", !.todo = @ \ {x}])
    BY <1>3 DEF EvaluateRule
  <2>2. task[p].node \in Nodes /\ task[p].state \in NodeStates
    BY <1>1, <1>3 DEF EvaluateRule, At, TaskOK
  <2>3. [task[p] EXCEPT !.pc = "call", !.todo = @ \ {x}] \in GoodTask
    BY <1>1, <2>2 DEF GoodTask, Task, TaskOK
  <2>4. QED
    BY <1>3, <2>1, <2>3, MovedOnly DEF EvaluateRule
<1>4. ASSUME EndCall(p) PROVE MonitorTypeOK'
  <2>1. task[p].node \in Nodes /\ task[p].state \in NodeStates
    BY <1>1, <1>4 DEF EndCall, At, TaskOK
  <2>2. GiveUp(p, task[p]) \in GoodTask /\ NextRule(p, task[p]) \in GoodTask
    BY <1>1, <2>1, NextNodeGood, NextRuleGood
  <2>3. QED
    BY <1>4, <2>2, MovedOnly DEF EndCall
<1>5. ASSUME LogState(p) PROVE MonitorTypeOK'
  <2>1. task[p].node \in Nodes /\ task[p].state \in NodeStates
    BY <1>1, <1>5 DEF LogState, At, TaskOK
  <2>2. RowsTypeOK'
    BY <1>5, <2>1 DEF LogState, MonitorTypeOK, RowsTypeOK
  <2>3. NextNode(p, task[p]) \in GoodTask
    BY <1>1, NextNodeGood
  <2>4. QED
    BY <1>5, <2>2, <2>3, Moved DEF LogState
<1>6. ASSUME EvaluateNode(p) PROVE MonitorTypeOK'
  <2>1. PICK row \in task[p].rest :
           Continue(p, NextRule(p, [task[p] EXCEPT
              !.node = row[1], !.state = row[2], !.rest = @ \ {row},
              !.todo = Listed(row[1])]))
    BY <1>6 DEF EvaluateNode
  <2> DEFINE t == [task[p] EXCEPT !.node = row[1], !.state = row[2], !.rest = @ \ {row},
                                  !.todo = Listed(row[1])]
  <2>2. row \in Nodes \X NodeStates
    BY <1>1 DEF Task
  <2>3. t \in Task /\ t.node \in Nodes /\ t.state \in NodeStates
    BY <1>1, <2>2, ListedTyped DEF Task
  <2> HIDE DEF t
  <2>4. NextRule(p, t) \in GoodTask
    BY <2>3, NextRuleGood
  <2>5. Continue(p, NextRule(p, t))
    BY <2>1 DEF t
  <2>6. QED
    BY <1>6, <2>4, <2>5, MovedOnly DEF EvaluateNode
<1>7. QED
  BY <1>2, <1>3, <1>4, <1>5, <1>6

\* Rule edits.
LEMMA EditInv ==
    ASSUME MonitorTypeOK, NEW p \in Procs,
           Edit(p) \/ ReconcileRule(p) \/ EndReconcile(p) \/ LoadNodes(p)
    PROVE  MonitorTypeOK'
<1>1. task[p] \in Task /\ TaskOK(task[p])
  BY TaskKnown
<1>2. ASSUME NEW r \in Rules, NEW row \in Evaluator!RuleRow, NEW pc \in {"load", "reconcile"}
      PROVE  [NoTask EXCEPT !.pc = pc, !.rule = r, !.row = row] \in GoodTask
  BY DEF NoTask, GoodTask, Task, TaskOK
<1>3. ASSUME NEW enabled \in BOOLEAN, NEW scope \in Nodes \cup {All}
      PROVE  [state |-> "live", enabled |-> enabled, scope |-> scope] \in Evaluator!RuleRow
  BY DEF Evaluator!RuleRow
<1>4. ASSUME NEW r \in Rules, NEW scope \in Nodes \cup {All}, CreateRule(p, r, scope)
      PROVE  MonitorTypeOK'
  BY <1>2, <1>3, <1>4, MovedOnly DEF CreateRule
<1>5. ASSUME NEW r \in Rules, NEW enabled \in BOOLEAN, NEW scope \in Nodes \cup {All},
             UpdateRule(p, r, enabled, scope)
      PROVE  MonitorTypeOK'
  BY <1>2, <1>3, <1>5, MovedOnly DEF UpdateRule
<1>6. ASSUME ReconcileRule(p) PROVE MonitorTypeOK'
  <2>1. task[p].rule \in Rules /\ task[p].row \in Evaluator!RuleRow
    BY <1>1, <1>6 DEF ReconcileRule, At, TaskOK
  <2>2. [task[p] EXCEPT !.pc = "reconciling"] \in GoodTask
    BY <1>1, <2>1 DEF GoodTask, Task, TaskOK
  <2>3. QED
    BY <1>6, <2>2, MovedOnly DEF ReconcileRule
<1>7. ASSUME EndReconcile(p) PROVE MonitorTypeOK'
  <2>1. task[p].rule \in Rules /\ task[p].row \in Evaluator!RuleRow
    BY <1>1, <1>7 DEF EndReconcile, At, TaskOK
  <2>2. [task[p] EXCEPT !.pc = "load"] \in GoodTask
    BY <1>1, <2>1 DEF GoodTask, Task, TaskOK
  <2>3. QED
    BY <1>7, <2>2, NoTaskGood, MovedOnly DEF EndReconcile
<1>8. ASSUME LoadNodes(p) PROVE MonitorTypeOK'
  <2> DEFINE found == IF task[p].row.scope = All THEN Visible ELSE {task[p].row.scope}
             rows == {<<n, nodeState[n]>> : n \in found}
             t == [NoTask EXCEPT !.rest = rows]
  <2>1. task[p].row \in Evaluator!RuleRow
    BY <1>1, <1>8 DEF LoadNodes, At, TaskOK
  <2>2. found \subseteq Nodes
    BY <2>1 DEF Evaluator!RuleRow
  <2>3. rows \in SUBSET (Nodes \X NodeStates)
    BY <2>2 DEF MonitorTypeOK
  <2>4. t \in Task
    BY <2>3, NoTaskGood DEF GoodTask, Task
  <2>5. NextNode(p, t) \in GoodTask
    BY <2>4, NextNodeGood
  <2>6. Continue(p, NextNode(p, t)) /\ UNCHANGED nodeVars
    BY <1>8 DEF LoadNodes
  <2>7. QED
    BY <2>5, <2>6, MovedOnly
<1>9. QED
  BY <1>4, <1>5, <1>6, <1>7, <1>8 DEF Edit

\* Time, errors, and the steps that leave the monitor's variables alone.
LEMMA OtherInv ==
    ASSUME MonitorTypeOK
    PROVE  /\ Tick => MonitorTypeOK'
           /\ \A p \in Procs : Abort(p) \/ AbortCall(p) \/ EvaluatorStep(p) => MonitorTypeOK'
           /\ \A r \in Rules : DeleteRule(r) => MonitorTypeOK'
           /\ UNCHANGED vars => MonitorTypeOK'
<1>1. ASSUME Tick PROVE MonitorTypeOK'
  <2>1. \A age \in Ages : Older(age) \in Ages
    BY DEF Ages, Older
  <2>2. None \in 0 .. TTL \/ Older(None) = None
    BY DEF Older
  <2>3. \A age \in Ages \cup {None} : Older(age) \in Ages \cup {None}
    BY <2>1, <2>2 DEF Ages, Older
  <2>4. RowsTypeOK'
    BY <1>1, <2>3 DEF Tick, MonitorTypeOK, RowsTypeOK
  <2>5. ASSUME NEW p \in Procs
        PROVE  [task[p] EXCEPT !.age = Older(@)] \in GoodTask
    <3>1. task[p] \in Task /\ TaskOK(task[p])
      BY TaskKnown
    <3>2. Older(task[p].age) \in Ages \cup {None}
      BY <2>3, <3>1 DEF Task
    <3>3. task[p].age \in Ages => Older(task[p].age) \in Ages
      BY <2>1
    <3>4. QED
      BY <3>1, <3>2, <3>3 DEF GoodTask, Task, TaskOK
  <2>6. task' \in [Procs -> GoodTask]
    BY <1>1, <2>5 DEF Tick
  <2>7. (task' \in [Procs -> Task] /\ \A q \in Procs : TaskOK(task'[q]))
    BY <2>6 DEF GoodTask
  <2>8. QED
    BY <2>4, <2>7 DEF MonitorTypeOK, RowsTypeOK, TaskOK
<1>2. ASSUME UNCHANGED <<nodeVars, task>> PROVE MonitorTypeOK'
  BY <1>2 DEF nodeVars, MonitorTypeOK, TaskOK
<1>3. ASSUME NEW p \in Procs, Abort(p) PROVE MonitorTypeOK'
  BY <1>3, TaskKnown, NextNodeGood, MovedOnly DEF Abort
<1>4. ASSUME NEW p \in Procs, AbortCall(p) \/ EvaluatorStep(p) PROVE MonitorTypeOK'
  BY <1>2, <1>4 DEF AbortCall, EvaluatorStep
<1>5. ASSUME NEW r \in Rules, DeleteRule(r) PROVE MonitorTypeOK'
  BY <1>2, <1>5 DEF DeleteRule
<1>6. QED
  BY <1>1, <1>2, <1>3, <1>4, <1>5 DEF vars

-----------------------------------------------------------------------------

\* The monitor starts well typed.
LEMMA InitTyped == Init => MonitorTypeOK
  BY NoTaskGood DEF Init, MonitorTypeOK, NodeStates, Ages, GoodTask

\* Every step keeps it so, whatever the evaluator's own state.
LEMMA NextTyped == MonitorTypeOK /\ [Next]_vars => MonitorTypeOK'
<1> SUFFICES ASSUME MonitorTypeOK, [Next]_vars PROVE MonitorTypeOK'
  OBVIOUS
<1>1. Handlers \subseteq Procs /\ Job \in Procs
  BY DEF Procs
<1>2. ASSUME Begin PROVE MonitorTypeOK'
  BY <1>1, <1>2, AgentInv, EditInv, ExpiryInv, OtherInv DEF Begin
<1>3. ASSUME NEW p \in Procs, Work(p) PROVE MonitorTypeOK'
  BY <1>3, AgentInv, ExpiryInv, RulesInv, EditInv, OtherInv DEF Work
<1>4. ASSUME NEW p \in Procs, Break(p) PROVE MonitorTypeOK'
  BY <1>4, ExpiryInv, OtherInv DEF Break
<1>5. QED
  BY <1>2, <1>3, <1>4, OtherInv DEF Next

\* Every step of the monitor is one the evaluator allows, or none of its.
LEMMA StepImplements ==
    MonitorTypeOK /\ [Next]_vars => [Evaluator!Next]_Evaluator!evaluatorVars
<1> SUFFICES ASSUME MonitorTypeOK, [Next]_vars
             PROVE  Evaluator!Next \/ UNCHANGED evaluatorVars
  BY DEF evaluatorVars, Evaluator!evaluatorVars
<1>1. ASSUME NEW p \in Procs, Agent(p) \/ Touch(p) \/ SetState(p) \/ Expire(p) \/ ListRules(p)
                              \/ LogState(p) \/ LoadNodes(p) \/ EvaluateNode(p)
                              \/ Abort(p) \/ SkipNode(p)
      PROVE  UNCHANGED evaluatorVars
  BY <1>1 DEF Agent, Heartbeat, Shutdown, Touch, SetState, Expire, SetNodeState, ListRules,
              LogState, LoadNodes, EvaluateNode, Abort, SkipNode
<1>2. ASSUME NEW p \in Procs, EvaluateRule(p) PROVE Evaluator!Next
  <2>1. task[p].node \in Nodes
    BY <1>2, TaskKnown DEF EvaluateRule, At, TaskOK
  <2>2. (task[p].state = "offline") \in BOOLEAN
    OBVIOUS
  <2>3. PICK r \in Rules : \/ Evaluator!CloseForTarget(p, r, task[p].node)
                           \/ Evaluator!Apply(p, r, task[p].node, task[p].state = "offline")
    BY <1>2 DEF EvaluateRule
  <2>4. Evaluator!Call(p)
    BY <2>1, <2>2, <2>3, Zenon DEF Evaluator!Call
  <2>5. QED
    BY <2>4 DEF Evaluator!Next
<1>3. ASSUME NEW p \in Procs, EndCall(p) \/ EndReconcile(p) PROVE Evaluator!Next
  BY <1>3 DEF EndCall, EndReconcile, Evaluator!Next
<1>4. ASSUME NEW p \in Procs, ReconcileRule(p) PROVE Evaluator!Next
  <2>1. /\ task[p].rule \in Rules /\ task[p].row \in Evaluator!RuleRow
        /\ Evaluator!Reconcile(p, task[p].rule, task[p].row)
    BY <1>4, TaskKnown DEF ReconcileRule, At, TaskOK
  <2>2. QED
    BY <2>1 DEF Evaluator!Next, Evaluator!Call
<1>5. ASSUME NEW p \in Procs, Edit(p) PROVE Evaluator!Next
  <2>1. PICK r \in Rules, enabled \in BOOLEAN, scope \in Nodes \cup {All} :
           Evaluator!PutRule(r, [state |-> "live", enabled |-> enabled, scope |-> scope])
    BY <1>5 DEF Edit, CreateRule, UpdateRule
  <2>2. [state |-> "live", enabled |-> enabled, scope |-> scope] \in Evaluator!RuleRow
    BY DEF Evaluator!RuleRow
  <2>3. QED
    BY <2>1, <2>2 DEF Evaluator!Next
<1>6. ASSUME NEW p \in Procs, EvaluatorStep(p) \/ AbortCall(p) PROVE Evaluator!Next
  BY <1>6 DEF EvaluatorStep, AbortCall, Evaluator!Next
<1>7. ASSUME NEW r \in Rules, DeleteRule(r) PROVE Evaluator!Next
  BY <1>7 DEF DeleteRule, Evaluator!Next
<1>8. CASE Tick \/ RunExpiry \/ UNCHANGED vars
  BY <1>8 DEF Tick, RunExpiry, vars
<1>9. Handlers \subseteq Procs
  BY DEF Procs
<1>10. ASSUME Begin PROVE Evaluator!Next \/ UNCHANGED evaluatorVars
  BY <1>1, <1>5, <1>7, <1>8, <1>9, <1>10 DEF Begin
<1>11. ASSUME NEW p \in Procs, Work(p) \/ Break(p)
       PROVE  Evaluator!Next \/ UNCHANGED evaluatorVars
  BY <1>1, <1>2, <1>3, <1>4, <1>6, <1>11 DEF Work, Break
<1>12. QED
  BY <1>8, <1>10, <1>11 DEF Next

\* It starts where the evaluator may.
LEMMA InitImplements == Init => Evaluator!Init
<1>1. [r \in Rules |-> [state |-> "unborn", enabled |-> FALSE, scope |-> All]]
         \in [Rules -> Evaluator!RuleRow]
  BY DEF Evaluator!RuleRow
<1>2. QED
  BY <1>1 DEF Init, Evaluator!Init

\* Heartbeats, shutdown notices, expiries and rule edits, overlapping and
\* failing as they may, ask of the evaluator only what it is proved for.
THEOREM MonitorImplementsEvaluator == Spec => ImplementsEvaluator
<1>1. QED
  BY InitTyped, NextTyped, InitImplements, StepImplements, PTL
     DEF Spec, ImplementsEvaluator, Evaluator!Spec

-----------------------------------------------------------------------------
(* What is proved of the evaluator, carried over.  Proved is the instance  *)
(* the theorems come with; its definitions say what Evaluator's do.        *)

Proved == INSTANCE AlertEvaluatorProofs

\* The evaluator here and the one the theorems are about, definition by
\* definition: the initial states,
LEMMA SameInit == Evaluator!Init <=> Proved!Init
  BY Zenon DEF Evaluator!Init, Proved!Init, Evaluator!NoRow, Proved!NoRow,
    Evaluator!RuleRow, Proved!RuleRow, Evaluator!EventKinds, Proved!EventKinds,
    Evaluator!NoticeKinds, Proved!NoticeKinds, Evaluator!Idle, Proved!Idle

\* the steps,
LEMMA SameNext == Evaluator!Next <=> Proved!Next
  BY Zenon DEF Evaluator!Next, Proved!Next, Evaluator!Call, Proved!Call,
    Evaluator!Step, Proved!Step, Evaluator!Apply, Proved!Apply,
    Evaluator!CloseForTarget, Proved!CloseForTarget, Evaluator!Reconcile,
    Proved!Reconcile, Evaluator!Create, Proved!Create, Evaluator!CreateLost,
    Proved!CreateLost, Evaluator!CreateRefused, Proved!CreateRefused,
    Evaluator!LogTriggered, Proved!LogTriggered, Evaluator!SendTriggered,
    Proved!SendTriggered, Evaluator!Resolve, Proved!Resolve, Evaluator!ResolveLost,
    Proved!ResolveLost, Evaluator!LogResolved, Proved!LogResolved,
    Evaluator!SendResolved, Proved!SendResolved, Evaluator!Close, Proved!Close,
    Evaluator!CloseLost, Proved!CloseLost, Evaluator!LogClosed, Proved!LogClosed,
    Evaluator!Fail, Proved!Fail, Evaluator!Return, Proved!Return, Evaluator!PutRule,
    Proved!PutRule, Evaluator!DropRule, Proved!DropRule, Evaluator!DropAlertsOf,
    Proved!DropAlertsOf, Evaluator!At, Proved!At, Evaluator!Goto, Proved!Goto,
    Evaluator!InsertActive, Proved!InsertActive, Evaluator!IsNextId,
    Proved!IsNextId, Evaluator!ActiveFor, Proved!ActiveFor, Evaluator!ActiveOfRule,
    Proved!ActiveOfRule, Evaluator!MarkResolved, Proved!MarkResolved,
    Evaluator!MarkClosed, Proved!MarkClosed, Evaluator!Handling, Proved!Handling,
    Evaluator!Idle, Proved!Idle, Evaluator!Returned, Proved!Returned,
    Evaluator!Failed, Proved!Failed, Evaluator!Opening, Proved!Opening,
    Evaluator!Closing, Proved!Closing, Evaluator!RuleAppliesTo,
    Proved!RuleAppliesTo, Evaluator!RuleRow, Proved!RuleRow, Evaluator!Log,
    Proved!Log, Evaluator!Send, Proved!Send, Evaluator!IsFirst, Proved!IsFirst,
    Evaluator!ClosureReasons, Proved!ClosureReasons

\* and the types.
LEMMA SameTypeOK == Evaluator!TypeOK <=> Proved!TypeOK
  BY Zenon DEF Evaluator!TypeOK, Proved!TypeOK, Evaluator!AlertsTypeOK,
    Proved!AlertsTypeOK, Evaluator!AlertRow, Proved!AlertRow, Evaluator!Statuses,
    Proved!Statuses, Evaluator!ClosureReasons, Proved!ClosureReasons,
    Evaluator!RuleRow, Proved!RuleRow, Evaluator!Frame, Proved!Frame,
    Evaluator!EventKinds, Proved!EventKinds, Evaluator!NoticeKinds,
    Proved!NoticeKinds

\* The evaluator's specification, under its other name.
LEMMA ProvedSpec == Spec => Proved!Spec
<1>1. [Evaluator!Next]_Evaluator!evaluatorVars => [Proved!Next]_Proved!evaluatorVars
  BY SameNext DEF Evaluator!evaluatorVars, Proved!evaluatorVars
<1>2. QED
  BY <1>1, SameInit, MonitorImplementsEvaluator, PTL
     DEF ImplementsEvaluator, Evaluator!Spec, Proved!Spec

\* What the evaluator's proofs assume of its constants.
LEMMA ConstantsFit == Proved!AlertStoreAssumption
  BY DEF Proved!AlertStoreAssumption

\* The state of the monitor is always well typed, and every statement a
\* request or the job comes to has the operands it needs.
THEOREM TypeCorrect == Spec => []TypeOK
<1>1. Spec => []MonitorTypeOK
  BY InitTyped, NextTyped, PTL DEF Spec
<1>2. Spec => []Proved!TypeOK
  BY ConstantsFit, ProvedSpec, Proved!TypeCorrect, PTL
<1>3. MonitorTypeOK /\ Proved!TypeOK => TypeOK
  BY SameTypeOK DEF TypeOK
<1>4. QED
  BY <1>1, <1>2, <1>3, PTL

\* However requests, expiries and edits overlap, no rule ever has two active
\* alerts for one node.
THEOREM OneActiveAlert == Spec => []Evaluator!AtMostOneActive
<1>1. Proved!AtMostOneActive => Evaluator!AtMostOneActive
  BY Zenon DEF Proved!AtMostOneActive, Evaluator!AtMostOneActive
<1>2. QED
  BY <1>1, ConstantsFit, ProvedSpec, Proved!OneActiveAlert, PTL

\* Recipients are told of a turn of an incident only if it is in the event
\* log, once, however the requests that tell it overlap and break off.
THEOREM LedgersStayTrue == Spec => []LedgersAgree
<1>1. Proved!LedgersAgree => LedgersAgree
  BY Zenon DEF LedgersAgree, Evaluator!LedgersAgree, Proved!LedgersAgree,
    Evaluator!Lifecycle!LedgersAgree, Proved!Lifecycle!LedgersAgree,
    Evaluator!Lifecycle!EventKinds, Proved!Lifecycle!EventKinds,
    Evaluator!Lifecycle!NoticeKinds, Proved!Lifecycle!NoticeKinds,
    Evaluator!Lifecycle!StatusesAfter, Proved!Lifecycle!StatusesAfter
<1>2. QED
  BY <1>1, ConstantsFit, ProvedSpec, Proved!LedgersCorrect, PTL

\* No request still under way brings back an incident that has ended.
THEOREM NoReopening == Spec => EndedForGood
<1>1. QED
  BY ConstantsFit, ProvedSpec, Proved!NoReopening, PTL
     DEF EndedForGood, Evaluator!EndedForGood, Proved!EndedForGood,
         Evaluator!Lifecycle!EndedForGood, Proved!Lifecycle!EndedForGood,
         Evaluator!Lifecycle!lifecycleVars, Proved!Lifecycle!lifecycleVars

-----------------------------------------------------------------------------
(* One request or job run at a time: what NodeMonitor's SerialSpec does.   *)
(* The tables agree whenever nothing is under way; while p is, what does   *)
(* not agree is what p has yet to do, and what p has read is still so.     *)
(* Below, t is a task and f the frame of its call.                         *)

\* A rule that is in force for its node.
Fits(r, n) ==
    /\ r \in Rules
    /\ rules[r].state = "live" /\ rules[r].enabled
    /\ rules[r].scope \in {n, All}

\* r and n are still to be looked at by the task ...
TaskOwes(t, r, n) ==
    \/ t.pc = "list" /\ t.node = n
    \/ /\ t.pc \in {"rules", "call"} /\ t.node = n
       /\ \E all \in BOOLEAN : <<r, all>> \in t.todo
    \/ \E s \in NodeStates : <<n, s>> \in t.rest
    \/ t.pc \in {"reconcile", "reconciling", "load"} /\ t.rule = r

\* ... or have been, and the call is about to open or resolve their alert.
CallOwes(f, r, n) ==
    \/ f.pc = "create" /\ f.rule = r /\ f.target = n
    \/ /\ f.pc = "resolve"
       /\ alerts[f.alert].rule = r /\ alerts[f.alert].target = n

\* The alert a is still to be looked at, or to be closed.
Cleans(t, f, a) ==
    \/ t.pc = "reconcile" /\ t.rule = alerts[a].rule
    \/ a \in f.queue

\* What the task has read is so still.
TaskCurrent(t) ==
    /\ t.pc \in {"list", "rules", "call", "log"} => t.state = nodeState[t.node]
    /\ t.pc \in {"rules", "call"} => t.todo \subseteq Listed(t.node)
    /\ t.pc \in {"touch", "set", "reconcile", "reconciling", "load"} => t.rest = {}
    /\ t.pc \in {"reconcile", "reconciling", "load"}
          => t.row = rules[t.rule] /\ t.row.state = "live"
    /\ \A row \in t.rest : row[2] = nodeState[row[1]]
    /\ t.log => t.pc \in {"list", "rules", "call", "log"}

\* What the call is about to do is right.
CallCurrent(f) ==
    /\ f.pc # "failed"
    /\ f.pc \in {"close", "logClosed"} \/ f.queue = {}
    /\ f.pc = "create" => /\ f.rule \in Rules /\ f.target \in Nodes
                          /\ Fits(f.rule, f.target)
                          /\ nodeState[f.target] = "offline"
    /\ f.pc = "resolve" => /\ f.alert \in AlertIds
                           /\ alerts[f.alert].status = "active"
                           /\ nodeState[alerts[f.alert].target] = "online"
    /\ \A a \in f.queue : /\ alerts[a].status = "active"
                          /\ ~Watches(alerts[a].rule, alerts[a].target)

\* r has the alert for n that it should.
Agrees(r, n) == Watches(r, n) => (Alerting(r, n) <=> nodeState[n] = "offline")

Tracked(t, f) ==
    \A r \in Rules, n \in Nodes : Agrees(r, n) \/ TaskOwes(t, r, n) \/ CallOwes(f, r, n)

Cleaned(t, f) ==
    \A a \in AlertIds :
       alerts[a].status = "active" => \/ Fits(alerts[a].rule, alerts[a].target)
                                      \/ Cleans(t, f, a)

Logged(t) ==
    \A n \in Nodes : logged[n] = nodeState[n] \/ (t.log /\ t.node = n)

Calls(t, f) == t.pc \notin {"call", "reconciling"} => f = Evaluator!Idle

\* p is the one under way, if one is.
InTurn(p) ==
    /\ \A q \in Procs \ {p} : task[q] = NoTask /\ call[q] = Evaluator!Idle
    /\ Calls(task[p], call[p])
    /\ TaskCurrent(task[p])
    /\ CallCurrent(call[p])
    /\ Tracked(task[p], call[p])
    /\ Cleaned(task[p], call[p])
    /\ Logged(task[p])

\* The inductive invariant of SerialSpec.
SerialInv ==
    /\ TypeOK
    /\ Evaluator!AtMostOneActive
    /\ \E p \in Procs : InTurn(p)

\* A goroutine that does nothing owes nothing.
LEMMA IdleOwesNothing ==
    /\ NoTask.pc = "idle" /\ NoTask.rest = {} /\ NoTask.todo = {} /\ ~NoTask.log
    /\ Evaluator!Idle.pc = "idle" /\ Evaluator!Idle.queue = {}
    /\ \A r, n : ~TaskOwes(NoTask, r, n) /\ ~CallOwes(Evaluator!Idle, r, n)
    /\ \A a : ~Cleans(NoTask, Evaluator!Idle, a)
<1>1. /\ NoTask.pc = "idle" /\ NoTask.rest = {} /\ NoTask.todo = {} /\ ~NoTask.log
      /\ Evaluator!Idle.pc = "idle" /\ Evaluator!Idle.queue = {}
  BY DEF NoTask, Evaluator!Idle
<1>2. QED
  BY <1>1 DEF TaskOwes, CallOwes, Cleans

\* With nothing under way, whoever begins is the one.
LEMMA AnyonesTurn ==
    ASSUME Settled, NEW p \in Procs, NEW q \in Procs, InTurn(p)
    PROVE  InTurn(q)
<1>1. task[p] = NoTask /\ task[q] = NoTask
  BY DEF Settled
<1>2. \A o \in Procs : task[o] = NoTask /\ call[o] = Evaluator!Idle
  BY <1>1, IdleOwesNothing DEF Settled, InTurn, Calls
<1>3. QED
  BY <1>1, <1>2 DEF InTurn

\* What is to be shown of the next state, field by field.
LEMMA TurnParts ==
    ASSUME NEW p \in Procs, NEW t, NEW f, task'[p] = t, call'[p] = f,
           \A q \in Procs \ {p} : task'[q] = NoTask /\ call'[q] = Evaluator!Idle,
           Calls(t, f), TaskCurrent(t)', CallCurrent(f)',
           Tracked(t, f)', Cleaned(t, f)', Logged(t)'
    PROVE  InTurn(p)'
<1>1. Calls(task[p], call[p])'
  BY DEF Calls
<1>2. TaskCurrent(task[p])'
  BY DEF TaskCurrent
<1>3. CallCurrent(call[p])'
  BY DEF CallCurrent
<1>4. Tracked(task[p], call[p])'
  BY DEF Tracked, TaskOwes, CallOwes
<1>5. Cleaned(task[p], call[p])'
  BY DEF Cleaned, Cleans
<1>6. Logged(task[p])'
  BY DEF Logged
<1>7. QED
  BY <1>1, <1>2, <1>3, <1>4, <1>5, <1>6 DEF InTurn

\* A step moves the one under way, and only it.
LEMMA Turn ==
    ASSUME task \in [Procs -> Task], call \in [Procs -> Evaluator!Frame],
           NEW p \in Procs, InTurn(p), NEW t, NEW f,
           Continue(p, t), Evaluator!Goto(p, f),
           Calls(t, f), TaskCurrent(t)', CallCurrent(f)',
           Tracked(t, f)', Cleaned(t, f)', Logged(t)'
    PROVE  InTurn(p)'
<1>1. task'[p] = t /\ call'[p] = f
  BY DEF Continue, Evaluator!Goto
<1>2. \A q \in Procs \ {p} : task'[q] = NoTask /\ call'[q] = Evaluator!Idle
  BY DEF Continue, Evaluator!Goto, InTurn
<1>3. QED
  BY <1>1, <1>2, TurnParts

\* What the rows say does not change while they do not.
LEMMA RowsSame ==
    ASSUME UNCHANGED <<alerts, rules, nodeState>>
    PROVE  /\ \A r, n : /\ Fits(r, n)' <=> Fits(r, n)
                        /\ Watches(r, n)' <=> Watches(r, n)
                        /\ Agrees(r, n)' <=> Agrees(r, n)
           /\ \A n : Listed(n)' = Listed(n)
           /\ \A f, r, n : CallOwes(f, r, n)' <=> CallOwes(f, r, n)
           /\ \A t, f, a : Cleans(t, f, a)' <=> Cleans(t, f, a)
<1>1. \A r, n : /\ Fits(r, n)' <=> Fits(r, n)
                /\ Watches(r, n)' <=> Watches(r, n)
  BY DEF Fits, Watches
<1>2. \A r, n : Evaluator!ActiveFor(r, n)' = Evaluator!ActiveFor(r, n)
  BY DEF Evaluator!ActiveFor
<1>3. \A r, n : Agrees(r, n)' <=> Agrees(r, n)
  BY <1>1, <1>2 DEF Agrees, Alerting
<1>4. \A n : Listed(n)' = Listed(n)
  BY DEF Listed
<1>5. QED
  BY <1>1, <1>3, <1>4 DEF CallOwes, Cleans

\* A step that leaves these rows alone moves on if it forgets nothing.
LEMMA QuietTurn ==
    ASSUME task \in [Procs -> Task], call \in [Procs -> Evaluator!Frame],
           NEW p \in Procs, InTurn(p), NEW t, NEW f,
           Continue(p, t), Evaluator!Goto(p, f),
           UNCHANGED <<alerts, rules, nodeState>>,
           Calls(t, f), TaskCurrent(t), CallCurrent(f),
           \A r \in Rules, n \in Nodes :
              TaskOwes(task[p], r, n) \/ CallOwes(call[p], r, n)
                 => Agrees(r, n) \/ TaskOwes(t, r, n) \/ CallOwes(f, r, n),
           \A a \in AlertIds :
              alerts[a].status = "active" /\ Cleans(task[p], call[p], a)
                 => Fits(alerts[a].rule, alerts[a].target) \/ Cleans(t, f, a),
           \A n \in Nodes : logged'[n] = nodeState[n] \/ (t.log /\ t.node = n)
    PROVE  InTurn(p)'
<1>1. TaskCurrent(t)' /\ CallCurrent(f)'
  BY RowsSame DEF TaskCurrent, CallCurrent
<1>2. Tracked(t, f)'
  <2>1. Tracked(t, f)
    BY DEF InTurn, Tracked
  <2>2. QED BY <2>1, RowsSame DEF Tracked, TaskOwes
<1>3. Cleaned(t, f)'
  <2>1. Cleaned(t, f)
    BY DEF InTurn, Cleaned
  <2>2. QED BY <2>1, RowsSame DEF Cleaned
<1>4. Logged(t)'
  BY DEF Logged
<1>5. QED
  BY <1>1, <1>2, <1>3, <1>4, Turn

\* A statement outside the evaluator leaves the call where it is.
LEMMA CallStays ==
    ASSUME call \in [Procs -> Evaluator!Frame], NEW p \in Procs, UNCHANGED call
    PROVE  Evaluator!Goto(p, call[p])
  BY DEF Evaluator!Goto

\* What is left of a task after its node,
LEMMA NextNodeFields ==
    ASSUME NEW p \in Procs, NEW t \in Task
    PROVE  /\ NextNode(p, t).pc \in {"idle", "expire", "evaluate"}
           /\ NextNode(p, t).rest = t.rest
           /\ ~NextNode(p, t).log
<1>1. CASE t.rest = {}
  BY <1>1, IdleOwesNothing DEF NextNode
<1>2. CASE t.rest # {}
  <2> DEFINE pc == IF p = Job THEN "expire" ELSE "evaluate"
             u == [NoTask EXCEPT !.pc = pc, !.rest = t.rest]
  <2>1. NextNode(p, t) = u
    BY <1>2 DEF NextNode
  <2>2. NoTask = [pc |-> "idle", node |-> None, state |-> None, age |-> None,
           log |-> FALSE, todo |-> {}, rest |-> {}, rule |-> None, row |-> None]
    BY DEF NoTask
  <2>3. pc \in {"expire", "evaluate"}
    OBVIOUS
  <2> HIDE DEF pc
  <2>4. u.pc = pc /\ u.rest = t.rest /\ u.log = FALSE
    BY <2>2
  <2> HIDE DEF u
  <2>5. QED BY <2>1, <2>3, <2>4
<1>3. QED
  BY <1>1, <1>2

\* and that it is current if the rows still listed are.
LEMMA NextNodeCurrent ==
    ASSUME NEW p \in Procs, NEW t \in Task,
           \A row \in t.rest : row[2] = nodeState[row[1]]
    PROVE  /\ TaskCurrent(NextNode(p, t))
           /\ \A f : f = Evaluator!Idle => Calls(NextNode(p, t), f)
           /\ \A r, n : (\E s \in NodeStates : <<n, s>> \in t.rest)
                           => TaskOwes(NextNode(p, t), r, n)
  BY NextNodeFields DEF TaskCurrent, TaskOwes, Calls

\* The same of a task after its rule.
LEMMA NextRuleCurrent ==
    ASSUME NEW p \in Procs, NEW t \in Task,
           t.state = nodeState[t.node], t.todo \subseteq Listed(t.node),
           \A row \in t.rest : row[2] = nodeState[row[1]]
    PROVE  /\ TaskCurrent(NextRule(p, t))
           /\ \A f : f = Evaluator!Idle => Calls(NextRule(p, t), f)
           /\ \A r, n : (\E s \in NodeStates : <<n, s>> \in t.rest)
                           => TaskOwes(NextRule(p, t), r, n)
           /\ \A r : (\E all \in BOOLEAN : <<r, all>> \in t.todo)
                        => TaskOwes(NextRule(p, t), r, t.node)
           /\ t.log => NextRule(p, t).log /\ NextRule(p, t).node = t.node
<1>1. ASSUME NEW pc \in {"rules", "log"}
      PROVE  LET u == [t EXCEPT !.pc = pc]
             IN  /\ u.pc = pc /\ u.state = t.state /\ u.node = t.node /\ u.todo = t.todo
                 /\ u.rest = t.rest /\ u.log = t.log
  BY DEF Task
<1>2. CASE t.todo # {}
  <2> DEFINE u == [t EXCEPT !.pc = "rules"]
  <2>1. NextRule(p, t) = u
    BY <1>2 DEF NextRule
  <2>2. /\ u.pc = "rules" /\ u.state = t.state /\ u.node = t.node /\ u.todo = t.todo
        /\ u.rest = t.rest /\ u.log = t.log
    BY <1>1
  <2> HIDE DEF u
  <2>3. QED BY <2>1, <2>2 DEF TaskCurrent, TaskOwes, Calls
<1>3. CASE t.todo = {} /\ t.log
  <2> DEFINE u == [t EXCEPT !.pc = "log"]
  <2>1. NextRule(p, t) = u
    BY <1>3 DEF NextRule
  <2>2. /\ u.pc = "log" /\ u.state = t.state /\ u.node = t.node /\ u.todo = t.todo
        /\ u.rest = t.rest /\ u.log = t.log
    BY <1>1
  <2> HIDE DEF u
  <2>3. QED BY <1>3, <2>1, <2>2 DEF TaskCurrent, TaskOwes, Calls
<1>4. CASE t.todo = {} /\ ~t.log
  BY <1>4, NextNodeCurrent DEF NextRule
<1>5. QED
  BY <1>2, <1>3, <1>4

\* A quiet step outside the evaluator.
LEMMA QuietTask ==
    ASSUME TypeOK, NEW p \in Procs, InTurn(p), NEW t, Continue(p, t),
           UNCHANGED <<call, alerts, rules, nodeState>>,
           Calls(t, call[p]), TaskCurrent(t),
           \A r \in Rules, n \in Nodes :
              TaskOwes(task[p], r, n) => Agrees(r, n) \/ TaskOwes(t, r, n),
           task[p].pc = "reconcile" => t.pc = "reconcile" /\ t.rule = task[p].rule,
           \A n \in Nodes : logged'[n] = nodeState[n] \/ (t.log /\ t.node = n)
    PROVE  InTurn(p)'
<1>1. task \in [Procs -> Task] /\ call \in [Procs -> Evaluator!Frame]
  BY DEF TypeOK, MonitorTypeOK, Evaluator!TypeOK
<1>2. PICK f : f = call[p]
  OBVIOUS
<1>3. Evaluator!Goto(p, f)
  BY <1>1, <1>2, CallStays
<1>4. \A a : Cleans(task[p], call[p], a) => Cleans(t, f, a)
  BY <1>2 DEF Cleans
<1>5. CallCurrent(f)
  BY <1>2 DEF InTurn
<1>6. QED
  BY <1>1, <1>2, <1>3, <1>4, <1>5, QuietTurn

\* Heartbeats and shutdown notices, in their turn.
LEMMA AgentTurn ==
    ASSUME TypeOK, NEW p \in Procs, InTurn(p),
           (task[p] = NoTask /\ Agent(p)) \/ Touch(p)
    PROVE  InTurn(p)'
<1>1. task[p] \in Task /\ TaskOK(task[p]) /\ TaskCurrent(task[p])
  BY TaskKnown DEF TypeOK, InTurn
<1>2. NoTask = [pc |-> "idle", node |-> None, state |-> None, age |-> None,
           log |-> FALSE, todo |-> {}, rest |-> {}, rule |-> None, row |-> None]
  BY DEF NoTask
<1>3. Calls(task[p], call[p]) /\ Logged(task[p])
  BY DEF InTurn
<1>4. ASSUME NEW t, Continue(p, t), UNCHANGED <<call, alerts, rules, nodeState, logged>>,
             task[p].pc \in {"idle", "touch"}, ~task[p].log, task[p].rest = {},
             t.pc \in {"touch", "set", "list"}, t.rest = {}, ~t.log,
             t.pc = "list" => t.state = nodeState[t.node]
      PROVE  InTurn(p)'
  <2>1. call[p] = Evaluator!Idle
    BY <1>3, <1>4 DEF Calls
  <2>2. Calls(t, call[p]) /\ TaskCurrent(t)
    BY <1>4, <2>1 DEF Calls, TaskCurrent
  <2>3. \A r, n : ~TaskOwes(task[p], r, n)
    BY <1>4 DEF TaskOwes
  <2>4. \A n \in Nodes : logged'[n] = nodeState[n]
    BY <1>3, <1>4 DEF Logged
  <2>5. QED
    BY <1>4, <2>2, <2>3, <2>4, QuietTask
<1>5. ASSUME task[p] = NoTask, NEW n \in Nodes, NEW age \in Ages, Heartbeat(p, n, age)
      PROVE  InTurn(p)'
  <2>1. PICK t : t = [NoTask EXCEPT !.pc = "touch", !.node = n,
                                    !.state = nodeState[n], !.age = age]
    OBVIOUS
  <2>2. t.pc = "touch" /\ t.rest = {} /\ ~t.log
    BY <1>2, <2>1
  <2>3. Continue(p, t) /\ UNCHANGED <<call, alerts, rules, nodeState, logged>>
    BY <1>5, <2>1 DEF Heartbeat, evaluatorVars, nodeVars
  <2>4. QED
    BY <1>2, <1>4, <1>5, <2>2, <2>3
<1>6. ASSUME task[p] = NoTask, NEW n \in Nodes, Shutdown(p, n)
      PROVE  InTurn(p)'
  <2>1. PICK t : t = [NoTask EXCEPT !.pc = "set", !.node = n, !.state = "offline"]
    OBVIOUS
  <2>2. t.pc = "set" /\ t.rest = {} /\ ~t.log
    BY <1>2, <2>1
  <2>3. Continue(p, t) /\ UNCHANGED <<call, alerts, rules, nodeState, logged>>
    BY <1>6, <2>1 DEF Shutdown, evaluatorVars, nodeVars
  <2>4. QED
    BY <1>2, <1>4, <1>6, <2>2, <2>3
<1>7. ASSUME Touch(p) PROVE InTurn(p)'
  <2>1. PICK t : t = [task[p] EXCEPT
               !.pc = IF task[p].state = "online" THEN "list" ELSE "set",
               !.state = IF task[p].state = "online" THEN nodeState[task[p].node] ELSE "online",
               !.age = None]
    OBVIOUS
  <2>2. /\ t.pc \in {"list", "set"} /\ t.rest = task[p].rest /\ t.log = task[p].log
        /\ t.pc = "list" => t.state = nodeState[t.node]
    BY <1>1, <2>1 DEF Task
  <2>3. task[p].pc = "touch" /\ task[p].rest = {} /\ ~task[p].log
    BY <1>1, <1>7 DEF Touch, At, TaskCurrent
  <2>4. Continue(p, t) /\ UNCHANGED <<call, alerts, rules, nodeState, logged>>
    BY <1>7, <2>1 DEF Touch, evaluatorVars
  <2>5. QED
    BY <1>4, <2>2, <2>3, <2>4
<1>8. QED
  BY <1>5, <1>6, <1>7 DEF Agent

\* Going on after a node or a rule forgets nothing.
LEMMA RulesTurn ==
    ASSUME TypeOK, NEW p \in Procs, InTurn(p),
           ListRules(p) \/ LogState(p) \/ EvaluateNode(p)
    PROVE  InTurn(p)'
<1>1. task[p] \in Task /\ TaskOK(task[p]) /\ TaskCurrent(task[p])
  BY TaskKnown DEF TypeOK, InTurn
<1>2. Calls(task[p], call[p]) /\ Logged(task[p])
  BY DEF InTurn
<1>3. \A r \in Rules, n \in Nodes :
         Watches(r, n) => \E all \in BOOLEAN : <<r, all>> \in Listed(n)
  BY DEF Watches, Listed
<1>4. ASSUME ListRules(p) PROVE InTurn(p)'
  <2>1. PICK u : u = [task[p] EXCEPT !.todo = Listed(task[p].node)]
    OBVIOUS
  <2>2. u \in Task /\ /\ u.node = task[p].node /\ u.state = task[p].state
                      /\ u.rest = task[p].rest /\ u.log = task[p].log
                      /\ u.todo = Listed(u.node)
    BY <1>1, <2>1, ListedTyped DEF Task
  <2>3. task[p].pc = "list" /\ call[p] = Evaluator!Idle
    BY <1>2, <1>4 DEF ListRules, At, Calls
  <2>4. u.state = nodeState[u.node] /\ \A row \in u.rest : row[2] = nodeState[row[1]]
    BY <1>1, <2>2, <2>3 DEF TaskCurrent
  <2>5. PICK t : t = NextRule(p, u)
    OBVIOUS
  <2>6. /\ TaskCurrent(t) /\ Calls(t, call[p])
        /\ \A r, n : (\E s \in NodeStates : <<n, s>> \in u.rest) => TaskOwes(t, r, n)
        /\ \A r : (\E all \in BOOLEAN : <<r, all>> \in u.todo) => TaskOwes(t, r, u.node)
        /\ u.log => t.log /\ t.node = u.node
    BY <2>2, <2>3, <2>4, <2>5, NextRuleCurrent
  <2>7. ASSUME NEW r \in Rules, NEW n \in Nodes, TaskOwes(task[p], r, n)
        PROVE  Agrees(r, n) \/ TaskOwes(t, r, n)
    <3>1. n = u.node \/ \E s \in NodeStates : <<n, s>> \in u.rest
      BY <2>2, <2>3, <2>7 DEF TaskOwes
    <3>2. QED
      BY <1>3, <2>2, <2>6, <3>1 DEF Agrees
  <2>8. /\ Continue(p, t) /\ UNCHANGED <<call, alerts, rules, nodeState, logged>>
    BY <1>4, <2>1, <2>5 DEF ListRules, evaluatorVars, nodeVars
  <2>9. \A n \in Nodes : logged'[n] = nodeState[n] \/ (t.log /\ t.node = n)
    BY <1>2, <2>2, <2>6, <2>8 DEF Logged
  <2>10. QED
    BY <2>3, <2>6, <2>7, <2>8, <2>9, QuietTask
<1>5. ASSUME LogState(p) PROVE InTurn(p)'
  <2>1. PICK t : t = NextNode(p, task[p])
    OBVIOUS
  <2>2. task[p].pc = "log" /\ call[p] = Evaluator!Idle
    BY <1>2, <1>5 DEF LogState, At, Calls
  <2>3. /\ TaskCurrent(t) /\ Calls(t, call[p])
        /\ \A r, n : (\E s \in NodeStates : <<n, s>> \in task[p].rest) => TaskOwes(t, r, n)
    BY <1>1, <2>1, <2>2, NextNodeCurrent DEF TaskCurrent
  <2>4. \A r, n : TaskOwes(task[p], r, n) => TaskOwes(t, r, n)
    BY <2>2, <2>3 DEF TaskOwes
  <2>5. /\ Continue(p, t) /\ UNCHANGED <<call, alerts, rules, nodeState>>
        /\ logged' = [logged EXCEPT ![task[p].node] = task[p].state]
    BY <1>5, <2>1 DEF LogState, evaluatorVars
  <2>6. task[p].state = nodeState[task[p].node] /\ logged \in [Nodes -> NodeStates]
    BY <1>1, <2>2 DEF TaskCurrent, TypeOK, MonitorTypeOK
  <2>7. \A n \in Nodes : logged'[n] = nodeState[n]
    BY <1>2, <2>5, <2>6 DEF Logged
  <2>8. QED
    BY <2>2, <2>3, <2>4, <2>5, <2>7, QuietTask
<1>6. ASSUME EvaluateNode(p) PROVE InTurn(p)'
  <2>1. PICK row \in task[p].rest :
           Continue(p, NextRule(p, [task[p] EXCEPT
              !.node = row[1], !.state = row[2], !.rest = @ \ {row},
              !.todo = Listed(row[1])]))
    BY <1>6, Zenon DEF EvaluateNode
  <2>2. PICK u : u = [task[p] EXCEPT
              !.node = row[1], !.state = row[2], !.rest = @ \ {row},
              !.todo = Listed(row[1])]
    OBVIOUS
  <2>3. u \in Task /\ /\ u.node = row[1] /\ u.state = row[2]
                      /\ u.rest = task[p].rest \ {row} /\ u.log = task[p].log
                      /\ u.todo = Listed(u.node)
    <3>1. row \in Nodes \X NodeStates
      BY <1>1 DEF Task
    <3>2. Listed(row[1]) \in SUBSET (Rules \X BOOLEAN)
      BY ListedTyped
    <3>3. QED BY <1>1, <2>2, <3>1, <3>2 DEF Task
  <2>4. task[p].pc = "evaluate" /\ call[p] = Evaluator!Idle /\ ~task[p].log
    <3>1. At(p, "evaluate")
      BY <1>6, Zenon DEF EvaluateNode
    <3>2. QED BY <1>1, <1>2, <3>1 DEF At, Calls, TaskCurrent
  <2>5. u.state = nodeState[u.node] /\ \A x \in u.rest : x[2] = nodeState[x[1]]
    BY <1>1, <2>1, <2>3 DEF TaskCurrent
  <2>6. PICK t : t = NextRule(p, u)
    OBVIOUS
  <2>7. /\ TaskCurrent(t) /\ Calls(t, call[p])
        /\ \A r, n : (\E s \in NodeStates : <<n, s>> \in u.rest) => TaskOwes(t, r, n)
        /\ \A r : (\E all \in BOOLEAN : <<r, all>> \in u.todo) => TaskOwes(t, r, u.node)
    BY <2>3, <2>4, <2>5, <2>6, NextRuleCurrent
  <2>8. ASSUME NEW r \in Rules, NEW n \in Nodes, TaskOwes(task[p], r, n)
        PROVE  Agrees(r, n) \/ TaskOwes(t, r, n)
    <3>1. PICK s \in NodeStates : <<n, s>> \in task[p].rest
      BY <2>4, <2>8 DEF TaskOwes
    <3>2. CASE <<n, s>> \in u.rest
      BY <2>7, <3>2
    <3>3. CASE n = u.node
      BY <1>3, <2>3, <2>7, <3>3 DEF Agrees
    <3>4. QED
      BY <2>3, <3>1, <3>2, <3>3
  <2>9. /\ Continue(p, t) /\ UNCHANGED <<call, alerts, rules, nodeState, logged>>
    <3>1. UNCHANGED <<evaluatorVars, nodeVars>>
      BY <1>6, Zenon DEF EvaluateNode
    <3>2. Continue(p, t)
      BY <2>1, <2>2, <2>6, Zenon
    <3>3. QED BY <3>1, <3>2 DEF evaluatorVars, nodeVars
  <2>10. \A n \in Nodes : logged'[n] = nodeState[n]
    BY <1>2, <2>4, <2>9 DEF Logged
  <2>11. QED
    BY <2>4, <2>7, <2>8, <2>9, <2>10, QuietTask
<1>7. QED
  BY <1>4, <1>5, <1>6

\* Where a call that closes the alerts in queue begins.
LEMMA ClosingFields ==
    \A queue, why : /\ Evaluator!Closing(queue, why).queue = queue
                    /\ \/ Evaluator!Closing(queue, why).pc = "close"
                       \/ queue = {} /\ Evaluator!Closing(queue, why).pc = "done"
<1>1. Evaluator!Idle = [pc |-> "idle", rule |-> None, target |-> None,
         alert |-> None, reason |-> None, queue |-> {}]
  BY DEF Evaluator!Idle
<1>2. ASSUME NEW queue, NEW why
      PROVE  /\ Evaluator!Closing(queue, why).queue = queue
             /\ \/ Evaluator!Closing(queue, why).pc = "close"
                \/ queue = {} /\ Evaluator!Closing(queue, why).pc = "done"
  <2>1. CASE queue = {}
    BY <1>1, <2>1 DEF Evaluator!Closing, Evaluator!Returned
  <2>2. CASE queue # {}
    BY <1>1, <2>2 DEF Evaluator!Closing
  <2>3. QED BY <2>1, <2>2
<1>3. QED
  BY <1>2

\* A frame that closes what it rightly closes is right.
LEMMA ClosingCurrent ==
    ASSUME NEW queue, NEW why,
           \A a \in queue : /\ alerts[a].status = "active"
                            /\ ~Watches(alerts[a].rule, alerts[a].target)
    PROVE  /\ CallCurrent(Evaluator!Closing(queue, why))
           /\ \A r, n : ~CallOwes(Evaluator!Closing(queue, why), r, n)
  BY ClosingFields DEF CallCurrent, CallOwes

\* A rule is applied to a node as both are.
LEMMA EvaluateTurn ==
    ASSUME TypeOK, NEW p \in Procs, InTurn(p), EvaluateRule(p)
    PROVE  InTurn(p)'
<1>1. /\ task[p] \in Task /\ TaskOK(task[p]) /\ TaskCurrent(task[p])
      /\ task \in [Procs -> Task] /\ call \in [Procs -> Evaluator!Frame]
  BY TaskKnown DEF TypeOK, MonitorTypeOK, Evaluator!TypeOK, InTurn
<1>2. task[p].pc = "rules" /\ call[p] = Evaluator!Idle /\ Logged(task[p])
  BY DEF EvaluateRule, At, InTurn, Calls
<1>3. PICK n : n = task[p].node
  OBVIOUS
<1>4. n \in Nodes /\ task[p].state = nodeState[n] /\ nodeState[n] \in NodeStates
  BY <1>1, <1>2, <1>3 DEF TaskOK, TaskCurrent, TypeOK, MonitorTypeOK
<1>5. PICK r \in Rules, global \in BOOLEAN :
          /\ <<r, global>> \in task[p].todo
          /\ IF global /\ task[p].node \notin Visible
             THEN Evaluator!CloseForTarget(p, r, task[p].node)
             ELSE Evaluator!Apply(p, r, task[p].node, task[p].state = "offline")
          /\ Continue(p, [task[p] EXCEPT !.pc = "call", !.todo = @ \ {<<r, global>>}])
  BY Zenon DEF EvaluateRule
<1>6. PICK t : t = [task[p] EXCEPT !.pc = "call", !.todo = @ \ {<<r, global>>}]
  OBVIOUS
<1>7. /\ t.pc = "call" /\ t.todo = task[p].todo \ {<<r, global>>}
      /\ t.node = n /\ t.state = task[p].state /\ t.rest = task[p].rest
      /\ t.log = task[p].log
  BY <1>1, <1>3, <1>6 DEF Task
<1>8. TaskCurrent(t)
  BY <1>1, <1>2, <1>3, <1>7 DEF TaskCurrent
<1>9. Fits(r, n) /\ (global <=> rules[r].scope = All)
  BY <1>1, <1>2, <1>3, <1>5 DEF TaskCurrent, Listed, Fits
<1>10. Continue(p, t) /\ UNCHANGED <<nodeState, logged>>
  BY <1>5, <1>6 DEF EvaluateRule, nodeVars
<1>11. ASSUME NEW f, Evaluator!Goto(p, f), UNCHANGED <<alerts, rules>>,
              CallCurrent(f), Agrees(r, n) \/ CallOwes(f, r, n)
       PROVE  InTurn(p)'
  <2>1. Calls(t, f)
    BY <1>7 DEF Calls
  <2>2. ASSUME NEW r2 \in Rules, NEW n2 \in Nodes,
               TaskOwes(task[p], r2, n2) \/ CallOwes(call[p], r2, n2)
        PROVE  Agrees(r2, n2) \/ TaskOwes(t, r2, n2) \/ CallOwes(f, r2, n2)
    <3>1. TaskOwes(task[p], r2, n2)
      BY <1>2, <2>2, IdleOwesNothing
    <3>2. CASE r2 = r /\ n2 = n
      BY <1>11, <3>2
    <3>3. CASE \E s \in NodeStates : <<n2, s>> \in task[p].rest
      BY <1>7, <3>3 DEF TaskOwes
    <3>4. CASE n2 = n /\ r2 # r /\ \E all \in BOOLEAN : <<r2, all>> \in task[p].todo
      BY <1>7, <3>4 DEF TaskOwes
    <3>5. QED
      BY <1>2, <1>3, <3>1, <3>2, <3>3, <3>4 DEF TaskOwes
  <2>3. \A a : ~Cleans(task[p], call[p], a)
    BY <1>2, IdleOwesNothing DEF Cleans
  <2>4. \A m \in Nodes : logged'[m] = nodeState[m] \/ (t.log /\ t.node = m)
    BY <1>2, <1>3, <1>7, <1>10 DEF Logged
  <2>5. QED
    BY <1>1, <1>8, <1>10, <1>11, <2>1, <2>2, <2>3, <2>4, QuietTurn
<1>12. CASE global /\ n \notin Visible
  <2>1. Evaluator!CloseForTarget(p, r, n)
    BY <1>3, <1>5, <1>12
  <2>2. PICK f : f = Evaluator!Closing(Evaluator!ActiveFor(r, n), "target_hidden")
    OBVIOUS
  <2>3. ~Watches(r, n)
    BY <1>4, <1>9, <1>12 DEF Watches
  <2>4. CallCurrent(f)
    BY <2>2, <2>3, ClosingCurrent DEF Evaluator!ActiveFor
  <2>5. QED
    BY <1>11, <2>1, <2>2, <2>3, <2>4 DEF Evaluator!CloseForTarget, Agrees
<1>13. CASE ~(global /\ n \notin Visible)
  <2>1. Evaluator!Apply(p, r, n, nodeState[n] = "offline")
    BY <1>3, <1>4, <1>5, <1>13
  <2>2. Evaluator!Idle = [pc |-> "idle", rule |-> None, target |-> None,
                          alert |-> None, reason |-> None, queue |-> {}]
    BY DEF Evaluator!Idle
  <2>3. CASE /\ nodeState[n] = "offline"
             /\ Evaluator!Goto(p, Evaluator!Opening(r, n))
    <3>1. PICK f : f = Evaluator!Opening(r, n)
      OBVIOUS
    <3>2. f.pc = "create" /\ f.rule = r /\ f.target = n /\ f.queue = {}
      BY <2>2, <3>1 DEF Evaluator!Opening
    <3>3. CallCurrent(f) /\ CallOwes(f, r, n)
      BY <1>4, <1>9, <2>3, <3>2 DEF CallCurrent, CallOwes
    <3>4. QED
      BY <1>11, <2>1, <2>3, <3>1, <3>3 DEF Evaluator!Apply
  <2>4. CASE /\ nodeState[n] # "offline"
             /\ \E a \in Evaluator!ActiveFor(r, n) :
                   Evaluator!Goto(p, Evaluator!Handling("resolve", a))
    <3>1. PICK a \in Evaluator!ActiveFor(r, n) :
             Evaluator!Goto(p, Evaluator!Handling("resolve", a))
      BY <2>4
    <3>2. PICK f : f = Evaluator!Handling("resolve", a)
      OBVIOUS
    <3>3. f.pc = "resolve" /\ f.alert = a /\ f.queue = {}
      BY <2>2, <3>2 DEF Evaluator!Handling
    <3>4. CallCurrent(f) /\ CallOwes(f, r, n)
      BY <1>4, <2>4, <3>3 DEF CallCurrent, CallOwes, Evaluator!ActiveFor, NodeStates
    <3>5. QED
      BY <1>11, <2>1, <3>1, <3>2, <3>4 DEF Evaluator!Apply
  <2>5. CASE /\ nodeState[n] = "offline" <=> Evaluator!ActiveFor(r, n) # {}
             /\ Evaluator!Goto(p, Evaluator!Returned)
    <3>1. PICK f : f = Evaluator!Returned
      OBVIOUS
    <3>2. f.pc = "done" /\ f.queue = {}
      BY <2>2, <3>1 DEF Evaluator!Returned
    <3>3. CallCurrent(f)
      BY <3>2 DEF CallCurrent
    <3>4. Agrees(r, n)
      BY <2>5 DEF Agrees, Alerting
    <3>5. QED
      BY <1>11, <2>1, <2>5, <3>1, <3>3, <3>4 DEF Evaluator!Apply
  <2>6. QED
    BY <2>1, <2>3, <2>4, <2>5 DEF Evaluator!Apply
<1>14. QED
  BY <1>12, <1>13

\* The evaluator has returned, without an error.
LEMMA EndCallTurn ==
    ASSUME TypeOK, NEW p \in Procs, InTurn(p), EndCall(p)
    PROVE  InTurn(p)'
<1>1. /\ task[p] \in Task /\ TaskOK(task[p]) /\ TaskCurrent(task[p])
      /\ task \in [Procs -> Task] /\ call \in [Procs -> Evaluator!Frame]
      /\ CallCurrent(call[p]) /\ Logged(task[p])
  BY TaskKnown DEF TypeOK, MonitorTypeOK, Evaluator!TypeOK, InTurn
<1>2. task[p].pc = "call" /\ call[p].pc = "done" /\ call[p].queue = {}
  BY <1>1 DEF EndCall, At, Evaluator!Return, Evaluator!At, CallCurrent
<1>3. PICK t : t = NextRule(p, task[p])
  OBVIOUS
<1>4. /\ Continue(p, t) /\ Evaluator!Goto(p, Evaluator!Idle)
      /\ UNCHANGED <<alerts, rules, nodeState, logged>>
  BY <1>2, <1>3 DEF EndCall, Evaluator!Return, Evaluator!At, nodeVars
<1>5. /\ TaskCurrent(t) /\ Calls(t, Evaluator!Idle)
      /\ \A r, n : (\E s \in NodeStates : <<n, s>> \in task[p].rest) => TaskOwes(t, r, n)
      /\ \A r : (\E all \in BOOLEAN : <<r, all>> \in task[p].todo)
                   => TaskOwes(t, r, task[p].node)
      /\ task[p].log => t.log /\ t.node = task[p].node
  BY <1>1, <1>2, <1>3, NextRuleCurrent DEF TaskCurrent
<1>6. \A r, n : TaskOwes(task[p], r, n) \/ CallOwes(call[p], r, n) => TaskOwes(t, r, n)
  <2>1. \A r, n : ~CallOwes(call[p], r, n)
    BY <1>2 DEF CallOwes
  <2>2. ASSUME NEW r, NEW n, TaskOwes(task[p], r, n)
        PROVE  \/ \E s \in NodeStates : <<n, s>> \in task[p].rest
               \/ n = task[p].node /\ \E all \in BOOLEAN : <<r, all>> \in task[p].todo
    BY <1>2, <2>2 DEF TaskOwes
  <2>3. QED BY <1>5, <2>1, <2>2
<1>7. \A a : ~Cleans(task[p], call[p], a)
  BY <1>2 DEF Cleans
<1>8. CallCurrent(Evaluator!Idle)
  BY IdleOwesNothing DEF CallCurrent
<1>9. \A n \in Nodes : logged'[n] = nodeState[n] \/ (t.log /\ t.node = n)
  BY <1>1, <1>4, <1>5 DEF Logged
<1>10. PICK f : f = Evaluator!Idle
  OBVIOUS
<1>11. QED
  BY <1>1, <1>4, <1>5, <1>6, <1>7, <1>8, <1>9, <1>10, QuietTurn

\* A rule that was edited: its alerts are looked at, ...
LEMMA ReconcileTurn ==
    ASSUME TypeOK, NEW p \in Procs, InTurn(p), ReconcileRule(p)
    PROVE  InTurn(p)'
<1>1. /\ task[p] \in Task /\ TaskOK(task[p]) /\ TaskCurrent(task[p])
      /\ task \in [Procs -> Task] /\ call \in [Procs -> Evaluator!Frame]
      /\ Logged(task[p])
  BY TaskKnown DEF TypeOK, MonitorTypeOK, Evaluator!TypeOK, InTurn
<1>2. task[p].pc = "reconcile" /\ call[p] = Evaluator!Idle
  BY DEF ReconcileRule, At, InTurn, Calls
<1>3. PICK t : t = [task[p] EXCEPT !.pc = "reconciling"]
  OBVIOUS
<1>4. /\ t.pc = "reconciling" /\ t.rule = task[p].rule /\ t.row = task[p].row
      /\ t.rest = task[p].rest /\ t.log = task[p].log
  BY <1>1, <1>3 DEF Task
<1>5. ~t.log /\ TaskCurrent(t)
  BY <1>1, <1>2, <1>4 DEF TaskCurrent
<1>6. PICK r, row : r = task[p].rule /\ row = task[p].row
  OBVIOUS
<1>7. r \in Rules /\ row = rules[r] /\ row.state = "live"
  BY <1>1, <1>2, <1>6 DEF TaskOK, TaskCurrent
<1>8. PICK stale, why :
         /\ stale = {a \in Evaluator!ActiveOfRule(r) :
                        ~(row.enabled /\ Evaluator!RuleAppliesTo(row, a))}
         /\ why = IF row.enabled THEN "rule_scope_changed" ELSE "rule_disabled"
  OBVIOUS
<1>9. PICK f : f = Evaluator!Closing(stale, why)
  OBVIOUS
<1>10. /\ Continue(p, t) /\ Evaluator!Goto(p, f)
       /\ UNCHANGED <<alerts, rules, nodeState, logged>>
  BY <1>3, <1>6, <1>8, <1>9 DEF ReconcileRule, Evaluator!Reconcile, nodeVars
<1>11. \A a \in stale : /\ alerts[a].status = "active"
                        /\ ~Watches(alerts[a].rule, alerts[a].target)
  BY <1>7, <1>8 DEF Evaluator!ActiveOfRule, Evaluator!RuleAppliesTo, Watches
<1>12. CallCurrent(f) /\ f.queue = stale
  BY <1>9, <1>11, ClosingCurrent, ClosingFields
<1>13. ASSUME NEW a \in AlertIds, alerts[a].status = "active", Cleans(task[p], call[p], a)
       PROVE  Fits(alerts[a].rule, alerts[a].target) \/ Cleans(t, f, a)
  <2>1. alerts[a].rule = r
    BY <1>2, <1>6, <1>13, IdleOwesNothing DEF Cleans
  <2>2. CASE a \in stale
    BY <1>12, <2>2 DEF Cleans
  <2>3. CASE a \notin stale
    BY <1>7, <1>8, <1>13, <2>1, <2>3 DEF Evaluator!ActiveOfRule, Evaluator!RuleAppliesTo, Fits
  <2>4. QED BY <2>2, <2>3
<1>14. \A r2, n2 : TaskOwes(task[p], r2, n2) \/ CallOwes(call[p], r2, n2) => TaskOwes(t, r2, n2)
  BY <1>2, <1>4, IdleOwesNothing DEF TaskOwes
<1>15. \A n \in Nodes : logged'[n] = nodeState[n] \/ (t.log /\ t.node = n)
  BY <1>1, <1>4, <1>5, <1>10 DEF Logged
<1>16. Calls(t, f)
  BY <1>4 DEF Calls
<1>17. QED
  BY <1>1, <1>5, <1>10, <1>12, <1>13, <1>14, <1>15, <1>16, QuietTurn

\* ... those it has no claim to are closed, and its nodes are loaded.
LEMMA EndReconcileTurn ==
    ASSUME TypeOK, NEW p \in Procs, InTurn(p), EndReconcile(p)
    PROVE  InTurn(p)'
<1>1. /\ task[p] \in Task /\ TaskOK(task[p]) /\ TaskCurrent(task[p])
      /\ task \in [Procs -> Task] /\ call \in [Procs -> Evaluator!Frame]
      /\ CallCurrent(call[p]) /\ Logged(task[p])
  BY TaskKnown DEF TypeOK, MonitorTypeOK, Evaluator!TypeOK, InTurn
<1>2. task[p].pc = "reconciling" /\ call[p].pc = "done" /\ call[p].queue = {}
  BY <1>1 DEF EndReconcile, At, Evaluator!Return, Evaluator!At, CallCurrent
<1>3. PICK t : t = IF task[p].row.enabled THEN [task[p] EXCEPT !.pc = "load"] ELSE NoTask
  OBVIOUS
<1>4. /\ Continue(p, t) /\ Evaluator!Goto(p, Evaluator!Idle)
      /\ UNCHANGED <<alerts, rules, nodeState, logged>>
  BY <1>2, <1>3 DEF EndReconcile, Evaluator!Return, Evaluator!At, nodeVars
<1>5. CallCurrent(Evaluator!Idle) /\ Calls(t, Evaluator!Idle)
  BY IdleOwesNothing DEF CallCurrent, Calls
<1>6. \A a : ~Cleans(task[p], call[p], a)
  BY <1>2 DEF Cleans
<1>7. \A r, n : ~CallOwes(call[p], r, n)
  BY <1>2 DEF CallOwes
<1>8. \A n \in Nodes : logged'[n] = nodeState[n]
  BY <1>1, <1>2, <1>4 DEF Logged, TaskCurrent
<1>9. PICK f : f = Evaluator!Idle
  OBVIOUS
<1>10. CASE task[p].row.enabled
  <2>1. /\ t.pc = "load" /\ t.rule = task[p].rule /\ t.row = task[p].row
        /\ t.rest = task[p].rest /\ t.log = task[p].log
    BY <1>1, <1>3, <1>10 DEF Task
  <2>2. TaskCurrent(t)
    BY <1>1, <1>2, <2>1 DEF TaskCurrent
  <2>3. \A r, n : TaskOwes(task[p], r, n) => TaskOwes(t, r, n)
    BY <1>2, <2>1 DEF TaskOwes
  <2>4. QED
    BY <1>1, <1>4, <1>5, <1>6, <1>7, <1>8, <1>9, <2>2, <2>3, QuietTurn
<1>11. CASE ~task[p].row.enabled
  <2>1. t = NoTask
    BY <1>3, <1>11
  <2>2. TaskCurrent(t)
    BY <2>1, IdleOwesNothing DEF TaskCurrent
  <2>3. ASSUME NEW r \in Rules, NEW n \in Nodes, TaskOwes(task[p], r, n)
        PROVE  Agrees(r, n)
    <3>1. ~rules[task[p].rule].enabled
      BY <1>1, <1>2, <1>11 DEF TaskCurrent
    <3>2. r = task[p].rule
      BY <1>1, <1>2, <2>3 DEF TaskOwes, TaskCurrent
    <3>3. QED BY <3>1, <3>2 DEF Agrees, Watches
  <2>4. QED
    BY <1>1, <1>4, <1>5, <1>6, <1>7, <1>8, <1>9, <2>2, <2>3, QuietTurn
<1>12. QED
  BY <1>10, <1>11

\* ... Every node it watches is, with its state.
LEMMA LoadTurn ==
    ASSUME TypeOK, NEW p \in Procs, InTurn(p), LoadNodes(p)
    PROVE  InTurn(p)'
<1>1. task[p] \in Task /\ TaskOK(task[p]) /\ TaskCurrent(task[p]) /\ Logged(task[p])
  BY TaskKnown DEF TypeOK, InTurn
<1>2. task[p].pc = "load" /\ call[p] = Evaluator!Idle
  BY DEF LoadNodes, At, InTurn, Calls
<1>3. PICK r, scope : r = task[p].rule /\ scope = task[p].row.scope
  OBVIOUS
<1>4. scope = rules[r].scope /\ scope \in Nodes \cup {All}
  BY <1>1, <1>2, <1>3 DEF TaskOK, TaskCurrent, Evaluator!RuleRow
<1>5. PICK found : found = IF scope = All THEN Visible ELSE {scope}
  OBVIOUS
<1>6. PICK u : u = [NoTask EXCEPT !.rest = {<<n, nodeState[n]>> : n \in found}]
  OBVIOUS
<1>7. found \subseteq Nodes
  BY <1>4, <1>5
<1>8. u.rest = {<<n, nodeState[n]>> : n \in found}
  BY <1>6 DEF NoTask
<1>9. u.rest \subseteq Nodes \X NodeStates
  BY <1>7, <1>8 DEF TypeOK, MonitorTypeOK
<1>10. u \in Task
  BY <1>6, <1>8, <1>9, NoTaskGood DEF GoodTask, Task
<1>11. PICK t : t = NextNode(p, u)
  OBVIOUS
<1>12. \A row \in u.rest : row[2] = nodeState[row[1]]
  BY <1>8
<1>13. /\ TaskCurrent(t) /\ Calls(t, call[p])
       /\ \A r2, n : (\E s \in NodeStates : <<n, s>> \in u.rest) => TaskOwes(t, r2, n)
  BY <1>2, <1>10, <1>11, <1>12, NextNodeCurrent
<1>14. Continue(p, t) /\ UNCHANGED <<call, alerts, rules, nodeState, logged>>
  BY <1>3, <1>5, <1>6, <1>11 DEF LoadNodes, evaluatorVars, nodeVars
<1>15. ASSUME NEW r2 \in Rules, NEW n \in Nodes, TaskOwes(task[p], r2, n)
       PROVE  Agrees(r2, n) \/ TaskOwes(t, r2, n)
  <2>1. r2 = r
    BY <1>1, <1>2, <1>3, <1>15 DEF TaskOwes, TaskCurrent
  <2>2. CASE n \in found
    <3>1. <<n, nodeState[n]>> \in u.rest /\ nodeState[n] \in NodeStates
      BY <1>8, <2>2 DEF TypeOK, MonitorTypeOK
    <3>2. QED BY <1>13, <3>1
  <2>3. CASE n \notin found
    BY <1>4, <1>5, <2>1, <2>3 DEF Agrees, Watches
  <2>4. QED BY <2>2, <2>3
<1>16. \A n \in Nodes : logged'[n] = nodeState[n]
  BY <1>1, <1>2, <1>14 DEF Logged, TaskCurrent
<1>17. QED
  BY <1>2, <1>13, <1>14, <1>15, <1>16, QuietTask

\* The job lists the nodes that are stale, with their state.
LEMMA ExpiryTurn ==
    ASSUME TypeOK, InTurn(Job), task[Job] = NoTask, RunExpiry
    PROVE  InTurn(Job)'
<1>1. Job \in Procs
  BY DEF Procs
<1>2. task[Job].pc = "idle" /\ call[Job] = Evaluator!Idle /\ Logged(task[Job])
  BY IdleOwesNothing DEF InTurn, Calls
<1>3. PICK rows : rows = {<<n, nodeState[n]>> : n \in {m \in Nodes : Stale(m)}}
  OBVIOUS
<1>4. PICK t : t = [NoTask EXCEPT !.pc = "expire", !.rest = rows]
  OBVIOUS
<1>5. t.pc = "expire" /\ t.rest = rows /\ ~t.log
  BY <1>4 DEF NoTask
<1>6. TaskCurrent(t) /\ Calls(t, call[Job])
  BY <1>2, <1>3, <1>5 DEF TaskCurrent, Calls
<1>7. Continue(Job, t) /\ UNCHANGED <<call, alerts, rules, nodeState, logged>>
  BY <1>3, <1>4 DEF RunExpiry, evaluatorVars, nodeVars
<1>8. \A n \in Nodes : logged'[n] = nodeState[n]
  BY <1>2, <1>7, IdleOwesNothing DEF Logged
<1>9. QED
  BY <1>1, <1>2, <1>6, <1>7, <1>8, IdleOwesNothing, QuietTask

\* The transition of a node's state, which the rules are still to be told of.
LEMMA SetTurn ==
    ASSUME TypeOK, NEW p \in Procs, InTurn(p), NEW n \in Nodes, NEW state \in NodeStates,
           NEW u, u.node = n, u.state = state, u.pc \in {"set", "expire"}, u \in Task,
           task[p].pc \in {"set", "expire"},
           u.rest = task[p].rest \ {<<n, nodeState[n]>>},
           SetNodeState(p, u)
    PROVE  InTurn(p)'
<1>1. /\ task[p] \in Task /\ TaskCurrent(task[p]) /\ Logged(task[p])
      /\ task \in [Procs -> Task] /\ call \in [Procs -> Evaluator!Frame]
      /\ Tracked(task[p], call[p]) /\ Cleaned(task[p], call[p])
  BY TaskKnown DEF TypeOK, MonitorTypeOK, Evaluator!TypeOK, InTurn
<1>2. call[p] = Evaluator!Idle /\ ~task[p].log
  BY <1>1 DEF InTurn, Calls, TaskCurrent
<1>3. PICK t : t = [u EXCEPT !.pc = "list", !.log = TRUE]
  OBVIOUS
<1>4. t.pc = "list" /\ t.log /\ t.node = n /\ t.state = state /\ t.rest = u.rest
  BY <1>3 DEF Task
<1>5. /\ Continue(p, t) /\ nodeState' = [nodeState EXCEPT ![n] = state]
      /\ UNCHANGED <<alerts, rules, call, logged>>
  BY <1>3 DEF SetNodeState, evaluatorVars
<1>6. /\ nodeState'[n] = state
      /\ \A m \in Nodes \ {n} : nodeState'[m] = nodeState[m]
  BY <1>5 DEF TypeOK, MonitorTypeOK
<1>7. PICK f : f = Evaluator!Idle
  OBVIOUS
<1>8. Evaluator!Goto(p, f)
  BY <1>1, <1>2, <1>5, <1>7, CallStays
<1>9. Calls(t, f) /\ CallCurrent(f)'
  BY <1>7, IdleOwesNothing DEF Calls, CallCurrent
<1>10. TaskCurrent(t)'
  <2>1. ASSUME NEW row \in t.rest PROVE row[2] = nodeState'[row[1]]
    <3>1. row \in Nodes \X NodeStates /\ row \in task[p].rest /\ row # <<n, nodeState[n]>>
      BY <1>1, <1>4, <2>1 DEF Task
    <3>2. row[2] = nodeState[row[1]]
      BY <1>1, <3>1 DEF TaskCurrent
    <3>3. row[1] # n
      BY <3>1, <3>2
    <3>4. QED BY <1>6, <3>1, <3>2, <3>3
  <2>2. QED
    BY <1>4, <1>6, <2>1 DEF TaskCurrent
<1>11. Tracked(t, f)'
  <2>1. ASSUME NEW r \in Rules, NEW m \in Nodes
        PROVE  Agrees(r, m)' \/ TaskOwes(t, r, m)
    <3>1. CASE m = n
      BY <1>4, <3>1 DEF TaskOwes
    <3>2. CASE m # n
      <4>1. Agrees(r, m)' <=> Agrees(r, m)
        BY <1>5, <1>6, <3>2 DEF Agrees, Watches, Alerting, Evaluator!ActiveFor
      <4>2. Agrees(r, m) \/ TaskOwes(task[p], r, m)
        BY <1>1, <1>2, IdleOwesNothing DEF Tracked
      <4>3. TaskOwes(task[p], r, m) => TaskOwes(t, r, m)
        BY <1>4, <3>2 DEF TaskOwes
      <4>4. QED BY <4>1, <4>2, <4>3
    <3>3. QED BY <3>1, <3>2
  <2>2. QED BY <2>1 DEF Tracked, TaskOwes
<1>12. Cleaned(t, f)'
  <2>1. \A a : ~Cleans(task[p], call[p], a)
    BY <1>2, IdleOwesNothing DEF Cleans
  <2>2. \A r, m : Fits(r, m)' <=> Fits(r, m)
    BY <1>5 DEF Fits
  <2>3. QED BY <1>1, <1>5, <2>1, <2>2 DEF Cleaned
<1>13. Logged(t)'
  BY <1>1, <1>2, <1>4, <1>5, <1>6 DEF Logged
<1>14. QED
  BY <1>1, <1>5, <1>8, <1>9, <1>10, <1>11, <1>12, <1>13, Turn

\* By a request, or by the job.
LEMMA TransitionTurn ==
    ASSUME TypeOK, NEW p \in Procs, InTurn(p), SetState(p) \/ Expire(p)
    PROVE  InTurn(p)'
<1>1. task[p] \in Task /\ TaskOK(task[p]) /\ TaskCurrent(task[p])
  BY TaskKnown DEF TypeOK, InTurn
<1>2. ASSUME SetState(p) PROVE InTurn(p)'
  <2>1. task[p].pc = "set" /\ SetNodeState(p, task[p])
    BY <1>2 DEF SetState, At
  <2>2. task[p].node \in Nodes /\ task[p].state \in NodeStates /\ task[p].rest = {}
    BY <1>1, <2>1 DEF TaskOK, TaskCurrent
  <2>3. PICK n, state, u : n = task[p].node /\ state = task[p].state /\ u = task[p]
    OBVIOUS
  <2>4. QED
    BY <1>1, <2>1, <2>2, <2>3, SetTurn
<1>3. ASSUME Expire(p) PROVE InTurn(p)'
  <2>1. PICK row \in task[p].rest :
           SetNodeState(p, [task[p] EXCEPT !.node = row[1], !.state = "offline",
                                           !.rest = @ \ {row}])
    BY <1>3, Zenon DEF Expire
  <2>2. PICK u : u = [task[p] EXCEPT !.node = row[1], !.state = "offline", !.rest = @ \ {row}]
    OBVIOUS
  <2>3. row \in Nodes \X NodeStates
    BY <1>1 DEF Task
  <2>4. PICK n : n = row[1]
    OBVIOUS
  <2>5. task[p].pc = "expire"
    BY <1>3, Zenon DEF Expire, At
  <2>6. /\ u \in Task /\ u.pc = "expire" /\ u.node = n /\ u.state = "offline"
        /\ u.rest = task[p].rest \ {row}
    BY <1>1, <2>2, <2>3, <2>4, <2>5 DEF Task, NodeStates
  <2>7. row = <<n, nodeState[n]>>
    BY <1>1, <2>3, <2>4 DEF TaskCurrent
  <2>8. SetNodeState(p, u)
    BY <2>1, <2>2
  <2>9. n \in Nodes /\ "offline" \in NodeStates
    BY <2>3, <2>4 DEF NodeStates
  <2>10. QED
    BY <2>5, <2>6, <2>7, <2>8, <2>9, SetTurn
<1>4. QED
  BY <1>2, <1>3

\* A step of the evaluator that leaves the table alone, and all else but its
\* own frame.
LEMMA QuietStep ==
    ASSUME TypeOK, NEW p \in Procs, InTurn(p), NEW f, Evaluator!Goto(p, f),
           UNCHANGED <<alerts, rules, nodeVars, task>>,
           task[p].pc \in {"call", "reconciling"},
           CallCurrent(f), f.queue = call[p].queue,
           \A r \in Rules, n \in Nodes : CallOwes(call[p], r, n) => Agrees(r, n)
    PROVE  InTurn(p)'
<1>1. /\ task \in [Procs -> Task] /\ call \in [Procs -> Evaluator!Frame]
      /\ TaskCurrent(task[p]) /\ Logged(task[p])
  BY DEF TypeOK, MonitorTypeOK, Evaluator!TypeOK, InTurn
<1>2. PICK t : t = task[p]
  OBVIOUS
<1>3. Continue(p, t)
  BY <1>1, <1>2 DEF Continue
<1>4. Calls(t, f) /\ TaskCurrent(t)
  BY <1>1, <1>2 DEF Calls
<1>5. \A a : Cleans(task[p], call[p], a) => Cleans(t, f, a)
  BY <1>2 DEF Cleans
<1>6. \A n \in Nodes : logged'[n] = nodeState[n] \/ (t.log /\ t.node = n)
  BY <1>1, <1>2 DEF Logged, nodeVars
<1>7. UNCHANGED <<alerts, rules, nodeState>>
  BY DEF nodeVars
<1>8. QED
  BY <1>1, <1>2, <1>3, <1>4, <1>5, <1>6, <1>7, QuietTurn

\* Changing a row changes nothing for other rules and nodes.
LEMMA OneRowChanges ==
    ASSUME TypeOK, NEW a \in AlertIds, NEW row,
           alerts' = [alerts EXCEPT ![a] = row], UNCHANGED <<rules, nodeState>>,
           alerts[a].status = "active"
              => alerts[a].rule = row.rule /\ alerts[a].target = row.target
    PROVE  /\ \A r, n : r # row.rule \/ n # row.target => (Agrees(r, n)' <=> Agrees(r, n))
           /\ \A r, n : (Fits(r, n)' <=> Fits(r, n)) /\ (Watches(r, n)' <=> Watches(r, n))
           /\ \A n : Listed(n)' = Listed(n)
           /\ alerts'[a] = row
           /\ \A b \in AlertIds \ {a} : alerts'[b] = alerts[b]
<1>1. /\ alerts'[a] = row
      /\ \A b \in AlertIds \ {a} : alerts'[b] = alerts[b]
  BY DEF TypeOK, Evaluator!TypeOK, Evaluator!AlertsTypeOK
<1>2. ASSUME NEW r, NEW n, r # row.rule \/ n # row.target
      PROVE  Evaluator!ActiveFor(r, n)' = Evaluator!ActiveFor(r, n)
  BY <1>1, <1>2 DEF Evaluator!ActiveFor
<1>3. \A r, n : (Fits(r, n)' <=> Fits(r, n)) /\ (Watches(r, n)' <=> Watches(r, n))
  BY DEF Fits, Watches
<1>4. \A n : Listed(n)' = Listed(n)
  BY DEF Listed
<1>5. QED
  BY <1>1, <1>2, <1>3, <1>4 DEF Agrees, Alerting

\* A step of the evaluator that changes a row for r and n, after which r has
\* the alert for n that it should.
LEMMA LoudStep ==
    ASSUME TypeOK, NEW p \in Procs, InTurn(p), NEW f, Evaluator!Goto(p, f),
           UNCHANGED <<rules, nodeVars, task>>,
           task[p].pc \in {"call", "reconciling"},
           NEW a \in AlertIds, NEW row, alerts' = [alerts EXCEPT ![a] = row],
           alerts[a].status = "active"
              => alerts[a].rule = row.rule /\ alerts[a].target = row.target,
           Agrees(row.rule, row.target)',
           row.status = "active" => Fits(row.rule, row.target),
           CallCurrent(f)', f.queue = call[p].queue \ {a},
           \A r, n : CallOwes(call[p], r, n) => r = row.rule /\ n = row.target
    PROVE  InTurn(p)'
<1>1. /\ task \in [Procs -> Task] /\ call \in [Procs -> Evaluator!Frame]
      /\ TaskCurrent(task[p]) /\ Logged(task[p])
      /\ Tracked(task[p], call[p]) /\ Cleaned(task[p], call[p])
  BY DEF TypeOK, MonitorTypeOK, Evaluator!TypeOK, InTurn
<1>2. PICK t : t = task[p]
  OBVIOUS
<1>3. UNCHANGED <<nodeState, logged>>
  BY DEF nodeVars
<1>4. Continue(p, t) /\ Calls(t, f)
  BY <1>1, <1>2 DEF Continue, Calls
<1>5. /\ \A r, n : r # row.rule \/ n # row.target => (Agrees(r, n)' <=> Agrees(r, n))
      /\ \A r, n : Fits(r, n)' <=> Fits(r, n)
      /\ \A n : Listed(n)' = Listed(n)
      /\ alerts'[a] = row
      /\ \A b \in AlertIds \ {a} : alerts'[b] = alerts[b]
  BY <1>3, OneRowChanges
<1>6. TaskCurrent(t)'
  BY <1>1, <1>2, <1>3, <1>5 DEF TaskCurrent
<1>7. Tracked(t, f)'
  <2>1. ASSUME NEW r \in Rules, NEW n \in Nodes
        PROVE  Agrees(r, n)' \/ TaskOwes(t, r, n)
    <3>1. CASE r = row.rule /\ n = row.target
      BY <3>1
    <3>2. CASE r # row.rule \/ n # row.target
      BY <1>1, <1>2, <1>5, <3>2 DEF Tracked
    <3>3. QED BY <3>1, <3>2
  <2>2. QED BY <2>1 DEF Tracked, TaskOwes
<1>8. Cleaned(t, f)'
  <2>1. ASSUME NEW b \in AlertIds, alerts'[b].status = "active"
        PROVE  \/ Fits(alerts[b].rule, alerts[b].target)'
               \/ b \in f.queue
    <3>1. PICK r, n : r = alerts'[b].rule /\ n = alerts'[b].target
      OBVIOUS
    <3>2. Fits(r, n)' <=> Fits(alerts[b].rule, alerts[b].target)'
      BY <3>1 DEF Fits
    <3>3. CASE b = a
      BY <1>5, <2>1, <3>1, <3>2, <3>3
    <3>4. CASE b # a
      <4>1. Fits(r, n) \/ b \in call[p].queue
        BY <1>1, <1>5, <2>1, <3>1, <3>4 DEF Cleaned, Cleans
      <4>2. QED BY <1>5, <3>2, <3>4, <4>1
    <3>5. QED BY <3>3, <3>4
  <2>2. QED BY <2>1 DEF Cleaned, Cleans
<1>9. Logged(t)'
  BY <1>1, <1>2, <1>3 DEF Logged
<1>10. QED
  BY <1>1, <1>4, <1>6, <1>7, <1>8, <1>9, Turn

\* The fields of the frames that calls begin and end with.
LEMMA FrameFields ==
    /\ Evaluator!Returned.pc = "done" /\ Evaluator!Returned.queue = {}
    /\ \A pc, a : /\ Evaluator!Handling(pc, a).pc = pc
                  /\ Evaluator!Handling(pc, a).alert = a
                  /\ Evaluator!Handling(pc, a).queue = {}
<1>1. Evaluator!Idle = [pc |-> "idle", rule |-> None, target |-> None,
                        alert |-> None, reason |-> None, queue |-> {}]
  BY DEF Evaluator!Idle
<1>2. QED
  BY <1>1 DEF Evaluator!Returned, Evaluator!Handling

\* Opening an alert: it was owed.
LEMMA CreateTurn ==
    ASSUME TypeOK, NEW p \in Procs, InTurn(p), task[p].pc \in {"call", "reconciling"},
           UNCHANGED <<nodeVars, task>>,
           Evaluator!Create(p) \/ Evaluator!CreateLost(p) \/ Evaluator!CreateRefused(p)
    PROVE  InTurn(p)'
<1>1. PICK r, n : r = call[p].rule /\ n = call[p].target
  OBVIOUS
<1>2. call[p].pc = "create" /\ CallCurrent(call[p])
  BY DEF Evaluator!Create, Evaluator!CreateLost, Evaluator!CreateRefused, Evaluator!At, InTurn
<1>3. /\ r \in Rules /\ n \in Nodes /\ Fits(r, n) /\ nodeState[n] = "offline"
      /\ call[p].queue = {}
  BY <1>1, <1>2 DEF CallCurrent
<1>4. \A r2, n2 : CallOwes(call[p], r2, n2) => r2 = r /\ n2 = n
  BY <1>1, <1>2 DEF CallOwes
<1>5. CASE Evaluator!Create(p)
  <2>1. PICK a \in AlertIds :
           /\ Evaluator!InsertActive(a, r, n)
           /\ Evaluator!Goto(p, Evaluator!Handling("logTriggered", a))
    BY <1>1, <1>5 DEF Evaluator!Create
  <2>2. PICK row, f : /\ row = [status |-> "active", rule |-> r, target |-> n, reason |-> None]
                      /\ f = Evaluator!Handling("logTriggered", a)
    OBVIOUS
  <2>3. /\ alerts' = [alerts EXCEPT ![a] = row] /\ alerts[a].status # "active"
        /\ row.rule = r /\ row.target = n /\ row.status = "active"
    BY <2>1, <2>2 DEF Evaluator!InsertActive, Evaluator!IsNextId
  <2>4. alerts'[a] = row
    BY <2>3 DEF TypeOK, Evaluator!TypeOK, Evaluator!AlertsTypeOK
  <2>5. Agrees(r, n)'
    <3>1. a \in Evaluator!ActiveFor(r, n)'
      BY <2>3, <2>4 DEF Evaluator!ActiveFor
    <3>2. QED BY <1>3, <3>1 DEF Agrees, Alerting, nodeVars
  <2>6. f.pc = "logTriggered" /\ f.queue = {}
    BY <2>2, FrameFields
  <2>7. CallCurrent(f)'
    BY <2>6 DEF CallCurrent
  <2>8. UNCHANGED rules
    BY <1>5 DEF Evaluator!Create
  <2>9. QED
    BY <1>3, <1>4, <2>1, <2>2, <2>3, <2>5, <2>6, <2>7, <2>8, LoudStep
<1>6. CASE Evaluator!CreateLost(p)
  <2>1. Agrees(r, n)
    BY <1>1, <1>3, <1>6 DEF Evaluator!CreateLost, Agrees, Alerting
  <2>2. PICK f : f = Evaluator!Returned
    OBVIOUS
  <2>3. Evaluator!Goto(p, f) /\ UNCHANGED <<alerts, rules>>
    BY <1>6, <2>2 DEF Evaluator!CreateLost
  <2>4. CallCurrent(f) /\ f.queue = call[p].queue
    BY <1>3, <2>2, FrameFields DEF CallCurrent
  <2>5. QED
    BY <1>4, <2>1, <2>3, <2>4, QuietStep
<1>7. CASE Evaluator!CreateRefused(p)
  BY <1>1, <1>3, <1>7 DEF Evaluator!CreateRefused, Fits
<1>8. QED
  BY <1>5, <1>6, <1>7

\* Resolving one: its node is online, and it was the only one.
LEMMA ResolveTurn ==
    ASSUME TypeOK, Evaluator!AtMostOneActive,
           NEW p \in Procs, InTurn(p), task[p].pc \in {"call", "reconciling"},
           UNCHANGED <<nodeVars, task>>,
           Evaluator!Resolve(p) \/ Evaluator!ResolveLost(p)
    PROVE  InTurn(p)'
<1>1. PICK a : a = call[p].alert
  OBVIOUS
<1>2. call[p].pc = "resolve" /\ CallCurrent(call[p])
  BY DEF Evaluator!Resolve, Evaluator!ResolveLost, Evaluator!At, InTurn
<1>3. PICK r, n : r = alerts[a].rule /\ n = alerts[a].target
  OBVIOUS
<1>4. /\ a \in AlertIds /\ alerts[a].status = "active" /\ nodeState[n] = "online"
      /\ call[p].queue = {}
  BY <1>1, <1>2, <1>3 DEF CallCurrent
<1>5. \A r2, n2 : CallOwes(call[p], r2, n2) => r2 = r /\ n2 = n
  BY <1>1, <1>2, <1>3 DEF CallOwes
<1>6. Evaluator!Resolve(p)
  BY <1>1, <1>4 DEF Evaluator!ResolveLost
<1>7. PICK row, f : /\ row = [alerts[a] EXCEPT !.status = "resolved"]
                    /\ f = Evaluator!Handling("logResolved", a)
  OBVIOUS
<1>8. /\ alerts' = [alerts EXCEPT ![a] = row] /\ Evaluator!Goto(p, f) /\ UNCHANGED rules
  BY <1>1, <1>6, <1>7 DEF Evaluator!Resolve, Evaluator!MarkResolved
<1>9. row.rule = r /\ row.target = n /\ row.status = "resolved"
  BY <1>3, <1>4, <1>7 DEF TypeOK, Evaluator!TypeOK, Evaluator!AlertsTypeOK, Evaluator!AlertRow
<1>10. alerts'[a] = row /\ \A b \in AlertIds \ {a} : alerts'[b] = alerts[b]
  BY <1>4, <1>8 DEF TypeOK, Evaluator!TypeOK, Evaluator!AlertsTypeOK
<1>11. Agrees(r, n)'
  <2>1. ASSUME NEW b \in AlertIds, alerts'[b].status = "active",
               alerts'[b].rule = r, alerts'[b].target = n
        PROVE  FALSE
    BY <1>3, <1>4, <1>9, <1>10, <2>1 DEF Evaluator!AtMostOneActive
  <2>2. Evaluator!ActiveFor(r, n)' = {}
    BY <2>1 DEF Evaluator!ActiveFor
  <2>3. nodeState'[n] # "offline"
    BY <1>4 DEF nodeVars
  <2>4. QED BY <2>2, <2>3 DEF Agrees, Alerting
<1>12. f.pc = "logResolved" /\ f.queue = {}
  BY <1>7, FrameFields
<1>13. CallCurrent(f)'
  BY <1>12 DEF CallCurrent
<1>14. QED
  BY <1>3, <1>4, <1>5, <1>8, <1>9, <1>11, <1>12, <1>13, LoudStep

\* Closing one: no rule watches its node with it.
LEMMA CloseTurn ==
    ASSUME TypeOK, NEW p \in Procs, InTurn(p), task[p].pc \in {"call", "reconciling"},
           UNCHANGED <<nodeVars, task>>,
           Evaluator!Close(p) \/ Evaluator!CloseLost(p)
    PROVE  InTurn(p)'
<1>1. call[p].pc = "close" /\ CallCurrent(call[p]) /\ call[p] \in Evaluator!Frame
  <2>1. call[p].pc = "close"
    BY Zenon DEF Evaluator!Close, Evaluator!CloseLost, Evaluator!At
  <2>2. QED BY <2>1 DEF InTurn, TypeOK, Evaluator!TypeOK
<1>2. \A a \in call[p].queue : alerts[a].status = "active"
  BY <1>1 DEF CallCurrent
<1>3. Evaluator!Close(p)
  BY <1>2 DEF Evaluator!CloseLost, Evaluator!IsFirst
<1>4. PICK a \in AlertIds :
         /\ Evaluator!IsFirst(a, call[p].queue)
         /\ Evaluator!MarkClosed(a, call[p].reason)
         /\ Evaluator!Goto(p, [call[p] EXCEPT !.pc = "logClosed", !.alert = a,
                                              !.queue = @ \ {a}])
  BY <1>3, Zenon DEF Evaluator!Close
<1>5. PICK row, f :
         /\ row = [alerts[a] EXCEPT !.status = "closed", !.reason = call[p].reason]
         /\ f = [call[p] EXCEPT !.pc = "logClosed", !.alert = a, !.queue = @ \ {a}]
  OBVIOUS
<1>6. /\ alerts' = [alerts EXCEPT ![a] = row] /\ Evaluator!Goto(p, f) /\ UNCHANGED rules
      /\ a \in call[p].queue
  <2>1. UNCHANGED rules
    BY <1>3, Zenon DEF Evaluator!Close
  <2>2. Evaluator!Goto(p, f)
    BY <1>4, <1>5, Zenon
  <2>3. a \in call[p].queue
    BY <1>4 DEF Evaluator!IsFirst
  <2>4. Evaluator!MarkClosed(a, call[p].reason)
    BY <1>4, Zenon
  <2>5. alerts' = [alerts EXCEPT ![a] = row]
    BY <1>5, <2>4 DEF Evaluator!MarkClosed
  <2>6. QED BY <2>1, <2>2, <2>3, <2>5
<1>7. row.rule = alerts[a].rule /\ row.target = alerts[a].target /\ row.status = "closed"
  BY <1>5 DEF TypeOK, Evaluator!TypeOK, Evaluator!AlertsTypeOK, Evaluator!AlertRow
<1>8. f.pc = "logClosed" /\ f.queue = call[p].queue \ {a}
  BY <1>1, <1>5 DEF Evaluator!Frame
<1>9. UNCHANGED nodeState
  BY DEF nodeVars
<1>10. /\ \A r, n : Watches(r, n)' <=> Watches(r, n)
       /\ \A b \in AlertIds \ {a} : alerts'[b] = alerts[b]
  BY <1>6, <1>7, <1>9, OneRowChanges
<1>11. ~Watches(row.rule, row.target)
  BY <1>1, <1>6, <1>7 DEF CallCurrent
<1>12. Agrees(row.rule, row.target)'
  BY <1>10, <1>11 DEF Agrees
<1>13. CallCurrent(f)'
  <2>1. call[p].queue \subseteq AlertIds
    BY <1>1 DEF Evaluator!Frame
  <2>2. ASSUME NEW b \in f.queue
        PROVE  /\ alerts'[b].status = "active"
               /\ ~Watches(alerts[b].rule, alerts[b].target)'
    <3>1. b \in call[p].queue /\ alerts'[b] = alerts[b]
      BY <1>8, <1>10, <2>1, <2>2
    <3>2. PICK r, n : r = alerts[b].rule /\ n = alerts[b].target
      OBVIOUS
    <3>3. ~Watches(r, n)'
      BY <1>1, <1>10, <3>1, <3>2 DEF CallCurrent
    <3>4. Watches(r, n)' <=> Watches(alerts[b].rule, alerts[b].target)'
      BY <3>1, <3>2 DEF Watches
    <3>5. QED BY <1>1, <3>1, <3>3, <3>4 DEF CallCurrent
  <2>3. QED BY <1>8, <2>2 DEF CallCurrent
<1>14. \A r, n : ~CallOwes(call[p], r, n)
  BY <1>1 DEF CallOwes
<1>15. QED
  BY <1>6, <1>7, <1>8, <1>12, <1>13, <1>14, LoudStep

\* Recording, sending, and going on to the next alert to close.
LEMMA TellTurn ==
    ASSUME TypeOK, NEW p \in Procs, InTurn(p), task[p].pc \in {"call", "reconciling"},
           UNCHANGED <<nodeVars, task>>,
           \/ Evaluator!LogTriggered(p) \/ Evaluator!SendTriggered(p)
           \/ Evaluator!LogResolved(p) \/ Evaluator!SendResolved(p)
           \/ Evaluator!LogClosed(p)
    PROVE  InTurn(p)'
<1>1. CallCurrent(call[p]) /\ call[p] \in Evaluator!Frame
  BY DEF InTurn, TypeOK, Evaluator!TypeOK
<1>2. \A r, n : ~CallOwes(call[p], r, n)
  BY DEF CallOwes, Evaluator!LogTriggered, Evaluator!SendTriggered, Evaluator!LogResolved,
     Evaluator!SendResolved, Evaluator!LogClosed, Evaluator!At
<1>3. UNCHANGED <<alerts, rules>>
  BY DEF Evaluator!LogTriggered, Evaluator!SendTriggered, Evaluator!LogResolved,
     Evaluator!SendResolved, Evaluator!LogClosed, Evaluator!Send
<1>4. CASE Evaluator!LogTriggered(p) \/ Evaluator!LogResolved(p)
  <2>1. PICK pc \in {"sendTriggered", "sendResolved"} :
           /\ Evaluator!Goto(p, [call[p] EXCEPT !.pc = pc])
           /\ call[p].pc \in {"logTriggered", "logResolved"}
    BY <1>4 DEF Evaluator!LogTriggered, Evaluator!LogResolved, Evaluator!At
  <2>2. PICK f : f = [call[p] EXCEPT !.pc = pc]
    OBVIOUS
  <2>3. f.pc = pc /\ f.queue = call[p].queue /\ call[p].queue = {}
    BY <1>1, <2>1, <2>2 DEF Evaluator!Frame, CallCurrent
  <2>4. CallCurrent(f)
    BY <2>1, <2>3 DEF CallCurrent
  <2>5. QED
    BY <1>2, <1>3, <2>1, <2>2, <2>3, <2>4, QuietStep
<1>5. CASE Evaluator!SendTriggered(p) \/ Evaluator!SendResolved(p)
  <2>1. PICK f : f = Evaluator!Returned
    OBVIOUS
  <2>2. call[p].pc \in {"sendTriggered", "sendResolved"} /\ Evaluator!Goto(p, f)
    BY <1>5, <2>1 DEF Evaluator!SendTriggered, Evaluator!SendResolved, Evaluator!Send, Evaluator!At
  <2>3. CallCurrent(f) /\ f.queue = call[p].queue
    BY <1>1, <2>1, <2>2, FrameFields DEF CallCurrent
  <2>4. QED
    BY <1>2, <1>3, <2>2, <2>3, QuietStep
<1>6. CASE Evaluator!LogClosed(p)
  <2>1. PICK f : f = Evaluator!Closing(call[p].queue, call[p].reason)
    OBVIOUS
  <2>2. Evaluator!Goto(p, f)
    BY <1>6, <2>1 DEF Evaluator!LogClosed
  <2>3. CallCurrent(f) /\ f.queue = call[p].queue
    BY <1>1, <2>1, ClosingCurrent, ClosingFields DEF CallCurrent
  <2>4. QED
    BY <1>2, <1>3, <2>2, <2>3, QuietStep
<1>7. QED
  BY <1>4, <1>5, <1>6

\* Every statement of the evaluator.
LEMMA StepTurn ==
    ASSUME TypeOK, Evaluator!AtMostOneActive, NEW p \in Procs, InTurn(p), EvaluatorStep(p)
    PROVE  InTurn(p)'
<1>1. call[p].pc # "idle"
  <2>1. PICK pc \in {"create", "resolve", "close", "logTriggered", "sendTriggered",
                     "logResolved", "sendResolved", "logClosed"} : Evaluator!At(p, pc)
    BY Zenon DEF EvaluatorStep, Evaluator!Step, Evaluator!Create, Evaluator!CreateLost,
       Evaluator!CreateRefused, Evaluator!Resolve, Evaluator!ResolveLost, Evaluator!Close,
       Evaluator!CloseLost, Evaluator!LogTriggered, Evaluator!SendTriggered,
       Evaluator!LogResolved, Evaluator!SendResolved, Evaluator!LogClosed
  <2>2. QED BY <2>1 DEF Evaluator!At
<1>2. task[p].pc \in {"call", "reconciling"}
  BY <1>1, IdleOwesNothing DEF InTurn, Calls
<1>3. QED
  BY <1>2, CreateTurn, ResolveTurn, CloseTurn, TellTurn DEF EvaluatorStep, Evaluator!Step

\* A rule is written: all nodes are to be looked at with it, and all its
\* alerts, if it can have any.
LEMMA PutTurn ==
    ASSUME TypeOK, NEW p \in Procs, InTurn(p), task[p] = NoTask,
           NEW r \in Rules, NEW row, row.state = "live",
           rules' = [rules EXCEPT ![r] = row], UNCHANGED <<alerts, call, nodeVars>>,
           NEW pc \in {"load", "reconcile"},
           pc = "load" => rules[r].state # "live",
           Continue(p, [NoTask EXCEPT !.pc = pc, !.rule = r, !.row = row])
    PROVE  InTurn(p)'
<1>1. /\ task \in [Procs -> Task] /\ call \in [Procs -> Evaluator!Frame]
      /\ rules \in [Rules -> Evaluator!RuleRow]
      /\ Tracked(NoTask, call[p]) /\ Cleaned(NoTask, call[p]) /\ Logged(NoTask)
  BY DEF TypeOK, MonitorTypeOK, Evaluator!TypeOK, InTurn
<1>2. call[p] = Evaluator!Idle
  BY IdleOwesNothing DEF InTurn, Calls
<1>3. PICK t, f : /\ t = [NoTask EXCEPT !.pc = pc, !.rule = r, !.row = row]
                  /\ f = Evaluator!Idle
  OBVIOUS
<1>4. t.pc = pc /\ t.rule = r /\ t.row = row /\ t.rest = {} /\ ~t.log
  BY <1>3 DEF NoTask
<1>5. Continue(p, t) /\ Evaluator!Goto(p, f)
  BY <1>1, <1>2, <1>3, CallStays
<1>6. UNCHANGED <<nodeState, logged>>
  BY DEF nodeVars
<1>7. rules'[r] = row /\ \A q \in Rules \ {r} : rules'[q] = rules[q]
  BY <1>1
<1>8. Calls(t, f) /\ TaskCurrent(t)' /\ CallCurrent(f)'
  BY <1>3, <1>4, <1>7, IdleOwesNothing DEF Calls, TaskCurrent, CallCurrent
<1>9. Tracked(t, f)'
  <2>1. ASSUME NEW q \in Rules, NEW n \in Nodes
        PROVE  Agrees(q, n)' \/ TaskOwes(t, q, n)
    <3>1. CASE q = r
      BY <1>4, <3>1 DEF TaskOwes
    <3>2. CASE q # r
      <4>1. Agrees(q, n)
        BY <1>1, <1>2, IdleOwesNothing DEF Tracked
      <4>2. Evaluator!ActiveFor(q, n)' = Evaluator!ActiveFor(q, n)
        BY DEF Evaluator!ActiveFor
      <4>3. QED BY <1>6, <1>7, <3>2, <4>1, <4>2 DEF Agrees, Watches, Alerting
    <3>3. QED BY <3>1, <3>2
  <2>2. QED BY <2>1 DEF Tracked, TaskOwes
<1>10. Cleaned(t, f)'
  <2>1. ASSUME NEW a \in AlertIds, alerts[a].status = "active"
        PROVE  Fits(alerts[a].rule, alerts[a].target)' \/ Cleans(t, f, a)
    <3>1. Fits(alerts[a].rule, alerts[a].target)
      BY <1>1, <1>2, <2>1, IdleOwesNothing DEF Cleaned
    <3>2. CASE alerts[a].rule = r
      BY <1>4, <3>1, <3>2 DEF Fits, Cleans
    <3>3. CASE alerts[a].rule # r
      BY <1>7, <3>1, <3>3 DEF Fits
    <3>4. QED BY <3>2, <3>3
  <2>2. QED BY <2>1 DEF Cleaned, Cleans
<1>11. Logged(t)'
  BY <1>1, <1>6, IdleOwesNothing DEF Logged
<1>12. QED
  BY <1>1, <1>5, <1>8, <1>9, <1>10, <1>11, Turn

\* A rule is created or edited.
LEMMA EditTurn ==
    ASSUME TypeOK, NEW p \in Procs, InTurn(p), task[p] = NoTask, Edit(p)
    PROVE  InTurn(p)'
<1>1. PICK r \in Rules, scope \in Nodes \cup {All} :
          \/ CreateRule(p, r, scope)
          \/ \E enabled \in BOOLEAN : UpdateRule(p, r, enabled, scope)
  BY DEF Edit
<1>2. CASE CreateRule(p, r, scope)
  <2>1. PICK row, pc : pc = "load" /\ row = [state |-> "live", enabled |-> TRUE, scope |-> scope]
    OBVIOUS
  <2>2. /\ row.state = "live" /\ rules[r].state # "live"
        /\ rules' = [rules EXCEPT ![r] = row] /\ UNCHANGED <<alerts, call, nodeVars>>
        /\ Continue(p, [NoTask EXCEPT !.pc = pc, !.rule = r, !.row = row])
    BY <1>2, <2>1 DEF CreateRule, Evaluator!PutRule
  <2>3. pc \in {"load", "reconcile"} /\ (pc = "load" => rules[r].state # "live")
    BY <2>1, <2>2
  <2>4. QED BY <2>2, <2>3, PutTurn, Zenon
<1>3. ASSUME NEW enabled \in BOOLEAN, UpdateRule(p, r, enabled, scope)
      PROVE  InTurn(p)'
  <2>1. PICK row, pc : pc = "reconcile" /\ row = [state |-> "live", enabled |-> enabled, scope |-> scope]
    OBVIOUS
  <2>2. /\ row.state = "live"
        /\ rules' = [rules EXCEPT ![r] = row] /\ UNCHANGED <<alerts, call, nodeVars>>
        /\ Continue(p, [NoTask EXCEPT !.pc = pc, !.rule = r, !.row = row])
    BY <1>3, <2>1 DEF UpdateRule, Evaluator!PutRule
  <2>3. pc \in {"load", "reconcile"} /\ (pc = "load" => rules[r].state # "live")
    BY <2>1, <2>2
  <2>4. QED BY <2>2, <2>3, PutTurn, Zenon
<1>4. QED
  BY <1>1, <1>2, <1>3

\* A rule is deleted, with its alerts.
LEMMA DeleteTurn ==
    ASSUME TypeOK, NEW p \in Procs, InTurn(p), task[p] = NoTask,
           NEW r \in Rules, DeleteRule(r)
    PROVE  InTurn(p)'
<1>1. /\ task \in [Procs -> Task] /\ call \in [Procs -> Evaluator!Frame]
      /\ rules \in [Rules -> Evaluator!RuleRow] /\ alerts \in [AlertIds -> Evaluator!AlertRow]
      /\ Tracked(NoTask, call[p]) /\ Cleaned(NoTask, call[p]) /\ Logged(NoTask)
  BY DEF TypeOK, MonitorTypeOK, Evaluator!TypeOK, Evaluator!AlertsTypeOK, InTurn
<1>2. call[p] = Evaluator!Idle
  BY IdleOwesNothing DEF InTurn, Calls
<1>3. /\ rules' = [rules EXCEPT ![r].state = "dropped"]
      /\ alerts' = [a \in AlertIds |-> IF alerts[a].rule = r
                                       THEN [alerts[a] EXCEPT !.status = "deleted"]
                                       ELSE alerts[a]]
      /\ UNCHANGED <<call, task, nodeState, logged>>
  BY DEF DeleteRule, Evaluator!DropRule, Evaluator!DropAlertsOf, nodeVars
<1>4. PICK t, f : t = NoTask /\ f = Evaluator!Idle
  OBVIOUS
<1>5. Continue(p, t) /\ Evaluator!Goto(p, f)
  BY <1>1, <1>2, <1>3, <1>4, CallStays DEF Continue
<1>6. rules'[r].state = "dropped" /\ \A q \in Rules \ {r} : rules'[q] = rules[q]
  BY <1>1, <1>3 DEF Evaluator!RuleRow
<1>7. \A a \in AlertIds : \/ alerts[a].rule # r /\ alerts'[a] = alerts[a]
                          \/ alerts[a].rule = r /\ alerts'[a].rule = r
                             /\ alerts'[a].status = "deleted"
  BY <1>1, <1>3 DEF Evaluator!AlertRow
<1>8. Calls(t, f) /\ TaskCurrent(t)' /\ CallCurrent(f)'
  BY <1>4, IdleOwesNothing DEF Calls, TaskCurrent, CallCurrent
<1>9. Tracked(t, f)'
  <2>1. ASSUME NEW q \in Rules, NEW n \in Nodes
        PROVE  Agrees(q, n)'
    <3>1. CASE q = r
      BY <1>6, <3>1 DEF Agrees, Watches
    <3>2. CASE q # r
      <4>1. Agrees(q, n)
        BY <1>1, <1>2, IdleOwesNothing DEF Tracked
      <4>2. Evaluator!ActiveFor(q, n)' = Evaluator!ActiveFor(q, n)
        BY <1>7, <3>2 DEF Evaluator!ActiveFor
      <4>3. QED BY <1>3, <1>6, <3>2, <4>1, <4>2 DEF Agrees, Watches, Alerting
    <3>3. QED BY <3>1, <3>2
  <2>2. QED BY <2>1 DEF Tracked
<1>10. Cleaned(t, f)'
  <2>1. ASSUME NEW a \in AlertIds, alerts'[a].status = "active"
        PROVE  Fits(alerts[a].rule, alerts[a].target)'
    <3>1. alerts[a].rule # r /\ alerts'[a] = alerts[a]
      BY <1>7, <2>1
    <3>2. Fits(alerts[a].rule, alerts[a].target)
      BY <1>1, <1>2, <2>1, <3>1, IdleOwesNothing DEF Cleaned
    <3>3. QED BY <1>6, <3>1, <3>2 DEF Fits
  <2>2. QED BY <2>1 DEF Cleaned
<1>11. Logged(t)'
  BY <1>1, <1>3, <1>4 DEF Logged
<1>12. QED
  BY <1>1, <1>5, <1>8, <1>9, <1>10, <1>11, Turn

\* Time passes.
LEMMA TickTurn ==
    ASSUME TypeOK, NEW p \in Procs, InTurn(p), Tick
    PROVE  InTurn(p)'
<1>1. task \in [Procs -> Task] /\ UNCHANGED <<alerts, rules, call, nodeState, logged>>
  BY DEF TypeOK, MonitorTypeOK, Tick, evaluatorVars
<1>2. Older(None) = None
  BY DEF Older
<1>3. [NoTask EXCEPT !.age = Older(@)] = NoTask
  <2>1. NoTask.age = None
    BY DEF NoTask
  <2>2. [NoTask EXCEPT !.age = NoTask.age] = NoTask
    BY NoTaskGood DEF GoodTask, Task
  <2>3. QED BY <1>2, <2>1, <2>2
<1>4. \A q \in Procs : task'[q] = [task[q] EXCEPT !.age = Older(@)]
  BY DEF Tick
<1>5. \A q \in Procs \ {p} : task'[q] = NoTask /\ call'[q] = Evaluator!Idle
  BY <1>1, <1>3, <1>4 DEF InTurn
<1>6. PICK t, u : t = task[p] /\ u = task'[p]
  OBVIOUS
<1>7. /\ u.pc = t.pc /\ u.node = t.node /\ u.state = t.state /\ u.log = t.log
      /\ u.todo = t.todo /\ u.rest = t.rest /\ u.rule = t.rule /\ u.row = t.row
  <2>1. t \in Task
    BY <1>1, <1>6
  <2>2. PICK age : age = Older(t.age)
    OBVIOUS
  <2>3. u = [t EXCEPT !.age = age]
    BY <1>4, <1>6, <2>2
  <2>4. QED BY <2>1, <2>3 DEF Task
<1>8. /\ Calls(t, call[p]) /\ TaskCurrent(t) /\ CallCurrent(call[p])
      /\ Tracked(t, call[p]) /\ Cleaned(t, call[p]) /\ Logged(t)
  BY <1>6 DEF InTurn
<1>9. /\ \A r, n : TaskOwes(t, r, n) <=> TaskOwes(u, r, n)
      /\ \A f, a : Cleans(t, f, a) <=> Cleans(u, f, a)
  BY <1>7 DEF TaskOwes, Cleans
<1>10. Calls(u, call[p]) /\ TaskCurrent(u) /\ Logged(u)
  BY <1>7, <1>8 DEF Calls, TaskCurrent, Logged
<1>11. Tracked(u, call[p]) /\ Cleaned(u, call[p])
  BY <1>8, <1>9 DEF Tracked, Cleaned
<1>12. PICK f : f = call[p]
  OBVIOUS
<1>13. UNCHANGED <<alerts, rules, nodeState>>
  BY <1>1
<1>14. TaskCurrent(u)' /\ CallCurrent(f)' /\ Logged(u)' /\ Tracked(u, f)' /\ Cleaned(u, f)'
  <2>1. TaskCurrent(u)' /\ CallCurrent(f)' /\ Logged(u)'
    BY <1>1, <1>8, <1>10, <1>12, <1>13, RowsSame DEF TaskCurrent, CallCurrent, Logged
  <2>2. Tracked(u, f)'
    BY <1>11, <1>12, <1>13, RowsSame DEF Tracked, TaskOwes
  <2>3. Cleaned(u, f)'
    BY <1>1, <1>11, <1>12, <1>13, RowsSame DEF Cleaned
  <2>4. QED BY <2>1, <2>2, <2>3
<1>15. u = task'[p] /\ f = call'[p] /\ Calls(u, f)
  BY <1>1, <1>6, <1>10, <1>12
<1>16. QED
  BY <1>5, <1>14, <1>15, TurnParts

\* Whoever works is under way.
LEMMA WorkersAreBusy ==
    ASSUME NEW p \in Procs, Work(p)
    PROVE  task[p] # NoTask \/ call[p] # Evaluator!Idle
<1>1. CASE \E pc \in {"touch", "set", "expire", "list", "rules", "call", "log",
                      "reconcile", "reconciling", "load", "evaluate"} : At(p, pc)
  BY <1>1, IdleOwesNothing DEF At
<1>2. CASE EvaluatorStep(p)
  <2>1. PICK pc \in {"create", "resolve", "close", "logTriggered", "sendTriggered",
                     "logResolved", "sendResolved", "logClosed"} : Evaluator!At(p, pc)
    BY <1>2, Zenon DEF EvaluatorStep, Evaluator!Step, Evaluator!Create, Evaluator!CreateLost,
       Evaluator!CreateRefused, Evaluator!Resolve, Evaluator!ResolveLost, Evaluator!Close,
       Evaluator!CloseLost, Evaluator!LogTriggered, Evaluator!SendTriggered,
       Evaluator!LogResolved, Evaluator!SendResolved, Evaluator!LogClosed
  <2>2. QED BY <2>1, IdleOwesNothing DEF Evaluator!At
<1>3. QED
  BY <1>1, <1>2, Zenon DEF Work, Touch, SetState, Expire, ListRules, EvaluateRule, EndCall,
     LogState, ReconcileRule, EndReconcile, LoadNodes, EvaluateNode

\* Somebody is under way, or nobody is and it might be anyone.
SomeonesTurn == \E p \in Procs : InTurn(p)

\* At the start nobody is under way, and nothing disagrees.
LEMMA InitTurn == Init => SomeonesTurn
<1> SUFFICES ASSUME Init PROVE InTurn(Job)
  BY DEF SomeonesTurn, Procs
<1>1. Job \in Procs
  BY DEF Procs
<1>2. \A q \in Procs : task[q] = NoTask /\ call[q] = Evaluator!Idle
  BY DEF Init, Evaluator!Init
<1>3. TaskCurrent(task[Job]) /\ CallCurrent(call[Job]) /\ Calls(task[Job], call[Job])
  BY <1>1, <1>2, IdleOwesNothing DEF TaskCurrent, CallCurrent, Calls
<1>4. \A r \in Rules : rules[r].state = "unborn"
  <2>1. PICK row : row = [state |-> "unborn", enabled |-> FALSE, scope |-> All]
    OBVIOUS
  <2>2. rules = [r \in Rules |-> row]
    BY <2>1 DEF Init
  <2>3. row.state = "unborn"
    BY <2>1
  <2>4. \A r \in Rules : rules[r] = row
    BY <2>2, Zenon
  <2>5. QED BY <2>3, <2>4, Zenon
<1>5. \A a \in AlertIds : alerts[a].status = "none"
  BY DEF Init, Evaluator!Init, Evaluator!NoRow
<1>6. Tracked(task[Job], call[Job])
  BY <1>4 DEF Tracked, Agrees, Watches
<1>7. Cleaned(task[Job], call[Job])
  BY <1>5 DEF Cleaned
<1>8. Logged(task[Job])
  BY DEF Logged, Init
<1>9. QED
  BY <1>1, <1>2, <1>3, <1>6, <1>7, <1>8 DEF InTurn

\* Every step in turn leaves to whoever is under way what does not agree.
LEMMA NextTurn ==
    ASSUME TypeOK, Evaluator!AtMostOneActive, SomeonesTurn, [SerialNext]_vars
    PROVE  SomeonesTurn'
<1>1. PICK p \in Procs : InTurn(p)
  BY DEF SomeonesTurn
<1>2. Handlers \subseteq Procs /\ Job \in Procs
  BY DEF Procs
<1>3. ASSUME NEW q \in Procs, InTurn(q)' PROVE SomeonesTurn'
  BY <1>3 DEF SomeonesTurn
<1>4. CASE Tick
  BY <1>1, <1>3, <1>4, TickTurn
<1>5. CASE UNCHANGED vars
  <2>1. UNCHANGED <<task, call, alerts, rules, nodeState, logged>>
    BY <1>5 DEF vars, evaluatorVars, nodeVars
  <2>2. UNCHANGED <<alerts, rules, nodeState>>
    BY <2>1
  <2>3. PICK t, f : t = task[p] /\ f = call[p]
    OBVIOUS
  <2>4. /\ Calls(t, f) /\ TaskCurrent(t) /\ CallCurrent(f) /\ Tracked(t, f) /\ Cleaned(t, f)
        /\ Logged(t)
    BY <1>1, <2>3 DEF InTurn
  <2>5. TaskCurrent(t)' /\ CallCurrent(f)' /\ Logged(t)'
    BY <2>1, <2>2, <2>4, RowsSame DEF TaskCurrent, CallCurrent, Logged
  <2>6. Tracked(t, f)'
    BY <2>2, <2>4, RowsSame DEF Tracked, TaskOwes
  <2>7. Cleaned(t, f)'
    BY <2>1, <2>2, <2>4, RowsSame DEF Cleaned
  <2>8. \A q \in Procs \ {p} : task'[q] = NoTask /\ call'[q] = Evaluator!Idle
    BY <1>1, <2>1 DEF InTurn
  <2>9. task'[p] = t /\ call'[p] = f
    BY <2>1, <2>3
  <2>10. InTurn(p)'
    BY <2>4, <2>5, <2>6, <2>7, <2>8, <2>9, TurnParts
  <2>11. QED BY <1>3, <2>10
<1>6. ASSUME Settled, Begin PROVE SomeonesTurn'
  <2>1. \A q \in Procs : InTurn(q) /\ task[q] = NoTask
    BY <1>1, <1>6, AnyonesTurn DEF Settled
  <2>2. CASE RunExpiry
    BY <1>2, <1>3, <2>1, <2>2, ExpiryTurn
  <2>3. ASSUME NEW q \in Handlers, Agent(q) PROVE SomeonesTurn'
    BY <1>2, <1>3, <2>1, <2>3, AgentTurn
  <2>4. ASSUME NEW q \in Handlers, Edit(q) PROVE SomeonesTurn'
    BY <1>2, <1>3, <2>1, <2>4, EditTurn
  <2>5. ASSUME NEW r \in Rules, DeleteRule(r) PROVE SomeonesTurn'
    BY <1>2, <1>3, <2>1, <2>5, DeleteTurn
  <2>6. QED BY <1>6, <2>2, <2>3, <2>4, <2>5 DEF Begin
<1>7. ASSUME NEW q \in Procs, Work(q) PROVE SomeonesTurn'
  <2>1. q = p
    BY <1>1, <1>7, WorkersAreBusy DEF InTurn
  <2>2. InTurn(p)'
    BY <1>1, <1>7, <2>1, AgentTurn, RulesTurn, EvaluateTurn, EndCallTurn, ReconcileTurn,
       EndReconcileTurn, LoadTurn, TransitionTurn, StepTurn DEF Work
  <2>3. QED BY <1>3, <2>2
<1>8. QED
  BY <1>4, <1>5, <1>6, <1>7 DEF SerialNext

\* What the handlers do in turn is what they may do at any time.
LEMMA SerialIsMonitor == SerialSpec => Spec
<1>1. [SerialNext]_vars => [Next]_vars
  BY DEF SerialNext, Next
<1>2. QED BY <1>1, PTL DEF SerialSpec, Spec

\* The inductive invariant holds of requests and job runs in turn.
LEMMA SerialInvariance == SerialSpec => []SerialInv
<1>1. TypeOK /\ Evaluator!AtMostOneActive /\ SomeonesTurn /\ [SerialNext]_vars => SomeonesTurn'
  BY NextTurn
<1>2. TypeOK /\ Evaluator!AtMostOneActive /\ SomeonesTurn => SerialInv
  BY DEF SerialInv, SomeonesTurn
<1>3. QED
  BY <1>1, <1>2, InitTurn, SerialIsMonitor, TypeCorrect, OneActiveAlert, PTL DEF SerialSpec

\* Whenever nothing is under way, a rule has an active alert for a node it
\* watches exactly if the node is offline, after any heartbeats, shutdowns,
\* expiries and edits (EvaluateNodeRules, evaluateCurrentState).
THEOREM AlertsFollowNodes == SerialSpec => []AlertsTrackNodes
<1>1. SerialInv => AlertsTrackNodes
  <2> SUFFICES ASSUME SerialInv, Settled, NEW r \in Rules, NEW n \in Nodes, Watches(r, n)
               PROVE  Alerting(r, n) <=> nodeState[n] = "offline"
    BY DEF AlertsTrackNodes
  <2>1. PICK p \in Procs : InTurn(p)
    BY DEF SerialInv
  <2>2. task[p] = NoTask /\ call[p] = Evaluator!Idle
    BY <2>1, IdleOwesNothing DEF Settled, InTurn, Calls
  <2>3. Agrees(r, n)
    BY <2>1, <2>2, IdleOwesNothing DEF InTurn, Tracked
  <2>4. QED BY <2>3 DEF Agrees
<1>2. QED
  BY <1>1, SerialInvariance, PTL

\* No edit leaves an alert behind that its rule no longer stands for
\* (ReconcileRule).
THEOREM NoStraysRemain == SerialSpec => []NoStrayAlerts
<1>1. SerialInv => NoStrayAlerts
  <2> SUFFICES ASSUME SerialInv, Settled, NEW r \in Rules, NEW n \in Nodes, Alerting(r, n)
               PROVE  Fits(r, n)
    BY DEF NoStrayAlerts, Fits
  <2>1. PICK p \in Procs : InTurn(p)
    BY DEF SerialInv
  <2>2. task[p] = NoTask /\ call[p] = Evaluator!Idle
    BY <2>1, IdleOwesNothing DEF Settled, InTurn, Calls
  <2>3. PICK a \in AlertIds : /\ alerts[a].status = "active"
                              /\ alerts[a].rule = r /\ alerts[a].target = n
    BY DEF Alerting, Evaluator!ActiveFor
  <2>4. QED BY <2>1, <2>2, <2>3, IdleOwesNothing DEF InTurn, Cleaned
<1>2. QED
  BY <1>1, SerialInvariance, PTL

\* The log of node events ends with the state the node is in.
THEOREM LogFollowsNodes == SerialSpec => []LogTracksNodes
<1>1. SerialInv => LogTracksNodes
  <2> SUFFICES ASSUME SerialInv, Settled PROVE logged = nodeState
    BY DEF LogTracksNodes
  <2>1. PICK p \in Procs : InTurn(p)
    BY DEF SerialInv
  <2>2. task[p] = NoTask
    BY DEF Settled
  <2>3. \A n \in Nodes : logged[n] = nodeState[n]
    BY <2>1, <2>2, IdleOwesNothing DEF InTurn, Logged
  <2>4. QED BY <2>3 DEF SerialInv, TypeOK, MonitorTypeOK
<1>2. QED
  BY <1>1, SerialInvariance, PTL

\* The alerts are changed by the evaluator's statements and by deletions only.
LEMMA AlertsChange ==
    ASSUME [SerialNext]_vars
    PROVE  \/ UNCHANGED alerts
           \/ \E p \in Procs : Evaluator!Step(p)
           \/ \E r \in Rules : DeleteRule(r)
<1>1. ASSUME NEW p, Agent(p) \/ Edit(p) PROVE UNCHANGED alerts
  BY <1>1, Zenon DEF Agent, Heartbeat, Shutdown, Edit, CreateRule, UpdateRule, evaluatorVars,
     Evaluator!PutRule
<1>2. ASSUME NEW p, Touch(p) \/ SetState(p) \/ Expire(p) \/ ListRules(p) \/ LogState(p)
                    \/ LoadNodes(p) \/ EvaluateNode(p)
      PROVE  UNCHANGED evaluatorVars
  BY <1>2, Zenon DEF Touch, SetState, Expire, SetNodeState, ListRules, LogState, LoadNodes,
     EvaluateNode
<1>3. ASSUME NEW p, EvaluateRule(p) \/ EndCall(p) \/ ReconcileRule(p) \/ EndReconcile(p)
      PROVE  UNCHANGED alerts
  BY <1>3, Zenon DEF EvaluateRule, EndCall, ReconcileRule, EndReconcile, Evaluator!Apply,
     Evaluator!CloseForTarget, Evaluator!Reconcile, Evaluator!Return
<1>4. ASSUME Tick \/ RunExpiry \/ UNCHANGED vars PROVE UNCHANGED alerts
  BY <1>4 DEF Tick, RunExpiry, vars, evaluatorVars
<1>5. QED
  BY <1>1, <1>2, <1>3, <1>4 DEF SerialNext, Begin, Work, EvaluatorStep, evaluatorVars

\* Who is told that an alert is resolved may rely on its node's being online.
THEOREM ResolvedMeansRecovered == SerialSpec => NoFalseRecovery
<1> DEFINE Recovered == \A a \in AlertIds :
              alerts[a].status = "active" /\ alerts'[a].status = "resolved"
                 => nodeState[alerts[a].target] = "online"
<1>1. SerialInv /\ [SerialNext]_vars => [Recovered]_vars
  <2> SUFFICES ASSUME SerialInv, [SerialNext]_vars, NEW a \in AlertIds,
                      alerts[a].status = "active", alerts'[a].status = "resolved"
               PROVE  nodeState[alerts[a].target] = "online"
    OBVIOUS
  <2>1. PICK p \in Procs : InTurn(p)
    BY DEF SerialInv
  <2>2. alerts \in [AlertIds -> Evaluator!AlertRow]
    BY DEF SerialInv, TypeOK, Evaluator!TypeOK, Evaluator!AlertsTypeOK
  <2>3. ASSUME NEW r \in Rules, DeleteRule(r) PROVE FALSE
    BY <2>2, <2>3 DEF DeleteRule, Evaluator!DropRule, Evaluator!DropAlertsOf,
       Evaluator!AlertRow
  <2>4. ASSUME NEW q \in Procs, Evaluator!Step(q)
        PROVE  nodeState[alerts[a].target] = "online"
    <3>1. CASE Evaluator!Resolve(q)
      <4>1. call[q].pc = "resolve" /\ a = call[q].alert
        BY <2>2, <3>1 DEF Evaluator!Resolve, Evaluator!At, Evaluator!MarkResolved
      <4>2. q = p
        BY <2>1, <4>1, IdleOwesNothing DEF InTurn
      <4>3. QED BY <2>1, <4>1, <4>2 DEF InTurn, CallCurrent
    <3>2. CASE Evaluator!Create(q)
      BY <2>2, <3>2 DEF Evaluator!Create, Evaluator!InsertActive
    <3>3. CASE Evaluator!Close(q)
      <4>1. PICK b \in AlertIds : Evaluator!MarkClosed(b, call[q].reason)
        BY <3>3, Zenon DEF Evaluator!Close
      <4>2. QED BY <2>2, <4>1 DEF Evaluator!MarkClosed, Evaluator!AlertRow
    <3>4. CASE UNCHANGED alerts
      BY <3>4
    <3>5. QED
      BY <2>4, <3>1, <3>2, <3>3, <3>4, Zenon DEF Evaluator!Step, Evaluator!CreateLost,
         Evaluator!CreateRefused, Evaluator!ResolveLost, Evaluator!CloseLost,
         Evaluator!LogTriggered, Evaluator!SendTriggered, Evaluator!LogResolved,
         Evaluator!SendResolved, Evaluator!LogClosed, Evaluator!Send
  <2>5. QED
    BY <2>3, <2>4, AlertsChange
<1>2. SerialSpec => [][Recovered]_vars
  BY <1>1, SerialInvariance, PTL DEF SerialSpec
<1>3. [][Recovered]_vars => NoFalseRecovery
  BY DEF NoFalseRecovery
<1>4. QED
  BY <1>2, <1>3
=============================================================================
