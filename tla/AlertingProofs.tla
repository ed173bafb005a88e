--------------------------- MODULE AlertingProofs ---------------------------
(***************************************************************************)
(* Theorems about what Alerting puts side by side, for any rules, targets  *)
(* and handlers.  The service monitor and the metric monitor implement     *)
(* AlertEvaluator, so that what AlertEvaluatorProofs proves of the         *)
(* evaluator holds of them.  Service alerts are earned, though results     *)
(* cross; while requests follow one another the states of services follow  *)
(* the results, and their alerts the states.  The alerts of metrics follow *)
(* the latest samples once a batch was served alone.  Readers of           *)
(* AlertPages miss no alert.  The last of each part carries                *)
(* that over to ServiceRecovery and Alerting.                              *)
(***************************************************************************)
EXTENDS ServiceRecovery, Alerting, FiniteSetTheorems, SequenceTheorems,
        WellFoundedInduction, TLAPS

\* The failures stored for a service and not yet applied to its row.
Pending(s) ==
    {p \in Handlers : task[p].pc = "read" /\ task[p].service = s /\ ~task[p].success}

\* A copy of a service's row, wherever it is held, counts no failure that is
\* not among the results, and none that is pending.
Backed(s, row) ==
    /\ row.state = "unhealthy" => row.failures = 3
    /\ failed[s] = 3 \/ row.failures + Cardinality(Pending(s)) <= failed[s]

RowsBacked == \A s \in Services : IsFiniteSet(Pending(s)) /\ Backed(s, service[s])

\* ... so with those a task holds and those it has still to go through.
TaskBacked(t) ==
    /\ t.pc \in {"update", "list", "rules", "call", "log"} => Backed(t.service, t.row)
    /\ \A x \in t.rest : Backed(x[1], x[2])

TasksBacked == \A p \in Handlers : TaskBacked(task[p])

\* An evaluation that is to open an alert has cause, and so had every alert.
CallsEarned ==
    \A p \in Handlers : call[p].pc = "create" =>
        call[p].target \in Services /\ failed[call[p].target] = 3

\* What is no alert yet is of no rule, which a deleted rule relies on.
IncidentsEarned ==
    \A a \in AlertIds :
        IF alerts[a].status = "none" THEN alerts[a].rule = None
        ELSE alerts[a].target \in Services /\ failed[alerts[a].target] = 3

\* The inductive invariant, types aside.
Earned == RowsBacked /\ TasksBacked /\ CallsEarned /\ IncidentsEarned

USE ServiceAssumption

-----------------------------------------------------------------------------
(* Typing.                                                                 *)

\* Typed, and at a statement that has what it needs.
GoodTask == {t \in Task : TaskOK(t)}

\* The monitor's rows, and all of its state but the evaluator's.
RowsTypeOK ==
    /\ service \in [Services -> ServiceRow]
    /\ \A s \in Services : recent[s] \in Seq(BOOLEAN) /\ Len(recent[s]) <= 3
    /\ recent = [s \in Services |-> recent[s]]
    /\ failed \in [Services -> 0 .. 3]
    /\ logged \in [Services -> ServiceStates]

MonitorTypeOK == RowsTypeOK /\ task \in [Handlers -> GoodTask]

\* No task at all is a good one, and so is one that sets out.
LEMMA NoTaskGood ==
    /\ NoTask \in GoodTask /\ NoTask.pc = "idle" /\ NoTask.rest = {}
    /\ \A rest \in SUBSET (Services \X ServiceRow) :
          /\ [NoTask EXCEPT !.pc = "evaluate", !.rest = rest] \in GoodTask
          /\ [NoTask EXCEPT !.rest = rest] \in Task
  BY DEF NoTask, GoodTask, Task, TaskOK

\* The fields of a task.
LEMMA TaskFields ==
    ASSUME NEW t \in GoodTask
    PROVE  /\ t \in Task /\ TaskOK(t)
           /\ t.success \in BOOLEAN /\ t.todo \in SUBSET Rules
           /\ t.rest \in SUBSET (Services \X ServiceRow)
           /\ t.service \in Services \cup {None} /\ t.row \in ServiceRow \cup {None}
  BY DEF GoodTask, Task

\* What a task goes on to, through with its service or with a rule.
LEMMA NextServiceGood ==
    ASSUME NEW t \in Task
    PROVE  NextService(t) \in GoodTask
<1>1. t.rest \in SUBSET (Services \X ServiceRow)
  BY DEF Task
<1> QED BY <1>1, NoTaskGood DEF NextService

\* A handler that goes on to the next rule, or is done with them, is well typed.
LEMMA NextRuleGood ==
    ASSUME NEW t \in Task, t.service \in Services, t.row \in ServiceRow
    PROVE  NextRule(t) \in GoodTask
<1>1. [t EXCEPT !.pc = "rules"] \in GoodTask /\ [t EXCEPT !.pc = "log"] \in GoodTask
  BY DEF GoodTask, Task, TaskOK
<1> QED BY <1>1, NextServiceGood DEF NextRule

\* A service's row becomes one.
LEMMA NextRowTyped ==
    ASSUME NEW row \in ServiceRow, NEW success \in BOOLEAN
    PROVE  NextRow(row, success) \in ServiceRow
  BY DEF ServiceRow, NextRow, NewService, Up, ServiceStates

\* The window of results stays one of three.
LEMMA LastThreeTyped ==
    ASSUME NEW w \in Seq(BOOLEAN), NEW success \in BOOLEAN, Len(w) <= 3
    PROVE  /\ LastThree(Append(w, success)) \in Seq(BOOLEAN)
           /\ Len(LastThree(Append(w, success))) <= 3
<1>1. /\ Append(w, success) \in Seq(BOOLEAN) /\ Len(Append(w, success)) = Len(w) + 1
      /\ Len(w) \in Nat
  OBVIOUS
<1>2. ASSUME NEW v \in Seq(BOOLEAN), Len(v) <= 4
      PROVE  LastThree(v) \in Seq(BOOLEAN) /\ Len(LastThree(v)) <= 3
  <2>1. Len(v) \in Nat /\ (Len(v) > 3 => v # <<>>)
    OBVIOUS
  <2>2. v # <<>> => Tail(v) \in Seq(BOOLEAN) /\ Len(Tail(v)) = Len(v) - 1
    BY HeadTailProperties
  <2>3. CASE Len(v) > 3
    BY <1>2, <2>1, <2>2, <2>3 DEF LastThree
  <2>4. CASE ~(Len(v) > 3)
    BY <2>1, <2>4 DEF LastThree
  <2> QED BY <2>3, <2>4
<1>3. Len(Append(w, success)) <= 4
  BY <1>1
<1> QED BY <1>1, <1>2, <1>3

\* A goroutine moves on to a good task, and the services' rows stay typed.
LEMMA Moved ==
    ASSUME MonitorTypeOK, RowsTypeOK', NEW p \in Handlers, NEW f \in GoodTask, Continue(p, f)
    PROVE  MonitorTypeOK'
  BY DEF MonitorTypeOK, Continue

\* A handler moves on and leaves the services as they are.
LEMMA MovedOnly ==
    ASSUME MonitorTypeOK, NEW p \in Handlers, NEW f \in GoodTask, Continue(p, f),
           UNCHANGED serviceVars
    PROVE  MonitorTypeOK'
  BY Moved DEF MonitorTypeOK, RowsTypeOK, serviceVars

\* Results are stored, read for and written.
LEMMA ResultInv ==
    ASSUME MonitorTypeOK, NEW p \in Handlers,
           \/ \E s \in Services, success \in BOOLEAN : Store(p, s, success)
           \/ Read(p) \/ Update(p)
    PROVE  MonitorTypeOK'
<1>1. RowsTypeOK /\ task[p] \in GoodTask
  BY DEF MonitorTypeOK
<1>2. ASSUME NEW s \in Services, NEW success \in BOOLEAN, Store(p, s, success)
      PROVE  MonitorTypeOK'
  <2>1. [NoTask EXCEPT !.pc = "read", !.service = s, !.success = success] \in GoodTask
    BY DEF NoTask, GoodTask, Task, TaskOK
  <2>2. failed' \in [Services -> 0 .. 3]
    <3>1. failed[s] \in 0 .. 3 /\ \A n \in 0 .. 3 : Up(n) \in 0 .. 3
      BY <1>1 DEF RowsTypeOK, Up
    <3>2. (IF success THEN failed[s] ELSE Up(failed[s])) \in 0 .. 3
      BY <3>1
    <3> QED BY <1>1, <1>2, <3>2 DEF Store, RowsTypeOK
  <2>3. /\ \A x \in Services : recent'[x] = IF x = s THEN LastThree(Append(recent[s], success))
                                                     ELSE recent[x]
        /\ recent' = [x \in Services |-> recent'[x]]
    BY <1>1, <1>2 DEF Store, RowsTypeOK
  <2>4. RowsTypeOK'
    BY <1>1, <1>2, <2>2, <2>3, LastThreeTyped DEF Store, RowsTypeOK
  <2> QED BY <1>2, <2>1, <2>4, Moved DEF Store
<1>3. ASSUME Read(p) PROVE MonitorTypeOK'
  <2>1. PICK row \in ServiceRow : row = service[task[p].service]
    BY <1>1, <1>3, TaskFields DEF Read, At, TaskOK, RowsTypeOK
  <2>2. PICK f : f = [task[p] EXCEPT !.pc = "update", !.was = row.state,
                                     !.row = NextRow(row, task[p].success)]
    OBVIOUS
  <2>3. NextRow(row, task[p].success) \in ServiceRow /\ row.state \in ServiceStates
    BY <1>1, TaskFields, NextRowTyped DEF ServiceRow
  <2>4. f \in GoodTask
    BY <1>1, <1>3, <2>2, <2>3 DEF Read, At, GoodTask, Task, TaskOK
  <2>5. Continue(p, f) /\ UNCHANGED serviceVars
    BY <1>3, <2>1, <2>2 DEF Read
  <2> QED BY <2>4, <2>5, MovedOnly
<1>4. ASSUME Update(p) PROVE MonitorTypeOK'
  <2>1. task[p].service \in Services /\ task[p].row \in ServiceRow
    BY <1>1, <1>4, TaskFields DEF Update, At, TaskOK
  <2>2. RowsTypeOK'
    BY <1>1, <1>4, <2>1 DEF Update, RowsTypeOK
  <2>3. [task[p] EXCEPT !.pc = "list"] \in GoodTask
    BY <1>1, <2>1 DEF GoodTask, Task, TaskOK
  <2> QED BY <1>4, <2>2, <2>3, Moved DEF Update
<1> QED BY <1>2, <1>3, <1>4

\* Rules are gone through for a service.
LEMMA RulesInv ==
    ASSUME MonitorTypeOK, NEW p \in Handlers,
           ListRules(p) \/ EvaluateRule(p) \/ EndCall(p) \/ LogState(p) \/ EvaluateService(p)
    PROVE  MonitorTypeOK'
<1>1. /\ RowsTypeOK /\ task[p] \in GoodTask /\ task[p] \in Task /\ TaskOK(task[p])
      /\ \A s : Listed(s) \in SUBSET Rules
  BY DEF MonitorTypeOK, GoodTask, Listed
<1>2. ASSUME ListRules(p) PROVE MonitorTypeOK'
  <2> DEFINE t == [task[p] EXCEPT !.todo = Listed(task[p].service)]
  <2>1. t \in Task /\ t.service \in Services /\ t.row \in ServiceRow
    BY <1>1, <1>2 DEF ListRules, At, TaskOK, Task
  <2>2. Continue(p, NextRule(t)) /\ UNCHANGED serviceVars
    BY <1>2 DEF ListRules
  <2> HIDE DEF t
  <2> QED BY <2>1, <2>2, NextRuleGood, MovedOnly
<1>3. ASSUME EvaluateRule(p) PROVE MonitorTypeOK'
  <2>1. PICK r \in task[p].todo :
           Continue(p, [task[p] EXCEPT !.pc = "call", !.todo = @ \ {r}])
    BY <1>3 DEF EvaluateRule
  <2>2. task[p].service \in Services /\ task[p].row \in ServiceRow
    BY <1>1, <1>3 DEF EvaluateRule, At, TaskOK
  <2>3. [task[p] EXCEPT !.pc = "call", !.todo = @ \ {r}] \in GoodTask
    BY <1>1, <2>2 DEF GoodTask, Task, TaskOK
  <2> QED BY <1>3, <2>1, <2>3, MovedOnly DEF EvaluateRule
<1>4. ASSUME EndCall(p) PROVE MonitorTypeOK'
  <2>1. task[p].service \in Services /\ task[p].row \in ServiceRow
    BY <1>1, <1>4 DEF EndCall, At, TaskOK
  <2>2. NextRule(task[p]) \in GoodTask
    BY <1>1, <2>1, NextRuleGood
  <2> QED BY <1>4, <2>2, NoTaskGood, MovedOnly DEF EndCall
<1>5. ASSUME LogState(p) PROVE MonitorTypeOK'
  <2>1. task[p].service \in Services /\ task[p].row.state \in ServiceStates
    BY <1>1, <1>5 DEF LogState, At, TaskOK, ServiceRow
  <2>2. RowsTypeOK'
    BY <1>1, <1>5, <2>1 DEF LogState, RowsTypeOK
  <2> QED BY <1>1, <1>5, <2>2, NextServiceGood, Moved DEF LogState
<1>6. ASSUME EvaluateService(p) PROVE MonitorTypeOK'
  <2>1. PICK next \in task[p].rest :
           Continue(p, NextRule([task[p] EXCEPT
              !.service = next[1], !.row = next[2], !.rest = @ \ {next},
              !.todo = Listed(next[1])]))
    BY <1>6 DEF EvaluateService
  <2> DEFINE t == [task[p] EXCEPT !.service = next[1], !.row = next[2], !.rest = @ \ {next},
                                  !.todo = Listed(next[1])]
  <2>2. next[1] \in Services /\ next[2] \in ServiceRow
    BY <1>1, TaskFields
  <2>3. t \in Task /\ t.service \in Services /\ t.row \in ServiceRow
    BY <1>1, <2>2 DEF Task
  <2>4. Continue(p, NextRule(t)) /\ UNCHANGED serviceVars
    BY <1>6, <2>1 DEF EvaluateService
  <2> HIDE DEF t
  <2> QED BY <2>3, <2>4, NextRuleGood, MovedOnly
<1> QED BY <1>2, <1>3, <1>4, <1>5, <1>6

\* Rules are edited, and evaluated for the services they are now about.
LEMMA EditInv ==
    ASSUME MonitorTypeOK, NEW p \in Handlers,
           Edit(p) \/ ReconcileRule(p) \/ EndReconcile(p) \/ LoadServices(p)
    PROVE  MonitorTypeOK'
<1>1. RowsTypeOK /\ task[p] \in GoodTask /\ task[p] \in Task /\ TaskOK(task[p])
  BY DEF MonitorTypeOK, GoodTask
<1>2. ASSUME NEW r \in Rules, NEW row \in Evaluator!RuleRow, NEW pc \in {"load", "reconcile"}
      PROVE  [NoTask EXCEPT !.pc = pc, !.rule = r, !.ruleRow = row] \in GoodTask
  BY DEF NoTask, GoodTask, Task, TaskOK
<1>3. ASSUME NEW enabled \in BOOLEAN, NEW scope \in Services \cup {All}
      PROVE  [state |-> "live", enabled |-> enabled, scope |-> scope] \in Evaluator!RuleRow
  BY DEF Evaluator!RuleRow
<1>4. ASSUME NEW r \in Rules, NEW scope \in Services \cup {All}, CreateRule(p, r, scope)
      PROVE  MonitorTypeOK'
  BY <1>2, <1>3, <1>4, MovedOnly DEF CreateRule
<1>5. ASSUME NEW r \in Rules, NEW enabled \in BOOLEAN, NEW scope \in Services \cup {All},
             UpdateRule(p, r, enabled, scope)
      PROVE  MonitorTypeOK'
  BY <1>2, <1>3, <1>5, MovedOnly DEF UpdateRule
<1>6. ASSUME ReconcileRule(p) PROVE MonitorTypeOK'
  <2>1. [task[p] EXCEPT !.pc = "reconciling"] \in GoodTask
    BY <1>1, <1>6 DEF ReconcileRule, At, GoodTask, Task, TaskOK
  <2> QED BY <1>6, <2>1, MovedOnly DEF ReconcileRule
<1>7. ASSUME EndReconcile(p) PROVE MonitorTypeOK'
  <2>1. [task[p] EXCEPT !.pc = "load"] \in GoodTask
    BY <1>1, <1>7 DEF EndReconcile, At, GoodTask, Task, TaskOK
  <2> QED BY <1>7, <2>1, NoTaskGood, MovedOnly DEF EndReconcile
<1>8. ASSUME LoadServices(p) PROVE MonitorTypeOK'
  <2> DEFINE found == IF task[p].ruleRow.scope = All THEN Services ELSE {task[p].ruleRow.scope}
             rows == {<<s, service[s]>> : s \in found}
             t == [NoTask EXCEPT !.rest = rows]
  <2>1. task[p].ruleRow \in Evaluator!RuleRow
    BY <1>1, <1>8 DEF LoadServices, At, TaskOK
  <2>2. found \subseteq Services
    BY <2>1 DEF Evaluator!RuleRow
  <2>3. rows \in SUBSET (Services \X ServiceRow)
    BY <1>1, <2>2 DEF RowsTypeOK
  <2>4. Continue(p, NextService(t)) /\ UNCHANGED serviceVars
    BY <1>8 DEF LoadServices
  <2> HIDE DEF rows
  <2>5. t \in Task
    BY <2>3, NoTaskGood
  <2> HIDE DEF t
  <2> QED BY <2>4, <2>5, NextServiceGood, MovedOnly
<1> QED BY <1>4, <1>5, <1>6, <1>7, <1>8 DEF Edit

\* The monitor starts well typed.
LEMMA InitTyped == Init => MonitorTypeOK
<1>1. <<>> \in Seq(BOOLEAN) /\ Len(<<>>) = 0
  OBVIOUS
<1> SUFFICES ASSUME Init PROVE MonitorTypeOK
  OBVIOUS
<1>2. recent = [s \in Services |-> <<>>]
  BY DEF Init
<1>3. /\ recent = [s \in Services |-> recent[s]]
      /\ \A s \in Services : recent[s] \in Seq(BOOLEAN) /\ Len(recent[s]) <= 3
  BY <1>1, <1>2
<1>4. service \in [Services -> ServiceRow] /\ logged \in [Services -> ServiceStates]
      /\ failed \in [Services -> 0 .. 3]
  BY DEF Init, NewService, ServiceRow, ServiceStates
<1>5. task \in [Handlers -> GoodTask]
  BY NoTaskGood DEF Init
<1> QED BY <1>3, <1>4, <1>5 DEF MonitorTypeOK, RowsTypeOK

\* Every step keeps it so, whatever the evaluator's own state.
LEMMA NextTyped == MonitorTypeOK /\ [Next]_vars => MonitorTypeOK'
<1> SUFFICES ASSUME MonitorTypeOK, [Next]_vars PROVE MonitorTypeOK'
  OBVIOUS
<1>1. ASSUME UNCHANGED <<serviceVars, task>> PROVE MonitorTypeOK'
  BY <1>1 DEF serviceVars, MonitorTypeOK, RowsTypeOK
<1>2. ASSUME NEW p \in Handlers, Break(p) \/ EvaluatorStep(p) PROVE MonitorTypeOK'
  BY <1>1, <1>2, NoTaskGood, MovedOnly DEF Break, Abort, AbortCall, EvaluatorStep
<1>3. ASSUME Begin PROVE MonitorTypeOK'
  BY <1>1, <1>3, ResultInv, EditInv DEF Begin, DeleteRule
<1>4. ASSUME NEW p \in Handlers, Work(p) PROVE MonitorTypeOK'
  BY <1>2, <1>4, ResultInv, RulesInv, EditInv DEF Work
<1> QED BY <1>1, <1>2, <1>3, <1>4 DEF Next, vars

-----------------------------------------------------------------------------
(* The evaluator.                                                          *)

\* Every step of the monitor is one the evaluator allows, or none of its.
LEMMA StepImplements ==
    MonitorTypeOK /\ [Next]_vars => [Evaluator!Next]_Evaluator!evaluatorVars
<1> SUFFICES ASSUME MonitorTypeOK, [Next]_vars
             PROVE  Evaluator!Next \/ UNCHANGED evaluatorVars
  BY DEF evaluatorVars, Evaluator!evaluatorVars
<1>1. \A p \in Handlers : TaskOK(task[p])
  BY DEF MonitorTypeOK, GoodTask
<1>2. ASSUME NEW p \in Handlers,
             \/ \E s \in Services, success \in BOOLEAN : Store(p, s, success)
             \/ Read(p) \/ Update(p) \/ ListRules(p) \/ LogState(p)
             \/ LoadServices(p) \/ EvaluateService(p) \/ Abort(p)
      PROVE  UNCHANGED evaluatorVars
  BY <1>2 DEF Store, Read, Update, ListRules, LogState, LoadServices, EvaluateService, Abort
<1>3. ASSUME NEW p \in Handlers, EvaluateRule(p) PROVE Evaluator!Next
  <2>1. task[p].service \in Services
    BY <1>1, <1>3 DEF EvaluateRule, At, TaskOK
  <2>2. PICK r \in Rules :
           Evaluator!Apply(p, r, task[p].service, task[p].row.state = "unhealthy")
    <3>1. task[p].todo \subseteq Rules
      BY TaskFields DEF MonitorTypeOK
    <3> QED BY <1>3, <3>1 DEF EvaluateRule
  <2>3. (task[p].row.state = "unhealthy") \in BOOLEAN
    OBVIOUS
  <2>4. Evaluator!Call(p)
    BY <2>1, <2>2, <2>3, Zenon DEF Evaluator!Call
  <2> QED BY <2>4 DEF Evaluator!Next
<1>4. ASSUME NEW p \in Handlers, EndCall(p) \/ EndReconcile(p) PROVE Evaluator!Next
  BY <1>4 DEF EndCall, EndReconcile, Evaluator!Next
<1>5. ASSUME NEW p \in Handlers, ReconcileRule(p) PROVE Evaluator!Next
  <2>1. /\ task[p].rule \in Rules /\ task[p].ruleRow \in Evaluator!RuleRow
        /\ Evaluator!Reconcile(p, task[p].rule, task[p].ruleRow)
    BY <1>1, <1>5 DEF ReconcileRule, At, TaskOK
  <2> QED BY <2>1 DEF Evaluator!Next, Evaluator!Call
<1>6. ASSUME NEW p \in Handlers, Edit(p) PROVE Evaluator!Next
  <2>1. PICK r \in Rules, enabled \in BOOLEAN, scope \in Services \cup {All} :
           Evaluator!PutRule(r, [state |-> "live", enabled |-> enabled, scope |-> scope])
    BY <1>6 DEF Edit, CreateRule, UpdateRule
  <2>2. [state |-> "live", enabled |-> enabled, scope |-> scope] \in Evaluator!RuleRow
    BY DEF Evaluator!RuleRow
  <2> QED BY <2>1, <2>2 DEF Evaluator!Next
<1>7. ASSUME NEW p \in Handlers, EvaluatorStep(p) \/ AbortCall(p) PROVE Evaluator!Next
  BY <1>7 DEF EvaluatorStep, AbortCall, Evaluator!Next
<1>8. ASSUME NEW r \in Rules, DeleteRule(r) PROVE Evaluator!Next
  BY <1>8 DEF DeleteRule, Evaluator!Next
<1>9. ASSUME Begin PROVE Evaluator!Next \/ UNCHANGED evaluatorVars
  BY <1>2, <1>6, <1>8, <1>9 DEF Begin
<1>10. ASSUME NEW p \in Handlers, Work(p) \/ Break(p)
       PROVE  Evaluator!Next \/ UNCHANGED evaluatorVars
  BY <1>2, <1>3, <1>4, <1>5, <1>7, <1>10 DEF Work, Break
<1> QED BY <1>9, <1>10 DEF Next, vars

\* It starts where the evaluator may.
LEMMA InitImplements == Init => Evaluator!Init
  BY DEF Init

\* Results, evaluations and rule edits, overlapping and failing as they may,
\* ask of the evaluator only what it is proved for.
THEOREM MonitorImplementsEvaluator == Spec => ImplementsEvaluator
<1> QED BY InitTyped, NextTyped, InitImplements, StepImplements, PTL
           DEF Spec, ImplementsEvaluator, Evaluator!Spec

-----------------------------------------------------------------------------
(* What is proved of the evaluator, carried over.  Proved is the instance  *)
(* the theorems come with; its definitions say what Evaluator's do.        *)

Proved == INSTANCE AlertEvaluatorProofs WITH Targets <- Services, Procs <- Handlers

\* The evaluator here and the one the theorems are about, definition by
\* definition: the initial states,
LEMMA SameInit == Evaluator!Init <=> Proved!Init
  BY Zenon DEF Evaluator!Init, Proved!Init, Evaluator!NoRow, Proved!NoRow,
    Evaluator!RuleRow, Proved!RuleRow, Evaluator!EventKinds, Proved!EventKinds,
    Evaluator!NoticeKinds, Proved!NoticeKinds, Evaluator!Idle, Proved!Idle

\* the steps,
LEMMA SameNext == Evaluator!Next <=> Proved!Next
  BY Zenon DEF Evaluator!Next, Proved!Next, Evaluator!Call, Proved!Call,
    Evaluator!Step, Proved!Step, Evaluator!Apply, Proved!Apply,
    Evaluator!CloseForTarget, Proved!CloseForTarget, Evaluator!Reconcile,
    Proved!Reconcile, Evaluator!Create, Proved!Create, Evaluator!CreateLost,
    Proved!CreateLost, Evaluator!CreateRefused, Proved!CreateRefused,
    Evaluator!LogTriggered, Proved!LogTriggered, Evaluator!SendTriggered,
    Proved!SendTriggered, Evaluator!Resolve, Proved!Resolve, Evaluator!ResolveLost,
    Proved!ResolveLost, Evaluator!LogResolved, Proved!LogResolved,
    Evaluator!SendResolved, Proved!SendResolved, Evaluator!Close, Proved!Close,
    Evaluator!CloseLost, Proved!CloseLost, Evaluator!LogClosed, Proved!LogClosed,
    Evaluator!Fail, Proved!Fail, Evaluator!Return, Proved!Return, Evaluator!PutRule,
    Proved!PutRule, Evaluator!DropRule, Proved!DropRule, Evaluator!DropAlertsOf,
    Proved!DropAlertsOf, Evaluator!At, Proved!At, Evaluator!Goto, Proved!Goto,
    Evaluator!InsertActive, Proved!InsertActive, Evaluator!IsNextId,
    Proved!IsNextId, Evaluator!ActiveFor, Proved!ActiveFor, Evaluator!ActiveOfRule,
    Proved!ActiveOfRule, Evaluator!MarkResolved, Proved!MarkResolved,
    Evaluator!MarkClosed, Proved!MarkClosed, Evaluator!Handling, Proved!Handling,
    Evaluator!Idle, Proved!Idle, Evaluator!Returned, Proved!Returned,
    Evaluator!Failed, Proved!Failed, Evaluator!Opening, Proved!Opening,
    Evaluator!Closing, Proved!Closing, Evaluator!RuleAppliesTo,
    Proved!RuleAppliesTo, Evaluator!RuleRow, Proved!RuleRow, Evaluator!Log,
    Proved!Log, Evaluator!Send, Proved!Send, Evaluator!IsFirst, Proved!IsFirst,
    Evaluator!ClosureReasons, Proved!ClosureReasons

\* and the types.
LEMMA SameTypeOK == Evaluator!TypeOK <=> Proved!TypeOK
  BY Zenon DEF Evaluator!TypeOK, Proved!TypeOK, Evaluator!AlertsTypeOK,
    Proved!AlertsTypeOK, Evaluator!AlertRow, Proved!AlertRow, Evaluator!Statuses,
    Proved!Statuses, Evaluator!ClosureReasons, Proved!ClosureReasons,
    Evaluator!RuleRow, Proved!RuleRow, Evaluator!Frame, Proved!Frame,
    Evaluator!EventKinds, Proved!EventKinds, Evaluator!NoticeKinds,
    Proved!NoticeKinds

\* The evaluator's specification, under its other name.
LEMMA ProvedSpec == Spec => Proved!Spec
<1>1. [Evaluator!Next]_Evaluator!evaluatorVars => [Proved!Next]_Proved!evaluatorVars
  BY SameNext DEF Evaluator!evaluatorVars, Proved!evaluatorVars
<1>2. QED
  BY <1>1, SameInit, MonitorImplementsEvaluator, PTL
     DEF ImplementsEvaluator, Evaluator!Spec, Proved!Spec

\* What the evaluator's proofs assume of its constants.
LEMMA ConstantsFit == Proved!AlertStoreAssumption
  BY DEF Proved!AlertStoreAssumption

\* The state of the monitor is always well typed, and every statement a
\* request or a check comes to has the operands it needs.
THEOREM TypeCorrect == Spec => []TypeOK
<1>1. Spec => []MonitorTypeOK
  BY InitTyped, NextTyped, PTL DEF Spec
<1>2. Spec => []Proved!TypeOK
  BY ConstantsFit, ProvedSpec, Proved!TypeCorrect, PTL
<1>3. MonitorTypeOK /\ Proved!TypeOK => TypeOK
  <2>1. RowsTypeOK => recent \in [Services -> Seq(BOOLEAN)]
    BY DEF RowsTypeOK
  <2> QED BY <2>1, SameTypeOK DEF TypeOK, MonitorTypeOK, RowsTypeOK, GoodTask
<1> QED BY <1>1, <1>2, <1>3, PTL

\* However results and edits overlap, no rule ever has two active alerts for
\* one service.
THEOREM OneActiveAlert == Spec => []Evaluator!AtMostOneActive
<1>1. Proved!AtMostOneActive => Evaluator!AtMostOneActive
  BY Zenon DEF Proved!AtMostOneActive, Evaluator!AtMostOneActive
<1> QED BY <1>1, ConstantsFit, ProvedSpec, Proved!OneActiveAlert, PTL

\* Recipients are told of a turn of an incident only if it is in the event
\* log, once, however the results that tell it overlap and break off.
THEOREM LedgersStayTrue == Spec => []Evaluator!LedgersAgree
<1>1. Proved!LedgersAgree => Evaluator!LedgersAgree
  BY Zenon DEF Evaluator!LedgersAgree, Proved!LedgersAgree,
    Evaluator!Lifecycle!LedgersAgree, Proved!Lifecycle!LedgersAgree,
    Evaluator!Lifecycle!EventKinds, Proved!Lifecycle!EventKinds,
    Evaluator!Lifecycle!NoticeKinds, Proved!Lifecycle!NoticeKinds,
    Evaluator!Lifecycle!StatusesAfter, Proved!Lifecycle!StatusesAfter
<1>2. QED
  BY <1>1, ConstantsFit, ProvedSpec, Proved!LedgersCorrect, PTL

\* No request still under way brings back an incident that has ended.
THEOREM NoReopening == Spec => Evaluator!EndedForGood
<1> QED BY ConstantsFit, ProvedSpec, Proved!NoReopening, PTL
     DEF Evaluator!EndedForGood, Proved!EndedForGood,
         Evaluator!Lifecycle!EndedForGood, Proved!Lifecycle!EndedForGood,
         Evaluator!Lifecycle!lifecycleVars, Proved!Lifecycle!lifecycleVars

-----------------------------------------------------------------------------
(* Alerts are earned.                                                      *)

\* What is known of a task, and of a service's row.
LEMMA Held ==
    ASSUME MonitorTypeOK, Earned, NEW p \in Handlers
    PROVE  /\ task[p] \in GoodTask /\ task[p] \in Task /\ TaskOK(task[p])
           /\ TaskBacked(task[p])
           /\ task[p].rest \in SUBSET (Services \X ServiceRow)
           /\ \A s \in Services : service[s] \in ServiceRow /\ Backed(s, service[s])
BY TaskFields DEF MonitorTypeOK, RowsTypeOK, Earned, TasksBacked, RowsBacked

\* Copies of rows stay backed.
CopiesStay ==
    \A s \in Services :
        /\ IsFiniteSet(Pending(s)')
        /\ \A row \in ServiceRow : Backed(s, row) => Backed(s, row)'

\* They do when no failure is stored, and those that were are not put off.
LEMMA CopiesStayOnWork ==
    ASSUME MonitorTypeOK, RowsBacked, failed' = failed,
           \A s \in Services : Pending(s)' \subseteq Pending(s)
    PROVE  CopiesStay
<1> SUFFICES ASSUME NEW s \in Services, NEW row \in ServiceRow, Backed(s, row)
             PROVE  Backed(s, row)'
  <2>1. \A s \in Services : IsFiniteSet(Pending(s)')
    BY FS_Subset DEF RowsBacked
  <2> QED BY <2>1 DEF CopiesStay
<1>1. /\ IsFiniteSet(Pending(s)) /\ Pending(s)' \in SUBSET Pending(s)
      /\ row.failures \in Nat /\ failed[s] \in Nat
  <2>1. row.failures \in 0 .. 3 /\ failed[s] \in 0 .. 3
    BY DEF ServiceRow, MonitorTypeOK, RowsTypeOK
  <2> QED BY <2>1 DEF RowsBacked
<1>2. /\ Cardinality(Pending(s)) \in Nat /\ Cardinality(Pending(s)') \in Nat
      /\ Cardinality(Pending(s)') <= Cardinality(Pending(s))
  BY <1>1, FS_Subset, FS_CardinalityType
<1> QED BY <1>1, <1>2 DEF Backed

\* A goroutine goes on, its own copies backed as well.
LEMMA EarnedMove ==
    ASSUME MonitorTypeOK, Earned, CopiesStay, NEW p \in Handlers, NEW f \in GoodTask,
           Continue(p, f), TaskBacked(f)',
           \A s \in Services : service'[s] = service[s] \/ Backed(s, service[s])'
    PROVE  RowsBacked' /\ TasksBacked'
<1>1. RowsBacked'
  <2> SUFFICES ASSUME NEW s \in Services PROVE IsFiniteSet(Pending(s)') /\ Backed(s, service[s])'
    BY DEF RowsBacked
  <2>1. PICK row \in ServiceRow : row = service[s] /\ Backed(s, row)
    BY Held
  <2>2. IsFiniteSet(Pending(s)') /\ Backed(s, row)'
    BY <2>1 DEF CopiesStay
  <2>3. CASE service'[s] = service[s]
    BY <2>1, <2>2, <2>3
  <2>4. CASE Backed(s, service[s])'
    BY <2>2, <2>4
  <2> QED BY <2>3, <2>4
<1>2. /\ task'[p] = f
      /\ \A q \in Handlers : q # p => task'[q] = task[q]
  BY DEF MonitorTypeOK, Continue
<1>3. ASSUME NEW q \in Handlers, q # p PROVE TaskBacked(task[q])'
  <2>1. PICK t \in GoodTask : t = task[q] /\ t = task'[q]
    BY <1>2, <1>3, Held
  <2>2. TaskBacked(t) /\ TaskOK(t) /\ t.rest \in SUBSET (Services \X ServiceRow)
    BY <2>1, Held
  <2>3. TaskBacked(t)'
    BY <2>2 DEF TaskBacked, TaskOK, CopiesStay
  <2> QED BY <2>1, <2>3
<1>4. TaskBacked(task[p])'
  BY <1>2
<1> QED BY <1>1, <1>3, <1>4 DEF TasksBacked

\* What was backed stays so, held by a task as well.
LEMMA TaskStays ==
    ASSUME CopiesStay, NEW t \in GoodTask, TaskBacked(t)
    PROVE  TaskBacked(t)'
BY TaskFields DEF TaskBacked, TaskOK, CopiesStay

\* ... the same, when no result comes in.
LEMMA EarnedWork ==
    ASSUME MonitorTypeOK, Earned, NEW p \in Handlers, NEW f \in GoodTask,
           f.pc # "read", Continue(p, f), failed' = failed, TaskBacked(f),
           \A s \in Services :
               \/ service'[s] = service[s]
               \/ \E row \in ServiceRow : service'[s] = row /\ Backed(s, row)
    PROVE  RowsBacked' /\ TasksBacked'
<1>1. /\ task'[p] = f
      /\ \A q \in Handlers : q # p => task'[q] = task[q]
  BY DEF MonitorTypeOK, Continue
<1>2. \A s \in Services : Pending(s)' \subseteq Pending(s)
  BY <1>1 DEF Pending
<1>3. CopiesStay
  BY <1>2, CopiesStayOnWork DEF Earned
<1>4. TaskBacked(f)'
  BY <1>3, TaskStays
<1>5. ASSUME NEW s \in Services
      PROVE  service'[s] = service[s] \/ Backed(s, service[s])'
  <2>1. CASE service'[s] = service[s]
    BY <2>1
  <2>2. ASSUME NEW row \in ServiceRow, service'[s] = row, Backed(s, row)
        PROVE  Backed(s, service[s])'
    <3>1. Backed(s, row)'
      BY <1>3, <2>2 DEF CopiesStay
    <3> QED BY <2>2, <3>1
  <2> QED BY <2>1, <2>2
<1> QED BY <1>3, <1>4, <1>5, EarnedMove

\* A result is stored: a failure is one more that is pending.
LEMMA StoreEarned ==
    ASSUME MonitorTypeOK, Earned, NEW p \in Handlers, NEW s \in Services,
           NEW success \in BOOLEAN, Store(p, s, success)
    PROVE  RowsBacked' /\ TasksBacked'
<1>1. PICK f : f = [NoTask EXCEPT !.pc = "read", !.service = s, !.success = success]
  OBVIOUS
<1>2. /\ f \in GoodTask /\ f.pc = "read" /\ f.service = s /\ f.success = success
      /\ f.rest = {}
  BY <1>1 DEF NoTask, GoodTask, Task, TaskOK
<1>3. /\ task[p].pc = "idle" /\ Continue(p, f) /\ service' = service
      /\ failed' = [failed EXCEPT ![s] = IF success THEN @ ELSE Up(@)]
  BY <1>1 DEF Store, At
<1>4. /\ task'[p] = f
      /\ \A q \in Handlers : q # p => task'[q] = task[q]
      /\ failed \in [Services -> 0 .. 3]
  BY <1>3 DEF MonitorTypeOK, RowsTypeOK, Continue
<1>5. CopiesStay
  <2> SUFFICES ASSUME NEW x \in Services
               PROVE  /\ IsFiniteSet(Pending(x)')
                      /\ \A row \in ServiceRow : Backed(x, row) => Backed(x, row)'
    BY DEF CopiesStay
  <2>1. /\ IsFiniteSet(Pending(x)) /\ Cardinality(Pending(x)) \in Nat
        /\ \A row \in ServiceRow : row.failures \in 0 .. 3
        /\ failed[x] \in 0 .. 3
    BY <1>4, FS_CardinalityType DEF Earned, RowsBacked, ServiceRow
  <2>2. CASE x = s /\ ~success
    <3>1. Pending(x)' = Pending(x) \cup {p} /\ p \notin Pending(x)
      BY <1>2, <1>3, <1>4, <2>2 DEF Pending
    <3>2. /\ IsFiniteSet(Pending(x)')
          /\ Cardinality(Pending(x)') = Cardinality(Pending(x)) + 1
      BY <2>1, <3>1, FS_AddElement
    <3>3. failed'[x] = Up(failed[x])
      BY <1>3, <1>4, <2>2
    <3>4. \/ failed'[x] = 3
          \/ failed[x] # 3 /\ failed'[x] = failed[x] + 1
      BY <2>1, <3>3 DEF Up
    <3>5. ASSUME NEW row \in ServiceRow, Backed(x, row) PROVE Backed(x, row)'
      <4> DEFINE n == Cardinality(Pending(x))
                 m == Cardinality(Pending(x)')
      <4>1. n \in Nat /\ m = n + 1 /\ row.failures \in 0 .. 3
        BY <2>1, <3>2
      <4>2. failed[x] = 3 \/ row.failures + n <= failed[x]
        BY <3>5 DEF Backed
      <4> HIDE DEF n, m
      <4>3. failed'[x] = 3 \/ row.failures + m <= failed'[x]
        BY <2>1, <3>4, <4>1, <4>2
      <4> QED BY <3>5, <4>3 DEF Backed, m
    <3> QED BY <3>2, <3>5
  <2>3. CASE ~(x = s /\ ~success)
    <3>1. Pending(x)' = Pending(x) /\ failed'[x] = failed[x]
      BY <1>2, <1>3, <1>4, <2>3 DEF Pending
    <3> QED BY <2>1, <3>1 DEF Backed
  <2> QED BY <2>2, <2>3
<1>6. TaskBacked(f)'
  BY <1>2 DEF TaskBacked
<1> QED BY <1>2, <1>3, <1>5, <1>6, EarnedMove

\* A result is applied to a copy of the row: what was pending is counted.
LEMMA ReadEarned ==
    ASSUME MonitorTypeOK, Earned, NEW p \in Handlers, Read(p)
    PROVE  RowsBacked' /\ TasksBacked'
<1>1. PICK t \in GoodTask : t = task[p] /\ TaskOK(t) /\ TaskBacked(t) /\ t \in Task
  BY Held
<1>2. PICK s \in Services : s = t.service /\ t.pc = "read"
  BY <1>1 DEF Read, At, TaskOK
<1>3. PICK row \in ServiceRow : row = service[s] /\ Backed(s, row)
  BY Held
<1>4. PICK next \in ServiceRow : next = NextRow(row, t.success)
  BY <1>1, TaskFields, NextRowTyped
<1>5. PICK f : f = [t EXCEPT !.pc = "update", !.was = row.state, !.row = next]
  OBVIOUS
<1>6. Continue(p, f) /\ UNCHANGED serviceVars
  BY <1>1, <1>2, <1>3, <1>4, <1>5 DEF Read
<1>7. /\ f \in GoodTask /\ f.pc = "update" /\ f.row = next /\ f.service = s
      /\ f.rest = t.rest
  BY <1>1, <1>2, <1>5 DEF GoodTask, Task, TaskOK, ServiceRow
<1>8. /\ task'[p] = f
      /\ \A q \in Handlers : q # p => task'[q] = task[q]
  BY <1>6 DEF MonitorTypeOK, Continue
<1>9. CopiesStay
  <2>1. \A x \in Services : Pending(x)' \subseteq Pending(x)
    BY <1>7, <1>8 DEF Pending
  <2> QED BY <1>6, <2>1, CopiesStayOnWork DEF Earned, serviceVars
<1>10. Backed(s, next)'
  <2> DEFINE n == Cardinality(Pending(s))
             m == Cardinality(Pending(s)')
  <2>1. /\ IsFiniteSet(Pending(s)) /\ n \in Nat
        /\ row.failures \in 0 .. 3 /\ failed[s] \in 0 .. 3
    BY FS_CardinalityType DEF Earned, RowsBacked, ServiceRow, MonitorTypeOK, RowsTypeOK
  <2>2. failed' = failed /\ (failed[s] = 3 \/ row.failures + n <= failed[s])
    BY <1>3, <1>6 DEF Backed, serviceVars
  <2>3. next.state = "unhealthy" => next.failures = 3
    BY <1>3, <1>4 DEF NextRow, NewService, Up, ServiceRow
  <2>4. CASE t.success
    <3>1. next.failures = 0
      BY <1>4, <2>4 DEF NextRow, NewService
    <3>2. Pending(s)' = Pending(s)
      BY <1>1, <1>2, <1>7, <1>8, <2>4 DEF Pending
    <3>3. m = n
      BY <3>2
    <3> HIDE DEF n, m
    <3>4. failed'[s] = 3 \/ next.failures + m <= failed'[s]
      BY <2>1, <2>2, <3>1, <3>3
    <3> QED BY <2>3, <3>4 DEF Backed, m
  <2>5. CASE ~t.success
    <3>1. next.failures = Up(row.failures)
      BY <1>4, <2>5 DEF NextRow
    <3>2. Pending(s)' = Pending(s) \ {p} /\ p \in Pending(s)
      BY <1>1, <1>2, <1>7, <1>8, <2>5 DEF Pending
    <3>3. m = n - 1
      BY <2>1, <3>2, FS_RemoveElement
    <3> HIDE DEF n, m
    <3>4. next.failures <= row.failures + 1 /\ next.failures \in Nat
      BY <2>1, <3>1 DEF Up
    <3>5. failed'[s] = 3 \/ next.failures + m <= failed'[s]
      BY <2>1, <2>2, <3>3, <3>4
    <3> QED BY <2>3, <3>5 DEF Backed, m
  <2> QED BY <2>4, <2>5
<1>11. TaskBacked(f)'
  <2>1. \A x \in t.rest : Backed(x[1], x[2])'
    BY <1>1, <1>9, TaskFields DEF TaskBacked, CopiesStay
  <2> QED BY <1>7, <1>10, <2>1 DEF TaskBacked
<1> QED BY <1>6, <1>7, <1>9, <1>11, EarnedMove DEF serviceVars

\* What a task goes on to holds no other copies.
LEMMA NextBacked ==
    ASSUME NEW t \in Task, \A x \in t.rest : Backed(x[1], x[2])
    PROVE  /\ NextService(t).pc # "read" /\ TaskBacked(NextService(t))
           /\ Backed(t.service, t.row) =>
                 NextRule(t).pc # "read" /\ TaskBacked(NextRule(t))
<1>1. NextService(t).pc \in {"idle", "evaluate"} /\ NextService(t).rest \in {{}, t.rest}
  BY DEF NextService, NoTask
<1>2. NextService(t).pc # "read" /\ TaskBacked(NextService(t))
  BY <1>1 DEF TaskBacked
<1>3. ASSUME NEW pc \in {"rules", "log"}, Backed(t.service, t.row)
      PROVE  [t EXCEPT !.pc = pc].pc # "read" /\ TaskBacked([t EXCEPT !.pc = pc])
  <2> DEFINE f == [t EXCEPT !.pc = pc]
  <2>1. f.pc = pc /\ f.service = t.service /\ f.row = t.row /\ f.rest = t.rest
    BY DEF Task
  <2> HIDE DEF f
  <2>2. f.pc # "read" /\ TaskBacked(f)
    BY <1>3, <2>1 DEF TaskBacked
  <2> QED BY <2>2 DEF f
<1> QED BY <1>2, <1>3 DEF NextRule

\* A row is written, listed for, logged or loaded; a request breaks off.
LEMMA WorkEarned ==
    ASSUME MonitorTypeOK, MonitorTypeOK', Earned, NEW p \in Handlers,
           \/ Update(p) \/ ListRules(p) \/ LogState(p) \/ LoadServices(p)
           \/ EvaluateService(p) \/ Abort(p)
    PROVE  RowsBacked' /\ TasksBacked'
<1>1. PICK t \in GoodTask :
         /\ t = task[p] /\ TaskOK(t) /\ TaskBacked(t) /\ t \in Task
         /\ t.rest \in SUBSET (Services \X ServiceRow)
  BY Held
<1>2. \A x \in t.rest : Backed(x[1], x[2])
  BY <1>1 DEF TaskBacked
<1>3. ASSUME NEW f, Continue(p, f) PROVE f \in GoodTask
  BY <1>3 DEF MonitorTypeOK, Continue
<1>4. CASE Update(p)
  <2>1. PICK f : f = [t EXCEPT !.pc = "list"]
    OBVIOUS
  <2>2. /\ t.pc = "update" /\ Continue(p, f) /\ failed' = failed
        /\ service' = [service EXCEPT ![t.service] = t.row]
    BY <1>1, <1>4, <2>1 DEF Update, At
  <2>3. /\ t.service \in Services /\ t.row \in ServiceRow /\ Backed(t.service, t.row)
    BY <1>1, <2>2 DEF TaskOK, TaskBacked
  <2>4. f.pc = "list" /\ f.service = t.service /\ f.row = t.row /\ f.rest = t.rest
    BY <1>1, <2>1 DEF Task
  <2>5. TaskBacked(f)
    BY <1>2, <2>3, <2>4 DEF TaskBacked
  <2>6. \A s \in Services : service'[s] = service[s] \/ (s = t.service /\ service'[s] = t.row)
    BY <2>2 DEF MonitorTypeOK, RowsTypeOK
  <2> QED BY <1>3, <2>2, <2>3, <2>4, <2>5, <2>6, EarnedWork
<1>5. CASE ListRules(p)
  <2>1. PICK u : u = [t EXCEPT !.todo = Listed(t.service)]
    OBVIOUS
  <2>2. /\ t.pc = "list" /\ Continue(p, NextRule(u)) /\ failed' = failed
        /\ service' = service
    BY <1>1, <1>5, <2>1 DEF ListRules, At, serviceVars
  <2>3. u \in Task /\ u.service = t.service /\ u.row = t.row /\ u.rest = t.rest
    BY <1>1, <2>1 DEF Task, Listed
  <2>4. Backed(u.service, u.row)
    BY <1>1, <2>2, <2>3 DEF TaskBacked
  <2>5. PICK f : f = NextRule(u)
    OBVIOUS
  <2>6. f.pc # "read" /\ TaskBacked(f)
    BY <1>2, <2>3, <2>4, <2>5, NextBacked
  <2> QED BY <1>3, <2>2, <2>5, <2>6, EarnedWork
<1>6. CASE LogState(p)
  <2>1. PICK f : f = NextService(t)
    OBVIOUS
  <2>2. Continue(p, f) /\ failed' = failed /\ service' = service
    BY <1>1, <1>6, <2>1 DEF LogState
  <2>3. f.pc # "read" /\ TaskBacked(f)
    BY <1>1, <1>2, <2>1, NextBacked
  <2> QED BY <1>3, <2>2, <2>3, EarnedWork
<1>7. CASE LoadServices(p)
  <2> DEFINE found == IF t.ruleRow.scope = All THEN Services ELSE {t.ruleRow.scope}
             rows == {<<s, service[s]>> : s \in found}
  <2>1. t.ruleRow \in Evaluator!RuleRow
    BY <1>1, <1>7 DEF LoadServices, At, TaskOK
  <2>2. found \subseteq Services
    BY <2>1 DEF Evaluator!RuleRow
  <2>3. rows \in SUBSET (Services \X ServiceRow) /\ \A x \in rows : Backed(x[1], x[2])
    BY <2>2, Held
  <2>4. PICK u : u = [NoTask EXCEPT !.rest = rows]
    OBVIOUS
  <2>5. Continue(p, NextService(u)) /\ failed' = failed /\ service' = service
    BY <1>1, <1>7, <2>4 DEF LoadServices, serviceVars
  <2> HIDE DEF rows
  <2>6. u \in Task
    BY <2>3, <2>4, NoTaskGood
  <2>7. u.rest = rows
    BY <2>4 DEF NoTask
  <2>8. PICK f : f = NextService(u)
    OBVIOUS
  <2>9. f.pc # "read" /\ TaskBacked(f)
    BY <2>3, <2>6, <2>7, <2>8, NextBacked
  <2> QED BY <1>3, <2>5, <2>8, <2>9, EarnedWork
<1>8. CASE EvaluateService(p)
  <2>1. PICK next \in t.rest :
           Continue(p, NextRule([t EXCEPT
              !.service = next[1], !.row = next[2], !.rest = @ \ {next},
              !.todo = Listed(next[1])]))
    BY <1>1, <1>8 DEF EvaluateService
  <2>2. PICK u : u = [t EXCEPT !.service = next[1], !.row = next[2], !.rest = @ \ {next},
                               !.todo = Listed(next[1])]
    OBVIOUS
  <2>3. next[1] \in Services /\ next[2] \in ServiceRow /\ Backed(next[1], next[2])
    BY <1>1, <1>2
  <2>4. /\ u \in Task /\ u.service = next[1] /\ u.row = next[2]
        /\ u.rest = t.rest \ {next}
    BY <1>1, <2>2, <2>3 DEF Task, Listed
  <2>5. PICK f : f = NextRule(u)
    OBVIOUS
  <2>6. f.pc # "read" /\ TaskBacked(f)
    BY <1>2, <2>3, <2>4, <2>5, NextBacked
  <2>7. Continue(p, f) /\ failed' = failed /\ service' = service
    BY <1>8, <2>1, <2>2, <2>5 DEF EvaluateService, serviceVars
  <2> QED BY <1>3, <2>6, <2>7, EarnedWork
<1>9. CASE Abort(p)
  <2>1. NoTask \in GoodTask /\ NoTask.pc # "read" /\ TaskBacked(NoTask)
    BY NoTaskGood DEF TaskBacked
  <2>2. Continue(p, NoTask) /\ failed' = failed /\ service' = service
    BY <1>9 DEF Abort, serviceVars
  <2> QED BY <2>1, <2>2, EarnedWork
<1> QED BY <1>4, <1>5, <1>6, <1>7, <1>8, <1>9

\* Steps of the evaluator, and what goes with them.
LEMMA CallEarned ==
    ASSUME MonitorTypeOK, MonitorTypeOK', Earned, NEW p \in Handlers,
           EvaluateRule(p) \/ EndCall(p) \/ ReconcileRule(p) \/ EndReconcile(p) \/ Edit(p)
    PROVE  RowsBacked' /\ TasksBacked'
<1>1. PICK t \in GoodTask :
         /\ t = task[p] /\ TaskOK(t) /\ TaskBacked(t) /\ t \in Task
         /\ t.rest \in SUBSET (Services \X ServiceRow)
  BY Held
<1>2. \A x \in t.rest : Backed(x[1], x[2])
  BY <1>1 DEF TaskBacked
<1>3. failed' = failed /\ service' = service
  BY DEF EvaluateRule, EndCall, ReconcileRule, EndReconcile, Edit, CreateRule, UpdateRule,
         serviceVars
<1>4. ASSUME NEW f, Continue(p, f) PROVE f \in GoodTask
  BY <1>4 DEF MonitorTypeOK, Continue
<1>5. NoTask.pc # "read" /\ TaskBacked(NoTask)
  BY NoTaskGood DEF TaskBacked
<1>6. CASE EvaluateRule(p)
  <2>1. PICK r \in t.todo : Continue(p, [t EXCEPT !.pc = "call", !.todo = @ \ {r}])
    BY <1>1, <1>6 DEF EvaluateRule
  <2>2. PICK f : f = [t EXCEPT !.pc = "call", !.todo = @ \ {r}]
    OBVIOUS
  <2>3. f.pc = "call" /\ f.service = t.service /\ f.row = t.row /\ f.rest = t.rest
    BY <1>1, <2>2 DEF Task
  <2>4. TaskBacked(f)
    BY <1>1, <1>2, <1>6, <2>3 DEF TaskBacked, EvaluateRule, At
  <2> QED BY <1>3, <1>4, <2>1, <2>2, <2>3, <2>4, EarnedWork
<1>7. CASE EndCall(p)
  <2>1. PICK f : /\ Continue(p, f)
                 /\ f = NoTask \/ f = NextRule(t)
    BY <1>1, <1>7 DEF EndCall
  <2>2. Backed(t.service, t.row)
    BY <1>1, <1>7 DEF EndCall, At, TaskBacked
  <2>3. f.pc # "read" /\ TaskBacked(f)
    BY <1>1, <1>2, <1>5, <2>1, <2>2, NextBacked
  <2> QED BY <1>3, <1>4, <2>1, <2>3, EarnedWork
<1>8. CASE ReconcileRule(p) \/ EndReconcile(p)
  <2>1. PICK f : /\ Continue(p, f)
                 /\ \/ f = NoTask
                    \/ \E pc \in {"reconciling", "load"} : f = [t EXCEPT !.pc = pc]
    BY <1>1, <1>8 DEF ReconcileRule, EndReconcile
  <2>2. f = NoTask \/ (f.pc \in {"reconciling", "load"} /\ f.rest = t.rest)
    BY <1>1, <2>1 DEF Task
  <2>3. f.pc # "read" /\ TaskBacked(f)
    BY <1>2, <1>5, <2>2 DEF TaskBacked
  <2> QED BY <1>3, <1>4, <2>1, <2>3, EarnedWork
<1>9. CASE Edit(p)
  <2>0. \E r, row : \E pc \in {"reconcile", "load"} :
           Continue(p, [NoTask EXCEPT !.pc = pc, !.rule = r, !.ruleRow = row])
    <3>1. PICK r \in Rules, scope \in Services \cup {All} :
             CreateRule(p, r, scope) \/ \E enabled \in BOOLEAN : UpdateRule(p, r, enabled, scope)
      BY <1>9 DEF Edit
    <3> QED BY <3>1, Zenon DEF CreateRule, UpdateRule
  <2>1. PICK r, row : \E pc \in {"reconcile", "load"} :
           Continue(p, [NoTask EXCEPT !.pc = pc, !.rule = r, !.ruleRow = row])
    BY <2>0
  <2> PICK pc \in {"reconcile", "load"} :
           Continue(p, [NoTask EXCEPT !.pc = pc, !.rule = r, !.ruleRow = row])
    BY <2>1
  <2>2. PICK f : f = [NoTask EXCEPT !.pc = pc, !.rule = r, !.ruleRow = row]
    OBVIOUS
  <2>3. f.pc = pc /\ f.rest = {}
    BY <2>2 DEF NoTask
  <2>4. f.pc # "read" /\ TaskBacked(f)
    BY <2>3 DEF TaskBacked
  <2> QED BY <1>3, <1>4, <2>2, <2>4, EarnedWork
<1> QED BY <1>6, <1>7, <1>8, <1>9

\* Alerts stay alerts, of the same rule and target.
RowsKeep ==
    \A a \in AlertIds :
        /\ alerts'[a].status = "none" <=> alerts[a].status = "none"
        /\ alerts'[a].rule = alerts[a].rule /\ alerts'[a].target = alerts[a].target

\* The evaluator's own steps: an alert is opened where there is cause, and
\* the others keep their targets.
LEMMA CallMoved ==
    ASSUME Evaluator!TypeOK, CallsEarned, IncidentsEarned,
           \A s \in Services : failed[s] = 3 => failed'[s] = 3,
           RowsKeep,
           \A p \in Handlers : call'[p].pc = "create" =>
               call[p].pc = "create" /\ call'[p].target = call[p].target
    PROVE  CallsEarned' /\ IncidentsEarned'
BY DEF CallsEarned, IncidentsEarned, RowsKeep

\* ... one by one.
LEMMA EvaluatorEarned ==
    ASSUME Evaluator!TypeOK, CallsEarned, IncidentsEarned, failed' = failed,
           NEW p \in Handlers,
           Evaluator!Step(p) \/ Evaluator!Fail(p) \/ Evaluator!Return(p)
               \/ \E r, row : Evaluator!Reconcile(p, r, row)
    PROVE  CallsEarned' /\ IncidentsEarned'
<1>1. /\ call \in [Handlers -> Evaluator!Frame]
      /\ alerts \in [AlertIds -> Evaluator!AlertRow]
  BY DEF Evaluator!TypeOK, Evaluator!AlertsTypeOK
<1>2. ASSUME NEW f, call' = [call EXCEPT ![p] = f], f.pc # "create",
             RowsKeep
      PROVE  CallsEarned' /\ IncidentsEarned'
  <2>1. call'[p] = f /\ \A q \in Handlers : q # p => call'[q] = call[q]
    BY <1>1, <1>2
  <2> QED BY <1>2, <2>1, CallMoved
<1>3. /\ Evaluator!Idle.pc = "idle" /\ Evaluator!Returned.pc = "done"
      /\ Evaluator!Failed.pc = "failed"
      /\ \A a : Evaluator!Handling("resolve", a).pc = "resolve"
      /\ \A a : Evaluator!Handling("logTriggered", a).pc = "logTriggered"
      /\ \A a : Evaluator!Handling("logResolved", a).pc = "logResolved"
      /\ \A queue, why : Evaluator!Closing(queue, why).pc \in {"done", "close"}
  BY DEF Evaluator!Idle, Evaluator!Returned, Evaluator!Failed, Evaluator!Handling,
         Evaluator!Closing
<1>4. ASSUME Evaluator!Create(p) PROVE CallsEarned' /\ IncidentsEarned'
  <2>1. PICK a \in AlertIds :
           /\ alerts' = [alerts EXCEPT ![a] = [status |-> "active", rule |-> call[p].rule,
                                               target |-> call[p].target, reason |-> None]]
           /\ call' = [call EXCEPT ![p] = Evaluator!Handling("logTriggered", a)]
    BY <1>4 DEF Evaluator!Create, Evaluator!InsertActive, Evaluator!Goto
  <2>2. call[p].target \in Services /\ failed[call[p].target] = 3
    BY <1>4 DEF CallsEarned, Evaluator!Create, Evaluator!At
  <2>3. /\ alerts'[a].target = call[p].target /\ alerts'[a].status = "active"
        /\ \A b \in AlertIds : b # a => alerts'[b] = alerts[b]
    BY <1>1, <2>1
  <2>4. IncidentsEarned'
    BY <2>2, <2>3 DEF IncidentsEarned
  <2>5. call'[p].pc # "create" /\ \A q \in Handlers : q # p => call'[q] = call[q]
    BY <1>1, <1>3, <2>1
  <2>6. CallsEarned'
    BY <2>5 DEF CallsEarned
  <2> QED BY <2>4, <2>6
<1>5. ASSUME Evaluator!Resolve(p) PROVE CallsEarned' /\ IncidentsEarned'
  <2>1. /\ alerts[call[p].alert].status = "active"
        /\ alerts' = [alerts EXCEPT ![call[p].alert] = [@ EXCEPT !.status = "resolved"]]
        /\ call' = [call EXCEPT ![p] = Evaluator!Handling("logResolved", call[p].alert)]
    BY <1>5 DEF Evaluator!Resolve, Evaluator!MarkResolved, Evaluator!Goto
  <2>2. RowsKeep
    BY <1>1, <2>1 DEF Evaluator!AlertRow, RowsKeep
  <2> QED BY <1>2, <1>3, <2>1, <2>2
<1>6. ASSUME Evaluator!Close(p) PROVE CallsEarned' /\ IncidentsEarned'
  <2>1. PICK a \in AlertIds :
           /\ alerts[a].status = "active"
           /\ alerts' = [alerts EXCEPT ![a] = [@ EXCEPT !.status = "closed",
                                                        !.reason = call[p].reason]]
           /\ call' = [call EXCEPT ![p] = [call[p] EXCEPT !.pc = "logClosed", !.alert = a,
                                                          !.queue = @ \ {a}]]
    BY <1>6 DEF Evaluator!Close, Evaluator!MarkClosed, Evaluator!Goto
  <2>2. RowsKeep
    BY <1>1, <2>1 DEF Evaluator!AlertRow, RowsKeep
  <2>3. [call[p] EXCEPT !.pc = "logClosed", !.alert = a, !.queue = @ \ {a}].pc # "create"
    BY <1>1 DEF Evaluator!Frame
  <2> QED BY <1>2, <2>1, <2>2, <2>3
<1>7. ASSUME alerts' = alerts, NEW f, call' = [call EXCEPT ![p] = f], f.pc # "create"
      PROVE  CallsEarned' /\ IncidentsEarned'
  BY <1>2, <1>7 DEF RowsKeep
<1>8. ASSUME \/ Evaluator!CreateLost(p) \/ Evaluator!CreateRefused(p)
             \/ Evaluator!ResolveLost(p) \/ Evaluator!SendTriggered(p)
             \/ Evaluator!SendResolved(p) \/ Evaluator!Fail(p) \/ Evaluator!Return(p)
      PROVE  CallsEarned' /\ IncidentsEarned'
  BY <1>3, <1>7, <1>8
     DEF Evaluator!CreateLost, Evaluator!CreateRefused, Evaluator!ResolveLost,
         Evaluator!SendTriggered, Evaluator!SendResolved, Evaluator!Send, Evaluator!Fail,
         Evaluator!Return, Evaluator!Goto
<1>9. ASSUME \/ Evaluator!CloseLost(p) \/ Evaluator!LogClosed(p)
             \/ \E r, row : Evaluator!Reconcile(p, r, row)
      PROVE  CallsEarned' /\ IncidentsEarned'
  <2>1. PICK queue, why : alerts' = alerts /\ call' = [call EXCEPT ![p] = Evaluator!Closing(queue, why)]
    BY <1>9 DEF Evaluator!CloseLost, Evaluator!LogClosed, Evaluator!Reconcile, Evaluator!Goto
  <2> QED BY <1>3, <1>7, <2>1
<1>10. ASSUME Evaluator!LogTriggered(p) \/ Evaluator!LogResolved(p)
       PROVE  CallsEarned' /\ IncidentsEarned'
  <2>1. PICK pc \in {"sendTriggered", "sendResolved"} :
           alerts' = alerts /\ call' = [call EXCEPT ![p] = [call[p] EXCEPT !.pc = pc]]
    BY <1>10 DEF Evaluator!LogTriggered, Evaluator!LogResolved, Evaluator!Goto
  <2>2. [call[p] EXCEPT !.pc = pc].pc # "create"
    BY <1>1 DEF Evaluator!Frame
  <2> QED BY <1>7, <2>1, <2>2
<1> QED BY <1>4, <1>5, <1>6, <1>8, <1>9, <1>10 DEF Evaluator!Step

\* A rule is applied: an alert is called for when the copy in hand has three
\* failures, and then the results have.
LEMMA ApplyEarned ==
    ASSUME MonitorTypeOK, Evaluator!TypeOK, Earned, NEW p \in Handlers, EvaluateRule(p)
    PROVE  CallsEarned' /\ IncidentsEarned'
<1>1. PICK t \in GoodTask : t = task[p] /\ TaskOK(t) /\ TaskBacked(t)
  BY Held
<1>2. /\ t.pc = "rules" /\ t.service \in Services /\ t.row \in ServiceRow
      /\ Backed(t.service, t.row) /\ failed' = failed /\ alerts' = alerts
  BY <1>1 DEF EvaluateRule, At, TaskOK, TaskBacked, Evaluator!Apply, serviceVars
<1>3. t.row.state = "unhealthy" => failed[t.service] = 3
  <2> DEFINE n == Cardinality(Pending(t.service))
  <2>1. n \in Nat /\ failed[t.service] \in 0 .. 3
    BY <1>2, FS_CardinalityType DEF Earned, RowsBacked, MonitorTypeOK, RowsTypeOK
  <2>2. t.row.state = "unhealthy" => t.row.failures = 3
    BY <1>2 DEF Backed
  <2>3. failed[t.service] = 3 \/ t.row.failures + n <= failed[t.service]
    BY <1>2 DEF Backed
  <2> HIDE DEF n
  <2> QED BY <2>1, <2>2, <2>3
<1>4. PICK r : Evaluator!Apply(p, r, t.service, t.row.state = "unhealthy")
  BY <1>1 DEF EvaluateRule
<1>5. PICK f : /\ call' = [call EXCEPT ![p] = f]
               /\ f.pc = "create" => f.target = t.service /\ t.row.state = "unhealthy"
  <2>1. \/ t.row.state = "unhealthy" /\ call' = [call EXCEPT ![p] = Evaluator!Opening(r, t.service)]
        \/ \E a : call' = [call EXCEPT ![p] = Evaluator!Handling("resolve", a)]
        \/ call' = [call EXCEPT ![p] = Evaluator!Returned]
    BY <1>4 DEF Evaluator!Apply, Evaluator!Goto
  <2>2. /\ Evaluator!Opening(r, t.service).target = t.service
        /\ \A a : Evaluator!Handling("resolve", a).pc # "create"
        /\ Evaluator!Returned.pc # "create"
    BY DEF Evaluator!Opening, Evaluator!Handling, Evaluator!Returned, Evaluator!Idle
  <2> QED BY <2>1, <2>2
<1>6. call'[p] = f /\ \A q \in Handlers : q # p => call'[q] = call[q]
  BY <1>5 DEF Evaluator!TypeOK
<1> QED BY <1>2, <1>3, <1>5, <1>6 DEF Earned, CallsEarned, IncidentsEarned

\* The monitor starts with nothing failed, and with nothing to tell of.
LEMMA InitEarned == Init => Earned
<1> SUFFICES ASSUME Init PROVE Earned
  OBVIOUS
<1>1. /\ task = [p \in Handlers |-> NoTask] /\ failed = [s \in Services |-> 0]
      /\ service = [s \in Services |-> NewService]
  BY DEF Init
<1>2. \A s : Pending(s) = {}
  BY <1>1 DEF Pending, NoTask
<1>3. RowsBacked
  BY <1>1, <1>2, FS_EmptySet DEF RowsBacked, Backed, NewService
<1>4. TasksBacked
  BY <1>1, NoTaskGood DEF TasksBacked, TaskBacked
<1>5. CallsEarned /\ IncidentsEarned
  BY DEF Init, Evaluator!Init, Evaluator!Idle, Evaluator!NoRow, CallsEarned, IncidentsEarned
<1> QED BY <1>3, <1>4, <1>5 DEF Earned

\* Every step keeps it.
LEMMA NextEarned ==
    ASSUME MonitorTypeOK, MonitorTypeOK', Evaluator!TypeOK, Earned, [Next]_vars
    PROVE  Earned'
<1>1. CallsEarned /\ IncidentsEarned /\ RowsBacked /\ TasksBacked
  BY DEF Earned
<1>2. ASSUME UNCHANGED <<service, failed, task>> PROVE RowsBacked' /\ TasksBacked'
  BY <1>1, <1>2 DEF RowsBacked, TasksBacked, TaskBacked, Backed, Pending
<1>3. ASSUME UNCHANGED <<alerts, call, failed>> PROVE CallsEarned' /\ IncidentsEarned'
  BY <1>1, <1>3 DEF CallsEarned, IncidentsEarned
<1>4. ASSUME NEW p \in Handlers, NEW s \in Services, NEW success \in BOOLEAN,
             Store(p, s, success)
      PROVE  Earned'
  <2>1. \A x \in Services : failed[x] = 3 => failed'[x] = 3
    BY <1>4 DEF Store, Up, MonitorTypeOK, RowsTypeOK
  <2>2. CallsEarned' /\ IncidentsEarned'
    BY <1>1, <1>4, <2>1, CallMoved DEF Store, evaluatorVars, RowsKeep
  <2> QED BY <1>4, <2>2, StoreEarned DEF Earned
<1>5. ASSUME NEW p \in Handlers,
             \/ Read(p) \/ Update(p) \/ ListRules(p) \/ LogState(p) \/ LoadServices(p)
             \/ EvaluateService(p) \/ Abort(p)
      PROVE  Earned'
  <2>1. UNCHANGED <<alerts, call, failed>>
    BY <1>5 DEF Read, Update, ListRules, LogState, LoadServices, EvaluateService, Abort,
                evaluatorVars, serviceVars
  <2> QED BY <1>3, <1>5, <2>1, ReadEarned, WorkEarned DEF Earned
<1>6. ASSUME NEW p \in Handlers, EvaluateRule(p) PROVE Earned'
  BY <1>6, ApplyEarned, CallEarned DEF Earned
<1>7. ASSUME NEW p \in Handlers, EndCall(p) \/ EndReconcile(p) \/ ReconcileRule(p)
      PROVE  Earned'
  <2>1. /\ failed' = failed
        /\ Evaluator!Return(p) \/ \E r, row : Evaluator!Reconcile(p, r, row)
    BY <1>7 DEF EndCall, EndReconcile, ReconcileRule, serviceVars
  <2>2. CallsEarned' /\ IncidentsEarned'
    BY <1>1, <2>1, EvaluatorEarned
  <2> QED BY <1>7, <2>2, CallEarned DEF Earned
<1>8. ASSUME NEW p \in Handlers, Edit(p) PROVE Earned'
  <2>1. UNCHANGED <<alerts, call, failed>>
    BY <1>8 DEF Edit, CreateRule, UpdateRule, Evaluator!PutRule, serviceVars
  <2> QED BY <1>3, <1>8, <2>1, CallEarned DEF Earned
<1>9. ASSUME NEW p \in Handlers, EvaluatorStep(p) \/ AbortCall(p) PROVE Earned'
  <2>1. UNCHANGED <<service, failed, task>>
    BY <1>9 DEF EvaluatorStep, AbortCall, serviceVars
  <2>2. Evaluator!Step(p) \/ Evaluator!Fail(p)
    BY <1>9 DEF EvaluatorStep, AbortCall
  <2>3. CallsEarned' /\ IncidentsEarned'
    BY <1>1, <2>1, <2>2, EvaluatorEarned
  <2> QED BY <1>2, <2>1, <2>3 DEF Earned
<1>10. ASSUME NEW r \in Rules, DeleteRule(r) PROVE Earned'
  <2>1. /\ UNCHANGED <<service, failed, task, call>>
        /\ alerts' = [a \in AlertIds |-> IF alerts[a].rule = r
                                         THEN [alerts[a] EXCEPT !.status = "deleted"]
                                         ELSE alerts[a]]
    BY <1>10 DEF DeleteRule, Evaluator!DropRule, Evaluator!DropAlertsOf, serviceVars
  <2>2. \A a \in AlertIds : alerts[a].status = "none" => alerts[a].rule # r
    BY <1>1 DEF IncidentsEarned
  <2>3. alerts \in [AlertIds -> Evaluator!AlertRow]
    BY DEF Evaluator!TypeOK, Evaluator!AlertsTypeOK
  <2>4. RowsKeep
    BY <2>1, <2>2, <2>3 DEF RowsKeep, Evaluator!AlertRow
  <2>5. CallsEarned' /\ IncidentsEarned'
    BY <1>1, <2>1, <2>4, CallMoved
  <2> QED BY <1>2, <2>1, <2>5 DEF Earned
<1>11. CASE UNCHANGED vars
  BY <1>2, <1>3, <1>11 DEF vars, evaluatorVars, serviceVars, Earned
<1> QED BY <1>4, <1>5, <1>6, <1>7, <1>8, <1>9, <1>10, <1>11 DEF Next, Begin, Work, Break

-----------------------------------------------------------------------------

\* Nobody is alerted of a service that has not failed three checks, however
\* its results overtake each other, are lost or are applied to rows read
\* before others were written (calculateServiceState, evaluateServiceRules).
THEOREM AlertsHaveCause == Spec => []AlertsAreEarned
<1>1. Init => MonitorTypeOK /\ Earned
  BY InitTyped, InitEarned
<1>2. TypeOK => Evaluator!TypeOK
  BY DEF TypeOK
<1>3. MonitorTypeOK /\ Earned /\ TypeOK /\ [Next]_vars => MonitorTypeOK' /\ Earned'
  BY <1>2, NextTyped, NextEarned
<1>4. Earned => AlertsAreEarned
  BY DEF Earned, IncidentsEarned, AlertsAreEarned
<1> QED BY <1>1, <1>3, <1>4, TypeCorrect, PTL DEF Spec

\* Services that go down and come back, with bounded trouble, take no step
\* that the monitor does not (ServiceRecovery): all of the above holds of them.
THEOREM RecoveryIsMonitor == RecoverySpec => Spec /\ []TypeOK /\ []AlertsAreEarned
<1>1. RecoveryInit => Init
  BY DEF RecoveryInit
<1>2. [RecoveryNext]_recoveryVars => [Next]_vars
  <2> SUFFICES ASSUME RecoveryNext PROVE Next \/ UNCHANGED vars
    BY DEF recoveryVars
  <2>1. ASSUME NEW s \in Services, Flip(s) \/ Check(s) PROVE Next \/ UNCHANGED vars
    <3>1. (s \in up) \in BOOLEAN
      OBVIOUS
    <3> QED BY <2>1, <3>1 DEF Flip, Check, Next, Begin
  <2>2. ASSUME NEW p \in Handlers, Proceed(p) PROVE Next
    BY <2>2 DEF Proceed, Next
  <2>3. CASE Trouble \/ Enroll
    BY <2>3 DEF Trouble, Enroll, Next, Begin, Edit
  <2> QED BY <2>1, <2>2, <2>3 DEF RecoveryNext
<1> QED BY <1>1, <1>2, TypeCorrect, AlertsHaveCause, PTL DEF RecoverySpec, Spec

-----------------------------------------------------------------------------
(* One request at a time: what ServiceMonitor's SerialSpec does.  A row is *)
(* what the results stored make it, save that of the result in hand; and   *)
(* an alert that is not as the row says is one the request has yet to see  *)
(* to.  Below, t is a task, f the frame of its call, w a window of results *)
(* and n how many results were failures.                                   *)

\* How many of the last results are failures, all in a row.
Trail(w) ==
    IF Len(w) = 0 \/ w[Len(w)] THEN 0
    ELSE IF Len(w) = 1 \/ w[Len(w) - 1] THEN 1
    ELSE IF Len(w) = 2 \/ w[Len(w) - 2] THEN 2
    ELSE 3

\* The row that results make.
Reflected(w, n) ==
    IF Trail(w) > 0
    THEN [state |-> IF Trail(w) = 3 THEN "unhealthy" ELSE "degraded",
          failures |-> Trail(w), successes |-> 0]
    ELSE IF n = 0 \/ (Len(w) > 1 /\ w[Len(w) - 1]) THEN NewService
    ELSE [state |-> "degraded", failures |-> 0, successes |-> 1]

\* The window agrees with the count.
Window(w, n) ==
    /\ n = 0 => \A i \in 1 .. Len(w) : w[i]
    /\ n # 0 => Len(w) > 0

\* The row of s once the result in hand is applied to it.
Due(t, s) ==
    IF t.pc = "read" /\ t.service = s THEN NextRow(service[s], t.success)
    ELSE IF t.pc = "update" /\ t.service = s THEN t.row
    ELSE service[s]

Counted(t) ==
    \A s \in Services : /\ Window(recent[s], failed[s])
                        /\ Due(t, s) = Reflected(recent[s], failed[s])

\* The change of state that is still to be logged.
Tells(t, s) == t.service = s /\ t.was \notin {None, t.row.state}

Logged(t) ==
    \A s \in Services : \/ logged[s] = service[s].state
                        \/ t.pc \in {"list", "rules", "call", "log"} /\ Tells(t, s)

\* r and s are still to be looked at by the task ...
TaskOwes(t, r, s) ==
    \/ t.pc = "list" /\ t.service = s
    \/ t.pc \in {"rules", "call"} /\ t.service = s /\ r \in t.todo
    \/ \E row \in ServiceRow : <<s, row>> \in t.rest
    \/ t.pc \in {"reconcile", "reconciling", "load"} /\ t.rule = r

\* ... or have been, and the call is about to open or resolve their alert.
CallOwes(f, r, s) ==
    \/ f.pc = "create" /\ f.rule = r /\ f.target = s
    \/ /\ f.pc = "resolve"
       /\ alerts[f.alert].rule = r /\ alerts[f.alert].target = s

\* What the task has read is so still.
TaskCurrent(t) ==
    /\ t.pc = "update" => t.was = service[t.service].state
    /\ t.pc \in {"list", "rules", "call", "log"} => t.row = service[t.service]
    /\ t.pc \in {"rules", "call"} => t.todo \subseteq Listed(t.service)
    /\ t.pc \in {"read", "update", "reconcile", "reconciling", "load"} => t.rest = {}
    /\ t.pc \in {"reconcile", "reconciling", "load"}
          => t.ruleRow = rules[t.rule] /\ t.ruleRow.state = "live"
    /\ \A x \in t.rest : x[2] = service[x[1]]

\* What the call is about to do is right.
CallCurrent(f) ==
    /\ f.pc # "failed"
    /\ f.pc \in {"close", "logClosed"} \/ f.queue = {}
    /\ f.pc = "create" => /\ f.rule \in Rules /\ f.target \in Services
                          /\ Watches(f.rule, f.target)
                          /\ service[f.target].state = "unhealthy"
    /\ f.pc = "resolve" => /\ f.alert \in AlertIds
                           /\ alerts[f.alert].status = "active"
                           /\ service[alerts[f.alert].target].state # "unhealthy"
    /\ \A a \in f.queue : /\ alerts[a].status = "active"
                          /\ ~Watches(alerts[a].rule, alerts[a].target)

\* r has the alert for s that it should.
Agrees(r, s) == Watches(r, s) => (Alerting(r, s) <=> service[s].state = "unhealthy")

Tracked(t, f) ==
    \A r \in Rules, s \in Services : Agrees(r, s) \/ TaskOwes(t, r, s) \/ CallOwes(f, r, s)

Calls(t, f) == t.pc \notin {"call", "reconciling"} => f = Evaluator!Idle

\* p is the one under way, if one is.
InTurn(p) ==
    /\ \A q \in Handlers \ {p} : task[q] = NoTask /\ call[q] = Evaluator!Idle
    /\ Calls(task[p], call[p])
    /\ TaskCurrent(task[p])
    /\ CallCurrent(call[p])
    /\ Tracked(task[p], call[p])
    /\ Counted(task[p])
    /\ Logged(task[p])

\* The inductive invariant of SerialSpec.
SerialInv ==
    /\ TypeOK
    /\ Evaluator!AtMostOneActive
    /\ \E p \in Handlers : InTurn(p)

\* A length within bounds.
LEMMA ShortLengths ==
    ASSUME NEW S, NEW w \in Seq(S), Len(w) <= 3
    PROVE  Len(w) \in 0 .. 3 /\ (Len(w) < 3 \/ Len(w) = 3)
<1>1. Len(w) \in Nat
  BY LenProperties
<1>2. ASSUME NEW k \in Nat, k <= 3 PROVE k \in 0 .. 3 /\ (k < 3 \/ k = 3)
  BY <1>2
<1> QED BY <1>1, <1>2

\* Where a result goes in the window, and where the last two go.
LEMMA WindowMoves ==
    ASSUME NEW w \in Seq(BOOLEAN), Len(w) <= 3, NEW success \in BOOLEAN,
           NEW v, v = LastThree(Append(w, success))
    PROVE  /\ v \in Seq(BOOLEAN)
           /\ Len(v) = IF Len(w) = 3 THEN 3 ELSE Len(w) + 1
           /\ v[Len(v)] = success
           /\ Len(w) >= 1 => v[Len(v) - 1] = w[Len(w)]
           /\ Len(w) >= 2 => v[Len(v) - 2] = w[Len(w) - 1]
           /\ (\A i \in 1 .. Len(w) : w[i]) /\ success => \A i \in 1 .. Len(v) : v[i]
<1>1. PICK u : u = Append(w, success)
  OBVIOUS
<1>2. /\ u \in Seq(BOOLEAN) /\ Len(w) \in Nat /\ Len(u) = Len(w) + 1
      /\ u[Len(w) + 1] = success /\ \A i \in 1 .. Len(w) : u[i] = w[i]
  BY <1>1, AppendProperties
<1>3. CASE Len(w) < 3
  <2>1. v = u
    BY <1>1, <1>2, <1>3 DEF LastThree
  <2>2. ASSUME \A i \in 1 .. Len(w) : w[i], success, NEW i \in 1 .. Len(v)
        PROVE  v[i]
    <3>1. i \in 1 .. Len(w) \/ i = Len(w) + 1
      BY <1>2, <2>1
    <3> QED BY <1>2, <2>1, <2>2, <3>1
  <2>3. Len(v) = IF Len(w) = 3 THEN 3 ELSE Len(w) + 1
    BY <1>2, <1>3, <2>1
  <2>4. /\ Len(w) >= 1 => v[Len(v) - 1] = w[Len(w)]
        /\ Len(w) >= 2 => v[Len(v) - 2] = w[Len(w) - 1]
    BY <1>2, <2>1
  <2> QED BY <1>2, <2>1, <2>2, <2>3, <2>4
<1>4. CASE Len(w) = 3
  <2>1. v = Tail(u) /\ u # <<>>
    BY <1>1, <1>2, <1>4 DEF LastThree
  <2>2. v \in Seq(BOOLEAN) /\ Len(v) = 3
    BY <1>2, <1>4, <2>1, HeadTailProperties
  <2>3. v[1] = u[2] /\ v[2] = u[3] /\ v[3] = u[4]
    <3>1. \A i \in 1 .. Len(v) : v[i] = u[i + 1]
      BY <1>2, <2>1, HeadTailProperties, Zenon
    <3> QED BY <2>2, <3>1
  <2>4. /\ v[Len(v)] = success
        /\ Len(w) >= 1 => v[Len(v) - 1] = w[Len(w)]
        /\ Len(w) >= 2 => v[Len(v) - 2] = w[Len(w) - 1]
    BY <1>2, <1>4, <2>2, <2>3
  <2>5. ASSUME \A i \in 1 .. Len(w) : w[i], success, NEW i \in 1 .. Len(v)
        PROVE  v[i]
    <3>1. i = 1 \/ i = 2 \/ i = 3
      BY <2>2
    <3>2. v[1] = w[2] /\ v[2] = w[3] /\ v[3] = success
      BY <1>2, <1>4, <2>3
    <3>3. w[2] /\ w[3]
      BY <1>4, <2>5
    <3> QED BY <2>5, <3>1, <3>2, <3>3
  <2> QED BY <1>4, <2>2, <2>4, <2>5
<1>5. Len(w) < 3 \/ Len(w) = 3
  BY ShortLengths, Zenon
<1> QED BY <1>3, <1>4, <1>5

\* calculateServiceState makes of the row of some results the row of those
\* and one more.
LEMMA RowFollows ==
    ASSUME NEW w \in Seq(BOOLEAN), Len(w) <= 3, NEW n \in 0 .. 3, NEW success \in BOOLEAN,
           NEW v, v = LastThree(Append(w, success)),
           NEW m, m = IF success THEN n ELSE Up(n),
           Window(w, n)
    PROVE  Window(v, m) /\ NextRow(Reflected(w, n), success) = Reflected(v, m)
<1>1. /\ v \in Seq(BOOLEAN) /\ Len(w) \in 0 .. 3
      /\ Len(v) = IF Len(w) = 3 THEN 3 ELSE Len(w) + 1
      /\ v[Len(v)] = success
      /\ Len(w) >= 1 => v[Len(v) - 1] = w[Len(w)]
      /\ Len(w) >= 2 => v[Len(v) - 2] = w[Len(w) - 1]
      /\ (\A i \in 1 .. Len(w) : w[i]) /\ success => \A i \in 1 .. Len(v) : v[i]
  <2>1. Len(w) \in 0 .. 3
    BY ShortLengths, Zenon
  <2> QED BY <2>1, WindowMoves, Zenon
<1>2. m \in 0 .. 3 /\ (~success => m # 0)
  BY DEF Up
<1>3. Window(v, m)
  BY <1>1, <1>2 DEF Window
<1>4. Trail(w) \in 0 .. 3 /\ (Trail(w) > 0 <=> Len(w) > 0 /\ ~w[Len(w)])
  BY <1>1 DEF Trail
<1>5. CASE ~success
  <2>1. Trail(v) = IF Trail(w) = 3 THEN 3 ELSE Trail(w) + 1
    BY <1>1, <1>5 DEF Trail
  <2>2. Trail(v) = Up(Trail(w)) /\ Trail(v) \in 1 .. 3
    BY <1>4, <2>1 DEF Up
  <2>3. Reflected(w, n).failures = Trail(w)
    BY <1>4 DEF Reflected, NewService
  <2>4. Reflected(v, m) = [state |-> IF Trail(v) = 3 THEN "unhealthy" ELSE "degraded",
                           failures |-> Trail(v), successes |-> 0]
    BY <2>2 DEF Reflected
  <2>5. NextRow(Reflected(w, n), success)
           = [state |-> IF Trail(v) >= 3 THEN "unhealthy" ELSE "degraded",
              failures |-> Trail(v), successes |-> 0]
    BY <1>5, <2>2, <2>3 DEF NextRow
  <2>6. Trail(v) >= 3 <=> Trail(v) = 3
    BY <2>2
  <2> QED BY <1>3, <2>4, <2>5, <2>6
<1>6. CASE success
  <2>1. Trail(v) = 0 /\ m = n
    BY <1>1, <1>6 DEF Trail
  <2>2. CASE Trail(w) > 0
    <3>1. n # 0 /\ Len(v) > 1 /\ ~v[Len(v) - 1]
      BY <1>1, <1>4, <2>2 DEF Window
    <3>2. Reflected(v, m) = [state |-> "degraded", failures |-> 0, successes |-> 1]
      BY <2>1, <3>1 DEF Reflected
    <3>3. Reflected(w, n).state # "healthy" /\ Reflected(w, n).successes = 0
      BY <2>2 DEF Reflected
    <3>4. NextRow(Reflected(w, n), success)
             = [state |-> "degraded", failures |-> 0, successes |-> 1]
      BY <1>6, <3>3 DEF NextRow
    <3> QED BY <1>3, <3>2, <3>4
  <2>3. CASE Trail(w) = 0
    <3>1. n = 0 \/ (Len(v) > 1 /\ v[Len(v) - 1])
      BY <1>1, <1>4, <2>3 DEF Window
    <3>2. Reflected(v, m) = NewService
      BY <2>1, <3>1 DEF Reflected
    <3>3. Reflected(w, n).state = "healthy" \/ Reflected(w, n).successes = 1
      BY <2>3 DEF Reflected, NewService
    <3>4. NextRow(Reflected(w, n), success) = NewService
      BY <1>6, <3>3 DEF NextRow
    <3> QED BY <1>3, <3>2, <3>4
  <2> QED BY <1>4, <2>2, <2>3
<1> QED BY <1>5, <1>6

\* The state of that row is the verdict on the results.
LEMMA RowTells ==
    ASSUME TypeOK, NEW s \in Services, Window(recent[s], failed[s])
    PROVE  Reflected(recent[s], failed[s]).state = Verdict(s)
<1>1. PICK w, n : w = recent[s] /\ n = failed[s]
  OBVIOUS
<1>2. w \in Seq(BOOLEAN) /\ Len(w) \in 0 .. 3 /\ n \in 0 .. 3 /\ Window(w, n)
  <2>1. w \in Seq(BOOLEAN) /\ Len(w) <= 3
    BY <1>1 DEF TypeOK
  <2>2. n \in 0 .. 3
    BY <1>1 DEF TypeOK
  <2>3. Len(w) \in 0 .. 3
    BY <2>1, ShortLengths, Zenon
  <2> QED BY <1>1, <2>1, <2>2, <2>3, Zenon
<1>3. Trail(w) \in 0 .. 3 /\ (Trail(w) > 0 <=> Len(w) > 0 /\ ~w[Len(w)])
  BY <1>2 DEF Trail
<1>4. Trail(w) = 3 <=> Len(w) = 3 /\ \A i \in 1 .. 3 : ~w[i]
  BY <1>2 DEF Trail
<1>5. Trail(w) > 0 => n # 0
  BY <1>2, <1>3 DEF Window
<1>6. Reflected(w, n).state =
         IF Trail(w) = 3 THEN "unhealthy"
         ELSE IF n = 0 \/ (Len(w) > 1 /\ w[Len(w)] /\ w[Len(w) - 1]) THEN "healthy"
         ELSE "degraded"
  <2>1. CASE Trail(w) > 0
    BY <1>3, <1>5, <2>1 DEF Reflected
  <2>2. CASE Trail(w) = 0
    BY <1>2, <1>3, <2>2 DEF Reflected, NewService
  <2> QED BY <1>3, <2>1, <2>2
<1>7. Verdict(s) =
         IF Len(w) = 3 /\ \A i \in 1 .. 3 : ~w[i] THEN "unhealthy"
         ELSE IF n = 0 \/ (Len(w) > 1 /\ w[Len(w)] /\ w[Len(w) - 1]) THEN "healthy"
         ELSE "degraded"
  BY <1>1 DEF Verdict
<1> QED BY <1>1, <1>4, <1>6, <1>7

\* What a turn keeps is typed.
LEMMA TurnTypes ==
    ASSUME TypeOK
    PROVE  /\ task \in [Handlers -> Task] /\ call \in [Handlers -> Evaluator!Frame]
           /\ alerts \in [AlertIds -> Evaluator!AlertRow]
           /\ rules \in [Rules -> Evaluator!RuleRow]
           /\ service \in [Services -> ServiceRow] /\ logged \in [Services -> ServiceStates]
           /\ failed \in [Services -> 0 .. 3]
           /\ \A p \in Handlers : task[p] \in Task /\ TaskOK(task[p])
<1>1. Evaluator!TypeOK
  BY DEF TypeOK
<1> QED BY <1>1 DEF TypeOK, Evaluator!TypeOK, Evaluator!AlertsTypeOK

\* A goroutine that does nothing owes nothing.
LEMMA IdleOwesNothing ==
    /\ NoTask.pc = "idle" /\ NoTask.rest = {} /\ NoTask.todo = {}
    /\ Evaluator!Idle.pc = "idle" /\ Evaluator!Idle.queue = {}
    /\ \A r, s : ~TaskOwes(NoTask, r, s) /\ ~CallOwes(Evaluator!Idle, r, s)
    /\ \A s : Due(NoTask, s) = service[s]
<1>1. /\ NoTask.pc = "idle" /\ NoTask.rest = {} /\ NoTask.todo = {}
      /\ Evaluator!Idle.pc = "idle" /\ Evaluator!Idle.queue = {}
  BY DEF NoTask, Evaluator!Idle
<1> QED BY <1>1 DEF TaskOwes, CallOwes, Due

\* With nothing under way, whoever begins is the one.
LEMMA AnyonesTurn ==
    ASSUME Settled, NEW p \in Handlers, NEW q \in Handlers, InTurn(p)
    PROVE  InTurn(q)
<1>1. task[p] = NoTask /\ task[q] = NoTask
  BY DEF Settled
<1>2. \A o \in Handlers : task[o] = NoTask /\ call[o] = Evaluator!Idle
  BY <1>1, IdleOwesNothing DEF Settled, InTurn, Calls
<1> QED BY <1>1, <1>2 DEF InTurn

\* What is to be shown of the next state, field by field.
LEMMA TurnParts ==
    ASSUME NEW p \in Handlers, NEW t, NEW f, task'[p] = t, call'[p] = f,
           \A q \in Handlers \ {p} : task'[q] = NoTask /\ call'[q] = Evaluator!Idle,
           Calls(t, f), TaskCurrent(t)', CallCurrent(f)',
           Tracked(t, f)', Counted(t)', Logged(t)'
    PROVE  InTurn(p)'
<1>1. Calls(task[p], call[p])'
  BY DEF Calls
<1>2. TaskCurrent(task[p])'
  BY DEF TaskCurrent
<1>3. CallCurrent(call[p])'
  BY DEF CallCurrent
<1>4. Tracked(task[p], call[p])'
  BY DEF Tracked, TaskOwes, CallOwes
<1>5. Counted(task[p])'
  BY DEF Counted, Due
<1>6. Logged(task[p])'
  BY DEF Logged, Tells
<1> QED BY <1>1, <1>2, <1>3, <1>4, <1>5, <1>6 DEF InTurn

\* A step moves the one under way, and only it.
LEMMA Turn ==
    ASSUME TypeOK, NEW p \in Handlers, InTurn(p), NEW t, NEW f,
           Continue(p, t), Evaluator!Goto(p, f),
           Calls(t, f), TaskCurrent(t)', CallCurrent(f)',
           Tracked(t, f)', Counted(t)', Logged(t)'
    PROVE  InTurn(p)'
<1>1. task \in [Handlers -> Task] /\ call \in [Handlers -> Evaluator!Frame]
  BY TurnTypes
<1>2. task'[p] = t /\ call'[p] = f
  BY <1>1 DEF Continue, Evaluator!Goto
<1>3. \A q \in Handlers \ {p} : task'[q] = NoTask /\ call'[q] = Evaluator!Idle
  BY <1>1 DEF Continue, Evaluator!Goto, InTurn
<1> QED BY <1>2, <1>3, TurnParts

\* What the rows say does not change while they do not.
LEMMA RowsSame ==
    ASSUME UNCHANGED <<alerts, rules, service>>
    PROVE  /\ \A r, s : /\ Watches(r, s)' <=> Watches(r, s)
                        /\ Agrees(r, s)' <=> Agrees(r, s)
           /\ \A s : Listed(s)' = Listed(s)
           /\ \A f, r, s : CallOwes(f, r, s)' <=> CallOwes(f, r, s)
<1>1. \A r, s : Watches(r, s)' <=> Watches(r, s)
  BY DEF Watches
<1>2. \A r, s : Evaluator!ActiveFor(r, s)' = Evaluator!ActiveFor(r, s)
  BY DEF Evaluator!ActiveFor
<1>3. \A r, s : Agrees(r, s)' <=> Agrees(r, s)
  BY <1>1, <1>2 DEF Agrees, Alerting
<1>4. \A s : Listed(s)' = Listed(s)
  BY DEF Listed
<1> QED BY <1>1, <1>3, <1>4 DEF CallOwes

\* A step that leaves these rows alone moves on if it forgets nothing.
LEMMA QuietTurn ==
    ASSUME TypeOK, NEW p \in Handlers, InTurn(p), NEW t, NEW f,
           Continue(p, t), Evaluator!Goto(p, f),
           UNCHANGED <<alerts, rules, service>>,
           Calls(t, f), TaskCurrent(t), CallCurrent(f),
           \A r \in Rules, s \in Services :
              TaskOwes(task[p], r, s) \/ CallOwes(call[p], r, s)
                 => Agrees(r, s) \/ TaskOwes(t, r, s) \/ CallOwes(f, r, s),
           Counted(t)', Logged(t)'
    PROVE  InTurn(p)'
<1>1. TaskCurrent(t)' /\ CallCurrent(f)'
  BY RowsSame DEF TaskCurrent, CallCurrent
<1>2. Tracked(t, f)'
  <2>1. Tracked(t, f)
    BY DEF InTurn, Tracked
  <2> QED BY <2>1, RowsSame DEF Tracked, TaskOwes
<1> QED BY <1>1, <1>2, Turn

\* A result is in hand for as long as it is not applied.
LEMMA CountedSame ==
    ASSUME UNCHANGED <<service, recent, failed>>, NEW p \in Handlers, InTurn(p), NEW t,
           \A s \in Services : Due(t, s) = Due(task[p], s)
    PROVE  Counted(t)'
<1>1. \A s \in Services : Due(t, s)' = Due(t, s)
  BY DEF Due
<1> QED BY <1>1 DEF Counted, InTurn

\* None is in hand elsewhere.
LEMMA NothingDue ==
    ASSUME NEW t, t.pc \notin {"read", "update"}
    PROVE  \A s : Due(t, s) = service[s]
  BY DEF Due

\* A quiet step outside the evaluator.
LEMMA QuietTask ==
    ASSUME TypeOK, NEW p \in Handlers, InTurn(p), NEW t, Continue(p, t),
           UNCHANGED <<call, alerts, rules, service>>,
           Calls(t, call[p]), TaskCurrent(t),
           \A r \in Rules, s \in Services :
              TaskOwes(task[p], r, s) => Agrees(r, s) \/ TaskOwes(t, r, s),
           Counted(t)', Logged(t)'
    PROVE  InTurn(p)'
<1>1. PICK f : f = call[p]
  OBVIOUS
<1>2. Evaluator!Goto(p, f)
  BY <1>1, TurnTypes DEF Evaluator!Goto
<1>3. CallCurrent(f)
  BY <1>1 DEF InTurn
<1> QED BY <1>1, <1>2, <1>3, QuietTurn

\* What is left of a task after its service, if the rows still listed are current,
LEMMA NextServiceCurrent ==
    ASSUME NEW t \in Task, \A x \in t.rest : x[2] = service[x[1]]
    PROVE  /\ NextService(t).pc \in {"idle", "evaluate"}
           /\ TaskCurrent(NextService(t))
           /\ \A f : f = Evaluator!Idle => Calls(NextService(t), f)
           /\ \A r, s : (\E row \in ServiceRow : <<s, row>> \in t.rest)
                           => TaskOwes(NextService(t), r, s)
<1>1. /\ NextService(t).pc \in {"idle", "evaluate"}
      /\ NextService(t).rest = t.rest
  <2>1. CASE t.rest = {}
    BY <2>1, IdleOwesNothing DEF NextService
  <2>2. CASE t.rest # {}
    <3> DEFINE u == [NoTask EXCEPT !.pc = "evaluate", !.rest = t.rest]
    <3>1. u.pc = "evaluate" /\ u.rest = t.rest
      BY DEF NoTask
    <3> HIDE DEF u
    <3>2. NextService(t) = u
      BY <2>2 DEF NextService, u
    <3> QED BY <3>1, <3>2
  <2> QED BY <2>1, <2>2
<1> QED BY <1>1 DEF TaskCurrent, TaskOwes, Calls

\* and after a rule.
LEMMA NextRuleCurrent ==
    ASSUME NEW t \in Task,
           t.row = service[t.service], t.todo \subseteq Listed(t.service),
           \A x \in t.rest : x[2] = service[x[1]]
    PROVE  /\ NextRule(t).pc \notin {"read", "update"}
           /\ TaskCurrent(NextRule(t))
           /\ \A f : f = Evaluator!Idle => Calls(NextRule(t), f)
           /\ \A r, s : (\E row \in ServiceRow : <<s, row>> \in t.rest)
                           => TaskOwes(NextRule(t), r, s)
           /\ \A r \in t.todo : TaskOwes(NextRule(t), r, t.service)
           /\ \A s : Tells(t, s)
                        => /\ NextRule(t).pc \in {"list", "rules", "call", "log"}
                           /\ Tells(NextRule(t), s)
<1>1. ASSUME NEW pc \in {"rules", "log"}, NEW u, u = [t EXCEPT !.pc = pc]
      PROVE  /\ u.pc = pc /\ u.row = t.row /\ u.service = t.service /\ u.todo = t.todo
             /\ u.rest = t.rest /\ u.was = t.was
  BY <1>1 DEF Task
<1>2. CASE t.todo # {}
  <2>1. PICK u : u = [t EXCEPT !.pc = "rules"]
    OBVIOUS
  <2>2. NextRule(t) = u
    BY <1>2, <2>1 DEF NextRule
  <2>3. /\ u.pc = "rules" /\ u.row = t.row /\ u.service = t.service /\ u.todo = t.todo
        /\ u.rest = t.rest /\ u.was = t.was
    BY <1>1, <2>1
  <2> QED BY <2>2, <2>3 DEF TaskCurrent, TaskOwes, Calls, Tells
<1>3. CASE t.todo = {} /\ t.was \notin {None, t.row.state}
  <2>1. PICK u : u = [t EXCEPT !.pc = "log"]
    OBVIOUS
  <2>2. NextRule(t) = u
    BY <1>3, <2>1 DEF NextRule
  <2>3. /\ u.pc = "log" /\ u.row = t.row /\ u.service = t.service /\ u.todo = t.todo
        /\ u.rest = t.rest /\ u.was = t.was
    BY <1>1, <2>1
  <2> QED BY <1>3, <2>2, <2>3 DEF TaskCurrent, TaskOwes, Calls, Tells
<1>4. CASE t.todo = {} /\ t.was \in {None, t.row.state}
  <2>1. NextRule(t) = NextService(t)
    BY <1>4 DEF NextRule
  <2> QED BY <1>4, <2>1, NextServiceCurrent DEF Tells
<1> QED BY <1>2, <1>3, <1>4

\* A result is stored: the row is to follow it.
LEMMA StoreTurn ==
    ASSUME TypeOK, NEW p \in Handlers, InTurn(p), task[p] = NoTask,
           NEW s \in Services, NEW success \in BOOLEAN, Store(p, s, success)
    PROVE  InTurn(p)'
<1>1. call[p] = Evaluator!Idle
  BY IdleOwesNothing DEF InTurn, Calls
<1>2. PICK t : t = [NoTask EXCEPT !.pc = "read", !.service = s, !.success = success]
  OBVIOUS
<1>3. t.pc = "read" /\ t.service = s /\ t.success = success /\ t.rest = {}
  BY <1>2 DEF NoTask
<1>4. /\ Continue(p, t) /\ UNCHANGED <<call, alerts, rules, service, logged>>
      /\ recent' = [recent EXCEPT ![s] = LastThree(Append(@, success))]
      /\ failed' = [failed EXCEPT ![s] = IF success THEN @ ELSE Up(@)]
  BY <1>2 DEF Store, evaluatorVars
<1>5. Calls(t, call[p]) /\ TaskCurrent(t)
  BY <1>1, <1>3 DEF Calls, TaskCurrent
<1>6. ASSUME NEW x \in Services
      PROVE  Window(recent'[x], failed'[x]) /\ Due(t, x)' = Reflected(recent'[x], failed'[x])
  <2>1. Window(recent[x], failed[x]) /\ service[x] = Reflected(recent[x], failed[x])
    BY IdleOwesNothing DEF InTurn, Counted
  <2>2. recent \in [Services -> Seq(BOOLEAN)] /\ failed \in [Services -> 0 .. 3]
    BY Zenon DEF TypeOK
  <2>3. CASE x = s
    <3>1. PICK w, n : w = recent[s] /\ n = failed[s]
      OBVIOUS
    <3>2. PICK v, m : v = LastThree(Append(w, success)) /\ m = IF success THEN n ELSE Up(n)
      OBVIOUS
    <3>3. w \in Seq(BOOLEAN) /\ Len(w) <= 3 /\ n \in 0 .. 3
      BY <3>1, TurnTypes DEF TypeOK
    <3>4. Window(v, m) /\ NextRow(Reflected(w, n), success) = Reflected(v, m)
      BY <2>1, <2>3, <3>1, <3>2, <3>3, RowFollows
    <3>5. recent'[s] = v /\ failed'[s] = m
      BY <1>4, <2>2, <3>1, <3>2
    <3>6. Due(t, s)' = NextRow(service[s], success)
      BY <1>3, <1>4 DEF Due
    <3> QED BY <2>1, <2>3, <3>1, <3>4, <3>5, <3>6
  <2>4. CASE x # s
    <3>1. recent'[x] = recent[x] /\ failed'[x] = failed[x]
      BY <1>4, <2>2, <2>4
    <3>2. Due(t, x)' = service[x]
      BY <1>3, <1>4, <2>4 DEF Due
    <3> QED BY <2>1, <3>1, <3>2
  <2> QED BY <2>3, <2>4
<1>7. Counted(t)'
  BY <1>6 DEF Counted
<1>8. Logged(t)'
  BY <1>4, IdleOwesNothing DEF Logged, InTurn
<1>9. \A r, x : ~TaskOwes(task[p], r, x)
  BY IdleOwesNothing
<1> QED BY <1>4, <1>5, <1>7, <1>8, <1>9, QuietTask

\* The row is read, and what it becomes is computed ...
LEMMA ReadTurn ==
    ASSUME TypeOK, NEW p \in Handlers, InTurn(p), Read(p)
    PROVE  InTurn(p)'
<1>1. task[p] \in Task /\ TaskOK(task[p]) /\ TaskCurrent(task[p])
  BY TurnTypes DEF InTurn
<1>2. task[p].pc = "read" /\ call[p] = Evaluator!Idle
  BY DEF Read, At, InTurn, Calls
<1>3. PICK s, row : s = task[p].service /\ row = service[s]
  OBVIOUS
<1>4. PICK next, was : next = NextRow(row, task[p].success) /\ was = row.state
  OBVIOUS
<1>5. PICK t : t = [task[p] EXCEPT !.pc = "update", !.was = was, !.row = next]
  OBVIOUS
<1>6. /\ t.pc = "update" /\ t.service = s /\ t.row = next /\ t.was = was /\ t.rest = task[p].rest
  BY <1>1, <1>3, <1>5 DEF Task
<1>7. Continue(p, t) /\ UNCHANGED <<call, alerts, rules, service, recent, failed, logged>>
  BY <1>3, <1>4, <1>5 DEF Read, evaluatorVars, serviceVars
<1>8. task[p].rest = {}
  BY <1>1, <1>2 DEF TaskCurrent
<1>9. Calls(t, call[p]) /\ TaskCurrent(t)
  BY <1>2, <1>3, <1>4, <1>6, <1>8 DEF Calls, TaskCurrent
<1>10. \A x \in Services : Due(t, x) = Due(task[p], x)
  BY <1>2, <1>3, <1>4, <1>6 DEF Due
<1>11. Counted(t)'
  BY <1>7, <1>10, CountedSame
<1>12. Logged(t)'
  BY <1>2, <1>7 DEF Logged, InTurn
<1>13. \A r, x : ~TaskOwes(task[p], r, x)
  BY <1>2, <1>8 DEF TaskOwes
<1> QED BY <1>7, <1>9, <1>11, <1>12, <1>13, QuietTask

\* ... and it is written, for the rules to be told of.
LEMMA UpdateTurn ==
    ASSUME TypeOK, NEW p \in Handlers, InTurn(p), Update(p)
    PROVE  InTurn(p)'
<1>1. /\ task[p] \in Task /\ TaskOK(task[p]) /\ TaskCurrent(task[p])
      /\ Tracked(task[p], call[p]) /\ Counted(task[p]) /\ Logged(task[p])
  BY TurnTypes DEF InTurn
<1>2. task[p].pc = "update" /\ call[p] = Evaluator!Idle
  BY DEF Update, At, InTurn, Calls
<1>3. PICK s, row : s = task[p].service /\ row = task[p].row
  OBVIOUS
<1>4. s \in Services /\ row \in ServiceRow /\ task[p].rest = {} /\ task[p].was = service[s].state
  BY <1>1, <1>2, <1>3 DEF TaskOK, TaskCurrent
<1>5. PICK t : t = [task[p] EXCEPT !.pc = "list"]
  OBVIOUS
<1>6. /\ t.pc = "list" /\ t.service = s /\ t.row = row /\ t.was = task[p].was
      /\ t.rest = task[p].rest
  BY <1>1, <1>3, <1>5 DEF Task
<1>7. /\ Continue(p, t) /\ service' = [service EXCEPT ![s] = row]
      /\ UNCHANGED <<call, alerts, rules, recent, failed, logged>>
  BY <1>3, <1>5 DEF Update, evaluatorVars
<1>8. service'[s] = row /\ \A x \in Services \ {s} : service'[x] = service[x]
  BY <1>4, <1>7, TurnTypes
<1>9. PICK f : f = Evaluator!Idle
  OBVIOUS
<1>10. Evaluator!Goto(p, f)
  BY <1>2, <1>7, <1>9, TurnTypes DEF Evaluator!Goto
<1>11. Calls(t, f) /\ CallCurrent(f)'
  BY <1>9, IdleOwesNothing DEF Calls, CallCurrent
<1>12. TaskCurrent(t)'
  BY <1>4, <1>6, <1>8 DEF TaskCurrent
<1>13. Tracked(t, f)'
  <2>1. ASSUME NEW r \in Rules, NEW x \in Services
        PROVE  Agrees(r, x)' \/ TaskOwes(t, r, x)
    <3>1. CASE x = s
      BY <1>6, <3>1 DEF TaskOwes
    <3>2. CASE x # s
      <4>1. Agrees(r, x)' <=> Agrees(r, x)
        BY <1>7, <1>8, <3>2 DEF Agrees, Watches, Alerting, Evaluator!ActiveFor
      <4>2. Agrees(r, x)
        BY <1>1, <1>2, <1>4, IdleOwesNothing DEF Tracked, TaskOwes
      <4> QED BY <4>1, <4>2
    <3> QED BY <3>1, <3>2
  <2> QED BY <2>1 DEF Tracked, TaskOwes
<1>14. Counted(t)'
  <2>1. ASSUME NEW x \in Services
        PROVE  Due(t, x)' = Due(task[p], x)
    BY <1>2, <1>3, <1>6, <1>8, <2>1 DEF Due
  <2> QED BY <1>1, <1>7, <2>1 DEF Counted
<1>15. Logged(t)'
  <2>1. ASSUME NEW x \in Services
        PROVE  logged[x] = service'[x].state \/ Tells(t, x)
    <3>1. CASE x = s
      <4>1. logged[s] = service[s].state
        BY <1>1, <1>2, <1>4 DEF Logged
      <4>2. service[s].state \in ServiceStates /\ None \notin ServiceStates
        BY <1>4, TurnTypes DEF ServiceRow, ServiceStates
      <4> QED BY <1>4, <1>6, <1>8, <3>1, <4>1, <4>2 DEF Tells
    <3>2. CASE x # s
      BY <1>1, <1>2, <1>8, <3>2 DEF Logged
    <3> QED BY <3>1, <3>2
  <2> QED BY <1>6, <1>7, <2>1 DEF Logged, Tells
<1> QED BY <1>10, <1>7, <1>11, <1>12, <1>13, <1>14, <1>15, Turn

\* Going on after a service or a rule forgets nothing.
LEMMA RulesTurn ==
    ASSUME TypeOK, NEW p \in Handlers, InTurn(p),
           ListRules(p) \/ LogState(p) \/ EvaluateService(p)
    PROVE  InTurn(p)'
<1>1. task[p] \in Task /\ TaskOK(task[p]) /\ TaskCurrent(task[p]) /\ Logged(task[p])
  BY TurnTypes DEF InTurn
<1>2. \A r \in Rules, s \in Services : Watches(r, s) => r \in Listed(s)
  BY DEF Watches, Listed
<1>3. ASSUME ListRules(p) PROVE InTurn(p)'
  <2>1. PICK u : u = [task[p] EXCEPT !.todo = Listed(task[p].service)]
    OBVIOUS
  <2>2. /\ u \in Task /\ u.service = task[p].service /\ u.row = task[p].row
        /\ u.rest = task[p].rest /\ u.was = task[p].was
        /\ u.todo = Listed(u.service)
    <3>1. Listed(task[p].service) \in SUBSET Rules
      BY DEF Listed
    <3> QED BY <1>1, <2>1, <3>1 DEF Task
  <2>3. task[p].pc = "list" /\ call[p] = Evaluator!Idle
    BY <1>3 DEF ListRules, At, InTurn, Calls
  <2>4. u.row = service[u.service] /\ \A x \in u.rest : x[2] = service[x[1]]
    BY <1>1, <2>2, <2>3 DEF TaskCurrent
  <2>5. PICK t : t = NextRule(u)
    OBVIOUS
  <2>6. /\ t.pc \notin {"read", "update"} /\ TaskCurrent(t) /\ Calls(t, call[p])
        /\ \A r, s : (\E row \in ServiceRow : <<s, row>> \in u.rest) => TaskOwes(t, r, s)
        /\ \A r \in u.todo : TaskOwes(t, r, u.service)
        /\ \A s : Tells(u, s) => t.pc \in {"list", "rules", "call", "log"} /\ Tells(t, s)
    BY <2>2, <2>3, <2>4, <2>5, NextRuleCurrent
  <2>7. ASSUME NEW r \in Rules, NEW s \in Services, TaskOwes(task[p], r, s)
        PROVE  Agrees(r, s) \/ TaskOwes(t, r, s)
    <3>1. s = u.service \/ \E row \in ServiceRow : <<s, row>> \in u.rest
      BY <2>2, <2>3, <2>7 DEF TaskOwes
    <3> QED BY <1>2, <2>2, <2>6, <3>1 DEF Agrees
  <2>8. Continue(p, t) /\ UNCHANGED <<call, alerts, rules, service, recent, failed, logged>>
    BY <1>3, <2>1, <2>5 DEF ListRules, evaluatorVars, serviceVars
  <2>9. Counted(t)'
    BY <2>3, <2>6, <2>8, NothingDue, CountedSame
  <2>10. Logged(t)'
    BY <1>1, <2>2, <2>6, <2>8 DEF Logged, Tells
  <2> QED BY <2>6, <2>7, <2>8, <2>9, <2>10, QuietTask
<1>4. ASSUME LogState(p) PROVE InTurn(p)'
  <2>1. PICK t : t = NextService(task[p])
    OBVIOUS
  <2>2. task[p].pc = "log" /\ call[p] = Evaluator!Idle
    BY <1>4 DEF LogState, At, InTurn, Calls
  <2>3. /\ t.pc \in {"idle", "evaluate"} /\ TaskCurrent(t) /\ Calls(t, call[p])
        /\ \A r, s : (\E row \in ServiceRow : <<s, row>> \in task[p].rest) => TaskOwes(t, r, s)
    BY <1>1, <2>1, <2>2, NextServiceCurrent DEF TaskCurrent
  <2>4. \A r, s : TaskOwes(task[p], r, s) => TaskOwes(t, r, s)
    BY <2>2, <2>3 DEF TaskOwes
  <2>5. /\ Continue(p, t) /\ UNCHANGED <<call, alerts, rules, service, recent, failed>>
        /\ logged' = [logged EXCEPT ![task[p].service] = task[p].row.state]
    BY <1>4, <2>1 DEF LogState, evaluatorVars
  <2>6. task[p].row = service[task[p].service]
    BY <1>1, <2>2 DEF TaskCurrent
  <2>7. Counted(t)'
    BY <2>2, <2>3, <2>5, NothingDue, CountedSame
  <2>8. Logged(t)'
    <3>1. ASSUME NEW s \in Services PROVE logged'[s] = service[s].state
      BY <1>1, <2>5, <2>6, TurnTypes DEF Logged, Tells
    <3> QED BY <2>5, <3>1 DEF Logged
  <2> QED BY <2>3, <2>4, <2>5, <2>7, <2>8, QuietTask
<1>5. ASSUME EvaluateService(p) PROVE InTurn(p)'
  <2>1. PICK next \in task[p].rest :
           Continue(p, NextRule([task[p] EXCEPT
              !.service = next[1], !.row = next[2], !.rest = @ \ {next},
              !.todo = Listed(next[1])]))
    BY <1>5, Zenon DEF EvaluateService
  <2>2. PICK u : u = [task[p] EXCEPT
              !.service = next[1], !.row = next[2], !.rest = @ \ {next},
              !.todo = Listed(next[1])]
    OBVIOUS
  <2>3. next \in Services \X ServiceRow
    BY <1>1 DEF Task
  <2>4. /\ u \in Task /\ u.service = next[1] /\ u.row = next[2]
        /\ u.rest = task[p].rest \ {next} /\ u.todo = Listed(u.service)
    <3>1. Listed(next[1]) \in SUBSET Rules
      BY DEF Listed
    <3> QED BY <1>1, <2>2, <2>3, <3>1 DEF Task
  <2>5. task[p].pc = "evaluate" /\ call[p] = Evaluator!Idle
    <3>1. At(p, "evaluate")
      BY <1>5, Zenon DEF EvaluateService
    <3> QED BY <3>1 DEF At, InTurn, Calls
  <2>6. u.row = service[u.service] /\ \A x \in u.rest : x[2] = service[x[1]]
    BY <1>1, <2>1, <2>4 DEF TaskCurrent
  <2>7. PICK t : t = NextRule(u)
    OBVIOUS
  <2>8. /\ t.pc \notin {"read", "update"} /\ TaskCurrent(t) /\ Calls(t, call[p])
        /\ \A r, s : (\E row \in ServiceRow : <<s, row>> \in u.rest) => TaskOwes(t, r, s)
        /\ \A r \in u.todo : TaskOwes(t, r, u.service)
    BY <2>4, <2>5, <2>6, <2>7, NextRuleCurrent
  <2>9. ASSUME NEW r \in Rules, NEW s \in Services, TaskOwes(task[p], r, s)
        PROVE  Agrees(r, s) \/ TaskOwes(t, r, s)
    <3>1. PICK row \in ServiceRow : <<s, row>> \in task[p].rest
      BY <2>5, <2>9 DEF TaskOwes
    <3>2. CASE <<s, row>> \in u.rest
      BY <2>8, <3>2
    <3>3. CASE s = u.service
      BY <1>2, <2>4, <2>8, <3>3 DEF Agrees
    <3> QED BY <2>3, <2>4, <3>1, <3>2, <3>3
  <2>10. Continue(p, t) /\ UNCHANGED <<call, alerts, rules, service, recent, failed, logged>>
    <3>1. UNCHANGED <<evaluatorVars, serviceVars>>
      BY <1>5, Zenon DEF EvaluateService
    <3>2. Continue(p, t)
      BY <2>1, <2>2, <2>7, Zenon
    <3> QED BY <3>1, <3>2 DEF evaluatorVars, serviceVars
  <2>11. Counted(t)'
    BY <2>5, <2>8, <2>10, NothingDue, CountedSame
  <2>12. Logged(t)'
    BY <1>1, <2>5, <2>10 DEF Logged
  <2> QED BY <2>8, <2>9, <2>10, <2>11, <2>12, QuietTask
<1> QED BY <1>3, <1>4, <1>5

\* The fields of the frame that closes alerts.
LEMMA ClosingFields ==
    \A queue, why : /\ Evaluator!Closing(queue, why).queue = queue
                    /\ \/ Evaluator!Closing(queue, why).pc = "close"
                       \/ queue = {} /\ Evaluator!Closing(queue, why).pc = "done"
<1>1. Evaluator!Idle = [pc |-> "idle", rule |-> None, target |-> None,
         alert |-> None, reason |-> None, queue |-> {}]
  BY DEF Evaluator!Idle
<1>2. ASSUME NEW queue, NEW why
      PROVE  /\ Evaluator!Closing(queue, why).queue = queue
             /\ \/ Evaluator!Closing(queue, why).pc = "close"
                \/ queue = {} /\ Evaluator!Closing(queue, why).pc = "done"
  <2>1. CASE queue = {}
    BY <1>1, <2>1 DEF Evaluator!Closing, Evaluator!Returned
  <2>2. CASE queue # {}
    BY <1>1, <2>2 DEF Evaluator!Closing
  <2> QED BY <2>1, <2>2
<1> QED BY <1>2

\* The fields of the frames that calls begin and end with.
LEMMA FrameFields ==
    /\ Evaluator!Returned.pc = "done" /\ Evaluator!Returned.queue = {}
    /\ \A r, s : /\ Evaluator!Opening(r, s).pc = "create"
                 /\ Evaluator!Opening(r, s).rule = r
                 /\ Evaluator!Opening(r, s).target = s
                 /\ Evaluator!Opening(r, s).queue = {}
    /\ \A pc, a : /\ Evaluator!Handling(pc, a).pc = pc
                  /\ Evaluator!Handling(pc, a).alert = a
                  /\ Evaluator!Handling(pc, a).queue = {}
<1>1. Evaluator!Idle = [pc |-> "idle", rule |-> None, target |-> None,
                        alert |-> None, reason |-> None, queue |-> {}]
  BY DEF Evaluator!Idle
<1> QED BY <1>1 DEF Evaluator!Returned, Evaluator!Opening, Evaluator!Handling

\* A rule is applied to a service as both are.
LEMMA EvaluateTurn ==
    ASSUME TypeOK, NEW p \in Handlers, InTurn(p), EvaluateRule(p)
    PROVE  InTurn(p)'
<1>1. task[p] \in Task /\ TaskOK(task[p]) /\ TaskCurrent(task[p]) /\ Logged(task[p])
  BY TurnTypes DEF InTurn
<1>2. task[p].pc = "rules" /\ call[p] = Evaluator!Idle
  BY DEF EvaluateRule, At, InTurn, Calls
<1>3. PICK s : s = task[p].service
  OBVIOUS
<1>4. s \in Services /\ task[p].row = service[s]
  BY <1>1, <1>2, <1>3 DEF TaskOK, TaskCurrent
<1>5. PICK r \in task[p].todo :
         /\ Evaluator!Apply(p, r, task[p].service, task[p].row.state = "unhealthy")
         /\ Continue(p, [task[p] EXCEPT !.pc = "call", !.todo = @ \ {r}])
  BY Zenon DEF EvaluateRule
<1>6. PICK t : t = [task[p] EXCEPT !.pc = "call", !.todo = @ \ {r}]
  OBVIOUS
<1>7. /\ t.pc = "call" /\ t.todo = task[p].todo \ {r} /\ t.service = s
      /\ t.row = task[p].row /\ t.rest = task[p].rest /\ t.was = task[p].was
  BY <1>1, <1>3, <1>6 DEF Task
<1>8. TaskCurrent(t)
  BY <1>1, <1>2, <1>3, <1>7 DEF TaskCurrent
<1>9. r \in Rules /\ Watches(r, s)
  BY <1>1, <1>2, <1>3, <1>5 DEF TaskCurrent, Listed, Watches
<1>10. Continue(p, t) /\ UNCHANGED <<service, recent, failed, logged>>
  BY <1>5, <1>6 DEF EvaluateRule, serviceVars
<1>11. PICK met : met = (service[s].state = "unhealthy")
  OBVIOUS
<1>12. Evaluator!Apply(p, r, s, met)
  BY <1>3, <1>4, <1>5, <1>11
<1>13. UNCHANGED <<alerts, rules>>
  BY <1>12 DEF Evaluator!Apply
<1>14. ASSUME NEW f, Evaluator!Goto(p, f), CallCurrent(f), Agrees(r, s) \/ CallOwes(f, r, s)
       PROVE  InTurn(p)'
  <2>1. Calls(t, f)
    BY <1>7 DEF Calls
  <2>2. ASSUME NEW r2 \in Rules, NEW s2 \in Services,
               TaskOwes(task[p], r2, s2) \/ CallOwes(call[p], r2, s2)
        PROVE  Agrees(r2, s2) \/ TaskOwes(t, r2, s2) \/ CallOwes(f, r2, s2)
    <3>1. TaskOwes(task[p], r2, s2)
      BY <1>2, <2>2, IdleOwesNothing
    <3>2. CASE r2 = r /\ s2 = s
      BY <1>14, <3>2
    <3>3. CASE \E row \in ServiceRow : <<s2, row>> \in task[p].rest
      BY <1>7, <3>3 DEF TaskOwes
    <3>4. CASE s2 = s /\ r2 # r /\ r2 \in task[p].todo
      BY <1>7, <3>4 DEF TaskOwes
    <3> QED BY <1>2, <1>3, <3>1, <3>2, <3>3, <3>4 DEF TaskOwes
  <2>3. Counted(t)'
    BY <1>2, <1>7, <1>10, NothingDue, CountedSame
  <2>4. Logged(t)'
    BY <1>1, <1>2, <1>3, <1>7, <1>10 DEF Logged, Tells
  <2>5. UNCHANGED <<alerts, rules, service>>
    BY <1>10, <1>13
  <2> QED BY <1>8, <1>10, <1>14, <2>1, <2>2, <2>3, <2>4, <2>5, QuietTurn
<1>15. CASE met /\ Evaluator!Goto(p, Evaluator!Opening(r, s))
  <2>1. PICK f : f = Evaluator!Opening(r, s)
    OBVIOUS
  <2>2. f.pc = "create" /\ f.rule = r /\ f.target = s /\ f.queue = {}
    BY <2>1, FrameFields
  <2>3. CallCurrent(f) /\ CallOwes(f, r, s)
    BY <1>4, <1>9, <1>11, <1>15, <2>2 DEF CallCurrent, CallOwes
  <2> QED BY <1>14, <1>15, <2>1, <2>3
<1>16. ASSUME ~met, NEW a \in Evaluator!ActiveFor(r, s),
              Evaluator!Goto(p, Evaluator!Handling("resolve", a))
       PROVE  InTurn(p)'
  <2>1. PICK f : f = Evaluator!Handling("resolve", a)
    OBVIOUS
  <2>2. f.pc = "resolve" /\ f.alert = a /\ f.queue = {}
    BY <2>1, FrameFields
  <2>3. CallCurrent(f) /\ CallOwes(f, r, s)
    BY <1>4, <1>11, <1>16, <2>2 DEF CallCurrent, CallOwes, Evaluator!ActiveFor
  <2> QED BY <1>14, <1>16, <2>1, <2>3
<1>17. CASE /\ met <=> Evaluator!ActiveFor(r, s) # {}
            /\ Evaluator!Goto(p, Evaluator!Returned)
  <2>1. PICK f : f = Evaluator!Returned
    OBVIOUS
  <2>2. f.pc = "done" /\ f.queue = {}
    BY <2>1, FrameFields
  <2>3. CallCurrent(f)
    BY <2>2 DEF CallCurrent
  <2>4. Agrees(r, s)
    BY <1>11, <1>17 DEF Agrees, Alerting
  <2> QED BY <1>14, <1>17, <2>1, <2>3, <2>4
<1> QED BY <1>12, <1>15, <1>16, <1>17 DEF Evaluator!Apply

\* The evaluator has returned, without an error.
LEMMA EndCallTurn ==
    ASSUME TypeOK, NEW p \in Handlers, InTurn(p), EndCall(p)
    PROVE  InTurn(p)'
<1>1. /\ task[p] \in Task /\ TaskOK(task[p]) /\ TaskCurrent(task[p])
      /\ CallCurrent(call[p]) /\ Logged(task[p])
  BY TurnTypes DEF InTurn
<1>2. task[p].pc = "call" /\ call[p].pc = "done" /\ call[p].queue = {}
  BY <1>1 DEF EndCall, At, Evaluator!Return, Evaluator!At, CallCurrent
<1>3. PICK t, f : t = NextRule(task[p]) /\ f = Evaluator!Idle
  OBVIOUS
<1>4. /\ Continue(p, t) /\ Evaluator!Goto(p, f)
      /\ UNCHANGED <<alerts, rules, service>> /\ UNCHANGED <<service, recent, failed, logged>>
  BY <1>2, <1>3 DEF EndCall, Evaluator!Return, Evaluator!At, serviceVars
<1>5. /\ t.pc \notin {"read", "update"} /\ TaskCurrent(t) /\ Calls(t, f)
      /\ \A r, s : (\E row \in ServiceRow : <<s, row>> \in task[p].rest) => TaskOwes(t, r, s)
      /\ \A r \in task[p].todo : TaskOwes(t, r, task[p].service)
      /\ \A s : Tells(task[p], s) => t.pc \in {"list", "rules", "call", "log"} /\ Tells(t, s)
  BY <1>1, <1>2, <1>3, NextRuleCurrent DEF TaskCurrent
<1>6. \A r, s : TaskOwes(task[p], r, s) \/ CallOwes(call[p], r, s) => TaskOwes(t, r, s)
  <2>1. \A r, s : ~CallOwes(call[p], r, s)
    BY <1>2 DEF CallOwes
  <2>2. ASSUME NEW r, NEW s, TaskOwes(task[p], r, s)
        PROVE  \/ \E row \in ServiceRow : <<s, row>> \in task[p].rest
               \/ s = task[p].service /\ r \in task[p].todo
    BY <1>2, <2>2 DEF TaskOwes
  <2> QED BY <1>5, <2>1, <2>2
<1>7. CallCurrent(f)
  BY <1>3, IdleOwesNothing DEF CallCurrent
<1>8. Counted(t)'
  BY <1>2, <1>4, <1>5, NothingDue, CountedSame
<1>9. Logged(t)'
  BY <1>1, <1>2, <1>4, <1>5 DEF Logged, Tells
<1> QED BY <1>4, <1>5, <1>6, <1>7, <1>8, <1>9, QuietTurn

\* A rule that was edited: its alerts are looked at, ...
LEMMA ReconcileTurn ==
    ASSUME TypeOK, NEW p \in Handlers, InTurn(p), ReconcileRule(p)
    PROVE  InTurn(p)'
<1>1. task[p] \in Task /\ TaskOK(task[p]) /\ TaskCurrent(task[p]) /\ Logged(task[p])
  BY TurnTypes DEF InTurn
<1>2. task[p].pc = "reconcile" /\ call[p] = Evaluator!Idle
  BY DEF ReconcileRule, At, InTurn, Calls
<1>3. PICK t : t = [task[p] EXCEPT !.pc = "reconciling"]
  OBVIOUS
<1>4. /\ t.pc = "reconciling" /\ t.rule = task[p].rule /\ t.ruleRow = task[p].ruleRow
      /\ t.rest = task[p].rest
  BY <1>1, <1>3 DEF Task
<1>5. TaskCurrent(t) /\ task[p].rest = {}
  BY <1>1, <1>2, <1>4 DEF TaskCurrent
<1>6. PICK r, row : r = task[p].rule /\ row = task[p].ruleRow
  OBVIOUS
<1>7. r \in Rules /\ row = rules[r] /\ row.state = "live"
  BY <1>1, <1>2, <1>6 DEF TaskOK, TaskCurrent
<1>8. PICK stale, why :
         /\ stale = {a \in Evaluator!ActiveOfRule(r) :
                        ~(row.enabled /\ Evaluator!RuleAppliesTo(row, a))}
         /\ why = IF row.enabled THEN "rule_scope_changed" ELSE "rule_disabled"
  OBVIOUS
<1>9. PICK f : f = Evaluator!Closing(stale, why)
  OBVIOUS
<1>10. /\ Continue(p, t) /\ Evaluator!Goto(p, f)
       /\ UNCHANGED <<alerts, rules, service>> /\ UNCHANGED <<service, recent, failed, logged>>
  BY <1>3, <1>6, <1>8, <1>9 DEF ReconcileRule, Evaluator!Reconcile, serviceVars
<1>11. \A a \in stale : /\ alerts[a].status = "active"
                        /\ ~Watches(alerts[a].rule, alerts[a].target)
  BY <1>7, <1>8 DEF Evaluator!ActiveOfRule, Evaluator!RuleAppliesTo, Watches
<1>12. CallCurrent(f)
  BY <1>9, <1>11, ClosingFields DEF CallCurrent
<1>13. \A r2, s : TaskOwes(task[p], r2, s) \/ CallOwes(call[p], r2, s) => TaskOwes(t, r2, s)
  BY <1>2, <1>4, IdleOwesNothing DEF TaskOwes
<1>14. Counted(t)'
  BY <1>2, <1>4, <1>10, NothingDue, CountedSame
<1>15. Logged(t)'
  BY <1>1, <1>2, <1>10 DEF Logged
<1>16. Calls(t, f)
  BY <1>4 DEF Calls
<1> QED BY <1>5, <1>10, <1>12, <1>13, <1>14, <1>15, <1>16, QuietTurn

\* ... those it has no claim to are closed, ...
LEMMA EndReconcileTurn ==
    ASSUME TypeOK, NEW p \in Handlers, InTurn(p), EndReconcile(p)
    PROVE  InTurn(p)'
<1>1. /\ task[p] \in Task /\ TaskOK(task[p]) /\ TaskCurrent(task[p])
      /\ CallCurrent(call[p]) /\ Logged(task[p])
  BY TurnTypes DEF InTurn
<1>2. /\ task[p].pc = "reconciling" /\ call[p].pc = "done" /\ call[p].queue = {}
      /\ task[p].rest = {}
  BY <1>1 DEF EndReconcile, At, Evaluator!Return, Evaluator!At, CallCurrent, TaskCurrent
<1>3. PICK t, f : /\ t = IF task[p].ruleRow.enabled THEN [task[p] EXCEPT !.pc = "load"] ELSE NoTask
                  /\ f = Evaluator!Idle
  OBVIOUS
<1>4. /\ Continue(p, t) /\ Evaluator!Goto(p, f)
      /\ UNCHANGED <<alerts, rules, service>> /\ UNCHANGED <<service, recent, failed, logged>>
  BY <1>2, <1>3 DEF EndReconcile, Evaluator!Return, Evaluator!At, serviceVars
<1>5. CallCurrent(f) /\ Calls(t, f)
  BY <1>3, IdleOwesNothing DEF CallCurrent, Calls
<1>6. \A r, s : ~CallOwes(call[p], r, s)
  BY <1>2 DEF CallOwes
<1>7. Logged(t)'
  BY <1>1, <1>2, <1>4 DEF Logged
<1>8. CASE task[p].ruleRow.enabled
  <2>1. /\ t.pc = "load" /\ t.rule = task[p].rule /\ t.ruleRow = task[p].ruleRow
        /\ t.rest = task[p].rest
    BY <1>1, <1>3, <1>8 DEF Task
  <2>2. TaskCurrent(t)
    BY <1>1, <1>2, <2>1 DEF TaskCurrent
  <2>3. \A r, s : TaskOwes(task[p], r, s) => TaskOwes(t, r, s)
    BY <1>2, <2>1 DEF TaskOwes
  <2>4. Counted(t)'
    BY <1>2, <1>4, <2>1, NothingDue, CountedSame
  <2> QED BY <1>4, <1>5, <1>6, <1>7, <2>2, <2>3, <2>4, QuietTurn
<1>9. CASE ~task[p].ruleRow.enabled
  <2>1. t = NoTask
    BY <1>3, <1>9
  <2>2. TaskCurrent(t)
    BY <2>1, IdleOwesNothing DEF TaskCurrent
  <2>3. ASSUME NEW r \in Rules, NEW s \in Services, TaskOwes(task[p], r, s)
        PROVE  Agrees(r, s)
    <3>1. ~rules[task[p].rule].enabled
      BY <1>1, <1>2, <1>9 DEF TaskCurrent
    <3>2. r = task[p].rule
      BY <1>2, <2>3 DEF TaskOwes
    <3> QED BY <3>1, <3>2 DEF Agrees, Watches
  <2>4. Counted(t)'
    BY <1>2, <1>4, <2>1, IdleOwesNothing, NothingDue, CountedSame
  <2> QED BY <1>4, <1>5, <1>6, <1>7, <2>2, <2>3, <2>4, QuietTurn
<1> QED BY <1>8, <1>9

\* ... and every service it watches is loaded, with its row.
LEMMA LoadTurn ==
    ASSUME TypeOK, NEW p \in Handlers, InTurn(p), LoadServices(p)
    PROVE  InTurn(p)'
<1>1. task[p] \in Task /\ TaskOK(task[p]) /\ TaskCurrent(task[p]) /\ Logged(task[p])
  BY TurnTypes DEF InTurn
<1>2. task[p].pc = "load" /\ call[p] = Evaluator!Idle /\ task[p].rest = {}
  BY <1>1 DEF LoadServices, At, InTurn, Calls, TaskCurrent
<1>3. PICK r, scope : r = task[p].rule /\ scope = task[p].ruleRow.scope
  OBVIOUS
<1>4. scope = rules[r].scope /\ scope \in Services \cup {All}
  BY <1>1, <1>2, <1>3 DEF TaskOK, TaskCurrent, Evaluator!RuleRow
<1>5. PICK found : found = IF scope = All THEN Services ELSE {scope}
  OBVIOUS
<1>6. PICK u : u = [NoTask EXCEPT !.rest = {<<s, service[s]>> : s \in found}]
  OBVIOUS
<1>7. found \subseteq Services
  BY <1>4, <1>5
<1>8. u.rest = {<<s, service[s]>> : s \in found}
  BY <1>6 DEF NoTask
<1>9. u.rest \subseteq Services \X ServiceRow
  BY <1>7, <1>8, TurnTypes
<1>10. u \in Task
  BY <1>6, <1>8, <1>9 DEF NoTask, Task
<1>11. PICK t : t = NextService(u)
  OBVIOUS
<1>12. \A x \in u.rest : x[2] = service[x[1]]
  BY <1>8
<1>13. /\ t.pc \in {"idle", "evaluate"} /\ TaskCurrent(t) /\ Calls(t, call[p])
       /\ \A r2, s : (\E row \in ServiceRow : <<s, row>> \in u.rest) => TaskOwes(t, r2, s)
  BY <1>2, <1>10, <1>11, <1>12, NextServiceCurrent
<1>14. /\ Continue(p, t) /\ UNCHANGED <<call, alerts, rules, service>>
       /\ UNCHANGED <<service, recent, failed, logged>>
  BY <1>3, <1>5, <1>6, <1>11 DEF LoadServices, evaluatorVars, serviceVars
<1>15. ASSUME NEW r2 \in Rules, NEW s \in Services, TaskOwes(task[p], r2, s)
       PROVE  Agrees(r2, s) \/ TaskOwes(t, r2, s)
  <2>1. r2 = r
    BY <1>2, <1>3, <1>15 DEF TaskOwes
  <2>2. CASE s \in found
    <3>1. <<s, service[s]>> \in u.rest /\ service[s] \in ServiceRow
      BY <1>8, <2>2, TurnTypes
    <3> QED BY <1>13, <3>1
  <2>3. CASE s \notin found
    BY <1>4, <1>5, <2>1, <2>3 DEF Agrees, Watches
  <2> QED BY <2>2, <2>3
<1>16. Counted(t)'
  BY <1>2, <1>13, <1>14, NothingDue, CountedSame
<1>17. Logged(t)'
  BY <1>1, <1>2, <1>14 DEF Logged
<1> QED BY <1>13, <1>14, <1>15, <1>16, <1>17, QuietTask

\* A step of the evaluator that leaves the table alone, and all else but its
\* own frame.
LEMMA QuietStep ==
    ASSUME TypeOK, NEW p \in Handlers, InTurn(p), NEW f, Evaluator!Goto(p, f),
           UNCHANGED <<alerts, rules, serviceVars, task>>,
           task[p].pc \in {"call", "reconciling"},
           CallCurrent(f),
           \A r \in Rules, s \in Services : CallOwes(call[p], r, s) => Agrees(r, s)
    PROVE  InTurn(p)'
<1>1. TaskCurrent(task[p]) /\ Logged(task[p])
  BY DEF InTurn
<1>2. PICK t : t = task[p]
  OBVIOUS
<1>3. /\ Continue(p, t) /\ UNCHANGED <<alerts, rules, service>>
      /\ UNCHANGED <<service, recent, failed, logged>>
  BY <1>2, TurnTypes DEF Continue, serviceVars
<1>4. Calls(t, f) /\ TaskCurrent(t)
  BY <1>1, <1>2 DEF Calls
<1>5. Counted(t)'
  BY <1>2, <1>3, CountedSame
<1>6. Logged(t)'
  BY <1>1, <1>2, <1>3 DEF Logged
<1> QED BY <1>2, <1>3, <1>4, <1>5, <1>6, QuietTurn

\* Changing a row changes nothing for other rules and services.
LEMMA OneRowChanges ==
    ASSUME TypeOK, NEW a \in AlertIds, NEW row,
           alerts' = [alerts EXCEPT ![a] = row], UNCHANGED <<rules, service>>,
           alerts[a].status = "active"
              => alerts[a].rule = row.rule /\ alerts[a].target = row.target
    PROVE  /\ \A r, s : r # row.rule \/ s # row.target => (Agrees(r, s)' <=> Agrees(r, s))
           /\ \A r, s : Watches(r, s)' <=> Watches(r, s)
           /\ \A s : Listed(s)' = Listed(s)
           /\ alerts'[a] = row
           /\ \A b \in AlertIds \ {a} : alerts'[b] = alerts[b]
<1>1. /\ alerts'[a] = row
      /\ \A b \in AlertIds \ {a} : alerts'[b] = alerts[b]
  BY TurnTypes
<1>2. ASSUME NEW r, NEW s, r # row.rule \/ s # row.target
      PROVE  Evaluator!ActiveFor(r, s)' = Evaluator!ActiveFor(r, s)
  BY <1>1, <1>2 DEF Evaluator!ActiveFor
<1>3. \A r, s : Watches(r, s)' <=> Watches(r, s)
  BY DEF Watches
<1>4. \A s : Listed(s)' = Listed(s)
  BY DEF Listed
<1> QED BY <1>1, <1>2, <1>3, <1>4 DEF Agrees, Alerting

\* A step of the evaluator that changes a row for r and s, after which r has
\* the alert for s that it should.
LEMMA LoudStep ==
    ASSUME TypeOK, NEW p \in Handlers, InTurn(p), NEW f, Evaluator!Goto(p, f),
           UNCHANGED <<rules, serviceVars, task>>,
           task[p].pc \in {"call", "reconciling"},
           NEW a \in AlertIds, NEW row, alerts' = [alerts EXCEPT ![a] = row],
           alerts[a].status = "active"
              => alerts[a].rule = row.rule /\ alerts[a].target = row.target,
           Agrees(row.rule, row.target)', CallCurrent(f)',
           \A r, s : CallOwes(call[p], r, s) => r = row.rule /\ s = row.target
    PROVE  InTurn(p)'
<1>1. TaskCurrent(task[p]) /\ Logged(task[p]) /\ Tracked(task[p], call[p])
  BY DEF InTurn
<1>2. PICK t : t = task[p]
  OBVIOUS
<1>3. UNCHANGED <<rules, service>> /\ UNCHANGED <<service, recent, failed, logged>>
  BY DEF serviceVars
<1>4. Continue(p, t) /\ Calls(t, f)
  BY <1>1, <1>2, TurnTypes DEF Continue, Calls
<1>5. /\ \A r, s : r # row.rule \/ s # row.target => (Agrees(r, s)' <=> Agrees(r, s))
      /\ \A s : Listed(s)' = Listed(s)
  BY <1>3, OneRowChanges
<1>6. TaskCurrent(t)'
  BY <1>1, <1>2, <1>3, <1>5 DEF TaskCurrent
<1>7. Tracked(t, f)'
  <2>1. ASSUME NEW r \in Rules, NEW s \in Services
        PROVE  Agrees(r, s)' \/ TaskOwes(t, r, s)
    <3>1. CASE r = row.rule /\ s = row.target
      BY <3>1
    <3>2. CASE r # row.rule \/ s # row.target
      BY <1>1, <1>2, <1>5, <3>2 DEF Tracked
    <3> QED BY <3>1, <3>2
  <2> QED BY <2>1 DEF Tracked, TaskOwes
<1>8. Counted(t)'
  BY <1>2, <1>3, CountedSame
<1>9. Logged(t)'
  BY <1>1, <1>2, <1>3 DEF Logged
<1> QED BY <1>4, <1>6, <1>7, <1>8, <1>9, Turn

\* Opening an alert: it was owed.
LEMMA CreateTurn ==
    ASSUME TypeOK, NEW p \in Handlers, InTurn(p), task[p].pc \in {"call", "reconciling"},
           UNCHANGED <<serviceVars, task>>,
           Evaluator!Create(p) \/ Evaluator!CreateLost(p) \/ Evaluator!CreateRefused(p)
    PROVE  InTurn(p)'
<1>1. PICK r, s : r = call[p].rule /\ s = call[p].target
  OBVIOUS
<1>2. call[p].pc = "create" /\ CallCurrent(call[p])
  BY DEF Evaluator!Create, Evaluator!CreateLost, Evaluator!CreateRefused, Evaluator!At, InTurn
<1>3. r \in Rules /\ s \in Services /\ Watches(r, s) /\ service[s].state = "unhealthy"
  BY <1>1, <1>2 DEF CallCurrent
<1>4. \A r2, s2 : CallOwes(call[p], r2, s2) => r2 = r /\ s2 = s
  BY <1>1, <1>2 DEF CallOwes
<1>5. CASE Evaluator!Create(p)
  <2>1. PICK a \in AlertIds :
           /\ Evaluator!InsertActive(a, r, s)
           /\ Evaluator!Goto(p, Evaluator!Handling("logTriggered", a))
    BY <1>1, <1>5 DEF Evaluator!Create
  <2>2. PICK row, f : /\ row = [status |-> "active", rule |-> r, target |-> s, reason |-> None]
                      /\ f = Evaluator!Handling("logTriggered", a)
    OBVIOUS
  <2>3. /\ alerts' = [alerts EXCEPT ![a] = row] /\ alerts[a].status # "active"
        /\ row.rule = r /\ row.target = s /\ row.status = "active"
    BY <2>1, <2>2 DEF Evaluator!InsertActive, Evaluator!IsNextId
  <2>4. alerts'[a] = row
    BY <2>3, TurnTypes
  <2>5. Agrees(r, s)'
    <3>1. a \in Evaluator!ActiveFor(r, s)'
      BY <2>3, <2>4 DEF Evaluator!ActiveFor
    <3> QED BY <1>3, <3>1 DEF Agrees, Alerting, serviceVars
  <2>6. f.pc = "logTriggered" /\ f.queue = {}
    BY <2>2, FrameFields
  <2>7. CallCurrent(f)'
    BY <2>6 DEF CallCurrent
  <2>8. UNCHANGED rules
    BY <1>5 DEF Evaluator!Create
  <2> QED BY <1>4, <2>1, <2>2, <2>3, <2>5, <2>7, <2>8, LoudStep
<1>6. CASE Evaluator!CreateLost(p)
  <2>1. Agrees(r, s)
    BY <1>1, <1>3, <1>6 DEF Evaluator!CreateLost, Agrees, Alerting
  <2>2. PICK f : f = Evaluator!Returned
    OBVIOUS
  <2>3. Evaluator!Goto(p, f) /\ UNCHANGED <<alerts, rules>>
    BY <1>6, <2>2 DEF Evaluator!CreateLost
  <2>4. CallCurrent(f)
    BY <2>2, FrameFields DEF CallCurrent
  <2> QED BY <1>4, <2>1, <2>3, <2>4, QuietStep
<1>7. CASE Evaluator!CreateRefused(p)
  BY <1>1, <1>3, <1>7 DEF Evaluator!CreateRefused, Watches
<1> QED BY <1>5, <1>6, <1>7

\* Resolving one: its service is not unhealthy, and it was the only one.
LEMMA ResolveTurn ==
    ASSUME TypeOK, Evaluator!AtMostOneActive,
           NEW p \in Handlers, InTurn(p), task[p].pc \in {"call", "reconciling"},
           UNCHANGED <<serviceVars, task>>,
           Evaluator!Resolve(p) \/ Evaluator!ResolveLost(p)
    PROVE  InTurn(p)'
<1>1. PICK a : a = call[p].alert
  OBVIOUS
<1>2. call[p].pc = "resolve" /\ CallCurrent(call[p])
  BY DEF Evaluator!Resolve, Evaluator!ResolveLost, Evaluator!At, InTurn
<1>3. PICK r, s : r = alerts[a].rule /\ s = alerts[a].target
  OBVIOUS
<1>4. a \in AlertIds /\ alerts[a].status = "active" /\ service[s].state # "unhealthy"
  BY <1>1, <1>2, <1>3 DEF CallCurrent
<1>5. \A r2, s2 : CallOwes(call[p], r2, s2) => r2 = r /\ s2 = s
  BY <1>1, <1>2, <1>3 DEF CallOwes
<1>6. Evaluator!Resolve(p)
  BY <1>1, <1>4 DEF Evaluator!ResolveLost
<1>7. PICK row, f : /\ row = [alerts[a] EXCEPT !.status = "resolved"]
                    /\ f = Evaluator!Handling("logResolved", a)
  OBVIOUS
<1>8. /\ alerts' = [alerts EXCEPT ![a] = row] /\ Evaluator!Goto(p, f) /\ UNCHANGED rules
  BY <1>1, <1>6, <1>7 DEF Evaluator!Resolve, Evaluator!MarkResolved
<1>9. row.rule = r /\ row.target = s /\ row.status = "resolved"
  BY <1>3, <1>4, <1>7, TurnTypes DEF Evaluator!AlertRow
<1>10. alerts'[a] = row /\ \A b \in AlertIds \ {a} : alerts'[b] = alerts[b]
  BY <1>4, <1>8, TurnTypes
<1>11. Agrees(r, s)'
  <2>1. ASSUME NEW b \in AlertIds, alerts'[b].status = "active",
               alerts'[b].rule = r, alerts'[b].target = s
        PROVE  FALSE
    BY <1>3, <1>4, <1>9, <1>10, <2>1 DEF Evaluator!AtMostOneActive
  <2>2. Evaluator!ActiveFor(r, s)' = {}
    BY <2>1 DEF Evaluator!ActiveFor
  <2>3. service'[s].state # "unhealthy"
    BY <1>4 DEF serviceVars
  <2> QED BY <2>2, <2>3 DEF Agrees, Alerting
<1>12. f.pc = "logResolved" /\ f.queue = {}
  BY <1>7, FrameFields
<1>13. CallCurrent(f)'
  BY <1>12 DEF CallCurrent
<1> QED BY <1>3, <1>4, <1>5, <1>8, <1>9, <1>11, <1>13, LoudStep

\* Closing one: no rule watches its service with it.
LEMMA CloseTurn ==
    ASSUME TypeOK, NEW p \in Handlers, InTurn(p), task[p].pc \in {"call", "reconciling"},
           UNCHANGED <<serviceVars, task>>,
           Evaluator!Close(p) \/ Evaluator!CloseLost(p)
    PROVE  InTurn(p)'
<1>1. call[p].pc = "close" /\ CallCurrent(call[p]) /\ call[p] \in Evaluator!Frame
  <2>1. call[p].pc = "close"
    BY Zenon DEF Evaluator!Close, Evaluator!CloseLost, Evaluator!At
  <2> QED BY <2>1, TurnTypes DEF InTurn
<1>2. \A a \in call[p].queue : alerts[a].status = "active"
  BY <1>1 DEF CallCurrent
<1>3. Evaluator!Close(p)
  BY <1>2 DEF Evaluator!CloseLost, Evaluator!IsFirst
<1>4. PICK a \in AlertIds :
         /\ Evaluator!IsFirst(a, call[p].queue)
         /\ Evaluator!MarkClosed(a, call[p].reason)
         /\ Evaluator!Goto(p, [call[p] EXCEPT !.pc = "logClosed", !.alert = a,
                                              !.queue = @ \ {a}])
  BY <1>3, Zenon DEF Evaluator!Close
<1>5. PICK row, f :
         /\ row = [alerts[a] EXCEPT !.status = "closed", !.reason = call[p].reason]
         /\ f = [call[p] EXCEPT !.pc = "logClosed", !.alert = a, !.queue = @ \ {a}]
  OBVIOUS
<1>6. /\ alerts' = [alerts EXCEPT ![a] = row] /\ Evaluator!Goto(p, f) /\ UNCHANGED rules
      /\ a \in call[p].queue
  <2>1. UNCHANGED rules
    BY <1>3, Zenon DEF Evaluator!Close
  <2>2. Evaluator!Goto(p, f)
    BY <1>4, <1>5, Zenon
  <2>3. a \in call[p].queue
    BY <1>4 DEF Evaluator!IsFirst
  <2>4. Evaluator!MarkClosed(a, call[p].reason)
    BY <1>4, Zenon
  <2>5. alerts' = [alerts EXCEPT ![a] = row]
    BY <1>5, <2>4 DEF Evaluator!MarkClosed
  <2> QED BY <2>1, <2>2, <2>3, <2>5
<1>7. row.rule = alerts[a].rule /\ row.target = alerts[a].target /\ row.status = "closed"
  BY <1>5, TurnTypes DEF Evaluator!AlertRow
<1>8. f.pc = "logClosed" /\ f.queue = call[p].queue \ {a}
  BY <1>1, <1>5 DEF Evaluator!Frame
<1>9. UNCHANGED service
  BY DEF serviceVars
<1>10. /\ \A r, s : Watches(r, s)' <=> Watches(r, s)
       /\ \A b \in AlertIds \ {a} : alerts'[b] = alerts[b]
  BY <1>6, <1>7, <1>9, OneRowChanges
<1>11. ~Watches(row.rule, row.target)
  BY <1>1, <1>6, <1>7 DEF CallCurrent
<1>12. Agrees(row.rule, row.target)'
  BY <1>10, <1>11 DEF Agrees
<1>13. CallCurrent(f)'
  <2>1. call[p].queue \subseteq AlertIds
    BY <1>1 DEF Evaluator!Frame
  <2>2. ASSUME NEW b \in f.queue
        PROVE  /\ alerts'[b].status = "active"
               /\ ~Watches(alerts[b].rule, alerts[b].target)'
    <3>1. b \in call[p].queue /\ alerts'[b] = alerts[b]
      BY <1>8, <1>10, <2>1, <2>2
    <3>2. PICK r, s : r = alerts[b].rule /\ s = alerts[b].target
      OBVIOUS
    <3>3. ~Watches(r, s)'
      BY <1>1, <1>10, <3>1, <3>2 DEF CallCurrent
    <3>4. Watches(r, s)' <=> Watches(alerts[b].rule, alerts[b].target)'
      BY <3>1, <3>2 DEF Watches
    <3> QED BY <1>1, <3>1, <3>3, <3>4 DEF CallCurrent
  <2> QED BY <1>8, <2>2 DEF CallCurrent
<1>14. \A r, s : ~CallOwes(call[p], r, s)
  BY <1>1 DEF CallOwes
<1> QED BY <1>6, <1>7, <1>12, <1>13, <1>14, LoudStep

\* Recording, sending, and going on to the next alert to close.
LEMMA TellTurn ==
    ASSUME TypeOK, NEW p \in Handlers, InTurn(p), task[p].pc \in {"call", "reconciling"},
           UNCHANGED <<serviceVars, task>>,
           \/ Evaluator!LogTriggered(p) \/ Evaluator!SendTriggered(p)
           \/ Evaluator!LogResolved(p) \/ Evaluator!SendResolved(p)
           \/ Evaluator!LogClosed(p)
    PROVE  InTurn(p)'
<1>1. CallCurrent(call[p]) /\ call[p] \in Evaluator!Frame
  BY TurnTypes DEF InTurn
<1>2. \A r, s : ~CallOwes(call[p], r, s)
  BY DEF CallOwes, Evaluator!LogTriggered, Evaluator!SendTriggered, Evaluator!LogResolved,
     Evaluator!SendResolved, Evaluator!LogClosed, Evaluator!At
<1>3. UNCHANGED <<alerts, rules>>
  BY DEF Evaluator!LogTriggered, Evaluator!SendTriggered, Evaluator!LogResolved,
     Evaluator!SendResolved, Evaluator!LogClosed, Evaluator!Send
<1>4. CASE Evaluator!LogTriggered(p) \/ Evaluator!LogResolved(p)
  <2>1. PICK pc \in {"sendTriggered", "sendResolved"} :
           /\ Evaluator!Goto(p, [call[p] EXCEPT !.pc = pc])
           /\ call[p].pc \in {"logTriggered", "logResolved"}
    BY <1>4 DEF Evaluator!LogTriggered, Evaluator!LogResolved, Evaluator!At
  <2>2. PICK f : f = [call[p] EXCEPT !.pc = pc]
    OBVIOUS
  <2>3. f.pc = pc /\ f.queue = {}
    BY <1>1, <2>1, <2>2 DEF Evaluator!Frame, CallCurrent
  <2>4. CallCurrent(f)
    BY <2>1, <2>3 DEF CallCurrent
  <2> QED BY <1>2, <1>3, <2>1, <2>2, <2>4, QuietStep
<1>5. CASE Evaluator!SendTriggered(p) \/ Evaluator!SendResolved(p)
  <2>1. PICK f : f = Evaluator!Returned
    OBVIOUS
  <2>2. Evaluator!Goto(p, f)
    BY <1>5, <2>1 DEF Evaluator!SendTriggered, Evaluator!SendResolved, Evaluator!Send
  <2>3. CallCurrent(f)
    BY <2>1, FrameFields DEF CallCurrent
  <2> QED BY <1>2, <1>3, <2>2, <2>3, QuietStep
<1>6. CASE Evaluator!LogClosed(p)
  <2>1. PICK f : f = Evaluator!Closing(call[p].queue, call[p].reason)
    OBVIOUS
  <2>2. Evaluator!Goto(p, f)
    BY <1>6, <2>1 DEF Evaluator!LogClosed
  <2>3. CallCurrent(f)
    BY <1>1, <2>1, ClosingFields DEF CallCurrent
  <2> QED BY <1>2, <1>3, <2>2, <2>3, QuietStep
<1> QED BY <1>4, <1>5, <1>6

\* A goroutine inside the evaluator is not idle there.
LEMMA StepsAreBusy ==
    ASSUME NEW p, Evaluator!Step(p)
    PROVE  call[p].pc # "idle"
<1>1. PICK pc \in {"create", "resolve", "close", "logTriggered", "sendTriggered",
                   "logResolved", "sendResolved", "logClosed"} : Evaluator!At(p, pc)
  BY Zenon DEF Evaluator!Step, Evaluator!Create, Evaluator!CreateLost,
     Evaluator!CreateRefused, Evaluator!Resolve, Evaluator!ResolveLost, Evaluator!Close,
     Evaluator!CloseLost, Evaluator!LogTriggered, Evaluator!SendTriggered,
     Evaluator!LogResolved, Evaluator!SendResolved, Evaluator!LogClosed
<1> QED BY <1>1 DEF Evaluator!At

\* Every statement of the evaluator.
LEMMA StepTurn ==
    ASSUME TypeOK, Evaluator!AtMostOneActive, NEW p \in Handlers, InTurn(p), EvaluatorStep(p)
    PROVE  InTurn(p)'
<1>1. call[p].pc # "idle"
  BY StepsAreBusy DEF EvaluatorStep
<1>2. task[p].pc \in {"call", "reconciling"}
  BY <1>1, IdleOwesNothing DEF InTurn, Calls
<1> QED BY <1>2, CreateTurn, ResolveTurn, CloseTurn, TellTurn DEF EvaluatorStep, Evaluator!Step

\* A rule is written: all services are to be looked at with it.
LEMMA PutTurn ==
    ASSUME TypeOK, NEW p \in Handlers, InTurn(p), task[p] = NoTask,
           NEW r \in Rules, NEW row, row.state = "live",
           rules' = [rules EXCEPT ![r] = row], UNCHANGED <<alerts, call, serviceVars>>,
           NEW pc \in {"load", "reconcile"},
           Continue(p, [NoTask EXCEPT !.pc = pc, !.rule = r, !.ruleRow = row])
    PROVE  InTurn(p)'
<1>1. Tracked(NoTask, call[p]) /\ Logged(NoTask) /\ Counted(NoTask)
  BY DEF InTurn
<1>2. call[p] = Evaluator!Idle
  BY IdleOwesNothing DEF InTurn, Calls
<1>3. PICK t, f : /\ t = [NoTask EXCEPT !.pc = pc, !.rule = r, !.ruleRow = row]
                  /\ f = Evaluator!Idle
  OBVIOUS
<1>4. t.pc = pc /\ t.rule = r /\ t.ruleRow = row /\ t.rest = {}
  BY <1>3 DEF NoTask
<1>5. Continue(p, t) /\ Evaluator!Goto(p, f)
  BY <1>2, <1>3, TurnTypes DEF Evaluator!Goto
<1>6. UNCHANGED <<service, recent, failed, logged>>
  BY DEF serviceVars
<1>7. rules'[r] = row /\ \A q \in Rules \ {r} : rules'[q] = rules[q]
  BY TurnTypes
<1>8. Calls(t, f) /\ TaskCurrent(t)' /\ CallCurrent(f)'
  BY <1>3, <1>4, <1>7, IdleOwesNothing DEF Calls, TaskCurrent, CallCurrent
<1>9. Tracked(t, f)'
  <2>1. ASSUME NEW q \in Rules, NEW s \in Services
        PROVE  Agrees(q, s)' \/ TaskOwes(t, q, s)
    <3>1. CASE q = r
      BY <1>4, <3>1 DEF TaskOwes
    <3>2. CASE q # r
      <4>1. Agrees(q, s)
        BY <1>1, <1>2, IdleOwesNothing DEF Tracked
      <4>2. Evaluator!ActiveFor(q, s)' = Evaluator!ActiveFor(q, s)
        BY DEF Evaluator!ActiveFor
      <4> QED BY <1>6, <1>7, <3>2, <4>1, <4>2 DEF Agrees, Watches, Alerting
    <3> QED BY <3>1, <3>2
  <2> QED BY <2>1 DEF Tracked, TaskOwes
<1>10. Counted(t)'
  BY <1>4, <1>6, IdleOwesNothing, NothingDue, CountedSame
<1>11. Logged(t)'
  BY <1>1, <1>6, IdleOwesNothing DEF Logged
<1> QED BY <1>5, <1>8, <1>9, <1>10, <1>11, Turn

\* A rule is created or edited.
LEMMA EditTurn ==
    ASSUME TypeOK, NEW p \in Handlers, InTurn(p), task[p] = NoTask, Edit(p)
    PROVE  InTurn(p)'
<1>1. PICK r \in Rules, scope \in Services \cup {All} :
          \/ CreateRule(p, r, scope)
          \/ \E enabled \in BOOLEAN : UpdateRule(p, r, enabled, scope)
  BY DEF Edit
<1>2. CASE CreateRule(p, r, scope)
  <2>1. PICK row, pc : pc = "load" /\ row = [state |-> "live", enabled |-> TRUE, scope |-> scope]
    OBVIOUS
  <2>2. /\ row.state = "live"
        /\ rules' = [rules EXCEPT ![r] = row] /\ UNCHANGED <<alerts, call, serviceVars>>
        /\ Continue(p, [NoTask EXCEPT !.pc = pc, !.rule = r, !.ruleRow = row])
    BY <1>2, <2>1 DEF CreateRule, Evaluator!PutRule
  <2> QED BY <2>1, <2>2, PutTurn, Zenon
<1>3. ASSUME NEW enabled \in BOOLEAN, UpdateRule(p, r, enabled, scope)
      PROVE  InTurn(p)'
  <2>1. PICK row, pc : /\ pc = "reconcile"
                       /\ row = [state |-> "live", enabled |-> enabled, scope |-> scope]
    OBVIOUS
  <2>2. /\ row.state = "live"
        /\ rules' = [rules EXCEPT ![r] = row] /\ UNCHANGED <<alerts, call, serviceVars>>
        /\ Continue(p, [NoTask EXCEPT !.pc = pc, !.rule = r, !.ruleRow = row])
    BY <1>3, <2>1 DEF UpdateRule, Evaluator!PutRule
  <2> QED BY <2>1, <2>2, PutTurn, Zenon
<1> QED BY <1>1, <1>2, <1>3

\* A rule is deleted, with its alerts.
LEMMA DeleteTurn ==
    ASSUME TypeOK, NEW p \in Handlers, InTurn(p), task[p] = NoTask,
           NEW r \in Rules, DeleteRule(r)
    PROVE  InTurn(p)'
<1>1. /\ rules \in [Rules -> Evaluator!RuleRow] /\ alerts \in [AlertIds -> Evaluator!AlertRow]
      /\ Tracked(NoTask, call[p]) /\ Logged(NoTask)
  BY TurnTypes DEF InTurn
<1>2. call[p] = Evaluator!Idle
  BY IdleOwesNothing DEF InTurn, Calls
<1>3. /\ rules' = [rules EXCEPT ![r].state = "dropped"]
      /\ alerts' = [a \in AlertIds |-> IF alerts[a].rule = r
                                       THEN [alerts[a] EXCEPT !.status = "deleted"]
                                       ELSE alerts[a]]
      /\ UNCHANGED <<call, task, service, recent, failed, logged>>
  BY DEF DeleteRule, Evaluator!DropRule, Evaluator!DropAlertsOf, serviceVars
<1>4. PICK t, f : t = NoTask /\ f = Evaluator!Idle
  OBVIOUS
<1>5. Continue(p, t) /\ Evaluator!Goto(p, f)
  BY <1>2, <1>3, <1>4, TurnTypes DEF Continue, Evaluator!Goto
<1>6. rules'[r].state = "dropped" /\ \A q \in Rules \ {r} : rules'[q] = rules[q]
  BY <1>1, <1>3 DEF Evaluator!RuleRow
<1>7. \A a \in AlertIds : \/ alerts[a].rule # r /\ alerts'[a] = alerts[a]
                          \/ alerts[a].rule = r /\ alerts'[a].rule = r
                             /\ alerts'[a].status = "deleted"
  BY <1>1, <1>3 DEF Evaluator!AlertRow
<1>8. Calls(t, f) /\ TaskCurrent(t)' /\ CallCurrent(f)'
  BY <1>4, IdleOwesNothing DEF Calls, TaskCurrent, CallCurrent
<1>9. Tracked(t, f)'
  <2>1. ASSUME NEW q \in Rules, NEW s \in Services
        PROVE  Agrees(q, s)'
    <3>1. CASE q = r
      BY <1>6, <3>1 DEF Agrees, Watches
    <3>2. CASE q # r
      <4>1. Agrees(q, s)
        BY <1>1, <1>2, IdleOwesNothing DEF Tracked
      <4>2. Evaluator!ActiveFor(q, s)' = Evaluator!ActiveFor(q, s)
        BY <1>7, <3>2 DEF Evaluator!ActiveFor
      <4> QED BY <1>3, <1>6, <3>2, <4>1, <4>2 DEF Agrees, Watches, Alerting
    <3> QED BY <3>1, <3>2
  <2> QED BY <2>1 DEF Tracked
<1>10. Counted(t)'
  BY <1>3, <1>4, CountedSame
<1>11. Logged(t)'
  BY <1>1, <1>3, <1>4, IdleOwesNothing DEF Logged
<1> QED BY <1>5, <1>8, <1>9, <1>10, <1>11, Turn

\* Whoever works is under way.
LEMMA WorkersAreBusy ==
    ASSUME NEW p \in Handlers, Work(p)
    PROVE  task[p] # NoTask \/ call[p] # Evaluator!Idle
<1>1. CASE \E pc \in {"read", "update", "list", "rules", "call", "log",
                      "reconcile", "reconciling", "load", "evaluate"} : At(p, pc)
  BY <1>1, IdleOwesNothing DEF At
<1>2. CASE EvaluatorStep(p)
  BY <1>2, StepsAreBusy, IdleOwesNothing DEF EvaluatorStep
<1> QED BY <1>1, <1>2, Zenon DEF Work, Read, Update, ListRules, EvaluateRule, EndCall,
       LogState, ReconcileRule, EndReconcile, LoadServices, EvaluateService

\* Somebody is under way, or nobody is and it might be anyone.
SomeonesTurn == \E p \in Handlers : InTurn(p)

\* At the start nobody is under way, and nothing disagrees.
LEMMA InitTurn == Init => SomeonesTurn
<1> SUFFICES ASSUME Init, NEW p \in Handlers PROVE InTurn(p)
  BY ServiceAssumption DEF SomeonesTurn
<1>1. \A q \in Handlers : task[q] = NoTask /\ call[q] = Evaluator!Idle
  BY DEF Init, Evaluator!Init
<1>2. TaskCurrent(task[p]) /\ CallCurrent(call[p]) /\ Calls(task[p], call[p])
  BY <1>1, IdleOwesNothing DEF TaskCurrent, CallCurrent, Calls
<1>3. \A r \in Rules : rules[r].state = "unborn"
  <2>1. PICK row : row = [state |-> "unborn", enabled |-> FALSE, scope |-> All]
    OBVIOUS
  <2>2. rules = [r \in Rules |-> row]
    BY <2>1 DEF Init
  <2>3. row.state = "unborn"
    BY <2>1
  <2>4. \A r \in Rules : rules[r] = row
    BY <2>2, Zenon
  <2> QED BY <2>3, <2>4, Zenon
<1>4. Tracked(task[p], call[p])
  BY <1>3 DEF Tracked, Agrees, Watches
<1>5. \A s \in Services : /\ recent[s] = <<>> /\ failed[s] = 0
                          /\ service[s] = NewService /\ logged[s] = "healthy"
  BY DEF Init
<1>6. Len(<<>>) = 0 /\ Trail(<<>>) = 0
  BY DEF Trail
<1>7. Window(<<>>, 0) /\ Reflected(<<>>, 0) = NewService
  BY <1>6 DEF Window, Reflected
<1>8. Counted(task[p])
  BY <1>1, <1>5, <1>7, IdleOwesNothing DEF Counted
<1>9. Logged(task[p])
  BY <1>5 DEF Logged, NewService
<1> QED BY <1>1, <1>2, <1>4, <1>8, <1>9 DEF InTurn

\* Every step in turn leaves to whoever is under way what does not agree.
LEMMA NextTurn ==
    ASSUME TypeOK, Evaluator!AtMostOneActive, SomeonesTurn, [SerialNext]_vars
    PROVE  SomeonesTurn'
<1>1. PICK p \in Handlers : InTurn(p)
  BY DEF SomeonesTurn
<1>2. ASSUME NEW q \in Handlers, InTurn(q)' PROVE SomeonesTurn'
  BY <1>2 DEF SomeonesTurn
<1>3. CASE UNCHANGED vars
  <2>1. PICK t, f : t = task[p] /\ f = call[p]
    OBVIOUS
  <2>2. /\ UNCHANGED <<alerts, rules, service>> /\ UNCHANGED <<service, recent, failed, logged>>
        /\ Continue(p, t) /\ Evaluator!Goto(p, f)
    BY <1>3, <2>1, TurnTypes DEF vars, evaluatorVars, serviceVars, Continue, Evaluator!Goto
  <2>3. Calls(t, f) /\ TaskCurrent(t) /\ CallCurrent(f) /\ Tracked(t, f) /\ Logged(t)
    BY <1>1, <2>1 DEF InTurn
  <2>4. Counted(t)'
    BY <1>1, <2>1, <2>2, CountedSame
  <2>5. Logged(t)'
    BY <2>2, <2>3 DEF Logged
  <2>6. InTurn(p)'
    BY <1>1, <2>1, <2>2, <2>3, <2>4, <2>5, QuietTurn
  <2> QED BY <1>2, <2>6
<1>4. ASSUME Settled, Begin PROVE SomeonesTurn'
  <2>1. \A q \in Handlers : InTurn(q) /\ task[q] = NoTask
    BY <1>1, <1>4, AnyonesTurn DEF Settled
  <2>2. ASSUME NEW q \in Handlers, NEW s \in Services, NEW success \in BOOLEAN,
               Store(q, s, success)
        PROVE  SomeonesTurn'
    BY <1>2, <2>1, <2>2, StoreTurn
  <2>3. ASSUME NEW q \in Handlers, Edit(q) PROVE SomeonesTurn'
    BY <1>2, <2>1, <2>3, EditTurn
  <2>4. ASSUME NEW r \in Rules, DeleteRule(r) PROVE SomeonesTurn'
    BY <1>1, <1>2, <2>1, <2>4, DeleteTurn
  <2> QED BY <1>4, <2>2, <2>3, <2>4 DEF Begin
<1>5. ASSUME NEW q \in Handlers, Work(q) PROVE SomeonesTurn'
  <2>1. q = p
    BY <1>1, <1>5, WorkersAreBusy DEF InTurn
  <2>2. InTurn(p)'
    BY <1>1, <1>5, <2>1, ReadTurn, UpdateTurn, RulesTurn, EvaluateTurn, EndCallTurn,
       ReconcileTurn, EndReconcileTurn, LoadTurn, StepTurn DEF Work
  <2> QED BY <1>2, <2>2
<1> QED BY <1>3, <1>4, <1>5 DEF SerialNext

\* What the handlers do in turn is what they may do at any time.
LEMMA SerialIsMonitor == SerialSpec => Spec
<1>1. [SerialNext]_vars => [Next]_vars
  BY DEF SerialNext, Next
<1> QED BY <1>1, PTL DEF SerialSpec, Spec

\* The inductive invariant holds of requests in turn.
LEMMA SerialInvariance == SerialSpec => []SerialInv
<1>1. TypeOK /\ Evaluator!AtMostOneActive /\ SomeonesTurn /\ [SerialNext]_vars => SomeonesTurn'
  BY NextTurn
<1>2. TypeOK /\ Evaluator!AtMostOneActive /\ SomeonesTurn => SerialInv
  BY DEF SerialInv, SomeonesTurn
<1> QED
  BY <1>1, <1>2, InitTurn, SerialIsMonitor, TypeCorrect, OneActiveAlert, PTL DEF SerialSpec

\* Whenever nothing is under way, the state of a service and the last event of
\* it are the verdict on the results stored, however they came
\* (ApplyHealthResult, calculateServiceState, CreateServiceStateChange).
THEOREM StatesFollowResults == SerialSpec => []StateTellsResults
<1>1. SerialInv => StateTellsResults
  <2> SUFFICES ASSUME SerialInv, Settled, NEW s \in Services
               PROVE  service[s].state = Verdict(s) /\ logged[s] = Verdict(s)
    BY DEF StateTellsResults
  <2>1. PICK p \in Handlers : InTurn(p)
    BY DEF SerialInv
  <2>2. task[p] = NoTask
    BY DEF Settled
  <2>3. /\ Window(recent[s], failed[s])
        /\ service[s] = Reflected(recent[s], failed[s])
        /\ logged[s] = service[s].state
    BY <2>1, <2>2, IdleOwesNothing DEF InTurn, Counted, Logged
  <2>4. Reflected(recent[s], failed[s]).state = Verdict(s)
    BY <2>3, RowTells DEF SerialInv
  <2> QED BY <2>3, <2>4
<1> QED BY <1>1, SerialInvariance, PTL

\* Whenever nothing is under way, a rule has an active alert for a service it
\* watches exactly if the service is unhealthy, after any results and edits
\* (EvaluateServiceRules, evaluateCurrentState).
THEOREM AlertsFollowServices == SerialSpec => []AlertsTrackServices
<1>1. SerialInv => AlertsTrackServices
  <2> SUFFICES ASSUME SerialInv, Settled, NEW r \in Rules, NEW s \in Services, Watches(r, s)
               PROVE  Alerting(r, s) <=> service[s].state = "unhealthy"
    BY DEF AlertsTrackServices
  <2>1. PICK p \in Handlers : InTurn(p)
    BY DEF SerialInv
  <2>2. task[p] = NoTask /\ call[p] = Evaluator!Idle
    BY <2>1, IdleOwesNothing DEF Settled, InTurn, Calls
  <2>3. Agrees(r, s)
    BY <2>1, <2>2, IdleOwesNothing DEF InTurn, Tracked
  <2> QED BY <2>3 DEF Agrees
<1> QED BY <1>1, SerialInvariance, PTL

-----------------------------------------------------------------------------
(* The three kinds of alerting side by side: a behaviour stays with its    *)
(* topic, and what holds of the topic by itself holds of it there.         *)

AboutServices == topic = "services"

\* A behaviour about services is one of ServiceMonitor, one request at a time.
LEMMA ServicesByThemselves == AlertingSpec => []~AboutServices \/ ([]AboutServices /\ SerialSpec)
<1>1. AlertingInit /\ AboutServices => Init
  BY DEF AlertingInit, AboutServices
<1>2. [AlertingNext]_alertingVars /\ AboutServices => AboutServices' /\ [SerialNext]_vars
  BY DEF AlertingNext, alertingVars, AboutServices
<1>3. [AlertingNext]_alertingVars /\ ~AboutServices => ~AboutServices'
  BY DEF AlertingNext, alertingVars, AboutServices
<1> QED BY <1>1, <1>2, <1>3, PTL DEF AlertingSpec, SerialSpec

\* The states and events of services follow the stored results.
THEOREM ServiceStatesFollowResults == AlertingSpec => []ServicesTellResults
<1>1. /\ StateTellsResults => ServicesTellResults
      /\ ~AboutServices => ServicesTellResults
  BY DEF ServicesTellResults, AboutServices
<1> QED BY <1>1, ServicesByThemselves, StatesFollowResults, PTL

\* Service alerts follow the states of services.
THEOREM ServiceAlertsFollow == AlertingSpec => []ServiceAlertsTrack
<1>1. /\ AlertsTrackServices => ServiceAlertsTrack
      /\ ~AboutServices => ServiceAlertsTrack
  BY DEF ServiceAlertsTrack, AboutServices
<1> QED BY <1>1, ServicesByThemselves, AlertsFollowServices, PTL

-----------------------------------------------------------------------------
(* The lists of AlertPages.  What a cursor leaves behind it is what has    *)
(* not been shown, and what is shown is as the order and the limit have    *)
(* it.                                                                     *)

\* Rows that were inserted, and those that have ended.
Raised == {a \in PageAlertIds : alerts[a].status # "none"}
Ended == Pages!Rows({"resolved", "closed"})

Above(a, b) == Pages!Precedes(Pages!Position(a), Pages!Position(b))
AllAbove(S, a) == {b \in S : Above(b, a)}

\* Rows that have their place in the order.
Placed(S) == \A a \in S : a \in Nat /\ triggered[a] \in Nat

\* The rows of the history behind the cursor.
Behind(r) == {a \in Ended : r.before # None => Pages!Precedes(r.before, Pages!Position(a))}
Passed(a) == ~Pages!Precedes(reader.before, Pages!Position(a))

\* A reader has seen, or has yet to come to, what there was when it began.
ReaderOK ==
    /\ reader.count = Cardinality(reader.seen)
    /\ reader.seen \subseteq Raised /\ reader.began \subseteq Raised
    /\ reader.pc = "history" => reader.before = None /\ reader.seen = {}
    /\ reader.pc = "paging" => /\ reader.before \in Times \X PageAlertIds
                               /\ \A a \in reader.seen : Passed(a)
    /\ reader.pc \in {"history", "paging"}
          => reader.began \cap Pages!Table \subseteq reader.listed \cup reader.seen \cup Behind(reader)
    /\ reader.pc = "done" => reader.began \cap Pages!Table \subseteq reader.listed \cup reader.seen

\* Finitely many rows are inserted, each with a time and for a rule.
RowsOK ==
    /\ IsFiniteSet(Raised)
    /\ \A a \in Raised : triggered[a] \in Times
    /\ \A a \in PageAlertIds \ Raised : alerts[a].rule = None

\* The inductive invariant.
PagesInv == Pages!TypeOK /\ RowsOK /\ ReaderOK

\* What most of these proofs need of the constants.
LEMMA PageConstants ==
    /\ PageAlertIds \subseteq Nat /\ Times \subseteq Nat
    /\ Limit \in Nat /\ Limit > 0
    /\ None \notin PageRules /\ None \notin Times \X PageAlertIds
BY AlertingAssumption

\* An instance counts as its environment does.
LEMMA SameCardinality == \A S : Pages!Cardinality(S) = Cardinality(S)
BY DEF Pages!Cardinality, Cardinality

\* A nonempty set of numbers has a least element.
LEMMA LeastNumber ==
    ASSUME NEW S \in SUBSET Nat, S # {}
    PROVE  \E m \in S : \A x \in S : m <= x
<1> DEFINE below == OpToRel(<, Nat)
<1>1. IsWellFoundedOn(below, Nat)
  BY NatLessThanWellFounded, Zenon
<1>2. \A x, y : <<x, y>> \in below <=> x \in Nat /\ y \in Nat /\ x < y
  BY DEF OpToRel
<1> HIDE DEF below
<1>3. PICK m \in S : \A x \in S : ~(<<x, m>> \in below)
  BY <1>1, WFMin
<1>4. \A x \in S : x \in Nat /\ m \in Nat
  OBVIOUS
<1>5. \A x \in S : ~(x < m)
  BY <1>2, <1>3, <1>4
<1> QED BY <1>4, <1>5

\* A bounded one has a greatest.
LEMMA GreatestNumber ==
    ASSUME NEW S \in SUBSET Nat, S # {}, NEW n \in Nat, \A x \in S : x <= n
    PROVE  \E m \in S : \A x \in S : m >= x
<1> DEFINE T == {n - x : x \in S}
<1>0. \A x \in S : n - x \in Nat
  OBVIOUS
<1>1. T \in SUBSET Nat /\ T # {}
  BY <1>0
<1>2. PICK d \in T : \A e \in T : d <= e
  BY <1>1, LeastNumber
<1>3. PICK m \in S : d = n - m
  BY <1>2
<1>4. \A x \in S : n - m <= n - x
  BY <1>2, <1>3
<1> QED BY <1>3, <1>4

\* It is a strict total order: what shares a time is told apart by its id.
LEMMA AboveOrder ==
    ASSUME NEW S, Placed(S), NEW i \in S, NEW j \in S, NEW k \in S
    PROVE  /\ ~Above(i, i)
           /\ Above(i, j) /\ Above(j, k) => Above(i, k)
           /\ i = j \/ Above(i, j) \/ Above(j, i)
BY DEF Placed, Above, Pages!Precedes, Pages!Position

\* A row is taken if fewer than the limit are above it.
LEMMA FirstBy ==
    \A S, n : Pages!First(S, n) = {a \in S : Cardinality(AllAbove(S, a)) < n}
BY SameCardinality DEF Pages!First, AllAbove, Above

\* More are above what is further down.
LEMMA FewerAbove ==
    ASSUME NEW S, Placed(S), IsFiniteSet(S), NEW i \in S, NEW j \in S, Above(j, i)
    PROVE  /\ Cardinality(AllAbove(S, j)) \in Nat /\ Cardinality(AllAbove(S, i)) \in Nat
           /\ Cardinality(AllAbove(S, j)) < Cardinality(AllAbove(S, i))
<1>1. AllAbove(S, j) \subseteq AllAbove(S, i) /\ AllAbove(S, i) \subseteq S
  BY AboveOrder DEF AllAbove
<1>2. j \in AllAbove(S, i) /\ j \notin AllAbove(S, j)
  BY AboveOrder DEF AllAbove
<1>3. IsFiniteSet(AllAbove(S, i)) /\ IsFiniteSet(AllAbove(S, j))
  BY <1>1, FS_Subset
<1>4. /\ Cardinality(AllAbove(S, j)) \in Nat /\ Cardinality(AllAbove(S, i)) \in Nat
      /\ Cardinality(AllAbove(S, j)) <= Cardinality(AllAbove(S, i))
      /\ Cardinality(AllAbove(S, j)) # Cardinality(AllAbove(S, i))
  BY <1>1, <1>2, <1>3, FS_Subset, FS_CardinalityType
<1> QED BY <1>4

\* Of finitely many rows one is above all others, and one below them.
LEMMA Extremes ==
    ASSUME NEW S, Placed(S), IsFiniteSet(S), S # {}
    PROVE  /\ \E i \in S : \A j \in S : j = i \/ Above(i, j)
           /\ \E i \in S : \A j \in S : j = i \/ Above(j, i)
<1> DEFINE rank(i) == Cardinality(AllAbove(S, i))
           ranks == {rank(i) : i \in S}
<1>1. \A i \in S : rank(i) \in Nat /\ rank(i) <= Cardinality(S)
  <2>1. \A i \in S : AllAbove(S, i) \subseteq S
    BY DEF AllAbove
  <2>2. \A T \in SUBSET S : IsFiniteSet(T) /\ Cardinality(T) <= Cardinality(S)
    BY FS_Subset
  <2> QED BY <2>1, <2>2, FS_CardinalityType
<1>2. ranks \in SUBSET Nat /\ ranks # {} /\ Cardinality(S) \in Nat
  BY <1>1, FS_CardinalityType
<1>3. \A i, j \in S : Above(j, i) => rank(j) < rank(i)
  BY FewerAbove
<1>4. \A x \in ranks : x <= Cardinality(S)
  BY <1>1
<1> HIDE DEF rank
<1>5. PICK first \in S : \A j \in S : rank(first) <= rank(j)
  <2>1. PICK m \in ranks : \A x \in ranks : m <= x
    BY <1>2, LeastNumber
  <2>2. PICK i \in S : m = rank(i)
    BY <2>1
  <2> QED BY <2>1, <2>2
<1>6. PICK last \in S : \A j \in S : rank(last) >= rank(j)
  <2>1. PICK m \in ranks : \A x \in ranks : m >= x
    BY <1>2, <1>4, GreatestNumber
  <2>2. PICK i \in S : m = rank(i)
    BY <2>1
  <2> QED BY <2>1, <2>2
<1>7. \A i, j \in S : ~(rank(i) < rank(j) /\ rank(j) <= rank(i))
  BY <1>1
<1>8. \A j \in S : ~Above(j, first) /\ ~Above(last, j)
  BY <1>3, <1>5, <1>6, <1>7
<1> QED BY <1>8, AboveOrder

\* What is above a row that is taken is taken.
LEMMA FirstAreAbove ==
    ASSUME NEW S, Placed(S), IsFiniteSet(S), NEW n \in Nat,
           NEW i \in Pages!First(S, n), NEW j \in S, Above(j, i)
    PROVE  j \in Pages!First(S, n)
<1>1. i \in S /\ Cardinality(AllAbove(S, i)) < n
  BY FirstBy
<1> QED BY <1>1, FewerAbove, FirstBy

\* As many rows are taken as the limit allows, unless there are no more.
LEMMA FirstFillTheLimit ==
    ASSUME NEW S, Placed(S), IsFiniteSet(S), NEW n \in Nat
    PROVE  /\ Pages!First(S, n) \in SUBSET S /\ IsFiniteSet(Pages!First(S, n))
           /\ Placed(Pages!First(S, n))
           /\ Cardinality(Pages!First(S, n)) \in Nat
           /\ Cardinality(Pages!First(S, n)) < n => Pages!First(S, n) = S
           /\ S # {} /\ n > 0 => Pages!First(S, n) # {}
<1>1. Pages!First(S, n) \in SUBSET S
  BY FirstBy
<1>2. IsFiniteSet(Pages!First(S, n)) /\ Cardinality(Pages!First(S, n)) \in Nat
  BY <1>1, FS_Subset, FS_CardinalityType
<1>3. ASSUME Pages!First(S, n) # S
      PROVE  Cardinality(Pages!First(S, n)) >= n
  <2> DEFINE rest == S \ Pages!First(S, n)
  <2>1. Placed(rest) /\ rest # {} /\ IsFiniteSet(rest)
    BY <1>1, <1>3, FS_Subset DEF Placed
  <2>2. PICK i \in rest : \A j \in rest : j = i \/ Above(i, j)
    BY <2>1, Extremes
  <2>3. AllAbove(S, i) \subseteq Pages!First(S, n)
    BY <2>2, AboveOrder DEF AllAbove
  <2>4. /\ IsFiniteSet(AllAbove(S, i)) /\ Cardinality(AllAbove(S, i)) \in Nat
        /\ Cardinality(AllAbove(S, i)) <= Cardinality(Pages!First(S, n))
    BY <1>2, <2>3, FS_Subset, FS_CardinalityType
  <2>5. ~(Cardinality(AllAbove(S, i)) < n)
    BY <2>2, FirstBy
  <2> QED BY <1>2, <2>4, <2>5
<1>4. ASSUME S # {}, n > 0 PROVE Pages!First(S, n) # {}
  <2>1. PICK i \in S : \A j \in S : j = i \/ Above(i, j)
    BY <1>4, Extremes
  <2>2. AllAbove(S, i) = {}
    BY <2>1, AboveOrder DEF AllAbove
  <2>3. Cardinality(AllAbove(S, i)) < n
    BY <1>4, <2>2, FS_EmptySet
  <2> QED BY <2>3, FirstBy
<1>5. Placed(Pages!First(S, n))
  BY <1>1 DEF Placed
<1> QED BY <1>1, <1>2, <1>3, <1>4, <1>5

\* What a page shows of the rows that are left, and where it leaves off: it
\* shows all of them, or else all that are not behind its last row.
LEMMA PageShows ==
    ASSUME NEW r \in Pages!Reader, NEW S, S = Behind(r), Placed(S), IsFiniteSet(S)
    PROVE  \E entries \in SUBSET S :
              /\ Pages!Page(r) = [pc |-> Pages!Page(r).pc, before |-> Pages!Page(r).before,
                                  listed |-> r.listed, seen |-> r.seen \cup entries,
                                  began |-> r.began, count |-> r.count + Cardinality(entries)]
              /\ IsFiniteSet(entries) /\ Cardinality(entries) \in Nat
              /\ \/ Pages!Page(r).pc = "done" /\ Pages!Page(r).before = None /\ entries = S
                 \/ /\ Pages!Page(r).pc = "paging"
                    /\ \E last \in entries :
                          /\ Pages!Page(r).before = Pages!Position(last)
                          /\ \A i \in S : Above(last, i) \/ i \in entries
                          /\ \A i \in entries : ~Above(last, i)
<1> DEFINE fetched == Pages!ListResolved(r.before, Limit + 1)
           entries == Pages!First(fetched, Limit)
           more == Pages!Cardinality(fetched) > Limit
           last == CHOOSE a \in entries :
                      \A b \in entries : b = a \/ Pages!Precedes(Pages!Position(b), Pages!Position(a))
<1>1. fetched = Pages!First(S, Limit + 1)
  BY DEF Pages!ListResolved, Behind, Ended
<1>2. Pages!Page(r) = [r EXCEPT !.pc = IF more THEN "paging" ELSE "done",
                                !.before = IF more THEN Pages!Position(last) ELSE None,
                                !.seen = @ \cup entries,
                                !.count = @ + Pages!Cardinality(entries)]
  BY Zenon DEF Pages!Page
<1>2a. /\ more <=> Cardinality(fetched) > Limit
       /\ Pages!Cardinality(entries) = Cardinality(entries)
  <2> HIDE DEF fetched, entries
  <2> QED BY SameCardinality
<1> HIDE DEF fetched
<1>3. /\ fetched \in SUBSET S /\ IsFiniteSet(fetched) /\ Cardinality(fetched) \in Nat
      /\ Cardinality(fetched) < Limit + 1 => fetched = S
      /\ Placed(fetched)
  <2>1. PICK m : m = Limit + 1
    OBVIOUS
  <2>2. m \in Nat /\ fetched = Pages!First(S, m)
    BY <1>1, <2>1, PageConstants
  <2> HIDE DEF entries
  <2> QED BY <2>1, <2>2, FirstFillTheLimit
<1>4. /\ entries \in SUBSET fetched /\ IsFiniteSet(entries) /\ Cardinality(entries) \in Nat
      /\ Cardinality(entries) < Limit => entries = fetched
      /\ fetched # {} => entries # {}
      /\ Placed(entries)
  BY <1>3, PageConstants, FirstFillTheLimit
<1>5. CASE ~more
  <2>1. fetched = S
    BY <1>2a, <1>3, <1>5, PageConstants
  <2>2. entries = fetched
    <3>1. CASE Cardinality(entries) < Limit
      BY <1>4, <3>1
    <3>2. CASE Cardinality(entries) >= Limit
      BY <1>2a, <1>3, <1>4, <1>5, <3>2, PageConstants, FS_Subset
    <3> QED BY <1>4, <3>1, <3>2, PageConstants
  <2>3. /\ Pages!Page(r).pc = "done" /\ Pages!Page(r).before = None
        /\ Pages!Page(r) = [pc |-> "done", before |-> None, listed |-> r.listed,
                            seen |-> r.seen \cup entries, began |-> r.began,
                            count |-> r.count + Cardinality(entries)]
    <3> HIDE DEF entries, last, more
    <3> QED BY <1>2, <1>2a, <1>5 DEF Pages!Reader
  <2> HIDE DEF entries
  <2> QED BY <1>3, <1>4, <2>1, <2>2, <2>3
<1>6. CASE more
  <2>1. entries # {}
    <3>1. fetched # {}
      BY <1>2a, <1>3, <1>6, FS_EmptySet, PageConstants
    <3> QED BY <1>4, <3>1
  <2>2. last \in entries /\ \A j \in entries : j = last \/ Above(j, last)
    <3>1. \E i \in entries : \A j \in entries :
             j = i \/ Pages!Precedes(Pages!Position(j), Pages!Position(i))
      BY <1>4, <2>1, Extremes DEF Above
    <3> HIDE DEF entries
    <3> QED BY <3>1 DEF Above
  <2>3. /\ Pages!Page(r).pc = "paging" /\ Pages!Page(r).before = Pages!Position(last)
        /\ Pages!Page(r) = [pc |-> "paging", before |-> Pages!Position(last),
                            listed |-> r.listed, seen |-> r.seen \cup entries,
                            began |-> r.began, count |-> r.count + Cardinality(entries)]
    <3> HIDE DEF entries, last, more
    <3> QED BY <1>2, <1>2a, <1>6 DEF Pages!Reader
  <2> HIDE DEF last
  <2>4. ASSUME NEW i \in S, ~Above(last, i) PROVE i \in entries
    <3>1. CASE i = last
      BY <2>2, <3>1
    <3>2. CASE Above(i, last)
      <4>1. /\ last \in fetched /\ last \in Pages!First(S, Limit + 1)
            /\ last \in Pages!First(fetched, Limit)
        BY <1>1, <1>4, <2>2
      <4>2. i \in fetched
        BY <1>1, <3>2, <4>1, FirstAreAbove, PageConstants
      <4> QED BY <1>3, <3>2, <4>1, <4>2, FirstAreAbove, PageConstants
    <3>3. last \in S
      BY <1>3, <1>4, <2>2
    <3> QED BY <2>4, <3>1, <3>2, <3>3, AboveOrder
  <2>5. \A i \in entries : ~Above(last, i)
    BY <1>4, <2>2, AboveOrder
  <2> HIDE DEF entries
  <2>6. entries \in SUBSET S
    BY <1>3, <1>4
  <2> QED BY <1>4, <2>2, <2>3, <2>4, <2>5, <2>6
<1> QED BY <1>5, <1>6

\* What these lemmas need to know of the rows.
LEMMA RowsOfPages ==
    ASSUME Pages!TypeOK, RowsOK
    PROVE  /\ Raised \subseteq PageAlertIds /\ Ended \subseteq Pages!Table
           /\ Pages!Table \subseteq Raised
           /\ \A a \in Raised : a \in Nat /\ triggered[a] \in Times /\ triggered[a] \in Nat
           /\ \A a \in Raised : Pages!Position(a) \in Times \X PageAlertIds
           /\ \A S \in SUBSET Raised : Placed(S) /\ IsFiniteSet(S) /\ Cardinality(S) \in Nat
           /\ reader \in Pages!Reader
<1>1. Raised \subseteq PageAlertIds /\ Ended \subseteq Pages!Table /\ Pages!Table \subseteq Raised
  BY DEF Raised, Ended, Pages!Table, Pages!Rows
<1>2. \A a \in Raised : a \in Nat /\ triggered[a] \in Times /\ triggered[a] \in Nat
  BY <1>1, PageConstants DEF RowsOK
<1>3. \A a \in Raised : Pages!Position(a) \in Times \X PageAlertIds
  BY <1>1, <1>2 DEF Pages!Position
<1>4. \A S \in SUBSET Raised : Placed(S) /\ IsFiniteSet(S) /\ Cardinality(S) \in Nat
  BY <1>2, FS_Subset, FS_CardinalityType DEF RowsOK, Placed
<1> QED BY <1>1, <1>2, <1>3, <1>4 DEF Pages!TypeOK

\* What is not passed is behind the cursor, once there is one.
LEMMA SeenIsPassed ==
    ASSUME Pages!TypeOK, RowsOK, ReaderOK, reader.pc \in {"history", "paging"}
    PROVE  /\ reader.seen \cap Behind(reader) = {}
           /\ reader.pc = "history" => reader.seen = {}
           /\ reader.pc = "paging" => /\ reader.before # None
                                      /\ reader.before[1] \in Nat /\ reader.before[2] \in Nat
<1>1. CASE reader.pc = "history"
  BY <1>1 DEF ReaderOK
<1>2. CASE reader.pc = "paging"
  <2>1. reader.before \in Times \X PageAlertIds /\ \A a \in reader.seen : Passed(a)
    BY <1>2 DEF ReaderOK
  <2>2. reader.before # None /\ reader.before[1] \in Nat /\ reader.before[2] \in Nat
    BY <2>1, PageConstants
  <2> QED BY <1>2, <2>1, <2>2 DEF Behind, Passed
<1> QED BY <1>1, <1>2

\* A page goes on where the one before left off.
LEMMA TurnPage ==
    ASSUME Pages!TypeOK, RowsOK, ReaderOK, reader.pc \in {"history", "paging"},
           reader' = Pages!Page(reader), UNCHANGED <<alerts, triggered>>
    PROVE  reader' \in Pages!Reader /\ ReaderOK'
<1>0. /\ Behind(reader) \in SUBSET Raised /\ reader \in Pages!Reader
      /\ Placed(Behind(reader)) /\ IsFiniteSet(Behind(reader))
      /\ reader.seen \in SUBSET Raised /\ reader.began \in SUBSET Raised
  BY RowsOfPages DEF Behind, ReaderOK
<1>1. PICK entries \in SUBSET Behind(reader) :
              /\ Pages!Page(reader) = [pc |-> Pages!Page(reader).pc,
                                       before |-> Pages!Page(reader).before,
                                       listed |-> reader.listed, seen |-> reader.seen \cup entries,
                                       began |-> reader.began,
                                       count |-> reader.count + Cardinality(entries)]
              /\ IsFiniteSet(entries) /\ Cardinality(entries) \in Nat
              /\ \/ /\ Pages!Page(reader).pc = "done" /\ Pages!Page(reader).before = None
                    /\ entries = Behind(reader)
                 \/ /\ Pages!Page(reader).pc = "paging"
                    /\ \E last \in entries :
                          /\ Pages!Page(reader).before = Pages!Position(last)
                          /\ \A i \in Behind(reader) : Above(last, i) \/ i \in entries
                          /\ \A i \in entries : ~Above(last, i)
  BY <1>0, PageShows
<1>2. /\ reader'.listed = reader.listed /\ reader'.seen = reader.seen \cup entries
      /\ reader'.began = reader.began /\ reader'.count = reader.count + Cardinality(entries)
      /\ reader'.pc = Pages!Page(reader).pc /\ reader'.before = Pages!Page(reader).before
      /\ reader' = [pc |-> reader'.pc, before |-> reader'.before, listed |-> reader.listed,
                    seen |-> reader'.seen, began |-> reader.began, count |-> reader'.count]
  BY <1>1
<1>3. /\ Raised' = Raised /\ Ended' = Ended /\ Pages!Table' = Pages!Table
      /\ \A a : Pages!Position(a)' = Pages!Position(a)
  BY DEF Raised, Ended, Pages!Table, Pages!Rows, Pages!Position
<1>4. reader'.count = Cardinality(reader'.seen) /\ reader'.count \in Nat
  <2>1. IsFiniteSet(reader.seen) /\ Cardinality(reader.seen) \in Nat
    BY <1>0, RowsOfPages
  <2>2. Cardinality(reader.seen \cap entries) = 0
    BY <1>1, SeenIsPassed, FS_EmptySet
  <2>3. Cardinality(reader.seen \cup entries) =
           Cardinality(reader.seen) + Cardinality(entries) - Cardinality(reader.seen \cap entries)
    BY <1>1, <2>1, FS_Union
  <2>4. reader.count = Cardinality(reader.seen)
    BY DEF ReaderOK
  <2> QED BY <1>1, <1>2, <2>1, <2>2, <2>3, <2>4
<1>5. reader'.seen \subseteq Raised' /\ reader'.began \subseteq Raised'
  BY <1>0, <1>1, <1>2, <1>3
<1>6. reader' \in Pages!Reader
  <2>1. reader'.pc \in {"paging", "done"} /\ reader'.before \in (Times \X PageAlertIds) \cup {None}
    BY <1>0, <1>1, <1>2, RowsOfPages
  <2>2. /\ reader'.seen \in SUBSET PageAlertIds /\ reader.listed \in SUBSET PageAlertIds
        /\ reader.began \in SUBSET PageAlertIds
    BY <1>0, <1>1, <1>2, RowsOfPages DEF Pages!Reader
  <2> QED BY <1>2, <1>4, <2>1, <2>2 DEF Pages!Reader
<1>7. reader.began \cap Pages!Table \subseteq reader.listed \cup reader.seen \cup Behind(reader)
  BY DEF ReaderOK
<1>8. CASE Pages!Page(reader).pc = "done" /\ entries = Behind(reader)
  BY <1>2, <1>3, <1>4, <1>5, <1>6, <1>7, <1>8 DEF ReaderOK
<1>9. CASE Pages!Page(reader).pc = "paging"
  <2>1. PICK last \in entries :
           /\ Pages!Page(reader).before = Pages!Position(last)
           /\ \A i \in Behind(reader) : Above(last, i) \/ i \in entries
           /\ \A i \in entries : ~Above(last, i)
    BY <1>1, <1>9
  <2>2. \A a : Passed(a)' <=> ~Above(last, a)
    BY <1>2, <1>3, <2>1 DEF Passed, Above, Pages!Precedes
  <2>3. ASSUME NEW a \in reader'.seen PROVE Passed(a)'
    <3>1. CASE a \in entries
      BY <2>1, <2>2, <3>1
    <3>2. CASE a \in reader.seen
      <4>1. reader.pc = "paging" /\ reader.before # None
            /\ reader.before[1] \in Nat /\ reader.before[2] \in Nat
        BY <3>2, SeenIsPassed
      <4>2. Passed(a) /\ a \in Raised /\ last \in Raised
        BY <1>0, <1>1, <3>2, <4>1 DEF ReaderOK
      <4>3. Pages!Precedes(reader.before, Pages!Position(last))
        BY <1>1, <2>1, <4>1 DEF Behind
      <4>4. a \in Nat /\ last \in Nat /\ triggered[a] \in Nat /\ triggered[last] \in Nat
        BY <4>2, RowsOfPages
      <4>5. ~Above(last, a)
        BY <4>1, <4>2, <4>3, <4>4 DEF Passed, Above, Pages!Precedes, Pages!Position
      <4> QED BY <2>2, <4>5
    <3> QED BY <1>2, <2>3, <3>1, <3>2
  <2>4. ASSUME NEW a \in Behind(reader), a \notin entries PROVE a \in Behind(reader)'
    <3>1. a \in Ended' /\ Above(last, a)
      BY <1>3, <2>1, <2>4 DEF Behind
    <3>2. ~Passed(a)'
      BY <2>2, <3>1
    <3> QED BY <3>1, <3>2 DEF Behind, Passed
  <2>5. reader'.before \in Times \X PageAlertIds
    BY <1>0, <1>1, <1>2, <2>1, RowsOfPages
  <2>6. reader'.began \cap Pages!Table' \subseteq reader'.listed \cup reader'.seen \cup Behind(reader)'
    BY <1>2, <1>3, <1>7, <2>4
  <2>7. reader'.pc = "paging"
    BY <1>2, <1>9
  <2> QED BY <1>4, <1>5, <1>6, <2>3, <2>5, <2>6, <2>7 DEF ReaderOK
<1> QED BY <1>1, <1>6, <1>8, <1>9

\* The steps of the reader.
LEMMA ReadStep ==
    ASSUME PagesInv, Pages!Read
    PROVE  UNCHANGED <<alerts, triggered>> /\ reader' \in Pages!Reader /\ ReaderOK'
<1>0. Pages!TypeOK /\ RowsOK /\ ReaderOK
  BY DEF PagesInv
<1>1. UNCHANGED <<alerts, triggered>>
  BY DEF Pages!Read, Pages!ReadActive, Pages!ReadHistory, Pages!NextPage, Pages!ReadRecent,
         Pages!LeaveAlerts
<1>2. /\ Raised' = Raised /\ Ended' = Ended /\ Pages!Table' = Pages!Table
      /\ Pages!Table \subseteq Raised /\ Raised \subseteq PageAlertIds
  BY <1>0, <1>1, RowsOfPages DEF Raised, Ended, Pages!Table, Pages!Rows
<1>3. CASE Pages!ReadActive
  <2>1. /\ reader'.pc = "history" /\ reader'.before = None /\ reader'.count = 0
        /\ reader'.listed = Pages!ListActive /\ reader'.seen = {}
        /\ reader'.began = Pages!Table
        /\ reader' = [pc |-> "history", before |-> None, listed |-> Pages!ListActive,
                      seen |-> {}, began |-> Pages!Table, count |-> 0]
    BY <1>3 DEF Pages!ReadActive, Pages!NoReader
  <2>2. Pages!Table \subseteq Pages!ListActive \cup Ended /\ Pages!ListActive \subseteq PageAlertIds
    BY DEF Pages!Table, Pages!ListActive, Ended, Pages!Rows
  <2>3. Behind(reader)' = Ended'
    BY <2>1 DEF Behind
  <2>4. reader' \in Pages!Reader
    BY <1>2, <2>1, <2>2 DEF Pages!Reader
  <2>5. reader'.count = Cardinality(reader'.seen)
    BY <2>1, FS_EmptySet
  <2> QED BY <1>1, <1>2, <2>1, <2>2, <2>3, <2>4, <2>5 DEF ReaderOK
<1>4. CASE Pages!ReadHistory \/ Pages!NextPage
  <2>1. reader.pc \in {"history", "paging"} /\ reader' = Pages!Page(reader)
    BY <1>4 DEF Pages!ReadHistory, Pages!NextPage
  <2> QED BY <1>0, <1>1, <2>1, TurnPage
<1>5. CASE Pages!ReadRecent
  <2>1. /\ reader'.pc = "done" /\ reader'.count = 0 /\ reader'.seen = {} /\ reader'.began = {}
        /\ reader' = [pc |-> "done", before |-> None, listed |-> Pages!ListRecent(Limit),
                      seen |-> {}, began |-> {}, count |-> 0]
    BY <1>5 DEF Pages!ReadRecent, Pages!NoReader
  <2>2. Pages!ListRecent(Limit) \subseteq PageAlertIds
    BY <1>2, FirstBy DEF Pages!ListRecent
  <2>3. reader' \in Pages!Reader
    BY <2>1, <2>2 DEF Pages!Reader
  <2>4. reader'.count = Cardinality(reader'.seen)
    BY <2>1, FS_EmptySet
  <2> QED BY <1>1, <2>1, <2>3, <2>4 DEF ReaderOK
<1>6. CASE Pages!LeaveAlerts
  <2>1. /\ reader'.pc = "idle" /\ reader'.count = 0 /\ reader'.seen = {} /\ reader'.began = {}
        /\ reader' \in Pages!Reader
    BY <1>6 DEF Pages!LeaveAlerts, Pages!NoReader, Pages!Reader
  <2>2. reader'.count = Cardinality(reader'.seen)
    BY <2>1, FS_EmptySet
  <2> QED BY <1>1, <2>1, <2>2 DEF ReaderOK
<1> QED BY <1>3, <1>4, <1>5, <1>6 DEF Pages!Read

\* A reader is as it was when rows are added and end but none comes back, and
\* those that were there keep their places.
LEMMA ReaderKept ==
    ASSUME Pages!TypeOK, RowsOK, ReaderOK, UNCHANGED reader,
           Raised \subseteq Raised',
           \A a \in Raised : /\ Pages!Position(a)' = Pages!Position(a)
                             /\ a \in Pages!Table' => a \in Pages!Table
                             /\ a \in Ended /\ a \in Pages!Table' => a \in Ended'
    PROVE  reader' \in Pages!Reader /\ ReaderOK'
<1>1. /\ reader \in Pages!Reader /\ Ended \subseteq Raised
      /\ reader.seen \subseteq Raised /\ reader.began \subseteq Raised
  BY RowsOfPages DEF ReaderOK
<1>2. \A a \in Raised : Passed(a)' <=> Passed(a)
  BY DEF Passed, Pages!Precedes
<1>3. ASSUME NEW a \in Behind(reader), a \in Pages!Table' PROVE a \in Behind(reader)'
  BY <1>1, <1>3 DEF Behind, Pages!Precedes
<1>4. reader'.seen \subseteq Raised' /\ reader'.began \subseteq Raised'
  BY <1>1
<1>5. reader.pc = "paging" => \A a \in reader.seen : Passed(a)'
  BY <1>1, <1>2 DEF ReaderOK
<1>6. \A a \in reader.began : a \in Pages!Table' => a \in Pages!Table
  BY <1>1
<1> QED BY <1>1, <1>3, <1>4, <1>5, <1>6 DEF ReaderOK

\* Raising an alert: the new row is below or above the others, but none of
\* those that were there.
LEMMA RaiseStep ==
    ASSUME PagesInv, NEW a \in PageAlertIds, NEW r \in PageRules, NEW t \in PageTargets,
           NEW at \in Times, Pages!Raise(a, r, t, at)
    PROVE  PagesInv'
<1>0. Pages!TypeOK /\ RowsOK /\ ReaderOK
  BY DEF PagesInv
<1> DEFINE row == [status |-> "active", rule |-> r, target |-> t, reason |-> None]
<1>1. /\ alerts' = [alerts EXCEPT ![a] = row] /\ alerts[a].status = "none"
      /\ triggered' = [triggered EXCEPT ![a] = at] /\ UNCHANGED reader
  BY DEF Pages!Raise, Pages!InsertActive, Pages!IsNextId
<1>2. /\ row \in Pages!AlertRow /\ row.status = "active"
      /\ alerts \in [PageAlertIds -> Pages!AlertRow]
      /\ triggered \in [PageAlertIds -> Times \cup {None}]
  BY <1>0 DEF Pages!AlertRow, Pages!Statuses, Pages!TypeOK, Pages!AlertsTypeOK
<1> HIDE DEF row
<1>3. /\ alerts' \in [PageAlertIds -> Pages!AlertRow]
      /\ triggered' \in [PageAlertIds -> Times \cup {None}]
      /\ alerts'[a] = row /\ triggered'[a] = at
      /\ \A b \in PageAlertIds \ {a} : alerts'[b] = alerts[b] /\ triggered'[b] = triggered[b]
  BY <1>1, <1>2
<1>4. Raised' = Raised \cup {a} /\ a \notin Raised
  BY <1>1, <1>2, <1>3 DEF Raised
<1>5. RowsOK'
  <2>1. IsFiniteSet(Raised')
    BY <1>0, <1>4, FS_AddElement DEF RowsOK
  <2>2. \A b \in Raised' : triggered'[b] \in Times
    BY <1>0, <1>3, <1>4 DEF RowsOK, Raised
  <2>3. \A b \in PageAlertIds \ Raised' : alerts'[b].rule = None
    BY <1>0, <1>3, <1>4 DEF RowsOK
  <2> QED BY <2>1, <2>2, <2>3 DEF RowsOK
<1>6. \A b \in Raised : /\ Pages!Position(b)' = Pages!Position(b)
                        /\ b \in Pages!Table' => b \in Pages!Table
                        /\ b \in Ended /\ b \in Pages!Table' => b \in Ended'
  BY <1>3, <1>4 DEF Raised, Ended, Pages!Table, Pages!Rows, Pages!Position
<1>7. reader' \in Pages!Reader /\ ReaderOK'
  BY <1>0, <1>1, <1>4, <1>6, ReaderKept
<1> QED BY <1>3, <1>5, <1>7 DEF PagesInv, Pages!TypeOK, Pages!AlertsTypeOK

\* What keeps the rows that are there, their rules and their times.
LEMMA RowsKept ==
    ASSUME PagesInv, UNCHANGED <<triggered, reader>>,
           alerts' \in [PageAlertIds -> Pages!AlertRow],
           \A a \in PageAlertIds :
              \/ alerts'[a] = alerts[a]
              \/ /\ alerts[a].status # "none" /\ alerts'[a].rule = alerts[a].rule
                 /\ \/ alerts[a].status = "active" /\ alerts'[a].status \in {"resolved", "closed"}
                    \/ alerts'[a].status = "deleted"
    PROVE  PagesInv'
<1>0. Pages!TypeOK /\ RowsOK /\ ReaderOK
  BY DEF PagesInv
<1>1. Raised' = Raised
  BY DEF Raised
<1>2. RowsOK'
  BY <1>0, <1>1 DEF RowsOK, Raised
<1>3. \A a \in Raised : /\ Pages!Position(a)' = Pages!Position(a)
                        /\ a \in Pages!Table' => a \in Pages!Table
                        /\ a \in Ended /\ a \in Pages!Table' => a \in Ended'
  BY <1>0 DEF Raised, Ended, Pages!Table, Pages!Rows, Pages!Position
<1>4. reader' \in Pages!Reader /\ ReaderOK'
  BY <1>0, <1>1, <1>3, ReaderKept
<1> QED BY <1>0, <1>2, <1>4 DEF PagesInv, Pages!TypeOK, Pages!AlertsTypeOK

\* Ending an alert.
LEMMA EndStep ==
    ASSUME PagesInv, NEW a \in PageAlertIds, Pages!End(a)
    PROVE  PagesInv'
<1>1. alerts \in [PageAlertIds -> Pages!AlertRow] /\ UNCHANGED <<triggered, reader>>
  BY DEF PagesInv, Pages!TypeOK, Pages!AlertsTypeOK, Pages!End
<1>2. PICK row \in Pages!AlertRow :
         /\ alerts' = [alerts EXCEPT ![a] = row] /\ alerts[a].status = "active"
         /\ row.rule = alerts[a].rule /\ row.status \in {"resolved", "closed"}
  <2>1. CASE Pages!MarkResolved(a)
    <3> DEFINE row == [alerts[a] EXCEPT !.status = "resolved"]
    <3>1. row \in Pages!AlertRow /\ row.rule = alerts[a].rule /\ row.status = "resolved"
      BY <1>1 DEF Pages!AlertRow, Pages!Statuses
    <3>2. alerts' = [alerts EXCEPT ![a] = row] /\ alerts[a].status = "active"
      BY <2>1, Zenon DEF Pages!MarkResolved
    <3> QED BY <3>1, <3>2
  <2>2. ASSUME NEW why \in Pages!ClosureReasons, Pages!MarkClosed(a, why)
        PROVE  \E row \in Pages!AlertRow :
                  /\ alerts' = [alerts EXCEPT ![a] = row] /\ alerts[a].status = "active"
                  /\ row.rule = alerts[a].rule /\ row.status \in {"resolved", "closed"}
    <3> DEFINE row == [alerts[a] EXCEPT !.status = "closed", !.reason = why]
    <3>1. row \in Pages!AlertRow /\ row.rule = alerts[a].rule /\ row.status = "closed"
      BY <1>1 DEF Pages!AlertRow, Pages!Statuses
    <3>2. alerts' = [alerts EXCEPT ![a] = row] /\ alerts[a].status = "active"
      BY <2>2, Zenon DEF Pages!MarkClosed
    <3> QED BY <3>1, <3>2
  <2> QED BY <2>1, <2>2 DEF Pages!End
<1>3. /\ alerts' \in [PageAlertIds -> Pages!AlertRow]
      /\ alerts'[a] = row /\ \A b \in PageAlertIds \ {a} : alerts'[b] = alerts[b]
  BY <1>1, <1>2
<1> QED BY <1>1, <1>2, <1>3, RowsKept

\* Deleting a rule takes rows, but none that was not inserted.
LEMMA DropRuleStep ==
    ASSUME PagesInv, NEW r \in PageRules, Pages!DropRule(r)
    PROVE  PagesInv'
<1>1. /\ alerts \in [PageAlertIds -> Pages!AlertRow] /\ UNCHANGED <<triggered, reader>>
      /\ Pages!DropAlertsOf(r) /\ RowsOK
  BY DEF PagesInv, Pages!TypeOK, Pages!AlertsTypeOK, Pages!DropRule
<1> DEFINE gone(a) == [alerts[a] EXCEPT !.status = "deleted"]
<1>2. \A a \in PageAlertIds : /\ gone(a) \in Pages!AlertRow /\ gone(a).status = "deleted"
                              /\ gone(a).rule = alerts[a].rule
  BY <1>1 DEF Pages!AlertRow, Pages!Statuses
<1>3. alerts' = [a \in PageAlertIds |-> IF alerts[a].rule = r THEN gone(a) ELSE alerts[a]]
  BY <1>1, Zenon DEF Pages!DropAlertsOf
<1> HIDE DEF gone
<1>4. \A a \in PageAlertIds : alerts[a].rule = r => alerts[a].status # "none"
  BY <1>1, PageConstants DEF RowsOK, Raised
<1>5. /\ alerts' \in [PageAlertIds -> Pages!AlertRow]
      /\ \A a \in PageAlertIds :
            alerts'[a] = IF alerts[a].rule = r THEN gone(a) ELSE alerts[a]
  BY <1>1, <1>2, <1>3
<1> QED BY <1>1, <1>2, <1>4, <1>5, RowsKept

\* The invariant holds at the start.
LEMMA InitPagesInv == Pages!Init => PagesInv
<1> SUFFICES ASSUME Pages!Init PROVE PagesInv
  OBVIOUS
<1>1. /\ alerts = [a \in PageAlertIds |-> Pages!NoRow]
      /\ triggered = [a \in PageAlertIds |-> None] /\ reader = Pages!NoReader
  BY DEF Pages!Init
<1>2. Pages!NoRow \in Pages!AlertRow /\ Pages!NoRow.status = "none" /\ Pages!NoRow.rule = None
  BY DEF Pages!NoRow, Pages!AlertRow, Pages!Statuses
<1>3. Raised = {}
  BY <1>1, <1>2 DEF Raised
<1>4. RowsOK
  BY <1>1, <1>2, <1>3, FS_EmptySet DEF RowsOK
<1>5. /\ reader.pc = "idle" /\ reader.count = 0 /\ reader.seen = {} /\ reader.began = {}
      /\ reader \in Pages!Reader
  BY <1>1 DEF Pages!NoReader, Pages!Reader
<1>6. ReaderOK
  BY <1>5, FS_EmptySet DEF ReaderOK
<1>7. Pages!TypeOK
  BY <1>1, <1>2, <1>5 DEF Pages!TypeOK, Pages!AlertsTypeOK
<1> QED BY <1>4, <1>6, <1>7 DEF PagesInv

\* Every step preserves it.
LEMMA NextPagesInv == PagesInv /\ [Pages!Next]_(Pages!vars) => PagesInv'
<1> SUFFICES ASSUME PagesInv, [Pages!Next]_(Pages!vars) PROVE PagesInv'
  OBVIOUS
<1>1. CASE Pages!Read
  <2>1. UNCHANGED <<alerts, triggered>> /\ reader' \in Pages!Reader /\ ReaderOK'
    BY <1>1, ReadStep
  <2>2. Raised' = Raised /\ RowsOK
    BY <2>1 DEF Raised, PagesInv
  <2>3. RowsOK'
    BY <2>1, <2>2 DEF RowsOK
  <2> QED BY <2>1, <2>3 DEF PagesInv, Pages!TypeOK, Pages!AlertsTypeOK
<1>2. CASE UNCHANGED Pages!vars
  <2>1. UNCHANGED <<triggered, reader>> /\ alerts' = alerts
    BY <1>2 DEF Pages!vars
  <2>2. alerts \in [PageAlertIds -> Pages!AlertRow]
    BY DEF PagesInv, Pages!TypeOK, Pages!AlertsTypeOK
  <2> QED BY <2>1, <2>2, RowsKept
<1> QED BY <1>1, <1>2, RaiseStep, EndStep, DropRuleStep DEF Pages!Next

\* Whoever reads the active alerts and follows the history to its end has seen
\* every alert there was at the first request and still is, each once, though
\* alerts are raised, end and vanish between two pages.
THEOREM NoAlertsAreLost == Pages!Spec => []Pages!NoAlertIsLost
<1>1. PagesInv => Pages!NoAlertIsLost
  BY SameCardinality DEF PagesInv, ReaderOK, Pages!NoAlertIsLost
<1> QED BY <1>1, InitPagesInv, NextPagesInv, PTL DEF Pages!Spec

AboutPages == topic = "pages"

\* A behaviour about pages is one of AlertPages.
LEMMA PagesByThemselves == AlertingSpec => []~AboutPages \/ ([]AboutPages /\ Pages!Spec)
<1>1. AlertingInit /\ AboutPages => Pages!Init
  BY DEF AlertingInit, AboutPages
<1>2. [AlertingNext]_alertingVars /\ AboutPages => AboutPages' /\ [Pages!Next]_(Pages!vars)
  BY DEF AlertingNext, alertingVars, vars, evaluatorVars, pageVars, AboutPages, Pages!vars
<1>3. [AlertingNext]_alertingVars /\ ~AboutPages => ~AboutPages'
  BY DEF AlertingNext, alertingVars, AboutPages
<1> QED BY <1>1, <1>2, <1>3, PTL DEF AlertingSpec, Pages!Spec

\* So it is for the readers of Alerting.
THEOREM ListsShowAll == AlertingSpec => []PagesShowAll
<1>1. /\ Pages!NoAlertIsLost => PagesShowAll
      /\ ~AboutPages => PagesShowAll
  BY DEF PagesShowAll, AboutPages
<1> QED BY <1>1, PagesByThemselves, NoAlertsAreLost, PTL

-----------------------------------------------------------------------------
(* Metrics.  The evaluator's statements do not depend on what targets are, *)
(* so what is said above of Evaluator's is said of those that batches and  *)
(* edits of threshold rules call.  An errand is MetricMonitor's task.      *)

Names == Metrics!Names
BarRow == Metrics!Evaluator!RuleRow

Born(r) == rules[r].state # "unborn"

\* A rule that exists, and whose metric was sampled at a node.
HasSample(r, n) ==
    r \in Rules /\ n \in Nodes /\ Born(r) /\ stored[n][about[r].name] # {}

\* A handler is at a statement that has what it needs.
ErrandOK(t) ==
    /\ t.pc \in {"store", "latest", "list", "rules", "call"} => t.node \in Nodes
    /\ t.pc \in {"latest", "list", "rules", "call", "evaluate"} => t.name \in Names
    /\ t.pc \in {"list", "rules", "call"}
          => t.level \in Metrics!Levels /\ stored[t.node][t.name] # {}
    /\ t.pc = "store" => 0 < t.turn
    /\ 0 < t.turn => t.node \in Nodes /\ t.at \in DOMAIN readings[t.node] /\ t.rest = {}
    /\ t.pc \in {"reconcile", "reconciling", "load"}
          => /\ t.rule \in Rules /\ Born(t.rule)
             /\ t.ruleRow \in BarRow /\ t.ruleRow.state = "live"
    /\ t.rest # {} => t.name \in Names
    /\ t.pc \notin {"rules", "call"} => t.todo = {}
    /\ \A x \in t.todo : Born(x[1]) /\ about[x[1]].name = t.name

\* The rows of rules and samples.
SamplesTypeOK ==
    /\ rules \in [Rules -> BarRow]
    /\ about \in [Rules -> Metrics!About \cup {None}]
    /\ \A r \in Rules : Born(r) => about[r] \in Metrics!About
    /\ readings \in [Nodes -> Seq(Readings)]
    /\ \A n \in Nodes : Len(readings[n]) <= MaxBatches
    /\ stored \in [Nodes -> [Names -> SUBSET Nat]]
    /\ \A n \in Nodes, name \in Names : stored[n][name] \subseteq DOMAIN readings[n]

MetricsTypeOK ==
    /\ SamplesTypeOK
    /\ errand \in [MetricHandlers -> Metrics!Task]
    /\ \A p \in MetricHandlers : ErrandOK(errand[p])
    /\ sound \subseteq Nodes /\ spoilt \in 0 .. MaxSpoilt

\* Rules and samples once there stay, and a rule keeps its metric.
Grows ==
    /\ \A r \in Rules : Born(r) => Born(r)' /\ about'[r].name = about[r].name
    /\ \A n \in Nodes : DOMAIN readings[n] \subseteq DOMAIN readings'[n]
    /\ \A n \in Nodes, name \in Names : stored[n][name] \subseteq stored'[n][name]

\* What the proofs below need of the constants.
LEMMA MetricConstants ==
    /\ None \notin Nodes /\ All \notin Nodes /\ None \notin Nat
    /\ Names = {Batch[i] : i \in DOMAIN Batch} /\ Batch \in Seq(Names)
    /\ Len(Batch) \in Nat /\ Len(Batch) >= 1 /\ DOMAIN Batch = 1 .. Len(Batch)
    /\ \A reading \in Readings, name \in Names : reading[name] \in Nat
    /\ \A bar \in Bars : bar \in Nat /\ bar > 0
    /\ Metrics!Levels = {reading[name] : reading \in Readings, name \in Names}
    /\ Metrics!About = [name : Names, bar : Bars]
    /\ MaxBatches \in Nat
<1>1. Names = {Batch[i] : i \in DOMAIN Batch}
  BY DEF Names, Metrics!Names
<1>2. Batch \in Seq(Names) /\ Batch # <<>>
  BY <1>1, AlertingAssumption
<1>3. Len(Batch) \in Nat /\ Len(Batch) >= 1 /\ DOMAIN Batch = 1 .. Len(Batch)
  BY <1>2
<1>4. Readings \subseteq [Names -> Nat]
  BY <1>1, AlertingAssumption
<1> QED BY <1>1, <1>2, <1>3, <1>4, AlertingAssumption DEF Metrics!Levels, Metrics!About, Names

\* No task at all.
LEMMA NoErrandFields ==
    Metrics!NoTask =
               [pc |-> "idle", node |-> None, at |-> 0, turn |-> 0, name |-> None,
                level |-> None, todo |-> {}, rest |-> {}, rule |-> None, ruleRow |-> None]
BY DEF Metrics!NoTask

\* The set of errands.
LEMMA ErrandFields ==
    Metrics!Task =
        [pc      : {"idle", "store", "latest", "list", "rules", "call",
                    "reconcile", "reconciling", "load", "evaluate"},
         node    : Nodes \cup {None},
         at      : 0 .. MaxBatches,
         turn    : 0 .. Len(Batch),
         name    : Names \cup {None},
         level   : Metrics!Levels \cup {None},
         todo    : SUBSET (Rules \X Bars),
         rest    : SUBSET Nodes,
         rule    : Rules \cup {None},
         ruleRow : BarRow \cup {None}]
BY DEF Metrics!Task, Names, BarRow

\* It is an errand.
LEMMA NoErrandGood == Metrics!NoTask \in Metrics!Task /\ ErrandOK(Metrics!NoTask)
BY NoErrandFields, ErrandFields, MetricConstants DEF ErrandOK

\* The latest sample is one that was taken, if there is one.
LEMMA LatestTyped ==
    ASSUME SamplesTypeOK, NEW n \in Nodes, NEW name \in Names
    PROVE  /\ stored[n][name] = {} => Metrics!Latest(n, name) = None
           /\ stored[n][name] # {} => Metrics!Latest(n, name) \in Metrics!Levels
           /\ Metrics!Latest(n, name) \in Metrics!Levels \cup {None}
           /\ None \notin Metrics!Levels /\ Metrics!Levels \subseteq Nat
<1>1. None \notin Metrics!Levels /\ Metrics!Levels \subseteq Nat
  BY MetricConstants
<1>2. CASE stored[n][name] = {}
  BY <1>1, <1>2 DEF Metrics!Latest
<1>3. CASE stored[n][name] # {}
  <2>1. PICK S, k : S = stored[n][name] /\ k = Len(readings[n])
    OBVIOUS
  <2>2. /\ S \in SUBSET Nat /\ S # {} /\ k \in Nat /\ S \subseteq DOMAIN readings[n]
        /\ DOMAIN readings[n] = 1 .. k /\ readings[n] \in Seq(Readings)
    BY <1>3, <2>1 DEF SamplesTypeOK
  <2>3. \A i \in S : i <= k
    BY <2>2
  <2>4. \E i \in S : \A j \in S : i >= j
    BY <2>2, <2>3, GreatestNumber
  <2>5. PICK t : t = CHOOSE i \in S : \A j \in S : i >= j
    OBVIOUS
  <2>6. t \in S
    BY <2>4, <2>5
  <2>7. readings[n][t] \in Readings
    BY <2>2, <2>6
  <2>8. Metrics!Latest(n, name) = readings[n][t][name]
    BY <1>3, <2>1, <2>5 DEF Metrics!Latest
  <2> QED BY <1>1, <1>3, <2>7, <2>8, MetricConstants
<1> QED BY <1>1, <1>2, <1>3

\* What a task goes on to, through with the rules of its sample.
LEMMA AfterRulesGood ==
    ASSUME NEW t \in Metrics!Task,
           0 < t.turn => t.node \in Nodes /\ t.at \in DOMAIN readings[t.node],
           t.rest # {} => t.name \in Names
    PROVE  Metrics!AfterRules(t) \in Metrics!Task /\ ErrandOK(Metrics!AfterRules(t))
<1>1. CASE 0 < t.turn /\ t.turn < Len(Batch)
  <2>1. PICK u : u = [pc |-> "store", node |-> t.node, at |-> t.at, turn |-> t.turn + 1,
                      name |-> None, level |-> None, todo |-> {}, rest |-> {}, rule |-> None,
                      ruleRow |-> None]
    OBVIOUS
  <2>2. Metrics!AfterRules(t) = u
    <3>1. Metrics!AfterRules(t) = [Metrics!NoTask EXCEPT
             !.pc = "store", !.node = t.node, !.at = t.at, !.turn = t.turn + 1]
      BY <1>1 DEF Metrics!AfterRules
    <3> QED BY <2>1, <3>1, NoErrandFields
  <2>3. t.turn + 1 > 0 /\ t.turn + 1 \in 0 .. Len(Batch) /\ t.node \in Nodes /\ t.at \in 0 .. MaxBatches
    BY <1>1, ErrandFields, MetricConstants
  <2>4. u \in Metrics!Task
    BY <2>1, <2>3, ErrandFields
  <2>5. ErrandOK(u)
    BY <1>1, <2>1, <2>3 DEF ErrandOK
  <2> QED BY <2>2, <2>4, <2>5
<1>2. CASE ~(0 < t.turn /\ t.turn < Len(Batch)) /\ t.rest # {}
  <2>1. PICK u : u = [pc |-> "evaluate", node |-> None, at |-> 0, turn |-> 0,
                      name |-> t.name, level |-> None, todo |-> {}, rest |-> t.rest,
                      rule |-> None, ruleRow |-> None]
    OBVIOUS
  <2>2. Metrics!AfterRules(t) = u
    <3>1. Metrics!AfterRules(t)
             = [Metrics!NoTask EXCEPT !.pc = "evaluate", !.rest = t.rest, !.name = t.name]
      BY <1>2 DEF Metrics!AfterRules
    <3> QED BY <2>1, <3>1, NoErrandFields
  <2>3. u \in Metrics!Task
    BY <1>2, <2>1, ErrandFields, MetricConstants
  <2>4. ErrandOK(u)
    BY <1>2, <2>1 DEF ErrandOK
  <2> QED BY <2>2, <2>3, <2>4
<1>3. CASE ~(0 < t.turn /\ t.turn < Len(Batch)) /\ t.rest = {}
  BY <1>3, NoErrandGood DEF Metrics!AfterRules
<1> QED BY <1>1, <1>2, <1>3

\* What it goes on to after one of the rules.
LEMMA NextBarGood ==
    ASSUME NEW t \in Metrics!Task, t.pc = "call", ErrandOK(t)
    PROVE  Metrics!NextRule(t) \in Metrics!Task /\ ErrandOK(Metrics!NextRule(t))
<1>1. CASE t.todo # {}
  <2>1. PICK u : u = [t EXCEPT !.pc = "rules"]
    OBVIOUS
  <2>2. /\ u \in Metrics!Task /\ u.pc = "rules" /\ u.node = t.node /\ u.name = t.name
        /\ u.level = t.level /\ u.turn = t.turn /\ u.at = t.at /\ u.rest = t.rest
        /\ u.todo = t.todo
    BY <2>1, ErrandFields
  <2>3. ErrandOK(u)
    BY <2>2 DEF ErrandOK
  <2> QED BY <1>1, <2>1, <2>2, <2>3 DEF Metrics!NextRule
<1>2. CASE t.todo = {}
  BY <1>2, AfterRulesGood DEF Metrics!NextRule, ErrandOK
<1> QED BY <1>1, <1>2

\* What it goes on to when they were listed.
LEMMA ListedGood ==
    ASSUME NEW e \in Metrics!Task, e.pc = "list", ErrandOK(e),
           NEW t \in Metrics!Task, t.pc = "list", t.node = e.node, t.name = e.name,
           t.level = e.level, t.turn = e.turn, t.at = e.at, t.rest = e.rest,
           \A x \in t.todo : Born(x[1]) /\ about[x[1]].name = t.name
    PROVE  Metrics!NextRule(t) \in Metrics!Task /\ ErrandOK(Metrics!NextRule(t))
<1>1. CASE t.todo # {}
  <2>1. PICK u : u = [t EXCEPT !.pc = "rules"]
    OBVIOUS
  <2>2. /\ u \in Metrics!Task /\ u.pc = "rules" /\ u.node = t.node /\ u.name = t.name
        /\ u.level = t.level /\ u.turn = t.turn /\ u.at = t.at /\ u.rest = t.rest
        /\ u.todo = t.todo
    BY <2>1, ErrandFields
  <2>3. ErrandOK(u)
    BY <2>2 DEF ErrandOK
  <2> QED BY <1>1, <2>1, <2>2, <2>3 DEF Metrics!NextRule
<1>2. CASE t.todo = {}
  BY <1>2, AfterRulesGood DEF Metrics!NextRule, ErrandOK
<1> QED BY <1>1, <1>2

\* What a task has stays there as rules and samples become more.
LEMMA ErrandStays ==
    ASSUME SamplesTypeOK, SamplesTypeOK', Grows, NEW t \in Metrics!Task, ErrandOK(t)
    PROVE  ErrandOK(t)'
<1>1. t.todo \subseteq Rules \X Bars
  BY ErrandFields
<1>2. t.rule \in Rules /\ Born(t.rule) => Born(t.rule)'
  BY DEF Grows
<1>3. \A x \in t.todo : Born(x[1])' /\ about'[x[1]].name = t.name
  BY <1>1 DEF Grows, ErrandOK
<1>4. 0 < t.turn => t.at \in DOMAIN readings'[t.node]
  BY DEF Grows, ErrandOK
<1>5. t.pc \in {"list", "rules", "call"} => stored'[t.node][t.name] # {}
  BY DEF Grows, ErrandOK
<1> QED BY <1>2, <1>3, <1>4, <1>5 DEF ErrandOK

\* Rules and samples that do not change stay.
LEMMA SamplesSame ==
    ASSUME SamplesTypeOK, UNCHANGED <<rules, about, readings, stored>>
    PROVE  SamplesTypeOK' /\ Grows
<1>1. SamplesTypeOK'
  BY DEF SamplesTypeOK, Born
<1>2. Grows
  BY DEF Grows, Born
<1> QED BY <1>1, <1>2

\* A handler moves on to an errand while rules and samples become more.
LEMMA ErrandMoved ==
    ASSUME MetricsTypeOK, SamplesTypeOK', Grows, NEW p \in MetricHandlers,
           NEW t \in Metrics!Task, ErrandOK(t)', Metrics!Continue(p, t),
           sound' \subseteq Nodes, spoilt' \in 0 .. MaxSpoilt
    PROVE  MetricsTypeOK' /\ Grows
<1>1. errand' = [errand EXCEPT ![p] = t] /\ errand \in [MetricHandlers -> Metrics!Task]
  BY DEF Metrics!Continue, MetricsTypeOK
<1>2. ASSUME NEW q \in MetricHandlers PROVE ErrandOK(errand[q])'
  <2>1. CASE q = p
    <3>1. errand'[q] = t
      BY <1>1, <2>1
    <3> QED BY <3>1 DEF ErrandOK
  <2>2. CASE q # p
    <3>1. PICK u : u = errand[q]
      OBVIOUS
    <3>2. errand'[q] = u /\ u \in Metrics!Task /\ ErrandOK(u)
      BY <1>1, <2>2, <3>1 DEF MetricsTypeOK
    <3>3. ErrandOK(u)'
      BY <3>2, ErrandStays DEF MetricsTypeOK
    <3> QED BY <3>2, <3>3 DEF ErrandOK
  <2> QED BY <2>1, <2>2
<1> QED BY <1>1, <1>2 DEF MetricsTypeOK

\* A handler moves on and leaves rules and samples as they are.
LEMMA ErrandMovedOnly ==
    ASSUME MetricsTypeOK, UNCHANGED <<rules, about, readings, stored>>,
           NEW p \in MetricHandlers, NEW t \in Metrics!Task, ErrandOK(t),
           Metrics!Continue(p, t), sound' \subseteq Nodes, spoilt' \in 0 .. MaxSpoilt
    PROVE  MetricsTypeOK' /\ Grows
<1>1. SamplesTypeOK
  BY DEF MetricsTypeOK
<1>2. SamplesTypeOK' /\ Grows
  BY <1>1, SamplesSame
<1> QED BY <1>1, <1>2, ErrandStays, ErrandMoved

\* The record of what overlapped.
LEMMA SoundTyped ==
    ASSUME MetricsTypeOK,
           \/ \E still \in SUBSET Nodes : Metrics!Begins(still)
           \/ Metrics!Upset
           \/ UNCHANGED Metrics!history
    PROVE  sound' \subseteq Nodes /\ spoilt' \in 0 .. MaxSpoilt
<1>1. sound \subseteq Nodes /\ spoilt \in 0 .. MaxSpoilt /\ MaxSpoilt \in Nat
  BY AlertingAssumption DEF MetricsTypeOK
<1>2. Metrics!Upset => sound' \subseteq Nodes /\ spoilt' \in 0 .. MaxSpoilt
  BY <1>1 DEF Metrics!Upset
<1> QED BY <1>1, <1>2 DEF Metrics!Begins, Metrics!history

\* What is known of an errand.
LEMMA Errand ==
    ASSUME MetricsTypeOK, NEW p \in MetricHandlers
    PROVE  errand[p] \in Metrics!Task /\ ErrandOK(errand[p])
BY DEF MetricsTypeOK

\* Batches arrive, and their samples are stored.
LEMMA BatchInv ==
    ASSUME MetricsTypeOK, NEW p \in MetricHandlers,
           \/ \E n \in Nodes : \E t \in DOMAIN readings[n] : Metrics!Deliver(p, n, t)
           \/ Metrics!StoreSample(p)
    PROVE  MetricsTypeOK' /\ Grows
<1>1. errand[p] \in Metrics!Task /\ ErrandOK(errand[p]) /\ SamplesTypeOK
  BY Errand DEF MetricsTypeOK
<1>2. ASSUME NEW n \in Nodes, NEW t \in DOMAIN readings[n], Metrics!Deliver(p, n, t)
      PROVE  MetricsTypeOK' /\ Grows
  <2>1. PICK u : u = [Metrics!NoTask EXCEPT !.pc = "store", !.node = n, !.at = t, !.turn = 1]
    OBVIOUS
  <2>2. u = [pc |-> "store", node |-> n, at |-> t, turn |-> 1, name |-> None,
             level |-> None, todo |-> {}, rest |-> {}, rule |-> None, ruleRow |-> None]
    BY <2>1, NoErrandFields
  <2>7. Metrics!Continue(p, u)
    BY <1>2, <2>1, Zenon DEF Metrics!Deliver
  <2>3. t \in 0 .. MaxBatches
    <3>1. readings[n] \in Seq(Readings) /\ Len(readings[n]) <= MaxBatches
      BY <1>1 DEF SamplesTypeOK
    <3> QED BY <3>1, MetricConstants
  <2>4. u \in Metrics!Task /\ ErrandOK(u)
    <3>1. u \in Metrics!Task
      BY <2>2, <2>3, ErrandFields, MetricConstants
    <3>2. ErrandOK(u)
      BY <2>2 DEF ErrandOK
    <3> QED BY <3>1, <3>2
  <2>5. Metrics!Begins({n}) /\ UNCHANGED <<rules, about, readings, stored>>
    BY <1>2 DEF Metrics!Deliver, Metrics!evaluatorVars, Metrics!metricVars
  <2>6. sound' \subseteq Nodes /\ spoilt' \in 0 .. MaxSpoilt
    BY <2>5, SoundTyped
  <2> QED BY <2>4, <2>5, <2>6, <2>7, ErrandMovedOnly
<1>3. ASSUME Metrics!StoreSample(p) PROVE MetricsTypeOK' /\ Grows
  <2>1. PICK e : e = errand[p]
    OBVIOUS
  <2>2. PICK name : name = Batch[e.turn]
    OBVIOUS
  <2>3. /\ e \in Metrics!Task /\ ErrandOK(e) /\ e.pc = "store" /\ 0 < e.turn
        /\ e.node \in Nodes /\ e.at \in DOMAIN readings[e.node] /\ e.rest = {}
    BY <1>1, <1>3, <2>1 DEF ErrandOK, Metrics!StoreSample, Metrics!At
  <2>4. name \in Names
    <3>1. e.turn \in DOMAIN Batch
      BY <2>3, ErrandFields, MetricConstants
    <3> QED BY <2>2, <3>1, MetricConstants
  <2>5. PICK t : t = [e EXCEPT !.pc = "latest", !.name = name]
    OBVIOUS
  <2>6. /\ Metrics!Continue(p, t) /\ UNCHANGED <<rules, about, readings, sound, spoilt>>
        /\ stored' = [stored EXCEPT ![e.node][name] = @ \cup {e.at}]
    BY <1>3, <2>1, <2>2, <2>5 DEF Metrics!StoreSample, Metrics!evaluatorVars, Metrics!history
  <2>7. t \in Metrics!Task /\ t.pc = "latest" /\ t.name = name /\ t.node = e.node
        /\ t.turn = e.turn /\ t.at = e.at /\ t.rest = e.rest /\ t.todo = e.todo
    BY <2>3, <2>4, <2>5, ErrandFields
  <2>8. /\ stored' \in [Nodes -> [Names -> SUBSET Nat]]
        /\ \A n \in Nodes, m \in Names :
              stored'[n][m] = IF n = e.node /\ m = name THEN stored[n][m] \cup {e.at}
                              ELSE stored[n][m]
    <3>1. stored \in [Nodes -> [Names -> SUBSET Nat]] /\ e.at \in Nat
      BY <1>1, <2>3, ErrandFields DEF SamplesTypeOK
    <3> QED BY <2>3, <2>4, <2>6, <3>1
  <2>9. SamplesTypeOK'
    <3>1. ASSUME NEW n \in Nodes, NEW m \in Names
          PROVE  stored'[n][m] \subseteq DOMAIN readings[n]
      <4>1. stored[n][m] \subseteq DOMAIN readings[n]
        BY <1>1 DEF SamplesTypeOK
      <4>2. CASE n = e.node /\ m = name
        <5>1. stored'[n][m] = stored[n][m] \cup {e.at} /\ e.at \in DOMAIN readings[n]
          BY <2>3, <2>8, <4>2
        <5> QED BY <4>1, <5>1
      <4>3. CASE n # e.node \/ m # name
        <5>1. stored'[n][m] = stored[n][m]
          BY <2>8, <4>3
        <5> QED BY <4>1, <5>1
      <4> QED BY <4>2, <4>3
    <3> QED BY <1>1, <2>6, <2>8, <3>1 DEF SamplesTypeOK, Born
  <2>10. Grows
    BY <2>6, <2>8 DEF Grows, Born
  <2>11. e.todo = {} => ErrandOK(t)'
    <3>1. 0 < t.turn => t.at \in DOMAIN readings'[t.node]
      BY <2>3, <2>6, <2>7
    <3> QED BY <2>3, <2>4, <2>7, <3>1 DEF ErrandOK
  <2>12. e.todo = {}
    BY <2>3 DEF ErrandOK
  <2>13. sound' \subseteq Nodes /\ spoilt' \in 0 .. MaxSpoilt
    BY <2>6 DEF MetricsTypeOK
  <2> QED BY <2>6, <2>7, <2>9, <2>10, <2>11, <2>12, <2>13, ErrandMoved
<1> QED BY <1>2, <1>3

\* Rules are gone through for a sample.
LEMMA BarsInv ==
    ASSUME MetricsTypeOK, NEW p \in MetricHandlers,
           \/ Metrics!ReadLatest(p) \/ Metrics!ListRules(p)
           \/ Metrics!EvaluateRule(p) \/ Metrics!EndCall(p)
    PROVE  MetricsTypeOK' /\ Grows
<1>1. PICK e : e = errand[p]
  OBVIOUS
<1>2. /\ e \in Metrics!Task /\ ErrandOK(e) /\ SamplesTypeOK
      /\ sound \subseteq Nodes /\ spoilt \in 0 .. MaxSpoilt
  BY <1>1, Errand DEF MetricsTypeOK
<1>3. ASSUME Metrics!ReadLatest(p) PROVE MetricsTypeOK' /\ Grows
  <2>1. PICK level : level = Metrics!Latest(e.node, e.name)
    OBVIOUS
  <2>2. e.pc = "latest" /\ e.node \in Nodes /\ e.name \in Names /\ e.todo = {}
    BY <1>1, <1>2, <1>3 DEF ErrandOK, Metrics!ReadLatest, Metrics!At
  <2>3. /\ level \in Metrics!Levels \cup {None}
        /\ level # None => level \in Metrics!Levels /\ stored[e.node][e.name] # {}
    BY <1>2, <2>1, <2>2, LatestTyped
  <2>4. PICK u : u = [e EXCEPT !.pc = "list", !.level = level]
    OBVIOUS
  <2>5. PICK t : t = IF level = None THEN Metrics!AfterRules(e) ELSE u
    OBVIOUS
  <2>6. /\ Metrics!Continue(p, t) /\ UNCHANGED <<rules, about, readings, stored, sound, spoilt>>
    BY <1>1, <1>3, <2>1, <2>4, <2>5
    DEF Metrics!ReadLatest, Metrics!evaluatorVars, Metrics!metricVars, Metrics!history
  <2>7. CASE level = None
    BY <1>2, <2>2, <2>5, <2>6, <2>7, AfterRulesGood, ErrandMovedOnly DEF ErrandOK
  <2>8. CASE level # None
    <3>1. /\ u \in Metrics!Task /\ u.pc = "list" /\ u.node = e.node /\ u.name = e.name
          /\ u.level = level /\ u.turn = e.turn /\ u.at = e.at /\ u.rest = e.rest
          /\ u.todo = e.todo
      BY <1>2, <2>3, <2>4, ErrandFields
    <3>2. ErrandOK(u)
      BY <1>2, <2>2, <2>3, <2>8, <3>1 DEF ErrandOK
    <3> QED BY <1>2, <2>5, <2>6, <2>8, <3>1, <3>2, ErrandMovedOnly
  <2> QED BY <2>7, <2>8
<1>4. ASSUME Metrics!ListRules(p) PROVE MetricsTypeOK' /\ Grows
  <2>1. PICK listed : listed = {r \in Rules : /\ rules[r].state = "live"
                                              /\ rules[r].enabled
                                              /\ rules[r].scope \in {e.node, All}
                                              /\ about[r].name = e.name}
    OBVIOUS
  <2>2. PICK todo : todo = {<<r, about[r].bar>> : r \in listed}
    OBVIOUS
  <2>3. PICK u : u = [e EXCEPT !.todo = todo]
    OBVIOUS
  <2>4. e.pc = "list"
    BY <1>1, <1>4 DEF Metrics!ListRules, Metrics!At
  <2>5. /\ todo \in SUBSET (Rules \X Bars)
        /\ \A x \in todo : Born(x[1]) /\ about[x[1]].name = e.name
    <3>1. \A r \in listed : Born(r) /\ about[r].bar \in Bars /\ about[r].name = e.name
      BY <1>2, <2>1, MetricConstants DEF SamplesTypeOK, Born
    <3> QED BY <2>1, <2>2, <3>1
  <2>6. /\ u \in Metrics!Task /\ u.pc = "list" /\ u.node = e.node /\ u.name = e.name
        /\ u.level = e.level /\ u.turn = e.turn /\ u.at = e.at /\ u.rest = e.rest
        /\ u.todo = todo
    BY <1>2, <2>3, <2>4, <2>5, ErrandFields
  <2>7. Metrics!NextRule(u) \in Metrics!Task /\ ErrandOK(Metrics!NextRule(u))
    BY <1>2, <2>4, <2>5, <2>6, ListedGood
  <2>8. /\ Metrics!Continue(p, Metrics!NextRule(u))
        /\ UNCHANGED <<rules, about, readings, stored, sound, spoilt>>
    BY <1>1, <1>4, <2>1, <2>2, <2>3
    DEF Metrics!ListRules, Metrics!evaluatorVars, Metrics!metricVars, Metrics!history
  <2> QED BY <1>2, <2>7, <2>8, ErrandMovedOnly
<1>5. ASSUME Metrics!EvaluateRule(p) PROVE MetricsTypeOK' /\ Grows
  <2>1. PICK next \in e.todo :
           /\ Metrics!Evaluator!Apply(p, next[1], e.node, e.level > next[2])
           /\ Metrics!Continue(p, [e EXCEPT !.pc = "call", !.todo = @ \ {next}])
    BY <1>1, <1>5, Zenon DEF Metrics!EvaluateRule
  <2>2. PICK t : t = [e EXCEPT !.pc = "call", !.todo = @ \ {next}]
    OBVIOUS
  <2>3. e.pc = "rules"
    BY <1>1, <1>5 DEF Metrics!EvaluateRule, Metrics!At
  <2>4. /\ t \in Metrics!Task /\ t.pc = "call" /\ t.node = e.node /\ t.name = e.name
        /\ t.level = e.level /\ t.turn = e.turn /\ t.at = e.at /\ t.rest = e.rest
        /\ t.todo \subseteq e.todo
    BY <1>2, <2>2, ErrandFields
  <2>5. ErrandOK(t)
    BY <1>2, <2>3, <2>4 DEF ErrandOK
  <2>6. UNCHANGED <<rules, about, readings, stored, sound, spoilt>>
    BY <1>5, <2>1 DEF Metrics!EvaluateRule, Metrics!Evaluator!Apply, Metrics!metricVars, Metrics!history
  <2> QED BY <1>2, <2>1, <2>2, <2>4, <2>5, <2>6, ErrandMovedOnly
<1>6. ASSUME Metrics!EndCall(p) PROVE MetricsTypeOK' /\ Grows
  <2>1. e.pc = "call"
    BY <1>1, <1>6 DEF Metrics!EndCall, Metrics!At
  <2>2. PICK t \in {Metrics!NoTask, Metrics!NextRule(e)} : Metrics!Continue(p, t)
    BY <1>1, <1>6 DEF Metrics!EndCall
  <2>3. t \in Metrics!Task /\ ErrandOK(t)
    BY <1>2, <2>1, NextBarGood, NoErrandGood
  <2>4. UNCHANGED <<rules, about, readings, stored, sound, spoilt>>
    BY <1>6 DEF Metrics!EndCall, Metrics!Evaluator!Return, Metrics!metricVars, Metrics!history
  <2> QED BY <1>2, <2>2, <2>3, <2>4, ErrandMovedOnly
<1> QED BY <1>3, <1>4, <1>5, <1>6

-----------------------------------------------------------------------------
(* The evaluator that metrics call does what the one above does.           *)

\* Statements that do not mention targets are the same ones.
LEMMA SameStatements ==
    /\ Metrics!Evaluator!Idle = Evaluator!Idle
    /\ \A r, n : Metrics!Evaluator!ActiveFor(r, n) = Evaluator!ActiveFor(r, n)
    /\ \A p, pc : Metrics!Evaluator!At(p, pc) <=> Evaluator!At(p, pc)
    /\ \A p, f : Metrics!Evaluator!Goto(p, f) <=> Evaluator!Goto(p, f)
    /\ \A p, r, n, met : Metrics!Evaluator!Apply(p, r, n, met) <=> Evaluator!Apply(p, r, n, met)
    /\ \A p, r, row : Metrics!Evaluator!Reconcile(p, r, row) <=> Evaluator!Reconcile(p, r, row)
    /\ \A p : /\ Metrics!Evaluator!Step(p) <=> Evaluator!Step(p)
              /\ Metrics!Evaluator!Fail(p) <=> Evaluator!Fail(p)
              /\ Metrics!Evaluator!Return(p) <=> Evaluator!Return(p)
    /\ \A r, row : Metrics!Evaluator!PutRule(r, row) <=> Evaluator!PutRule(r, row)
    /\ \A r : Metrics!Evaluator!DropRule(r) <=> Evaluator!DropRule(r)
<1>1. Metrics!Evaluator!Idle = Evaluator!Idle
  BY Zenon DEF Evaluator!Idle, Metrics!Evaluator!Idle
<1>2. \A r, n : Metrics!Evaluator!ActiveFor(r, n) = Evaluator!ActiveFor(r, n)
  BY Zenon DEF Evaluator!ActiveFor, Metrics!Evaluator!ActiveFor
<1>3. \A p, pc : Metrics!Evaluator!At(p, pc) <=> Evaluator!At(p, pc)
  BY Zenon DEF Evaluator!At, Metrics!Evaluator!At
<1>4. \A p, f : Metrics!Evaluator!Goto(p, f) <=> Evaluator!Goto(p, f)
  BY Zenon DEF Evaluator!Goto, Metrics!Evaluator!Goto
<1>5. \A p, r, n, met : Metrics!Evaluator!Apply(p, r, n, met) <=> Evaluator!Apply(p, r, n, met)
  <2>1. /\ \A r, n : Metrics!Evaluator!Opening(r, n) = Evaluator!Opening(r, n)
        /\ \A pc, a : Metrics!Evaluator!Handling(pc, a) = Evaluator!Handling(pc, a)
        /\ Metrics!Evaluator!Returned = Evaluator!Returned
    BY Zenon DEF Evaluator!Opening, Metrics!Evaluator!Opening, Evaluator!Handling,
       Metrics!Evaluator!Handling, Evaluator!Returned, Metrics!Evaluator!Returned,
       Evaluator!Idle, Metrics!Evaluator!Idle
  <2>2. ASSUME NEW p, NEW r, NEW n, NEW met
        PROVE  Metrics!Evaluator!Apply(p, r, n, met) <=> Evaluator!Apply(p, r, n, met)
    BY <1>2, <1>3, <1>4, <2>1 DEF Evaluator!Apply, Metrics!Evaluator!Apply
  <2> QED BY <2>2
<1>6. \A p, r, row : Metrics!Evaluator!Reconcile(p, r, row) <=> Evaluator!Reconcile(p, r, row)
  BY Zenon DEF Evaluator!Reconcile, Metrics!Evaluator!Reconcile, Evaluator!At,
     Metrics!Evaluator!At, Evaluator!Goto, Metrics!Evaluator!Goto, Evaluator!ActiveOfRule,
     Metrics!Evaluator!ActiveOfRule, Evaluator!RuleAppliesTo,
     Metrics!Evaluator!RuleAppliesTo, Evaluator!Closing, Metrics!Evaluator!Closing,
     Evaluator!Returned, Metrics!Evaluator!Returned, Evaluator!Idle, Metrics!Evaluator!Idle
<1>7. \A p : Metrics!Evaluator!Step(p) <=> Evaluator!Step(p)
  BY Zenon DEF
    Evaluator!Step, Metrics!Evaluator!Step, Evaluator!Apply, Metrics!Evaluator!Apply,
    Evaluator!Reconcile, Metrics!Evaluator!Reconcile,
    Evaluator!Create, Metrics!Evaluator!Create, Evaluator!CreateLost, Metrics!Evaluator!CreateLost,
    Evaluator!CreateRefused, Metrics!Evaluator!CreateRefused,
    Evaluator!LogTriggered, Metrics!Evaluator!LogTriggered,
    Evaluator!SendTriggered, Metrics!Evaluator!SendTriggered,
    Evaluator!Resolve, Metrics!Evaluator!Resolve, Evaluator!ResolveLost, Metrics!Evaluator!ResolveLost,
    Evaluator!LogResolved, Metrics!Evaluator!LogResolved,
    Evaluator!SendResolved, Metrics!Evaluator!SendResolved,
    Evaluator!Close, Metrics!Evaluator!Close, Evaluator!CloseLost, Metrics!Evaluator!CloseLost,
    Evaluator!LogClosed, Metrics!Evaluator!LogClosed, Evaluator!Fail, Metrics!Evaluator!Fail,
    Evaluator!Return, Metrics!Evaluator!Return, Evaluator!PutRule, Metrics!Evaluator!PutRule,
    Evaluator!DropRule, Metrics!Evaluator!DropRule, Evaluator!DropAlertsOf,
    Metrics!Evaluator!DropAlertsOf,
    Evaluator!At, Metrics!Evaluator!At, Evaluator!Goto, Metrics!Evaluator!Goto,
    Evaluator!InsertActive, Metrics!Evaluator!InsertActive, Evaluator!IsNextId,
    Metrics!Evaluator!IsNextId,
    Evaluator!ActiveFor, Metrics!Evaluator!ActiveFor, Evaluator!ActiveOfRule,
    Metrics!Evaluator!ActiveOfRule,
    Evaluator!MarkResolved, Metrics!Evaluator!MarkResolved, Evaluator!MarkClosed,
    Metrics!Evaluator!MarkClosed,
    Evaluator!Handling, Metrics!Evaluator!Handling, Evaluator!Idle, Metrics!Evaluator!Idle,
    Evaluator!Returned, Metrics!Evaluator!Returned, Evaluator!Failed, Metrics!Evaluator!Failed,
    Evaluator!Opening, Metrics!Evaluator!Opening, Evaluator!Closing, Metrics!Evaluator!Closing,
    Evaluator!RuleAppliesTo, Metrics!Evaluator!RuleAppliesTo, Evaluator!Log, Metrics!Evaluator!Log,
    Evaluator!Send, Metrics!Evaluator!Send, Evaluator!IsFirst, Metrics!Evaluator!IsFirst
<1>8. \A p : /\ Metrics!Evaluator!Fail(p) <=> Evaluator!Fail(p)
             /\ Metrics!Evaluator!Return(p) <=> Evaluator!Return(p)
  BY Zenon DEF Evaluator!Fail, Metrics!Evaluator!Fail, Evaluator!Return,
     Metrics!Evaluator!Return, Evaluator!Failed, Metrics!Evaluator!Failed, Evaluator!Idle,
     Metrics!Evaluator!Idle, Evaluator!At, Metrics!Evaluator!At, Evaluator!Goto,
     Metrics!Evaluator!Goto
<1>9. \A r, row : Metrics!Evaluator!PutRule(r, row) <=> Evaluator!PutRule(r, row)
  BY Zenon DEF Evaluator!PutRule, Metrics!Evaluator!PutRule
<1>10. \A r : Metrics!Evaluator!DropRule(r) <=> Evaluator!DropRule(r)
  BY Zenon DEF Evaluator!DropRule, Metrics!Evaluator!DropRule, Evaluator!DropAlertsOf,
     Metrics!Evaluator!DropAlertsOf
<1> QED BY <1>1, <1>2, <1>3, <1>4, <1>5, <1>6, <1>7, <1>8, <1>9, <1>10

-----------------------------------------------------------------------------
(* Edits of rules.                                                         *)

\* A rule is written, and a handler is to look at it.
LEMMA PutInv ==
    ASSUME MetricsTypeOK, NEW p \in MetricHandlers, NEW r \in Rules,
           NEW row \in BarRow, row.state = "live", NEW ask \in Metrics!About,
           Born(r) => ask.name = about[r].name,
           rules' = [rules EXCEPT ![r] = row], about' = [about EXCEPT ![r] = ask],
           UNCHANGED <<readings, stored>>, Metrics!Begins({}),
           NEW pc \in {"load", "reconcile"},
           Metrics!Continue(p, [Metrics!NoTask EXCEPT !.pc = pc, !.rule = r, !.ruleRow = row])
    PROVE  MetricsTypeOK' /\ Grows
<1>1. SamplesTypeOK
  BY DEF MetricsTypeOK
<1>2. /\ rules'[r] = row /\ \A q \in Rules \ {r} : rules'[q] = rules[q]
      /\ about'[r] = ask /\ \A q \in Rules \ {r} : about'[q] = about[q]
      /\ rules' \in [Rules -> BarRow] /\ about' \in [Rules -> Metrics!About \cup {None}]
  BY <1>1 DEF SamplesTypeOK
<1>3. /\ Born(r)' /\ \A q \in Rules : Born(q) => Born(q)'
      /\ \A q \in Rules \ {r} : Born(q)' <=> Born(q)
  BY <1>2 DEF Born
<1>4. SamplesTypeOK'
  <2>1. \A q \in Rules : Born(q)' => about'[q] \in Metrics!About
    BY <1>1, <1>2, <1>3 DEF SamplesTypeOK
  <2> QED BY <1>1, <1>2, <2>1 DEF SamplesTypeOK
<1>5. Grows
  BY <1>2, <1>3 DEF Grows
<1>6. PICK t : t = [Metrics!NoTask EXCEPT !.pc = pc, !.rule = r, !.ruleRow = row]
  OBVIOUS
<1>7. t = [pc |-> pc, node |-> None, at |-> 0, turn |-> 0, name |-> None, level |-> None,
           todo |-> {}, rest |-> {}, rule |-> r, ruleRow |-> row]
  BY <1>6, NoErrandFields
<1>8. t \in Metrics!Task
  BY <1>7, ErrandFields, MetricConstants
<1>9. ErrandOK(t)'
  BY <1>3, <1>7 DEF ErrandOK
<1>10. sound' \subseteq Nodes /\ spoilt' \in 0 .. MaxSpoilt
  BY SoundTyped
<1>11. Metrics!Continue(p, t)
  BY <1>6
<1> QED BY <1>4, <1>5, <1>8, <1>9, <1>10, <1>11, ErrandMoved

\* Rules are created and edited.
LEMMA EditsInv ==
    ASSUME MetricsTypeOK, NEW p \in MetricHandlers, Metrics!Edit(p)
    PROVE  MetricsTypeOK' /\ Grows
<1>1. SamplesTypeOK
  BY DEF MetricsTypeOK
<1>2. PICK r \in Rules, scope \in Nodes \cup {All}, bar \in Bars :
         \/ \E name \in Metrics!Names :
               Metrics!CreateRule(p, r, scope, [name |-> name, bar |-> bar])
         \/ \E enabled \in BOOLEAN : Metrics!UpdateRule(p, r, scope, enabled, bar)
  BY Zenon DEF Metrics!Edit
<1>3. ASSUME NEW name \in Metrics!Names,
             Metrics!CreateRule(p, r, scope, [name |-> name, bar |-> bar])
      PROVE  MetricsTypeOK' /\ Grows
  <2>1. PICK row, ask, pc : /\ row = [state |-> "live", enabled |-> TRUE, scope |-> scope]
                            /\ ask = [name |-> name, bar |-> bar] /\ pc = "load"
    OBVIOUS
  <2>2. row \in BarRow /\ row.state = "live" /\ ask \in Metrics!About /\ ~Born(r)
    BY <1>3, <2>1, MetricConstants
    DEF BarRow, Metrics!Evaluator!RuleRow, Names, Born, Metrics!CreateRule
  <2>3. /\ rules' = [rules EXCEPT ![r] = row] /\ about' = [about EXCEPT ![r] = ask]
        /\ UNCHANGED <<readings, stored>> /\ Metrics!Begins({})
        /\ Metrics!Continue(p, [Metrics!NoTask EXCEPT !.pc = pc, !.rule = r, !.ruleRow = row])
    BY <1>3, <2>1 DEF Metrics!CreateRule, Metrics!PutRule, Metrics!Evaluator!PutRule
  <2> QED BY <2>1, <2>2, <2>3, PutInv, Zenon
<1>4. ASSUME NEW enabled \in BOOLEAN, Metrics!UpdateRule(p, r, scope, enabled, bar)
      PROVE  MetricsTypeOK' /\ Grows
  <2>1. PICK row, ask, pc : /\ row = [state |-> "live", enabled |-> enabled, scope |-> scope]
                            /\ ask = [about[r] EXCEPT !.bar = bar] /\ pc = "reconcile"
    OBVIOUS
  <2>2. Born(r)
    BY <1>4 DEF Born, Metrics!UpdateRule
  <2>3. about[r] \in [name : Names, bar : Bars]
    BY <1>1, <2>2, MetricConstants DEF SamplesTypeOK
  <2>4. row \in BarRow /\ row.state = "live" /\ ask \in Metrics!About /\ ask.name = about[r].name
    BY <2>1, <2>3, MetricConstants DEF BarRow, Metrics!Evaluator!RuleRow
  <2>5. /\ rules' = [rules EXCEPT ![r] = row] /\ about' = [about EXCEPT ![r] = ask]
        /\ UNCHANGED <<readings, stored>> /\ Metrics!Begins({})
        /\ Metrics!Continue(p, [Metrics!NoTask EXCEPT !.pc = pc, !.rule = r, !.ruleRow = row])
    BY <1>4, <2>1 DEF Metrics!UpdateRule, Metrics!PutRule, Metrics!Evaluator!PutRule
  <2> QED BY <2>1, <2>4, <2>5, PutInv, Zenon
<1> QED BY <1>2, <1>3, <1>4

\* An edited rule is looked at, and the nodes it is for.
LEMMA LoadsInv ==
    ASSUME MetricsTypeOK, NEW p \in MetricHandlers,
           \/ Metrics!ReconcileRule(p) \/ Metrics!EndReconcile(p)
           \/ Metrics!LoadNodes(p) \/ Metrics!EvaluateNode(p)
    PROVE  MetricsTypeOK' /\ Grows
<1>1. PICK e : e = errand[p]
  OBVIOUS
<1>2. e \in Metrics!Task /\ ErrandOK(e) /\ SamplesTypeOK
      /\ sound \subseteq Nodes /\ spoilt \in 0 .. MaxSpoilt
  BY <1>1, Errand DEF MetricsTypeOK
<1>3. UNCHANGED <<rules, about, readings, stored, sound, spoilt>>
  BY DEF Metrics!ReconcileRule, Metrics!EndReconcile, Metrics!LoadNodes, Metrics!EvaluateNode,
     Metrics!Evaluator!Reconcile, Metrics!Evaluator!Return, Metrics!evaluatorVars,
     Metrics!metricVars, Metrics!history
<1>4. ASSUME NEW t \in Metrics!Task, ErrandOK(t), Metrics!Continue(p, t) PROVE MetricsTypeOK' /\ Grows
  BY <1>2, <1>3, <1>4, ErrandMovedOnly
<1>5. ASSUME NEW pc \in {"reconciling", "load"}, e.pc \in {"reconcile", "reconciling"},
             Metrics!Continue(p, [e EXCEPT !.pc = pc])
      PROVE  MetricsTypeOK' /\ Grows
  <2>1. PICK t : t = [e EXCEPT !.pc = pc]
    OBVIOUS
  <2>2. /\ t \in Metrics!Task /\ t.pc = pc /\ t.rule = e.rule /\ t.ruleRow = e.ruleRow
        /\ t.turn = e.turn /\ t.at = e.at /\ t.node = e.node /\ t.rest = e.rest
        /\ t.name = e.name /\ t.todo = e.todo
    BY <1>2, <2>1, ErrandFields
  <2>3. ErrandOK(t)
    BY <1>2, <1>5, <2>2 DEF ErrandOK
  <2> QED BY <1>4, <1>5, <2>1, <2>2, <2>3
<1>6. CASE Metrics!ReconcileRule(p)
  BY <1>1, <1>5, <1>6 DEF Metrics!ReconcileRule, Metrics!At
<1>7. CASE Metrics!EndReconcile(p)
  BY <1>1, <1>4, <1>5, <1>7, NoErrandGood DEF Metrics!EndReconcile, Metrics!At
<1>8. CASE Metrics!LoadNodes(p)
  <2>1. PICK rest, name : /\ rest = IF e.ruleRow.scope = All THEN Nodes ELSE {e.ruleRow.scope}
                          /\ name = about[e.rule].name
    OBVIOUS
  <2>2. PICK t : t = [Metrics!NoTask EXCEPT !.rest = rest, !.name = name]
    OBVIOUS
  <2>3. t = [pc |-> "idle", node |-> None, at |-> 0, turn |-> 0, name |-> name, level |-> None,
             todo |-> {}, rest |-> rest, rule |-> None, ruleRow |-> None]
    BY <2>2, NoErrandFields
  <2>4. e.rule \in Rules /\ Born(e.rule) /\ e.ruleRow \in BarRow
    BY <1>1, <1>2, <1>8 DEF Metrics!LoadNodes, Metrics!At, ErrandOK
  <2>5. about[e.rule] \in [name : Names, bar : Bars]
    BY <1>2, <2>4, MetricConstants DEF SamplesTypeOK
  <2>6. name \in Names /\ rest \subseteq Nodes
    BY <2>1, <2>4, <2>5 DEF BarRow, Metrics!Evaluator!RuleRow
  <2>7. t \in Metrics!Task /\ t.turn = 0 /\ t.name \in Names
    BY <2>3, <2>6, ErrandFields, MetricConstants
  <2>8. Metrics!Continue(p, Metrics!AfterRules(t))
    BY <1>1, <1>8, <2>1, <2>2 DEF Metrics!LoadNodes
  <2> QED BY <1>4, <2>7, <2>8, AfterRulesGood
<1>9. CASE Metrics!EvaluateNode(p)
  <2>1. PICK n \in e.rest :
           Metrics!Continue(p, [e EXCEPT !.pc = "latest", !.node = n, !.rest = @ \ {n}])
    BY <1>1, <1>9, Zenon DEF Metrics!EvaluateNode
  <2>2. PICK t : t = [e EXCEPT !.pc = "latest", !.node = n, !.rest = @ \ {n}]
    OBVIOUS
  <2>3. e.pc = "evaluate" /\ n \in Nodes
    BY <1>1, <1>2, <1>9, ErrandFields DEF Metrics!EvaluateNode, Metrics!At
  <2>4. /\ t \in Metrics!Task /\ t.pc = "latest" /\ t.node = n /\ t.rest \subseteq e.rest
        /\ t.turn = e.turn /\ t.at = e.at /\ t.name = e.name /\ t.todo = e.todo
    BY <1>2, <2>2, <2>3, ErrandFields
  <2>5. ErrandOK(t)
    BY <1>2, <2>3, <2>4 DEF ErrandOK
  <2> QED BY <1>4, <2>1, <2>2, <2>4, <2>5
<1> QED BY <1>6, <1>7, <1>8, <1>9

\* Rules are dropped, and agents take readings.
LEMMA OutsideInv ==
    ASSUME MetricsTypeOK,
           \/ \E r \in Rules : Metrics!DeleteRule(r)
           \/ \E n \in Nodes, reading \in Readings : Metrics!Collect(n, reading)
           \/ UNCHANGED <<rules, about, readings, stored, errand, sound, spoilt>>
    PROVE  MetricsTypeOK' /\ Grows
<1>1. SamplesTypeOK
  BY DEF MetricsTypeOK
<1>2. ASSUME SamplesTypeOK', Grows, errand' = errand,
             sound' \subseteq Nodes, spoilt' \in 0 .. MaxSpoilt
      PROVE  MetricsTypeOK' /\ Grows
  <2>1. ASSUME NEW q \in MetricHandlers PROVE ErrandOK(errand[q])'
    <3>1. PICK u : u = errand[q]
      OBVIOUS
    <3>2. u \in Metrics!Task /\ ErrandOK(u)
      BY <3>1, Errand
    <3>3. ErrandOK(u)'
      BY <1>1, <1>2, <3>2, ErrandStays
    <3> QED BY <1>2, <3>1, <3>3 DEF ErrandOK
  <2> QED BY <1>2, <2>1 DEF MetricsTypeOK
<1>3. ASSUME NEW r \in Rules, Metrics!DeleteRule(r) PROVE MetricsTypeOK' /\ Grows
  <2>1. /\ rules[r].state = "live" /\ rules' = [rules EXCEPT ![r].state = "dropped"]
        /\ UNCHANGED <<about, readings, stored, errand, spoilt>> /\ sound' \in {sound, {}}
    BY <1>3, SameStatements DEF Metrics!DeleteRule, Evaluator!DropRule, Metrics!metricVars
  <2>2. rules \in [Rules -> [state : {"unborn", "live", "dropped"}, enabled : BOOLEAN,
                             scope : Nodes \cup {All}]]
    BY <1>1 DEF SamplesTypeOK, BarRow, Metrics!Evaluator!RuleRow
  <2>3. PICK row : row = [rules[r] EXCEPT !.state = "dropped"]
    OBVIOUS
  <2>4. row \in BarRow /\ row.state = "dropped"
    BY <2>2, <2>3 DEF BarRow, Metrics!Evaluator!RuleRow
  <2>5. rules' = [rules EXCEPT ![r] = row]
    BY <2>1, <2>3, Zenon
  <2>6. /\ rules' \in [Rules -> BarRow] /\ rules'[r] = row
        /\ \A q \in Rules \ {r} : rules'[q] = rules[q]
    BY <1>1, <2>4, <2>5 DEF SamplesTypeOK
  <2>7. \A q \in Rules : Born(q)' <=> Born(q)
    BY <2>1, <2>4, <2>6 DEF Born
  <2>8. SamplesTypeOK' /\ Grows
    BY <1>1, <2>1, <2>6, <2>7 DEF SamplesTypeOK, Grows
  <2>9. sound' \subseteq Nodes /\ spoilt' \in 0 .. MaxSpoilt
    BY <2>1 DEF MetricsTypeOK
  <2> QED BY <1>2, <2>1, <2>8, <2>9
<1>4. ASSUME NEW n \in Nodes, NEW reading \in Readings, Metrics!Collect(n, reading)
      PROVE  MetricsTypeOK' /\ Grows
  <2>1. PICK q : q = Append(readings[n], reading)
    OBVIOUS
  <2>2. /\ readings' = [readings EXCEPT ![n] = q] /\ Len(readings[n]) < MaxBatches
        /\ UNCHANGED <<rules, about, stored, errand, sound, spoilt>>
    BY <1>4, <2>1 DEF Metrics!Collect, Metrics!evaluatorVars, Metrics!history
  <2>3. readings[n] \in Seq(Readings) /\ Len(readings[n]) \in Nat
    BY <1>1, LenProperties, Zenon DEF SamplesTypeOK
  <2>4. q \in Seq(Readings) /\ Len(q) = Len(readings[n]) + 1
    BY <2>1, <2>3, AppendProperties, Zenon
  <2>5. DOMAIN readings[n] = 1 .. Len(readings[n]) /\ DOMAIN q = 1 .. Len(q)
    BY <2>3, <2>4, LenProperties, Zenon
  <2>6. DOMAIN readings[n] \subseteq DOMAIN q /\ Len(q) <= MaxBatches
    BY <2>2, <2>3, <2>4, <2>5, MetricConstants
  <2>7. readings'[n] = q /\ \A m \in Nodes \ {n} : readings'[m] = readings[m]
    BY <1>1, <2>2 DEF SamplesTypeOK
  <2>8. readings' \in [Nodes -> Seq(Readings)]
    BY <1>1, <2>2, <2>4 DEF SamplesTypeOK
  <2>9. \A m \in Nodes : DOMAIN readings[m] \subseteq DOMAIN readings'[m]
    BY <2>6, <2>7
  <2>10. \A r \in Rules : Born(r)' <=> Born(r)
    BY <2>2 DEF Born
  <2>11. \A m \in Nodes : Len(readings'[m]) <= MaxBatches
    BY <1>1, <2>6, <2>7 DEF SamplesTypeOK
  <2>12. \A m \in Nodes, name \in Names : stored'[m][name] \subseteq DOMAIN readings'[m]
    BY <1>1, <2>2, <2>9 DEF SamplesTypeOK
  <2>13. SamplesTypeOK'
    BY <1>1, <2>2, <2>8, <2>10, <2>11, <2>12 DEF SamplesTypeOK
  <2>14. Grows
    BY <2>2, <2>9, <2>10 DEF Grows
  <2> QED BY <1>2, <2>2, <2>13, <2>14 DEF MetricsTypeOK
<1>5. CASE UNCHANGED <<rules, about, readings, stored, errand, sound, spoilt>>
  <2>1. SamplesTypeOK' /\ Grows
    BY <1>1, <1>5, SamplesSame
  <2> QED BY <1>2, <1>5, <2>1 DEF MetricsTypeOK
<1> QED BY <1>3, <1>4, <1>5

\* A request breaks off, or goes on inside the evaluator.
LEMMA BreaksInv ==
    ASSUME MetricsTypeOK, NEW p \in MetricHandlers,
           Metrics!Break(p) \/ Metrics!EvaluatorStep(p)
    PROVE  MetricsTypeOK' /\ Grows
<1>1. CASE Metrics!Abort(p)
  <2>1. /\ Metrics!Continue(p, Metrics!NoTask) /\ Metrics!Upset
        /\ UNCHANGED <<rules, about, readings, stored>>
    BY <1>1 DEF Metrics!Abort, Metrics!evaluatorVars, Metrics!metricVars
  <2>2. sound' \subseteq Nodes /\ spoilt' \in 0 .. MaxSpoilt
    BY <2>1, SoundTyped
  <2> QED BY <2>1, <2>2, NoErrandGood, ErrandMovedOnly
<1>2. ASSUME UNCHANGED <<rules, about, readings, stored, errand>>,
             Metrics!Upset \/ UNCHANGED Metrics!history
      PROVE  MetricsTypeOK' /\ Grows
  <2>1. PICK t : t = errand[p]
    OBVIOUS
  <2>2. t \in Metrics!Task /\ ErrandOK(t) /\ Metrics!Continue(p, t)
    BY <1>2, <2>1, Errand DEF Metrics!Continue, MetricsTypeOK
  <2>3. sound' \subseteq Nodes /\ spoilt' \in 0 .. MaxSpoilt
    BY <1>2, SoundTyped
  <2> QED BY <1>2, <2>2, <2>3, ErrandMovedOnly
<1>3. Evaluator!Step(p) \/ Evaluator!Fail(p) => UNCHANGED rules
  BY Zenon DEF Evaluator!Fail, Evaluator!Step, Evaluator!Create, Evaluator!CreateLost,
     Evaluator!CreateRefused, Evaluator!Resolve, Evaluator!ResolveLost, Evaluator!Close,
     Evaluator!CloseLost, Evaluator!LogTriggered, Evaluator!SendTriggered,
     Evaluator!LogResolved, Evaluator!SendResolved, Evaluator!LogClosed, Evaluator!Send
<1>4. CASE Metrics!AbortCall(p)
  BY <1>2, <1>3, <1>4, SameStatements DEF Metrics!AbortCall, Metrics!metricVars
<1>5. CASE Metrics!EvaluatorStep(p)
  BY <1>2, <1>3, <1>5, SameStatements DEF Metrics!EvaluatorStep, Metrics!metricVars
<1> QED BY <1>1, <1>4, <1>5 DEF Metrics!Break

\* Metrics are well typed from the start,
LEMMA MetricsInitTyped == Metrics!Init => MetricsTypeOK
<1> SUFFICES ASSUME Metrics!Init PROVE MetricsTypeOK
  OBVIOUS
<1>1. PICK row : row = [state |-> "unborn", enabled |-> FALSE, scope |-> All]
  OBVIOUS
<1>2. rules = [r \in Rules |-> row] /\ row \in BarRow /\ row.state = "unborn"
  BY <1>1 DEF Metrics!Init, BarRow, Metrics!Evaluator!RuleRow
<1>3. rules \in [Rules -> BarRow] /\ \A r \in Rules : ~Born(r)
  BY <1>2 DEF Born
<1>4. about \in [Rules -> Metrics!About \cup {None}]
  BY DEF Metrics!Init
<1>5. <<>> \in Seq(Readings) /\ Len(<<>>) = 0 /\ 0 <= MaxBatches
  BY MetricConstants
<1>6. /\ readings \in [Nodes -> Seq(Readings)]
      /\ \A n \in Nodes : Len(readings[n]) <= MaxBatches
  BY <1>5 DEF Metrics!Init
<1>7. PICK none : none = [m \in Names |-> {}]
  OBVIOUS
<1>8. stored = [n \in Nodes |-> none] /\ none \in [Names -> SUBSET Nat]
  BY <1>7 DEF Metrics!Init, Names
<1>9. /\ stored \in [Nodes -> [Names -> SUBSET Nat]]
      /\ \A n \in Nodes, name \in Names : stored[n][name] = {}
  BY <1>7, <1>8
<1>10. SamplesTypeOK
  BY <1>3, <1>4, <1>6, <1>9 DEF SamplesTypeOK
<1>11. /\ errand \in [MetricHandlers -> Metrics!Task]
       /\ \A p \in MetricHandlers : ErrandOK(errand[p])
  BY NoErrandGood DEF Metrics!Init
<1>12. sound \subseteq Nodes /\ spoilt \in 0 .. MaxSpoilt
  BY AlertingAssumption DEF Metrics!Init
<1> QED BY <1>10, <1>11, <1>12 DEF MetricsTypeOK

\* and remain so, whatever the evaluator's own state.
LEMMA MetricsNextTyped == MetricsTypeOK /\ [Metrics!Next]_(Metrics!vars) => MetricsTypeOK' /\ Grows
<1> SUFFICES ASSUME MetricsTypeOK, [Metrics!Next]_(Metrics!vars) PROVE MetricsTypeOK' /\ Grows
  OBVIOUS
<1>1. CASE UNCHANGED Metrics!vars
  BY <1>1, OutsideInv DEF Metrics!vars, Metrics!evaluatorVars, Metrics!metricVars, Metrics!history
<1>2. ASSUME Metrics!Begin PROVE MetricsTypeOK' /\ Grows
  BY <1>2, BatchInv, EditsInv, OutsideInv DEF Metrics!Begin
<1>3. ASSUME NEW p \in MetricHandlers, Metrics!Work(p) PROVE MetricsTypeOK' /\ Grows
  BY <1>3, BatchInv, BarsInv, LoadsInv, BreaksInv DEF Metrics!Work
<1> QED BY <1>1, <1>2, <1>3, BreaksInv DEF Metrics!Next

-----------------------------------------------------------------------------
(* What is proved of the evaluator, for metrics.                           *)

\* Every step of the metric monitor is one the evaluator allows, or none of
\* its.
LEMMA MetricsStepImplements ==
    MetricsTypeOK /\ [Metrics!Next]_(Metrics!vars)
        => [Metrics!Evaluator!Next]_(Metrics!Evaluator!evaluatorVars)
<1> SUFFICES ASSUME MetricsTypeOK, [Metrics!Next]_(Metrics!vars)
             PROVE  Metrics!Evaluator!Next \/ UNCHANGED Metrics!evaluatorVars
  BY DEF Metrics!evaluatorVars, Metrics!Evaluator!evaluatorVars
<1>1. \A p \in MetricHandlers : errand[p] \in Metrics!Task /\ ErrandOK(errand[p])
  BY Errand
<1>2. ASSUME NEW p \in MetricHandlers,
             \/ \E n \in Nodes : \E t \in DOMAIN readings[n] : Metrics!Deliver(p, n, t)
             \/ Metrics!StoreSample(p) \/ Metrics!ReadLatest(p) \/ Metrics!ListRules(p)
             \/ Metrics!LoadNodes(p) \/ Metrics!EvaluateNode(p) \/ Metrics!Abort(p)
      PROVE  UNCHANGED Metrics!evaluatorVars
  BY <1>2, Zenon DEF Metrics!Deliver, Metrics!StoreSample, Metrics!ReadLatest, Metrics!ListRules,
     Metrics!LoadNodes, Metrics!EvaluateNode, Metrics!Abort
<1>3. ASSUME NEW p \in MetricHandlers, Metrics!EvaluateRule(p) PROVE Metrics!Evaluator!Next
  <2>1. PICK e : e = errand[p]
    OBVIOUS
  <2>2. PICK next \in e.todo :
           Metrics!Evaluator!Apply(p, next[1], e.node, e.level > next[2])
    BY <1>3, <2>1, Zenon DEF Metrics!EvaluateRule
  <2>3. e.node \in Nodes /\ next[1] \in Rules
    BY <1>1, <1>3, <2>1, ErrandFields DEF Metrics!EvaluateRule, Metrics!At, ErrandOK
  <2>4. (e.level > next[2]) \in BOOLEAN
    OBVIOUS
  <2>5. Metrics!Evaluator!Call(p)
    BY <2>2, <2>3, <2>4, Zenon DEF Metrics!Evaluator!Call
  <2> QED BY <2>5 DEF Metrics!Evaluator!Next
<1>4. ASSUME NEW p \in MetricHandlers, Metrics!EndCall(p) \/ Metrics!EndReconcile(p)
      PROVE  Metrics!Evaluator!Next
  BY <1>4, Zenon DEF Metrics!EndCall, Metrics!EndReconcile, Metrics!Evaluator!Next
<1>5. ASSUME NEW p \in MetricHandlers, Metrics!ReconcileRule(p) PROVE Metrics!Evaluator!Next
  <2>1. PICK e : e = errand[p]
    OBVIOUS
  <2>2. e.rule \in Rules /\ e.ruleRow \in BarRow
        /\ Metrics!Evaluator!Reconcile(p, e.rule, e.ruleRow)
    BY <1>1, <1>5, <2>1 DEF Metrics!ReconcileRule, Metrics!At, ErrandOK
  <2> QED BY <2>2 DEF Metrics!Evaluator!Next, Metrics!Evaluator!Call, BarRow
<1>6. ASSUME NEW p \in MetricHandlers, Metrics!Edit(p) PROVE Metrics!Evaluator!Next
  <2>1. PICK r \in Rules, enabled \in BOOLEAN, scope \in Nodes \cup {All} :
           Metrics!Evaluator!PutRule(r, [state |-> "live", enabled |-> enabled, scope |-> scope])
    BY <1>6 DEF Metrics!Edit, Metrics!CreateRule, Metrics!UpdateRule, Metrics!PutRule
  <2>2. [state |-> "live", enabled |-> enabled, scope |-> scope] \in Metrics!Evaluator!RuleRow
    BY DEF Metrics!Evaluator!RuleRow
  <2> QED BY <2>1, <2>2 DEF Metrics!Evaluator!Next
<1>7. ASSUME NEW p \in MetricHandlers, Metrics!EvaluatorStep(p) \/ Metrics!AbortCall(p)
      PROVE  Metrics!Evaluator!Next
  BY <1>7, Zenon DEF Metrics!EvaluatorStep, Metrics!AbortCall, Metrics!Evaluator!Next
<1>8. ASSUME NEW r \in Rules, Metrics!DeleteRule(r) PROVE Metrics!Evaluator!Next
  BY <1>8, Zenon DEF Metrics!DeleteRule, Metrics!Evaluator!Next
<1>9. ASSUME Metrics!Begin PROVE Metrics!Evaluator!Next \/ UNCHANGED Metrics!evaluatorVars
  BY <1>2, <1>6, <1>8, <1>9 DEF Metrics!Begin, Metrics!Collect
<1>10. ASSUME NEW p \in MetricHandlers, Metrics!Work(p) \/ Metrics!Break(p)
       PROVE  Metrics!Evaluator!Next \/ UNCHANGED Metrics!evaluatorVars
  BY <1>2, <1>3, <1>4, <1>5, <1>7, <1>10 DEF Metrics!Work, Metrics!Break
<1> QED BY <1>9, <1>10 DEF Metrics!Next, Metrics!vars

\* Batches, evaluations and rule edits, late, repeated, overlapping and failing
\* as they may be, ask of the evaluator only what it is proved for
\* (EvaluateMetricRules, ReconcileRule).
THEOREM MetricsImplementEvaluator == Metrics!Spec => Metrics!Evaluator!Spec
<1>1. Metrics!Init => Metrics!Evaluator!Init
  BY DEF Metrics!Init
<1> QED BY <1>1, MetricsInitTyped, MetricsNextTyped, MetricsStepImplements, PTL
           DEF Metrics!Spec, Metrics!Evaluator!Spec

MetricsProved == INSTANCE AlertEvaluatorProofs WITH Targets <- Nodes, Procs <- MetricHandlers

\* Its definitions, too, say what the evaluator's do: the initial states,
LEMMA MetricsSameInit == Metrics!Evaluator!Init <=> MetricsProved!Init
  BY Zenon DEF
    Metrics!Evaluator!Init, MetricsProved!Init, Metrics!Evaluator!NoRow, MetricsProved!NoRow,
    Metrics!Evaluator!RuleRow, MetricsProved!RuleRow, Metrics!Evaluator!EventKinds,
    MetricsProved!EventKinds, Metrics!Evaluator!NoticeKinds, MetricsProved!NoticeKinds,
    Metrics!Evaluator!Idle, MetricsProved!Idle

\* the steps,
LEMMA MetricsSameNext == Metrics!Evaluator!Next <=> MetricsProved!Next
  BY Zenon DEF
    Metrics!Evaluator!Next, MetricsProved!Next, Metrics!Evaluator!Call, MetricsProved!Call,
    Metrics!Evaluator!Step, MetricsProved!Step, Metrics!Evaluator!Apply, MetricsProved!Apply,
    Metrics!Evaluator!CloseForTarget, MetricsProved!CloseForTarget,
    Metrics!Evaluator!Reconcile, MetricsProved!Reconcile, Metrics!Evaluator!Create,
    MetricsProved!Create, Metrics!Evaluator!CreateLost, MetricsProved!CreateLost,
    Metrics!Evaluator!CreateRefused, MetricsProved!CreateRefused,
    Metrics!Evaluator!LogTriggered, MetricsProved!LogTriggered,
    Metrics!Evaluator!SendTriggered, MetricsProved!SendTriggered, Metrics!Evaluator!Resolve,
    MetricsProved!Resolve, Metrics!Evaluator!ResolveLost, MetricsProved!ResolveLost,
    Metrics!Evaluator!LogResolved, MetricsProved!LogResolved, Metrics!Evaluator!SendResolved,
    MetricsProved!SendResolved, Metrics!Evaluator!Close, MetricsProved!Close,
    Metrics!Evaluator!CloseLost, MetricsProved!CloseLost, Metrics!Evaluator!LogClosed,
    MetricsProved!LogClosed, Metrics!Evaluator!Fail, MetricsProved!Fail,
    Metrics!Evaluator!Return, MetricsProved!Return, Metrics!Evaluator!PutRule,
    MetricsProved!PutRule, Metrics!Evaluator!DropRule, MetricsProved!DropRule,
    Metrics!Evaluator!DropAlertsOf, MetricsProved!DropAlertsOf, Metrics!Evaluator!At,
    MetricsProved!At, Metrics!Evaluator!Goto, MetricsProved!Goto,
    Metrics!Evaluator!InsertActive, MetricsProved!InsertActive, Metrics!Evaluator!IsNextId,
    MetricsProved!IsNextId, Metrics!Evaluator!ActiveFor, MetricsProved!ActiveFor,
    Metrics!Evaluator!ActiveOfRule, MetricsProved!ActiveOfRule,
    Metrics!Evaluator!MarkResolved, MetricsProved!MarkResolved, Metrics!Evaluator!MarkClosed,
    MetricsProved!MarkClosed, Metrics!Evaluator!Handling, MetricsProved!Handling,
    Metrics!Evaluator!Idle, MetricsProved!Idle, Metrics!Evaluator!Returned,
    MetricsProved!Returned, Metrics!Evaluator!Failed, MetricsProved!Failed,
    Metrics!Evaluator!Opening, MetricsProved!Opening, Metrics!Evaluator!Closing,
    MetricsProved!Closing, Metrics!Evaluator!RuleAppliesTo, MetricsProved!RuleAppliesTo,
    Metrics!Evaluator!RuleRow, MetricsProved!RuleRow, Metrics!Evaluator!Log,
    MetricsProved!Log, Metrics!Evaluator!Send, MetricsProved!Send, Metrics!Evaluator!IsFirst,
    MetricsProved!IsFirst, Metrics!Evaluator!ClosureReasons, MetricsProved!ClosureReasons

\* and the types.
LEMMA MetricsSameTypeOK == Metrics!Evaluator!TypeOK <=> MetricsProved!TypeOK
  BY Zenon DEF
    Metrics!Evaluator!TypeOK, MetricsProved!TypeOK, Metrics!Evaluator!AlertsTypeOK,
    MetricsProved!AlertsTypeOK, Metrics!Evaluator!AlertRow, MetricsProved!AlertRow,
    Metrics!Evaluator!Statuses, MetricsProved!Statuses, Metrics!Evaluator!ClosureReasons,
    MetricsProved!ClosureReasons, Metrics!Evaluator!RuleRow, MetricsProved!RuleRow,
    Metrics!Evaluator!Frame, MetricsProved!Frame, Metrics!Evaluator!EventKinds,
    MetricsProved!EventKinds, Metrics!Evaluator!NoticeKinds, MetricsProved!NoticeKinds

\* The evaluator's specification, under its other name.
LEMMA MetricsProvedSpec == Metrics!Spec => MetricsProved!Spec
<1>1. [Metrics!Evaluator!Next]_(Metrics!Evaluator!evaluatorVars)
          => [MetricsProved!Next]_(MetricsProved!evaluatorVars)
  BY MetricsSameNext DEF Metrics!Evaluator!evaluatorVars, MetricsProved!evaluatorVars
<1> QED BY <1>1, MetricsSameInit, MetricsImplementEvaluator, PTL
           DEF Metrics!Evaluator!Spec, MetricsProved!Spec

\* What the evaluator's proofs assume of its constants.
LEMMA MetricConstantsFit == MetricsProved!AlertStoreAssumption /\ MetricsProved!ScopeAssumption
  BY AlertingAssumption DEF MetricsProved!AlertStoreAssumption, MetricsProved!ScopeAssumption

\* The state of the metric monitor is always well typed, and every statement a
\* request comes to has the operands it needs.
THEOREM MetricsTypeCorrect == Metrics!Spec => [](Metrics!TypeOK /\ MetricsTypeOK)
<1>1. Metrics!Spec => []MetricsTypeOK
  BY MetricsInitTyped, MetricsNextTyped, PTL DEF Metrics!Spec
<1>2. Metrics!Spec => []MetricsProved!TypeOK
  BY MetricConstantsFit, MetricsProvedSpec, MetricsProved!TypeCorrect, PTL
<1>3. MetricsTypeOK /\ MetricsProved!TypeOK => Metrics!TypeOK
  BY MetricsSameTypeOK DEF Metrics!TypeOK, MetricsTypeOK, SamplesTypeOK, Names
<1> QED BY <1>1, <1>2, <1>3, PTL

\* However batches and edits overlap, no rule ever has two active alerts for
\* one node (findActiveAlertForTarget, the partial unique index).
THEOREM OneActiveMetricAlert == Metrics!Spec => []Metrics!Evaluator!AtMostOneActive
<1>1. MetricsProved!AtMostOneActive => Metrics!Evaluator!AtMostOneActive
  BY DEF MetricsProved!AtMostOneActive, Metrics!Evaluator!AtMostOneActive
<1> QED BY <1>1, MetricConstantsFit, MetricsProvedSpec, MetricsProved!OneActiveAlert, PTL

-----------------------------------------------------------------------------
(* Alerts of metrics and the samples.                                      *)

BarAlert == Metrics!Evaluator!AlertRow
BarFrame == Metrics!Evaluator!Frame

\* What is known so far of the state of the metric monitor.
MetricsInv == Metrics!TypeOK /\ MetricsTypeOK /\ Evaluator!AtMostOneActive

Supported(a) == alerts[a].status = "active" => HasSample(alerts[a].rule, alerts[a].target)

\* Only a handler that waits for the evaluator has a call there, and no alert
\* is opened, or was, without a sample.
Sampled ==
    /\ \A p \in MetricHandlers : Calls(errand[p], call[p])
    /\ \A p \in MetricHandlers : call[p].pc = "create" => HasSample(call[p].rule, call[p].target)
    /\ \A a \in AlertIds : Supported(a)

\* The types of the rows, frames and errands.
LEMMA MetricRows ==
    ASSUME MetricsInv
    PROVE  /\ errand \in [MetricHandlers -> Metrics!Task] /\ call \in [MetricHandlers -> BarFrame]
           /\ alerts \in [AlertIds -> BarAlert] /\ rules \in [Rules -> BarRow]
           /\ \A p \in MetricHandlers : errand[p] \in Metrics!Task /\ ErrandOK(errand[p])
<1>1. Metrics!Evaluator!TypeOK
  BY DEF MetricsInv, Metrics!TypeOK
<1> QED BY <1>1 DEF MetricsInv, MetricsTypeOK, Metrics!Evaluator!TypeOK,
           Metrics!Evaluator!AlertsTypeOK, BarFrame, BarAlert, BarRow

\* A rule that exists has a metric and a threshold.
LEMMA BornAbout ==
    ASSUME MetricsInv, NEW r \in Rules, Born(r)
    PROVE  about[r].name \in Names /\ about[r].bar \in Bars
BY MetricConstants DEF MetricsInv, MetricsTypeOK, SamplesTypeOK

\* A sample stays.
LEMMA SampleStays ==
    ASSUME MetricsInv, Grows, NEW r, NEW n, HasSample(r, n)
    PROVE  HasSample(r, n)'
<1>1. r \in Rules /\ n \in Nodes /\ Born(r) /\ stored[n][about[r].name] # {}
  BY DEF HasSample
<1>2. about[r].name \in Names
  BY <1>1, BornAbout
<1>3. Born(r)' /\ about'[r].name = about[r].name
  BY <1>1 DEF Grows
<1>4. stored'[n][about[r].name] # {}
  BY <1>1, <1>2 DEF Grows
<1> QED BY <1>1, <1>3, <1>4 DEF HasSample

\* So does what it supports.
LEMMA SupportStays ==
    ASSUME MetricsInv, Grows, NEW a \in AlertIds, Supported(a),
           alerts'[a].status = "active" => alerts'[a] = alerts[a]
    PROVE  Supported(a)'
<1>1. PICK r, n : r = alerts[a].rule /\ n = alerts[a].target
  OBVIOUS
<1>2. CASE alerts'[a].status = "active"
  <2>1. HasSample(r, n) /\ r = alerts'[a].rule /\ n = alerts'[a].target
    BY <1>1, <1>2 DEF Supported
  <2>2. HasSample(r, n)'
    BY <2>1, SampleStays
  <2> QED BY <2>1, <2>2 DEF Supported, HasSample, Born
<1> QED BY <1>2 DEF Supported

\* A handler moves, and perhaps a call of its.
LEMMA SampledMoved ==
    ASSUME MetricsInv, Sampled, Grows, NEW p \in MetricHandlers, NEW t, NEW f,
           Metrics!Continue(p, t), Evaluator!Goto(p, f), Calls(t, f),
           f.pc = "create" => HasSample(f.rule, f.target)',
           \A a \in AlertIds : Supported(a)'
    PROVE  Sampled'
<1>1. /\ errand' = [errand EXCEPT ![p] = t] /\ call' = [call EXCEPT ![p] = f]
      /\ errand \in [MetricHandlers -> Metrics!Task] /\ call \in [MetricHandlers -> BarFrame]
  BY MetricRows DEF Metrics!Continue, Evaluator!Goto
<1>2. /\ errand'[p] = t /\ call'[p] = f
      /\ \A q \in MetricHandlers \ {p} : errand'[q] = errand[q] /\ call'[q] = call[q]
  BY <1>1
<1>3. ASSUME NEW q \in MetricHandlers PROVE Calls(errand[q], call[q])'
  BY <1>2 DEF Sampled, Calls
<1>4. ASSUME NEW q \in MetricHandlers, call'[q].pc = "create"
      PROVE  HasSample(call[q].rule, call[q].target)'
  <2>1. CASE q = p
    BY <1>2, <1>4, <2>1 DEF HasSample, Born
  <2>2. CASE q # p
    <3>1. PICK r, n : r = call[q].rule /\ n = call[q].target
      OBVIOUS
    <3>2. HasSample(r, n) /\ r = call'[q].rule /\ n = call'[q].target
      BY <1>2, <1>4, <2>2, <3>1 DEF Sampled
    <3>3. HasSample(r, n)'
      BY <3>2, SampleStays
    <3> QED BY <3>2, <3>3 DEF HasSample, Born
  <2> QED BY <2>1, <2>2
<1> QED BY <1>3, <1>4 DEF Sampled

\* Outside the evaluator.
LEMMA SampledOutside ==
    ASSUME MetricsInv, Sampled, Grows, NEW p \in MetricHandlers, NEW t, Metrics!Continue(p, t),
           errand[p].pc \notin {"call", "reconciling"}, UNCHANGED <<alerts, call>>
    PROVE  Sampled'
<1>1. PICK f : f = call[p]
  OBVIOUS
<1>2. f = Evaluator!Idle /\ Calls(t, f) /\ f.pc # "create"
  BY <1>1, IdleOwesNothing DEF Sampled, Calls
<1>3. Evaluator!Goto(p, f)
  BY <1>1, MetricRows DEF Evaluator!Goto
<1>4. \A a \in AlertIds : Supported(a)'
  BY SupportStays DEF Sampled
<1> QED BY <1>2, <1>3, <1>4, SampledMoved

\* What a call that is asked for does first.
LEMMA SampledCall ==
    ASSUME MetricsInv, Sampled, Grows, NEW p \in MetricHandlers,
           Metrics!EvaluateRule(p) \/ Metrics!ReconcileRule(p)
    PROVE  Sampled'
<1>1. PICK e : e = errand[p]
  OBVIOUS
<1>2. e \in Metrics!Task /\ ErrandOK(e)
  BY <1>1, MetricRows
<1>3. UNCHANGED alerts => \A a \in AlertIds : Supported(a)'
  BY SupportStays DEF Sampled
<1>4. ASSUME Metrics!EvaluateRule(p) PROVE Sampled'
  <2>1. PICK next \in e.todo :
           /\ Metrics!Evaluator!Apply(p, next[1], e.node, e.level > next[2])
           /\ Metrics!Continue(p, [e EXCEPT !.pc = "call", !.todo = @ \ {next}])
    BY <1>1, <1>4, Zenon DEF Metrics!EvaluateRule
  <2>2. PICK t, r, n, met : /\ t = [e EXCEPT !.pc = "call", !.todo = @ \ {next}]
                            /\ r = next[1] /\ n = e.node /\ met = (e.level > next[2])
    OBVIOUS
  <2>3. Evaluator!Apply(p, r, n, met) /\ t.pc = "call"
    BY <1>2, <2>1, <2>2, SameStatements, ErrandFields
  <2>4. HasSample(r, n)
    <3>1. e.pc = "rules" /\ r \in Rules
      BY <1>1, <1>2, <1>4, <2>2, ErrandFields DEF Metrics!EvaluateRule, Metrics!At
    <3> QED BY <1>2, <2>1, <2>2, <3>1 DEF ErrandOK, HasSample
  <2>5. HasSample(r, n)'
    BY <2>4, SampleStays
  <2>6. ASSUME NEW f, Evaluator!Goto(p, f), f.pc = "create" => f.rule = r /\ f.target = n
        PROVE  Sampled'
    <3>1. UNCHANGED alerts
      BY <2>3 DEF Evaluator!Apply
    <3>2. f.pc = "create" => HasSample(f.rule, f.target)'
      BY <2>5, <2>6 DEF HasSample, Born
    <3>3. Calls(t, f)
      BY <2>3 DEF Calls
    <3> QED BY <1>3, <2>1, <2>2, <2>6, <3>1, <3>2, <3>3, SampledMoved
  <2> QED BY <2>3, <2>6, FrameFields DEF Evaluator!Apply
<1>5. ASSUME Metrics!ReconcileRule(p) PROVE Sampled'
  <2>1. PICK t : t = [e EXCEPT !.pc = "reconciling"]
    OBVIOUS
  <2>2. t.pc = "reconciling" /\ Metrics!Continue(p, t)
    BY <1>1, <1>2, <1>5, <2>1, ErrandFields DEF Metrics!ReconcileRule
  <2>3. Evaluator!Reconcile(p, e.rule, e.ruleRow)
    BY <1>1, <1>5, SameStatements DEF Metrics!ReconcileRule
  <2>4. PICK queue, why : Evaluator!Goto(p, Evaluator!Closing(queue, why))
    BY <2>3, Zenon DEF Evaluator!Reconcile
  <2>5. PICK f : f = Evaluator!Closing(queue, why)
    OBVIOUS
  <2>6. f.pc # "create" /\ Calls(t, f) /\ Evaluator!Goto(p, f)
    BY <2>2, <2>4, <2>5, ClosingFields DEF Calls
  <2>7. UNCHANGED alerts
    BY <2>3 DEF Evaluator!Reconcile
  <2> QED BY <1>3, <2>2, <2>6, <2>7, SampledMoved
<1> QED BY <1>4, <1>5

\* A handler has its answer, or a call breaks off.
LEMMA SampledReturn ==
    ASSUME MetricsInv, Sampled, Grows, NEW p \in MetricHandlers,
           Metrics!EndCall(p) \/ Metrics!EndReconcile(p) \/ Metrics!AbortCall(p)
    PROVE  Sampled'
<1>1. UNCHANGED alerts
  BY SameStatements DEF Metrics!EndCall, Metrics!EndReconcile, Metrics!AbortCall,
     Evaluator!Return, Evaluator!Fail
<1>2. \A a \in AlertIds : Supported(a)'
  BY <1>1, SupportStays DEF Sampled
<1>3. CASE Metrics!EndCall(p) \/ Metrics!EndReconcile(p)
  <2>1. PICK t : Metrics!Continue(p, t)
    BY <1>3 DEF Metrics!EndCall, Metrics!EndReconcile
  <2>2. PICK f : f = Evaluator!Idle
    OBVIOUS
  <2>3. Evaluator!Goto(p, f) /\ Calls(t, f) /\ f.pc # "create"
    BY <1>3, <2>2, SameStatements, IdleOwesNothing
    DEF Metrics!EndCall, Metrics!EndReconcile, Evaluator!Return, Calls
  <2> QED BY <1>2, <2>1, <2>3, SampledMoved
<1>4. CASE Metrics!AbortCall(p)
  <2>1. PICK t, f : t = errand[p] /\ f = Evaluator!Failed
    OBVIOUS
  <2>2. Metrics!Continue(p, t) /\ t.pc \in {"call", "reconciling"}
    BY <1>4, <2>1, MetricRows DEF Metrics!AbortCall, Metrics!Continue
  <2>3. Evaluator!Goto(p, f)
    BY <1>4, <2>1, SameStatements DEF Metrics!AbortCall, Evaluator!Fail
  <2>4. f.pc # "create"
    <3>1. Evaluator!Idle = [pc |-> "idle", rule |-> None, target |-> None,
                            alert |-> None, reason |-> None, queue |-> {}]
      BY DEF Evaluator!Idle
    <3> QED BY <2>1, <3>1 DEF Evaluator!Failed
  <2> QED BY <1>2, <2>2, <2>3, <2>4, SampledMoved DEF Calls
<1> QED BY <1>3, <1>4

\* A statement of the evaluator opens an alert if that is what it was to do,
\* and goes on to another.
LEMMA SampledStep ==
    ASSUME MetricsInv, Sampled, Grows, NEW p \in MetricHandlers, Metrics!EvaluatorStep(p)
    PROVE  Sampled'
<1>1. Evaluator!Step(p) /\ UNCHANGED errand
  BY SameStatements DEF Metrics!EvaluatorStep
<1>2. PICK t : t = errand[p]
  OBVIOUS
<1>3. Metrics!Continue(p, t) /\ t.pc \in {"call", "reconciling"}
  <2>1. call[p].pc # "idle"
    BY <1>1, StepsAreBusy
  <2>2. t.pc \in {"call", "reconciling"}
    BY <1>2, <2>1, IdleOwesNothing DEF Sampled, Calls
  <2> QED BY <1>1, <1>2, <2>2, MetricRows DEF Metrics!Continue
<1>4. call[p] \in [pc : {"idle", "create", "logTriggered", "sendTriggered",
                    "resolve", "logResolved", "sendResolved",
                    "close", "logClosed", "done", "failed"},
          rule   : Rules \cup {None},
          target : Nodes \cup {None},
          alert  : AlertIds \cup {None},
          reason : Metrics!Evaluator!ClosureReasons \cup {None},
          queue  : SUBSET AlertIds]
  BY MetricRows DEF BarFrame, Metrics!Evaluator!Frame
<1>5. ASSUME NEW f, Evaluator!Goto(p, f), f.pc # "create",
             \A a \in AlertIds : alerts'[a].status = "active" => alerts'[a] = alerts[a]
      PROVE  Sampled'
  <2>1. \A a \in AlertIds : Supported(a)'
    BY <1>5, SupportStays DEF Sampled
  <2> QED BY <1>3, <1>5, <2>1, SampledMoved DEF Calls
<1>6. CASE Evaluator!Create(p)
  <2>1. PICK r, n : r = call[p].rule /\ n = call[p].target
    OBVIOUS
  <2>2. PICK a \in AlertIds : /\ Evaluator!InsertActive(a, r, n)
                              /\ Evaluator!Goto(p, Evaluator!Handling("logTriggered", a))
    BY <1>6, <2>1 DEF Evaluator!Create
  <2>3. PICK row, f : /\ row = [status |-> "active", rule |-> r, target |-> n, reason |-> None]
                      /\ f = Evaluator!Handling("logTriggered", a)
    OBVIOUS
  <2>4. /\ alerts'[a] = row /\ \A b \in AlertIds \ {a} : alerts'[b] = alerts[b]
        /\ row.rule = r /\ row.target = n
    BY <2>2, <2>3, MetricRows DEF Evaluator!InsertActive
  <2>5. HasSample(r, n)'
    <3>1. HasSample(r, n)
      BY <1>6, <2>1 DEF Sampled, Evaluator!Create, Evaluator!At
    <3> QED BY <3>1, SampleStays
  <2>6. Supported(a)'
    BY <2>4, <2>5 DEF Supported, HasSample, Born
  <2>7. \A b \in AlertIds \ {a} : Supported(b)'
    BY <2>4, SupportStays DEF Sampled
  <2>8. f.pc # "create" /\ Evaluator!Goto(p, f)
    BY <2>2, <2>3, FrameFields
  <2> QED BY <1>3, <2>6, <2>7, <2>8, SampledMoved DEF Calls
<1>7. CASE Evaluator!CreateLost(p) \/ Evaluator!ResolveLost(p) \/ Evaluator!SendTriggered(p)
           \/ Evaluator!SendResolved(p)
  BY <1>5, <1>7, FrameFields DEF Evaluator!CreateLost, Evaluator!ResolveLost,
     Evaluator!SendTriggered, Evaluator!SendResolved, Evaluator!Send
<1>8. CASE Evaluator!CreateRefused(p)
  <2>1. Evaluator!Failed.pc = "failed"
    <3>1. Evaluator!Idle = [pc |-> "idle", rule |-> None, target |-> None,
                            alert |-> None, reason |-> None, queue |-> {}]
      BY DEF Evaluator!Idle
    <3> QED BY <3>1 DEF Evaluator!Failed
  <2> QED BY <1>5, <1>8, <2>1 DEF Evaluator!CreateRefused
<1>9. CASE Evaluator!Resolve(p)
  <2>1. PICK a, row, f : /\ a = call[p].alert /\ row = [alerts[a] EXCEPT !.status = "resolved"]
                         /\ f = Evaluator!Handling("logResolved", a)
    OBVIOUS
  <2>2. alerts' = [alerts EXCEPT ![a] = row] /\ Evaluator!Goto(p, f) /\ f.pc # "create"
    BY <1>9, <2>1, FrameFields DEF Evaluator!Resolve, Evaluator!MarkResolved
  <2>3. a \in AlertIds => row.status = "resolved"
    BY <2>1, MetricRows DEF BarAlert, Metrics!Evaluator!AlertRow
  <2>4. \A b \in AlertIds : alerts'[b] = IF b = a THEN row ELSE alerts[b]
    BY <2>2, MetricRows
  <2> QED BY <1>5, <2>2, <2>3, <2>4
<1>10. CASE Evaluator!Close(p)
  <2>1. PICK a \in AlertIds :
           /\ Evaluator!MarkClosed(a, call[p].reason)
           /\ Evaluator!Goto(p, [call[p] EXCEPT !.pc = "logClosed", !.alert = a,
                                                !.queue = @ \ {a}])
    BY <1>10, Zenon DEF Evaluator!Close
  <2>2. PICK row, f :
           /\ row = [alerts[a] EXCEPT !.status = "closed", !.reason = call[p].reason]
           /\ f = [call[p] EXCEPT !.pc = "logClosed", !.alert = a, !.queue = @ \ {a}]
    OBVIOUS
  <2>3. Evaluator!Goto(p, f) /\ f.pc # "create"
    BY <1>4, <2>1, <2>2
  <2>4. alerts' = [alerts EXCEPT ![a] = row]
    BY <2>1, <2>2 DEF Evaluator!MarkClosed
  <2>5. row.status = "closed"
    BY <2>2, MetricRows DEF BarAlert, Metrics!Evaluator!AlertRow
  <2>6. \A b \in AlertIds : alerts'[b] = IF b = a THEN row ELSE alerts[b]
    BY <2>4, MetricRows
  <2> QED BY <1>5, <2>3, <2>5, <2>6
<1>11. CASE Evaluator!CloseLost(p) \/ Evaluator!LogClosed(p)
  <2>1. PICK queue, why : Evaluator!Goto(p, Evaluator!Closing(queue, why)) /\ UNCHANGED alerts
    BY <1>11, Zenon DEF Evaluator!CloseLost, Evaluator!LogClosed
  <2> QED BY <1>5, <2>1, ClosingFields
<1>12. CASE Evaluator!LogTriggered(p) \/ Evaluator!LogResolved(p)
  <2>1. PICK pc \in {"sendTriggered", "sendResolved"} :
           Evaluator!Goto(p, [call[p] EXCEPT !.pc = pc]) /\ UNCHANGED alerts
    BY <1>12 DEF Evaluator!LogTriggered, Evaluator!LogResolved
  <2>2. PICK f : f = [call[p] EXCEPT !.pc = pc]
    OBVIOUS
  <2>3. f.pc # "create"
    BY <1>4, <2>2
  <2> QED BY <1>5, <2>1, <2>2, <2>3
<1> QED BY <1>1, <1>6, <1>7, <1>8, <1>9, <1>10, <1>11, <1>12 DEF Evaluator!Step

\* A rule goes with its alerts, and readings come.
LEMMA SampledBeside ==
    ASSUME MetricsInv, Sampled, Grows,
           \/ \E r \in Rules : Metrics!DeleteRule(r)
           \/ UNCHANGED <<alerts, call, errand>>
    PROVE  Sampled'
<1>1. UNCHANGED <<call, errand>>
  BY SameStatements DEF Metrics!DeleteRule, Evaluator!DropRule
<1>2. \A a \in AlertIds : alerts'[a].status = "active" => alerts'[a] = alerts[a]
  <2>1. ASSUME NEW r \in Rules, Metrics!DeleteRule(r), NEW a \in AlertIds,
               alerts'[a].status = "active"
        PROVE  alerts'[a] = alerts[a]
    <3>1. PICK row : row = [alerts[a] EXCEPT !.status = "deleted"]
      OBVIOUS
    <3>2. row.status = "deleted"
      BY <3>1, MetricRows DEF BarAlert, Metrics!Evaluator!AlertRow
    <3>3. alerts'[a] = IF alerts[a].rule = r THEN row ELSE alerts[a]
      BY <2>1, <3>1, SameStatements
      DEF Metrics!DeleteRule, Evaluator!DropRule, Evaluator!DropAlertsOf
    <3> QED BY <2>1, <3>2, <3>3
  <2> QED BY <2>1
<1>3. \A a \in AlertIds : Supported(a)'
  BY <1>2, SupportStays DEF Sampled
<1>4. ASSUME NEW q \in MetricHandlers, call[q].pc = "create"
      PROVE  HasSample(call[q].rule, call[q].target)'
  <2>1. PICK r, n : r = call[q].rule /\ n = call[q].target
    OBVIOUS
  <2>2. HasSample(r, n)'
    BY <1>4, <2>1, SampleStays DEF Sampled
  <2> QED BY <1>1, <2>1, <2>2 DEF HasSample, Born
<1> QED BY <1>1, <1>3, <1>4 DEF Sampled, Calls

\* So it is from the start,
LEMMA SampledInit == Metrics!Init => Sampled
<1> SUFFICES ASSUME Metrics!Init PROVE Sampled
  OBVIOUS
<1>1. /\ \A p \in MetricHandlers : call[p] = Metrics!Evaluator!Idle
      /\ \A a \in AlertIds : alerts[a] = Metrics!Evaluator!NoRow
  BY DEF Metrics!Init, Metrics!Evaluator!Init
<1>2. Metrics!Evaluator!NoRow.status = "none"
  BY DEF Metrics!Evaluator!NoRow
<1> QED BY <1>1, <1>2, SameStatements, IdleOwesNothing DEF Sampled, Supported, Calls

\* and after every step.
LEMMA SampledNext ==
    ASSUME MetricsInv, Sampled, [Metrics!Next]_(Metrics!vars)
    PROVE  Sampled'
<1>1. Grows
  BY MetricsNextTyped DEF MetricsInv
<1>2. ASSUME NEW p \in MetricHandlers,
             \/ \E n \in Nodes : \E t \in DOMAIN readings[n] : Metrics!Deliver(p, n, t)
             \/ Metrics!Edit(p) \/ Metrics!StoreSample(p) \/ Metrics!ReadLatest(p)
             \/ Metrics!ListRules(p) \/ Metrics!LoadNodes(p) \/ Metrics!EvaluateNode(p)
             \/ Metrics!Abort(p)
      PROVE  Sampled'
  <2>1. UNCHANGED <<alerts, call>>
    BY <1>2, SameStatements DEF Metrics!Deliver, Metrics!Edit, Metrics!CreateRule,
       Metrics!UpdateRule, Metrics!PutRule, Evaluator!PutRule, Metrics!StoreSample,
       Metrics!ReadLatest, Metrics!ListRules, Metrics!LoadNodes, Metrics!EvaluateNode,
       Metrics!Abort, Metrics!evaluatorVars
  <2>2. \E t : Metrics!Continue(p, t)
    BY <1>2, Zenon DEF Metrics!Deliver, Metrics!Edit, Metrics!CreateRule,
       Metrics!UpdateRule, Metrics!StoreSample,
       Metrics!ReadLatest, Metrics!ListRules, Metrics!LoadNodes, Metrics!EvaluateNode,
       Metrics!Abort
  <2>3. errand[p].pc \notin {"call", "reconciling"}
    BY <1>2 DEF Metrics!Deliver, Metrics!Edit, Metrics!CreateRule,
       Metrics!UpdateRule, Metrics!StoreSample, Metrics!At,
       Metrics!ReadLatest, Metrics!ListRules, Metrics!LoadNodes, Metrics!EvaluateNode,
       Metrics!Abort
  <2> QED BY <1>1, <2>1, <2>2, <2>3, SampledOutside
<1>3. CASE UNCHANGED Metrics!vars
  BY <1>1, <1>3, SampledBeside DEF Metrics!vars, Metrics!evaluatorVars
<1>4. CASE Metrics!Begin
  <2>1. ASSUME NEW n \in Nodes, NEW reading \in Readings, Metrics!Collect(n, reading)
        PROVE  Sampled'
    BY <1>1, <2>1, SampledBeside DEF Metrics!Collect, Metrics!evaluatorVars
  <2> QED BY <1>1, <1>2, <1>4, <2>1, SampledBeside DEF Metrics!Begin
<1>5. ASSUME NEW p \in MetricHandlers, Metrics!Work(p) \/ Metrics!Break(p) PROVE Sampled'
  BY <1>1, <1>2, <1>5, SampledCall, SampledReturn, SampledStep DEF Metrics!Work, Metrics!Break
<1> QED BY <1>3, <1>4, <1>5 DEF Metrics!Next

-----------------------------------------------------------------------------
(* Requests about metrics that nothing overlaps.  Whatever does not fit    *)
(* is still owed by the errand under way.                                  *)

\* r has the alert for n that it should.
Fits(r, n) == Metrics!Watches(r, n) => (Evaluator!ActiveFor(r, n) # {} <=> Metrics!Exceeds(r, n))

\* Samples of the metric of r that are left in the batch, or nodes that are
\* left to be looked at for it.
ToCome(t, r, n) ==
    \/ /\ 0 < t.turn /\ t.node = n
       /\ \E i \in DOMAIN Batch : i > t.turn /\ Batch[i] = about[r].name
    \/ n \in t.rest /\ t.name = about[r].name

\* r and n are still to be looked at.
ErrandOwes(t, r, n) ==
    \/ ToCome(t, r, n)
    \/ t.pc = "store" /\ t.node = n /\ Batch[t.turn] = about[r].name
    \/ t.pc \in {"latest", "list"} /\ t.node = n /\ t.name = about[r].name
    \/ t.pc \in {"rules", "call"} /\ t.node = n /\ <<r, about[r].bar>> \in t.todo
    \/ t.pc \in {"reconcile", "reconciling", "load"} /\ t.rule = r

\* What the errand has read is so still.
ErrandCurrent(t) ==
    /\ t.pc \in {"list", "rules", "call"} => t.level = Metrics!Latest(t.node, t.name)
    /\ \A x \in t.todo : Metrics!Watches(x[1], t.node) /\ x[2] = about[x[1]].bar
    /\ t.pc \in {"reconcile", "reconciling", "load"}
          => t.ruleRow = rules[t.rule] /\ t.rest = {} /\ t.turn = 0

\* What its call is about to do is right.
FrameCurrent(f) ==
    /\ f.pc # "failed"
    /\ f.pc \in {"close", "logClosed"} \/ f.queue = {}
    /\ f.pc = "create" => /\ f.rule \in Rules /\ f.target \in Nodes
                          /\ Metrics!Watches(f.rule, f.target)
                          /\ Metrics!Exceeds(f.rule, f.target)
    /\ f.pc = "resolve" => /\ f.alert \in AlertIds /\ alerts[f.alert].status = "active"
                           /\ ~Metrics!Exceeds(alerts[f.alert].rule, alerts[f.alert].target)
    /\ \A a \in f.queue : /\ alerts[a].status = "active"
                          /\ ~Metrics!Watches(alerts[a].rule, alerts[a].target)

Owed(t, f) ==
    \A r \in Rules, n \in sound : Fits(r, n) \/ ErrandOwes(t, r, n) \/ CallOwes(f, r, n)

Alone(p) == \A q \in MetricHandlers \ {p} : errand[q] = Metrics!NoTask /\ call[q] = Evaluator!Idle

\* p is the one under way, if one is.
OnErrand(p) ==
    /\ Alone(p)
    /\ ErrandCurrent(errand[p])
    /\ FrameCurrent(call[p])
    /\ Owed(errand[p], call[p])

\* Once requests have overlapped nothing is promised, until one is served alone.
Heard == sound # {} => \E p \in MetricHandlers : OnErrand(p)

\* A handler that does nothing owes nothing.
LEMMA NoErrandOwesNothing ==
    /\ ErrandCurrent(Metrics!NoTask) /\ FrameCurrent(Evaluator!Idle)
    /\ \A r, n : ~ErrandOwes(Metrics!NoTask, r, n)
<1>1. /\ Metrics!NoTask.pc = "idle" /\ Metrics!NoTask.turn = 0
      /\ Metrics!NoTask.rest = {} /\ Metrics!NoTask.todo = {}
  BY NoErrandFields
<1>2. ErrandCurrent(Metrics!NoTask) /\ \A r, n : ~ErrandOwes(Metrics!NoTask, r, n)
  BY <1>1 DEF ErrandCurrent, ErrandOwes, ToCome
<1> QED BY <1>2, IdleOwesNothing DEF FrameCurrent

\* A step moves the one under way, and only it.
LEMMA ErrandTurn ==
    ASSUME MetricsInv, NEW p \in MetricHandlers, Alone(p), NEW t, NEW f,
           Metrics!Continue(p, t), Evaluator!Goto(p, f),
           ErrandCurrent(t)', FrameCurrent(f)', Owed(t, f)'
    PROVE  OnErrand(p)'
<1>1. errand \in [MetricHandlers -> Metrics!Task] /\ call \in [MetricHandlers -> BarFrame]
  BY MetricRows
<1>2. errand'[p] = t /\ call'[p] = f
  BY <1>1 DEF Metrics!Continue, Evaluator!Goto
<1>3. Alone(p)'
  BY <1>1 DEF Metrics!Continue, Evaluator!Goto, Alone
<1>4. ErrandCurrent(errand[p])'
  BY <1>2 DEF ErrandCurrent
<1>5. FrameCurrent(call[p])'
  BY <1>2 DEF FrameCurrent
<1>6. Owed(errand[p], call[p])'
  <2>1. \A r, n : ErrandOwes(errand[p], r, n)' <=> ErrandOwes(t, r, n)'
    BY <1>2 DEF ErrandOwes, ToCome
  <2>2. \A r, n : CallOwes(call[p], r, n)' <=> CallOwes(f, r, n)'
    BY <1>2 DEF CallOwes
  <2> QED BY <2>1, <2>2 DEF Owed
<1> QED BY <1>3, <1>4, <1>5, <1>6 DEF OnErrand

\* What the rows say does not change while they do not.
LEMMA MetricRowsSame ==
    ASSUME UNCHANGED <<alerts, rules, about, readings, stored>>
    PROVE  /\ \A r, n : /\ Metrics!Watches(r, n)' <=> Metrics!Watches(r, n)
                        /\ Metrics!Exceeds(r, n)' <=> Metrics!Exceeds(r, n)
                        /\ Fits(r, n)' <=> Fits(r, n)
           /\ \A n, name : Metrics!Latest(n, name)' = Metrics!Latest(n, name)
           /\ \A t, r, n : ErrandOwes(t, r, n)' <=> ErrandOwes(t, r, n)
           /\ \A f, r, n : CallOwes(f, r, n)' <=> CallOwes(f, r, n)
<1>1. \A r, n : Metrics!Watches(r, n)' <=> Metrics!Watches(r, n)
  BY DEF Metrics!Watches
<1>2. \A n, name : Metrics!Latest(n, name)' = Metrics!Latest(n, name)
  BY DEF Metrics!Latest
<1>3. \A r, n : Metrics!Exceeds(r, n)' <=> Metrics!Exceeds(r, n)
  BY <1>2 DEF Metrics!Exceeds
<1>4. \A r, n : Evaluator!ActiveFor(r, n)' = Evaluator!ActiveFor(r, n)
  BY DEF Evaluator!ActiveFor
<1>5. \A r, n : Fits(r, n)' <=> Fits(r, n)
  BY <1>1, <1>3, <1>4 DEF Fits
<1>6. \A t, r, n : ErrandOwes(t, r, n)' <=> ErrandOwes(t, r, n)
  BY DEF ErrandOwes, ToCome
<1> QED BY <1>1, <1>2, <1>3, <1>5, <1>6 DEF CallOwes

\* A step that leaves the rows alone moves on if it forgets nothing.
LEMMA QuietErrand ==
    ASSUME MetricsInv, NEW p \in MetricHandlers, OnErrand(p), NEW t, NEW f,
           Metrics!Continue(p, t), Evaluator!Goto(p, f),
           UNCHANGED <<alerts, rules, about, readings, stored>>, sound' = sound,
           ErrandCurrent(t), FrameCurrent(f),
           \A r \in Rules, n \in sound :
              ErrandOwes(errand[p], r, n) \/ CallOwes(call[p], r, n)
                 => Fits(r, n) \/ ErrandOwes(t, r, n) \/ CallOwes(f, r, n)
    PROVE  OnErrand(p)'
<1>1. ErrandCurrent(t)' /\ FrameCurrent(f)'
  BY MetricRowsSame DEF ErrandCurrent, FrameCurrent
<1>2. Owed(t, f)
  BY DEF OnErrand, Owed
<1>3. Owed(t, f)'
  BY <1>2, MetricRowsSame DEF Owed
<1> QED BY <1>1, <1>3, ErrandTurn DEF OnErrand

\* Outside the evaluator, no call is open.
LEMMA QuietOutside ==
    ASSUME MetricsInv, Sampled, NEW p \in MetricHandlers, OnErrand(p), NEW t,
           Metrics!Continue(p, t), errand[p].pc \notin {"call", "reconciling"},
           UNCHANGED <<call, alerts, rules, about, readings, stored>>, sound' = sound,
           ErrandCurrent(t),
           \A r \in Rules, n \in sound :
              ErrandOwes(errand[p], r, n) => Fits(r, n) \/ ErrandOwes(t, r, n)
    PROVE  OnErrand(p)'
<1>1. PICK f : f = Evaluator!Idle
  OBVIOUS
<1>2. f = call[p] /\ FrameCurrent(f) /\ \A r, n : ~CallOwes(f, r, n)
  BY <1>1, IdleOwesNothing, NoErrandOwesNothing DEF Sampled, Calls
<1>3. Evaluator!Goto(p, f)
  BY <1>2, MetricRows DEF Evaluator!Goto
<1> QED BY <1>2, <1>3, QuietErrand

\* With nothing under way everything fits, and whoever begins is the one.
LEMMA AnyonesErrand ==
    ASSUME Sampled, Heard, Metrics!Settled
    PROVE  /\ \A p \in MetricHandlers : /\ errand[p] = Metrics!NoTask
                                        /\ call[p] = Evaluator!Idle /\ Alone(p)
           /\ \A r \in Rules, n \in sound : Fits(r, n)
<1>1. \A p \in MetricHandlers : errand[p] = Metrics!NoTask
  BY DEF Metrics!Settled
<1>2. \A p \in MetricHandlers : call[p] = Evaluator!Idle
  BY <1>1, NoErrandFields DEF Sampled, Calls
<1>3. ASSUME NEW r \in Rules, NEW n \in sound PROVE Fits(r, n)
  <2>1. PICK p \in MetricHandlers : OnErrand(p)
    BY <1>3 DEF Heard
  <2> QED BY <1>1, <1>2, <2>1, IdleOwesNothing, NoErrandOwesNothing DEF OnErrand, Owed
<1> QED BY <1>1, <1>2, <1>3 DEF Alone

\* What is left of an errand when the rules of its sample are through.
LEMMA AfterRulesKeeps ==
    ASSUME NEW t \in Metrics!Task, 0 < t.turn => t.rest = {}
    PROVE  /\ ErrandCurrent(Metrics!AfterRules(t))
           /\ \A r, n : ToCome(t, r, n) => ErrandOwes(Metrics!AfterRules(t), r, n)
<1>1. CASE 0 < t.turn /\ t.turn < Len(Batch)
  <2>1. PICK u : u = Metrics!AfterRules(t)
    OBVIOUS
  <2>2. u = [Metrics!NoTask EXCEPT
             !.pc = "store", !.node = t.node, !.at = t.at, !.turn = t.turn + 1]
    BY <1>1, <2>1 DEF Metrics!AfterRules
  <2>3. u.pc = "store" /\ u.node = t.node /\ u.turn = t.turn + 1 /\ u.todo = {} /\ u.rest = {}
    BY <2>2, NoErrandFields
  <2>4. ErrandCurrent(u)
    BY <2>3 DEF ErrandCurrent
  <2>5. ASSUME NEW r, NEW n, ToCome(t, r, n) PROVE ErrandOwes(u, r, n)
    <3>1. PICK i \in DOMAIN Batch : t.node = n /\ i > t.turn /\ Batch[i] = about[r].name
      BY <1>1, <2>5 DEF ToCome
    <3>2. i \in Nat /\ t.turn \in Nat
      BY <3>1, MetricConstants, ErrandFields
    <3>3. i = u.turn \/ i > u.turn
      BY <2>3, <3>1, <3>2
    <3>4. 0 < u.turn
      BY <2>3, <3>2
    <3> QED BY <2>3, <3>1, <3>3, <3>4 DEF ErrandOwes, ToCome
  <2> QED BY <2>1, <2>4, <2>5
<1>2. CASE ~(0 < t.turn /\ t.turn < Len(Batch))
  <2>1. ASSUME NEW r, NEW n, ToCome(t, r, n) PROVE n \in t.rest /\ t.name = about[r].name
    <3>1. ASSUME NEW i \in DOMAIN Batch, i > t.turn, 0 < t.turn PROVE FALSE
      BY <1>2, <3>1, MetricConstants, ErrandFields
    <3> QED BY <2>1, <3>1 DEF ToCome
  <2>2. CASE t.rest # {}
    <3>1. PICK u : u = Metrics!AfterRules(t)
      OBVIOUS
    <3>2. u = [Metrics!NoTask EXCEPT !.pc = "evaluate", !.rest = t.rest, !.name = t.name]
      BY <1>2, <2>2, <3>1 DEF Metrics!AfterRules
    <3>3. u.pc = "evaluate" /\ u.rest = t.rest /\ u.name = t.name /\ u.todo = {}
      BY <3>2, NoErrandFields
    <3>4. ErrandCurrent(u)
      BY <3>3 DEF ErrandCurrent
    <3> QED BY <2>1, <3>1, <3>3, <3>4 DEF ErrandOwes, ToCome
  <2>3. CASE t.rest = {}
    BY <1>2, <2>1, <2>3, NoErrandOwesNothing DEF Metrics!AfterRules
  <2> QED BY <2>2, <2>3
<1> QED BY <1>1, <1>2

\* And after one of the rules.
LEMMA NextBarKeeps ==
    ASSUME NEW t \in Metrics!Task, 0 < t.turn => t.rest = {},
           t.level = Metrics!Latest(t.node, t.name),
           \A x \in t.todo : Metrics!Watches(x[1], t.node) /\ x[2] = about[x[1]].bar
    PROVE  /\ ErrandCurrent(Metrics!NextRule(t))
           /\ \A r, n : ToCome(t, r, n) => ErrandOwes(Metrics!NextRule(t), r, n)
           /\ \A r, n : t.node = n /\ <<r, about[r].bar>> \in t.todo
                           => ErrandOwes(Metrics!NextRule(t), r, n)
<1>1. CASE t.todo # {}
  <2>1. PICK u : u = Metrics!NextRule(t)
    OBVIOUS
  <2>2. u = [t EXCEPT !.pc = "rules"]
    BY <1>1, <2>1 DEF Metrics!NextRule
  <2>3. /\ u.pc = "rules" /\ u.node = t.node /\ u.name = t.name /\ u.level = t.level
        /\ u.turn = t.turn /\ u.rest = t.rest /\ u.todo = t.todo
    BY <2>2, ErrandFields
  <2>4. ErrandCurrent(u)
    BY <2>3 DEF ErrandCurrent
  <2>5. \A r, n : ToCome(t, r, n) => ErrandOwes(u, r, n)
    BY <2>3 DEF ErrandOwes, ToCome
  <2>6. \A r, n : t.node = n /\ <<r, about[r].bar>> \in t.todo => ErrandOwes(u, r, n)
    BY <2>3 DEF ErrandOwes
  <2> QED BY <2>1, <2>4, <2>5, <2>6
<1>2. CASE t.todo = {}
  BY <1>2, AfterRulesKeeps DEF Metrics!NextRule
<1> QED BY <1>1, <1>2

\* A batch arrives: all its samples are to be looked at.
LEMMA DeliverErrand ==
    ASSUME MetricsInv, Sampled, Heard, NEW p \in MetricHandlers,
           NEW n \in Nodes, NEW at \in DOMAIN readings[n], Metrics!Deliver(p, n, at), sound' # {}
    PROVE  OnErrand(p)'
<1>1. PICK t : t = [Metrics!NoTask EXCEPT !.pc = "store", !.node = n, !.at = at, !.turn = 1]
  OBVIOUS
<1>2. Metrics!Continue(p, t)
  BY <1>1, Zenon DEF Metrics!Deliver
<1>3. t.pc = "store" /\ t.node = n /\ t.turn = 1 /\ t.todo = {}
  BY <1>1, NoErrandFields
<1>4. /\ Metrics!Settled /\ sound' = sound \cup {n}
      /\ UNCHANGED <<alerts, call, rules, about, readings, stored>>
  BY DEF Metrics!Deliver, Metrics!Begins, Metrics!Upset, Metrics!evaluatorVars, Metrics!metricVars
<1>5. call[p] = Evaluator!Idle /\ Alone(p) /\ \A r \in Rules, m \in sound : Fits(r, m)
  BY <1>4, AnyonesErrand
<1>6. PICK f : f = Evaluator!Idle
  OBVIOUS
<1>7. Evaluator!Goto(p, f)
  BY <1>4, <1>5, <1>6, MetricRows DEF Evaluator!Goto
<1>8. ErrandCurrent(t)' /\ FrameCurrent(f)'
  BY <1>3, <1>6, IdleOwesNothing DEF ErrandCurrent, FrameCurrent
<1>9. ASSUME NEW r \in Rules, NEW m \in sound' PROVE Fits(r, m) \/ ErrandOwes(t, r, m)
  <2>1. CASE ~Born(r)
    BY <2>1 DEF Fits, Metrics!Watches, Born
  <2>2. CASE Born(r) /\ m = n
    <3>1. PICK i \in DOMAIN Batch : Batch[i] = about[r].name
      BY <2>2, BornAbout, MetricConstants
    <3>2. i = 1 \/ i > 1
      BY <3>1, MetricConstants
    <3> QED BY <1>3, <2>2, <3>1, <3>2 DEF ErrandOwes, ToCome
  <2>3. CASE m # n
    BY <1>4, <1>5, <1>9, <2>3
  <2> QED BY <2>1, <2>2, <2>3
<1>10. Owed(t, f)'
  BY <1>4, <1>9, MetricRowsSame DEF Owed
<1> QED BY <1>2, <1>5, <1>7, <1>8, <1>10, ErrandTurn

\* A sample is stored: the rules of its metric are to be looked at.
LEMMA StoreErrand ==
    ASSUME MetricsInv, Sampled, NEW p \in MetricHandlers, OnErrand(p), Metrics!StoreSample(p)
    PROVE  OnErrand(p)'
<1>1. PICK e, name : e = errand[p] /\ name = Batch[e.turn]
  OBVIOUS
<1>2. e \in Metrics!Task /\ ErrandOK(e) /\ e.pc = "store"
  BY <1>1, MetricRows DEF Metrics!StoreSample, Metrics!At
<1>3. PICK t, f : t = [e EXCEPT !.pc = "latest", !.name = name] /\ f = Evaluator!Idle
  OBVIOUS
<1>4. /\ t.pc = "latest" /\ t.node = e.node /\ t.name = name /\ t.turn = e.turn
      /\ t.todo = {} /\ e.rest = {} /\ e.todo = {} /\ t.rest = {}
  <2>1. 0 < e.turn /\ e.rest = {} /\ e.todo = {}
    BY <1>2 DEF ErrandOK
  <2> QED BY <1>2, <1>3, <2>1, ErrandFields
<1>5. call[p] = f
  BY <1>1, <1>2, <1>3 DEF Sampled, Calls
<1>6. /\ Metrics!Continue(p, t) /\ Evaluator!Goto(p, f)
      /\ UNCHANGED <<alerts, rules, about, readings, sound>>
  <2>1. /\ Metrics!Continue(p, t) /\ UNCHANGED <<alerts, rules, about, readings, sound, call>>
    BY <1>1, <1>3 DEF Metrics!StoreSample, Metrics!evaluatorVars, Metrics!history
  <2> QED BY <1>5, <2>1, MetricRows DEF Evaluator!Goto
<1>7. \A m \in Nodes, k \in Names : m # e.node \/ k # name => stored'[m][k] = stored[m][k]
  <2>1. stored' = [stored EXCEPT ![e.node][name] = @ \cup {e.at}]
    BY <1>1 DEF Metrics!StoreSample
  <2>2. stored \in [Nodes -> [Names -> SUBSET Nat]]
    BY DEF MetricsInv, MetricsTypeOK, SamplesTypeOK
  <2> QED BY <2>1, <2>2
<1>8. ErrandCurrent(t)' /\ FrameCurrent(f)'
  BY <1>3, <1>4, IdleOwesNothing DEF ErrandCurrent, FrameCurrent
<1>9. ASSUME NEW r \in Rules, NEW n \in sound
      PROVE  Fits(r, n)' \/ ErrandOwes(t, r, n)' \/ CallOwes(f, r, n)'
  <2>1. CASE ~Born(r)
    BY <1>6, <2>1 DEF Fits, Metrics!Watches, Born
  <2>2. CASE Born(r) /\ n = e.node /\ about[r].name = name
    BY <1>4, <1>6, <2>2 DEF ErrandOwes
  <2>3. CASE Born(r) /\ ~(n = e.node /\ about[r].name = name)
    <3>1. n \in Nodes /\ about[r].name \in Names
      BY <2>3, BornAbout DEF MetricsInv, MetricsTypeOK
    <3>2. stored'[n][about[r].name] = stored[n][about[r].name]
      BY <1>7, <2>3, <3>1
    <3>3. Metrics!Exceeds(r, n)' <=> Metrics!Exceeds(r, n)
      BY <1>6, <3>2 DEF Metrics!Exceeds, Metrics!Latest
    <3>4. Evaluator!ActiveFor(r, n)' = Evaluator!ActiveFor(r, n)
      BY <1>6 DEF Evaluator!ActiveFor
    <3>5. Fits(r, n)' <=> Fits(r, n)
      BY <1>6, <3>3, <3>4 DEF Fits, Metrics!Watches
    <3>6. ~CallOwes(f, r, n)
      BY <1>3, IdleOwesNothing
    <3>7. Fits(r, n) \/ ErrandOwes(e, r, n)
      BY <1>1, <1>5, <3>6 DEF OnErrand, Owed
    <3>8. ErrandOwes(e, r, n) => ErrandOwes(t, r, n)'
      <4>1. ErrandOwes(e, r, n) => ToCome(e, r, n)
        BY <1>1, <1>2, <2>3 DEF ErrandOwes
      <4>2. ToCome(e, r, n) => ToCome(t, r, n)
        BY <1>4 DEF ToCome
      <4>3. ToCome(t, r, n)' <=> ToCome(t, r, n)
        BY <1>6 DEF ToCome
      <4> QED BY <4>1, <4>2, <4>3 DEF ErrandOwes
    <3> QED BY <3>5, <3>7, <3>8
  <2> QED BY <2>1, <2>2, <2>3
<1>10. Owed(t, f)'
  BY <1>6, <1>9 DEF Owed
<1> QED BY <1>6, <1>8, <1>10, ErrandTurn DEF OnErrand

\* The latest sample is read: without one, nothing is alerting.
LEMMA ReadErrand ==
    ASSUME MetricsInv, Sampled, NEW p \in MetricHandlers, OnErrand(p), Metrics!ReadLatest(p)
    PROVE  OnErrand(p)'
<1>1. PICK e, level : e = errand[p] /\ level = Metrics!Latest(e.node, e.name)
  OBVIOUS
<1>2. e \in Metrics!Task /\ ErrandOK(e) /\ e.pc = "latest" /\ ErrandCurrent(e)
  BY <1>1, MetricRows DEF Metrics!ReadLatest, Metrics!At, OnErrand
<1>3. e.node \in Nodes /\ e.name \in Names /\ (0 < e.turn => e.rest = {}) /\ e.todo = {}
  BY <1>2 DEF ErrandOK
<1>4. PICK u, t : /\ u = [e EXCEPT !.pc = "list", !.level = level]
                  /\ t = IF level = None THEN Metrics!AfterRules(e) ELSE u
  OBVIOUS
<1>5. /\ Metrics!Continue(p, t) /\ sound' = sound
      /\ UNCHANGED <<call, alerts, rules, about, readings, stored>>
  BY <1>1, <1>4
  DEF Metrics!ReadLatest, Metrics!evaluatorVars, Metrics!metricVars, Metrics!history
<1>6. ASSUME NEW r \in Rules, NEW n, ErrandOwes(e, r, n)
      PROVE  ToCome(e, r, n) \/ (e.node = n /\ e.name = about[r].name)
  <2>1. e.pc = "latest"
    BY <1>2
  <2> QED BY <1>6, <2>1 DEF ErrandOwes
<1>7. CASE level = None
  <2>1. ErrandCurrent(t) /\ \A r, n : ToCome(e, r, n) => ErrandOwes(t, r, n)
    BY <1>2, <1>3, <1>4, <1>7, AfterRulesKeeps
  <2>2. ASSUME NEW r \in Rules, e.name = about[r].name PROVE Fits(r, e.node)
    <3>1. stored[e.node][e.name] = {}
      <4>1. SamplesTypeOK
        BY DEF MetricsInv, MetricsTypeOK
      <4>2. /\ stored[e.node][e.name] # {} => level \in Metrics!Levels
            /\ None \notin Metrics!Levels
        BY <1>1, <1>3, <4>1, LatestTyped
      <4> QED BY <1>7, <4>2
    <3>2. ~Metrics!Exceeds(r, e.node)
      BY <1>1, <1>7, <2>2 DEF Metrics!Exceeds
    <3>3. Evaluator!ActiveFor(r, e.node) = {}
      BY <2>2, <3>1 DEF Evaluator!ActiveFor, Sampled, Supported, HasSample
    <3> QED BY <3>2, <3>3 DEF Fits
  <2> QED BY <1>1, <1>2, <1>5, <1>6, <2>1, <2>2, QuietOutside
<1>8. CASE level # None
  <2>1. /\ t.pc = "list" /\ t.node = e.node /\ t.name = e.name /\ t.level = level
        /\ t.turn = e.turn /\ t.rest = e.rest /\ t.todo = e.todo
    BY <1>2, <1>4, <1>8, ErrandFields
  <2>2. ErrandCurrent(t)
    BY <1>1, <1>3, <2>1 DEF ErrandCurrent
  <2>3. \A r, n : ToCome(e, r, n) => ToCome(t, r, n)
    BY <2>1 DEF ToCome
  <2>4. \A r \in Rules, n \in sound : ErrandOwes(e, r, n) => ErrandOwes(t, r, n)
    BY <1>6, <2>1, <2>3 DEF ErrandOwes
  <2> QED BY <1>1, <1>2, <1>5, <2>2, <2>4, QuietOutside
<1> QED BY <1>7, <1>8

\* The rules of its metric are listed: the others do not watch.
LEMMA ListErrand ==
    ASSUME MetricsInv, Sampled, NEW p \in MetricHandlers, OnErrand(p), Metrics!ListRules(p)
    PROVE  OnErrand(p)'
<1>1. PICK e : e = errand[p]
  OBVIOUS
<1>2. e \in Metrics!Task /\ ErrandOK(e) /\ e.pc = "list" /\ ErrandCurrent(e)
  BY <1>1, MetricRows DEF Metrics!ListRules, Metrics!At, OnErrand
<1>3. /\ e.node \in Nodes /\ (0 < e.turn => e.rest = {})
      /\ e.level = Metrics!Latest(e.node, e.name)
  BY <1>2 DEF ErrandOK, ErrandCurrent
<1>4. PICK listed : listed = {r \in Rules : /\ rules[r].state = "live"
                                            /\ rules[r].enabled
                                            /\ rules[r].scope \in {e.node, All}
                                            /\ about[r].name = e.name}
  OBVIOUS
<1>5. PICK todo, u : /\ todo = {<<r, about[r].bar>> : r \in listed}
                     /\ u = [e EXCEPT !.todo = todo]
  OBVIOUS
<1>6. todo \in SUBSET (Rules \X Bars)
  <2>1. \A r \in listed : r \in Rules /\ Born(r)
    BY <1>4 DEF Born
  <2>2. \A r \in listed : r \in Rules /\ about[r].bar \in Bars
    BY <2>1, BornAbout
  <2> QED BY <1>5, <2>2
<1>7. /\ u \in Metrics!Task /\ u.node = e.node /\ u.name = e.name /\ u.level = e.level
      /\ u.turn = e.turn /\ u.rest = e.rest /\ u.todo = todo
  BY <1>2, <1>5, <1>6, ErrandFields
<1>8. /\ \A x \in todo : Metrics!Watches(x[1], e.node) /\ x[2] = about[x[1]].bar
      /\ \A r \in Rules : Metrics!Watches(r, e.node) /\ about[r].name = e.name
                             => <<r, about[r].bar>> \in todo
  <2>1. \A r : r \in listed <=> /\ r \in Rules /\ Metrics!Watches(r, e.node)
                                /\ about[r].name = e.name
    BY <1>4 DEF Metrics!Watches
  <2> QED BY <1>5, <2>1
<1>9. PICK t : t = Metrics!NextRule(u)
  OBVIOUS
<1>10. /\ ErrandCurrent(t) /\ \A r, n : ToCome(u, r, n) => ErrandOwes(t, r, n)
       /\ \A r, n : e.node = n /\ <<r, about[r].bar>> \in todo => ErrandOwes(t, r, n)
  BY <1>3, <1>7, <1>8, <1>9, NextBarKeeps
<1>11. /\ Metrics!Continue(p, t) /\ sound' = sound
       /\ UNCHANGED <<call, alerts, rules, about, readings, stored>>
  BY <1>1, <1>4, <1>5, <1>9
  DEF Metrics!ListRules, Metrics!evaluatorVars, Metrics!metricVars, Metrics!history
<1>12. ASSUME NEW r \in Rules, NEW n \in sound, ErrandOwes(e, r, n)
       PROVE  Fits(r, n) \/ ErrandOwes(t, r, n)
  <2>1. ToCome(e, r, n) \/ (e.node = n /\ e.name = about[r].name)
    <3>1. e.pc = "list"
      BY <1>2
    <3> QED BY <1>12, <3>1 DEF ErrandOwes
  <2>2. ToCome(e, r, n) => ToCome(u, r, n)
    BY <1>7 DEF ToCome
  <2> QED BY <1>8, <1>10, <2>1, <2>2 DEF Fits
<1> QED BY <1>1, <1>2, <1>10, <1>11, <1>12, QuietOutside

\* A rule is applied as it is to the latest sample.
LEMMA EvaluateErrand ==
    ASSUME MetricsInv, Sampled, NEW p \in MetricHandlers, OnErrand(p), Metrics!EvaluateRule(p)
    PROVE  OnErrand(p)'
<1>1. PICK e : e = errand[p]
  OBVIOUS
<1>2. /\ e \in Metrics!Task /\ ErrandOK(e) /\ e.pc = "rules" /\ ErrandCurrent(e)
      /\ call[p] = Evaluator!Idle
  BY <1>1, MetricRows DEF Metrics!EvaluateRule, Metrics!At, OnErrand, Sampled, Calls
<1>3. PICK next \in e.todo :
         /\ Metrics!Evaluator!Apply(p, next[1], e.node, e.level > next[2])
         /\ Metrics!Continue(p, [e EXCEPT !.pc = "call", !.todo = @ \ {next}])
  BY <1>1, Zenon DEF Metrics!EvaluateRule
<1>4. PICK t, r, n, met : /\ t = [e EXCEPT !.pc = "call", !.todo = @ \ {next}]
                          /\ r = next[1] /\ n = e.node /\ met = (e.level > next[2])
  OBVIOUS
<1>5. /\ t.pc = "call" /\ t.node = n /\ t.name = e.name /\ t.level = e.level
      /\ t.turn = e.turn /\ t.rest = e.rest /\ t.todo = e.todo \ {next}
  BY <1>2, <1>4, ErrandFields
<1>6. /\ r \in Rules /\ n \in Nodes /\ Metrics!Watches(r, n) /\ next = <<r, about[r].bar>>
      /\ met <=> Metrics!Exceeds(r, n)
  <2>1. next \in Rules \X Bars
    BY <1>2, ErrandFields
  <2>2. Metrics!Watches(r, n) /\ next[2] = about[r].bar /\ e.level = Metrics!Latest(n, e.name)
    BY <1>2, <1>4 DEF ErrandCurrent
  <2>3. n \in Nodes /\ about[r].name = e.name /\ e.level \in Metrics!Levels
    BY <1>2, <1>4 DEF ErrandOK
  <2>4. None \notin Metrics!Levels
    BY MetricConstants
  <2>5. r \in Rules /\ next = <<r, about[r].bar>>
    BY <1>4, <2>1, <2>2
  <2>6. e.level = Metrics!Latest(n, about[r].name) /\ e.level # None
    BY <2>2, <2>3, <2>4
  <2>7. met <=> Metrics!Exceeds(r, n)
    BY <1>4, <2>2, <2>6 DEF Metrics!Exceeds
  <2> QED BY <2>2, <2>3, <2>5, <2>7
<1>7. Evaluator!Apply(p, r, n, met) /\ Metrics!Continue(p, t)
  BY <1>3, <1>4, SameStatements
<1>8. UNCHANGED <<alerts, rules, about, readings, stored, sound>>
  <2>1. UNCHANGED <<Metrics!metricVars, Metrics!history>>
    BY Zenon DEF Metrics!EvaluateRule
  <2>2. UNCHANGED <<alerts, rules>>
    BY <1>7 DEF Evaluator!Apply
  <2> QED BY <2>1, <2>2 DEF Metrics!metricVars, Metrics!history
<1>9. ErrandCurrent(t)
  BY <1>2, <1>4, <1>5 DEF ErrandCurrent
<1>10. ASSUME NEW f, Evaluator!Goto(p, f), FrameCurrent(f), Fits(r, n) \/ CallOwes(f, r, n)
       PROVE  OnErrand(p)'
  <2>1. ASSUME NEW r2 \in Rules, NEW n2 \in sound,
               ErrandOwes(errand[p], r2, n2) \/ CallOwes(call[p], r2, n2)
        PROVE  Fits(r2, n2) \/ ErrandOwes(t, r2, n2) \/ CallOwes(f, r2, n2)
    <3>1. ErrandOwes(e, r2, n2)
      BY <1>1, <1>2, <2>1, IdleOwesNothing
    <3>2. CASE ToCome(e, r2, n2)
      <4>1. ToCome(t, r2, n2)
        BY <1>4, <1>5, <3>2 DEF ToCome
      <4> QED BY <4>1 DEF ErrandOwes
    <3>3. CASE n2 = n /\ <<r2, about[r2].bar>> \in e.todo
      <4>1. CASE r2 = r
        BY <1>10, <3>3, <4>1
      <4>2. CASE r2 # r
        <5>1. <<r2, about[r2].bar>> \in t.todo
          BY <1>5, <1>6, <3>3, <4>2
        <5> QED BY <1>5, <3>3, <5>1 DEF ErrandOwes
      <4> QED BY <4>1, <4>2
    <3> QED BY <1>2, <1>4, <3>1, <3>2, <3>3 DEF ErrandOwes
  <2> QED BY <1>7, <1>8, <1>9, <1>10, <2>1, QuietErrand
<1>11. CASE met /\ Evaluator!Goto(p, Evaluator!Opening(r, n))
  <2>1. PICK f : f = Evaluator!Opening(r, n)
    OBVIOUS
  <2>2. f.pc = "create" /\ f.rule = r /\ f.target = n /\ f.queue = {}
    BY <2>1, FrameFields
  <2>3. FrameCurrent(f) /\ CallOwes(f, r, n)
    BY <1>6, <1>11, <2>2 DEF FrameCurrent, CallOwes
  <2> QED BY <1>10, <1>11, <2>1, <2>3
<1>12. ASSUME ~met, NEW a \in Evaluator!ActiveFor(r, n),
              Evaluator!Goto(p, Evaluator!Handling("resolve", a))
       PROVE  OnErrand(p)'
  <2>1. PICK f : f = Evaluator!Handling("resolve", a)
    OBVIOUS
  <2>2. f.pc = "resolve" /\ f.alert = a /\ f.queue = {}
    BY <2>1, FrameFields
  <2>3. FrameCurrent(f) /\ CallOwes(f, r, n)
    BY <1>6, <1>12, <2>2 DEF FrameCurrent, CallOwes, Evaluator!ActiveFor
  <2> QED BY <1>10, <1>12, <2>1, <2>3
<1>13. CASE /\ met <=> Evaluator!ActiveFor(r, n) # {}
            /\ Evaluator!Goto(p, Evaluator!Returned)
  <2>1. PICK f : f = Evaluator!Returned
    OBVIOUS
  <2>2. f.pc = "done" /\ f.queue = {}
    BY <2>1, FrameFields
  <2>3. FrameCurrent(f) /\ Fits(r, n)
    BY <1>6, <1>13, <2>2 DEF FrameCurrent, Fits
  <2> QED BY <1>10, <1>13, <2>1, <2>3
<1> QED BY <1>7, <1>11, <1>12, <1>13 DEF Evaluator!Apply

\* The evaluator has returned, without an error.
LEMMA EndCallErrand ==
    ASSUME MetricsInv, NEW p \in MetricHandlers, OnErrand(p), Metrics!EndCall(p)
    PROVE  OnErrand(p)'
<1>1. PICK e : e = errand[p]
  OBVIOUS
<1>2. /\ e \in Metrics!Task /\ ErrandOK(e) /\ e.pc = "call" /\ ErrandCurrent(e)
      /\ FrameCurrent(call[p])
  BY <1>1, MetricRows DEF Metrics!EndCall, Metrics!At, OnErrand
<1>3. call[p].pc = "done"
  BY <1>2, SameStatements DEF Metrics!EndCall, Evaluator!Return, Evaluator!At, FrameCurrent
<1>4. PICK t, f : t = Metrics!NextRule(e) /\ f = Evaluator!Idle
  OBVIOUS
<1>5. /\ Metrics!Continue(p, t) /\ Evaluator!Goto(p, f) /\ sound' = sound
      /\ UNCHANGED <<alerts, rules, about, readings, stored>>
  <2>1. ~Metrics!Evaluator!At(p, "failed")
    BY <1>3, SameStatements DEF Evaluator!At
  <2>2. Metrics!Continue(p, t)
    BY <1>1, <1>4, <2>1 DEF Metrics!EndCall
  <2>3. Evaluator!Return(p) /\ UNCHANGED <<about, readings, stored, sound>>
    BY SameStatements DEF Metrics!EndCall, Metrics!metricVars, Metrics!history
  <2> QED BY <1>4, <2>2, <2>3 DEF Evaluator!Return
<1>6. (0 < e.turn => e.rest = {}) /\ e.level = Metrics!Latest(e.node, e.name)
  BY <1>2 DEF ErrandOK, ErrandCurrent
<1>7. /\ ErrandCurrent(t) /\ \A r, n : ToCome(e, r, n) => ErrandOwes(t, r, n)
      /\ \A r, n : e.node = n /\ <<r, about[r].bar>> \in e.todo => ErrandOwes(t, r, n)
  BY <1>2, <1>4, <1>6, NextBarKeeps DEF ErrandCurrent
<1>8. \A r, n : ErrandOwes(e, r, n) \/ CallOwes(call[p], r, n) => ErrandOwes(t, r, n)
  <2>1. \A r, n : ~CallOwes(call[p], r, n)
    BY <1>3 DEF CallOwes
  <2>2. e.pc = "call"
    BY <1>2
  <2>3. ASSUME NEW r, NEW n, ErrandOwes(e, r, n)
        PROVE  ToCome(e, r, n) \/ (e.node = n /\ <<r, about[r].bar>> \in e.todo)
    BY <2>2, <2>3 DEF ErrandOwes
  <2> QED BY <1>7, <2>1, <2>3
<1> QED BY <1>1, <1>4, <1>5, <1>7, <1>8, NoErrandOwesNothing, QuietErrand

\* A rule that was edited: its alerts are looked at, ...
LEMMA ReconcileErrand ==
    ASSUME MetricsInv, Sampled, NEW p \in MetricHandlers, OnErrand(p), Metrics!ReconcileRule(p)
    PROVE  OnErrand(p)'
<1>1. PICK e : e = errand[p]
  OBVIOUS
<1>2. /\ e \in Metrics!Task /\ ErrandOK(e) /\ e.pc = "reconcile" /\ ErrandCurrent(e)
      /\ call[p] = Evaluator!Idle
  BY <1>1, MetricRows DEF Metrics!ReconcileRule, Metrics!At, OnErrand, Sampled, Calls
<1>3. PICK t, r, row : /\ t = [e EXCEPT !.pc = "reconciling"]
                       /\ r = e.rule /\ row = e.ruleRow
  OBVIOUS
<1>4. /\ t.pc = "reconciling" /\ t.rule = r /\ t.ruleRow = row /\ t.rest = e.rest
      /\ t.turn = e.turn /\ t.todo = e.todo /\ t.node = e.node /\ t.name = e.name
  BY <1>2, <1>3, ErrandFields
<1>5. /\ r \in Rules /\ row = rules[r] /\ row.state = "live"
      /\ e.rest = {} /\ e.turn = 0 /\ e.todo = {}
  BY <1>2, <1>3 DEF ErrandOK, ErrandCurrent
<1>6. ErrandCurrent(t)
  BY <1>4, <1>5 DEF ErrandCurrent
<1>7. PICK stale, why :
         /\ stale = {a \in Evaluator!ActiveOfRule(r) :
                        ~(row.enabled /\ Evaluator!RuleAppliesTo(row, a))}
         /\ why = IF row.enabled THEN "rule_scope_changed" ELSE "rule_disabled"
  OBVIOUS
<1>8. PICK f : f = Evaluator!Closing(stale, why)
  OBVIOUS
<1>9. /\ Metrics!Continue(p, t) /\ Evaluator!Goto(p, f) /\ sound' = sound
      /\ UNCHANGED <<alerts, rules, about, readings, stored>>
  <2>1. Metrics!Continue(p, t) /\ UNCHANGED <<about, readings, stored, sound>>
    BY <1>1, <1>3 DEF Metrics!ReconcileRule, Metrics!metricVars, Metrics!history
  <2>2. Evaluator!Reconcile(p, r, row)
    BY <1>1, <1>3, SameStatements DEF Metrics!ReconcileRule
  <2> QED BY <1>7, <1>8, <2>1, <2>2 DEF Evaluator!Reconcile
<1>10. \A a \in stale : /\ alerts[a].status = "active"
                        /\ ~Metrics!Watches(alerts[a].rule, alerts[a].target)
  BY <1>5, <1>7 DEF Evaluator!ActiveOfRule, Evaluator!RuleAppliesTo, Metrics!Watches
<1>11. FrameCurrent(f)
  BY <1>8, <1>10, ClosingFields DEF FrameCurrent
<1>12. \A q, n : ErrandOwes(e, q, n) \/ CallOwes(call[p], q, n) => ErrandOwes(t, q, n)
  <2>1. ASSUME NEW q, NEW n, ErrandOwes(e, q, n) PROVE ErrandOwes(t, q, n)
    <3>1. e.pc = "reconcile" /\ ~ToCome(e, q, n)
      BY <1>2, <1>5 DEF ToCome
    <3> QED BY <1>3, <1>4, <2>1, <3>1 DEF ErrandOwes
  <2> QED BY <1>2, <2>1, IdleOwesNothing
<1> QED BY <1>1, <1>6, <1>9, <1>11, <1>12, QuietErrand

\* ... those it has no claim to are closed, ...
LEMMA EndReconcileErrand ==
    ASSUME MetricsInv, NEW p \in MetricHandlers, OnErrand(p), Metrics!EndReconcile(p)
    PROVE  OnErrand(p)'
<1>1. PICK e : e = errand[p]
  OBVIOUS
<1>2. /\ e \in Metrics!Task /\ ErrandOK(e) /\ e.pc = "reconciling" /\ ErrandCurrent(e)
      /\ FrameCurrent(call[p])
  BY <1>1, MetricRows DEF Metrics!EndReconcile, Metrics!At, OnErrand
<1>3. call[p].pc = "done"
  BY <1>2, SameStatements DEF Metrics!EndReconcile, Evaluator!Return, Evaluator!At, FrameCurrent
<1>4. /\ e.rule \in Rules /\ e.ruleRow = rules[e.rule]
      /\ e.rest = {} /\ e.turn = 0 /\ e.todo = {}
  BY <1>2 DEF ErrandOK, ErrandCurrent
<1>5. PICK t, f : /\ t = IF e.ruleRow.enabled THEN [e EXCEPT !.pc = "load"] ELSE Metrics!NoTask
                  /\ f = Evaluator!Idle
  OBVIOUS
<1>6. /\ Metrics!Continue(p, t) /\ Evaluator!Goto(p, f) /\ sound' = sound
      /\ UNCHANGED <<alerts, rules, about, readings, stored>>
  <2>1. Metrics!Evaluator!At(p, "done")
    BY <1>3, SameStatements DEF Evaluator!At
  <2>2. Metrics!Continue(p, t)
    BY <1>1, <1>5, <2>1 DEF Metrics!EndReconcile
  <2>3. Evaluator!Return(p) /\ UNCHANGED <<about, readings, stored, sound>>
    BY SameStatements DEF Metrics!EndReconcile, Metrics!metricVars, Metrics!history
  <2> QED BY <1>5, <2>2, <2>3 DEF Evaluator!Return
<1>7. \A r, n : ~CallOwes(call[p], r, n)
  BY <1>3 DEF CallOwes
<1>8. ASSUME NEW r, NEW n, ErrandOwes(e, r, n) PROVE r = e.rule
  <2>1. e.pc = "reconciling" /\ ~ToCome(e, r, n)
    BY <1>2, <1>4 DEF ToCome
  <2> QED BY <1>8, <2>1 DEF ErrandOwes
<1>9. CASE e.ruleRow.enabled
  <2>1. /\ t.pc = "load" /\ t.rule = e.rule /\ t.ruleRow = e.ruleRow /\ t.rest = e.rest
        /\ t.turn = e.turn /\ t.todo = e.todo
    BY <1>2, <1>5, <1>9, ErrandFields
  <2>2. ErrandCurrent(t)
    BY <1>4, <2>1 DEF ErrandCurrent
  <2>3. \A r, n : ErrandOwes(e, r, n) => ErrandOwes(t, r, n)
    BY <1>8, <2>1 DEF ErrandOwes
  <2> QED BY <1>1, <1>5, <1>6, <1>7, <2>2, <2>3, NoErrandOwesNothing, QuietErrand
<1>10. CASE ~e.ruleRow.enabled
  <2>1. t = Metrics!NoTask
    BY <1>5, <1>10
  <2>2. ErrandCurrent(t)
    BY <2>1, NoErrandOwesNothing
  <2>3. \A r, n : ErrandOwes(e, r, n) => Fits(r, n)
    BY <1>4, <1>8, <1>10 DEF Fits, Metrics!Watches
  <2> QED BY <1>1, <1>5, <1>6, <1>7, <2>2, <2>3, NoErrandOwesNothing, QuietErrand
<1> QED BY <1>9, <1>10

\* ... and the nodes it is for are loaded, with its metric.
LEMMA LoadErrand ==
    ASSUME MetricsInv, Sampled, NEW p \in MetricHandlers, OnErrand(p), Metrics!LoadNodes(p)
    PROVE  OnErrand(p)'
<1>1. PICK e : e = errand[p]
  OBVIOUS
<1>2. e \in Metrics!Task /\ ErrandOK(e) /\ e.pc = "load" /\ ErrandCurrent(e)
  BY <1>1, MetricRows DEF Metrics!LoadNodes, Metrics!At, OnErrand
<1>3. /\ e.rule \in Rules /\ Born(e.rule) /\ e.ruleRow = rules[e.rule] /\ e.ruleRow \in BarRow
      /\ e.rest = {} /\ e.turn = 0 /\ e.todo = {}
  BY <1>2 DEF ErrandOK, ErrandCurrent
<1>4. PICK r, scope : r = e.rule /\ scope = e.ruleRow.scope
  OBVIOUS
<1>5. PICK rest, name : /\ rest = IF scope = All THEN Nodes ELSE {scope}
                        /\ name = about[r].name
  OBVIOUS
<1>6. scope \in Nodes \cup {All} /\ name \in Names
  BY <1>3, <1>4, <1>5, BornAbout DEF BarRow, Metrics!Evaluator!RuleRow
<1>7. PICK u : u = [Metrics!NoTask EXCEPT !.rest = rest, !.name = name]
  OBVIOUS
<1>8. u = [pc |-> "idle", node |-> None, at |-> 0, turn |-> 0, name |-> name, level |-> None,
           todo |-> {}, rest |-> rest, rule |-> None, ruleRow |-> None]
  BY <1>7, NoErrandFields
<1>9. u \in Metrics!Task /\ u.turn = 0 /\ u.rest = rest /\ u.name = name
  <2>1. rest \subseteq Nodes
    BY <1>5, <1>6
  <2> QED BY <1>6, <1>8, <2>1, ErrandFields, MetricConstants
<1>10. PICK t : t = Metrics!AfterRules(u)
  OBVIOUS
<1>11. ErrandCurrent(t) /\ \A q, n : ToCome(u, q, n) => ErrandOwes(t, q, n)
  BY <1>9, <1>10, AfterRulesKeeps
<1>12. /\ Metrics!Continue(p, t) /\ sound' = sound
       /\ UNCHANGED <<call, alerts, rules, about, readings, stored>>
  BY <1>1, <1>4, <1>5, <1>7, <1>10
  DEF Metrics!LoadNodes, Metrics!evaluatorVars, Metrics!metricVars, Metrics!history
<1>13. ASSUME NEW q \in Rules, NEW n \in sound, ErrandOwes(e, q, n)
       PROVE  Fits(q, n) \/ ErrandOwes(t, q, n)
  <2>1. q = r
    <3>1. e.pc = "load" /\ ~ToCome(e, q, n)
      BY <1>2, <1>3 DEF ToCome
    <3> QED BY <1>4, <1>13, <3>1 DEF ErrandOwes
  <2>2. n \in Nodes
    BY DEF MetricsInv, MetricsTypeOK
  <2>3. CASE n \in rest
    BY <1>5, <1>9, <1>11, <2>1, <2>3 DEF ToCome
  <2>4. CASE n \notin rest
    <3>1. rules[q].scope \notin {n, All}
      BY <1>3, <1>4, <1>5, <2>1, <2>2, <2>4
    <3> QED BY <3>1 DEF Fits, Metrics!Watches
  <2> QED BY <2>3, <2>4
<1> QED BY <1>1, <1>2, <1>11, <1>12, <1>13, QuietOutside

\* They are gone through one by one.
LEMMA NodeErrand ==
    ASSUME MetricsInv, Sampled, NEW p \in MetricHandlers, OnErrand(p), Metrics!EvaluateNode(p)
    PROVE  OnErrand(p)'
<1>1. PICK e : e = errand[p]
  OBVIOUS
<1>2. e \in Metrics!Task /\ ErrandOK(e) /\ e.pc = "evaluate"
  BY <1>1, MetricRows DEF Metrics!EvaluateNode, Metrics!At
<1>3. PICK m \in e.rest :
         Metrics!Continue(p, [e EXCEPT !.pc = "latest", !.node = m, !.rest = @ \ {m}])
  BY <1>1, Zenon DEF Metrics!EvaluateNode
<1>4. PICK t : t = [e EXCEPT !.pc = "latest", !.node = m, !.rest = @ \ {m}]
  OBVIOUS
<1>5. /\ t.pc = "latest" /\ t.node = m /\ t.rest = e.rest \ {m} /\ t.name = e.name
      /\ t.turn = e.turn /\ t.todo = e.todo
  BY <1>2, <1>4, ErrandFields
<1>6. e.todo = {} /\ e.turn \in Nat /\ ~(0 < e.turn)
  <2>1. e.todo = {} /\ (0 < e.turn => e.rest = {})
    BY <1>2 DEF ErrandOK
  <2> QED BY <1>2, <1>3, <2>1, ErrandFields
<1>7. ErrandCurrent(t)
  BY <1>5, <1>6 DEF ErrandCurrent
<1>8. /\ Metrics!Continue(p, t) /\ sound' = sound
      /\ UNCHANGED <<call, alerts, rules, about, readings, stored>>
  <2>1. UNCHANGED <<Metrics!evaluatorVars, Metrics!metricVars, Metrics!history>>
    BY Zenon DEF Metrics!EvaluateNode
  <2> QED BY <1>3, <1>4, <2>1 DEF Metrics!evaluatorVars, Metrics!metricVars, Metrics!history
<1>9. ASSUME NEW r, NEW n, ErrandOwes(e, r, n) PROVE ErrandOwes(t, r, n)
  <2>1. n \in e.rest /\ e.name = about[r].name
    <3>1. e.pc = "evaluate" /\ e.todo = {}
      BY <1>2, <1>6
    <3>2. ToCome(e, r, n)
      BY <1>9, <3>1 DEF ErrandOwes
    <3> QED BY <1>6, <3>2 DEF ToCome
  <2>2. CASE n = m
    BY <1>5, <2>1, <2>2 DEF ErrandOwes
  <2>3. CASE n # m
    <3>1. ToCome(t, r, n)
      BY <1>5, <2>1, <2>3 DEF ToCome
    <3> QED BY <3>1 DEF ErrandOwes
  <2> QED BY <2>2, <2>3
<1> QED BY <1>1, <1>2, <1>7, <1>8, <1>9, QuietOutside

\* A statement of the evaluator that leaves the table alone.
LEMMA QuietCall ==
    ASSUME MetricsInv, NEW p \in MetricHandlers, OnErrand(p), NEW f, Evaluator!Goto(p, f),
           UNCHANGED <<alerts, rules, about, readings, stored, sound, errand>>,
           FrameCurrent(f),
           \A r \in Rules, n \in sound : CallOwes(call[p], r, n) => Fits(r, n)
    PROVE  OnErrand(p)'
<1>1. PICK t : t = errand[p]
  OBVIOUS
<1>2. Metrics!Continue(p, t) /\ ErrandCurrent(t)
  BY <1>1, MetricRows DEF Metrics!Continue, OnErrand
<1> QED BY <1>1, <1>2, QuietErrand

\* Changing a row changes nothing for other rules and nodes.
LEMMA OneAlertChanges ==
    ASSUME MetricsInv, NEW a \in AlertIds, NEW row, alerts' = [alerts EXCEPT ![a] = row],
           UNCHANGED <<rules, about, readings, stored>>,
           alerts[a].status = "active"
              => alerts[a].rule = row.rule /\ alerts[a].target = row.target
    PROVE  /\ \A r, n : r # row.rule \/ n # row.target => (Fits(r, n)' <=> Fits(r, n))
           /\ \A r, n : /\ Metrics!Watches(r, n)' <=> Metrics!Watches(r, n)
                        /\ Metrics!Exceeds(r, n)' <=> Metrics!Exceeds(r, n)
           /\ \A n, name : Metrics!Latest(n, name)' = Metrics!Latest(n, name)
           /\ alerts'[a] = row
           /\ \A b \in AlertIds \ {a} : alerts'[b] = alerts[b]
<1>1. /\ alerts'[a] = row
      /\ \A b \in AlertIds \ {a} : alerts'[b] = alerts[b]
  BY MetricRows
<1>2. ASSUME NEW r, NEW n, r # row.rule \/ n # row.target
      PROVE  Evaluator!ActiveFor(r, n)' = Evaluator!ActiveFor(r, n)
  BY <1>1, <1>2 DEF Evaluator!ActiveFor
<1>3. \A r, n : Metrics!Watches(r, n)' <=> Metrics!Watches(r, n)
  BY DEF Metrics!Watches
<1>4. \A n, name : Metrics!Latest(n, name)' = Metrics!Latest(n, name)
  BY DEF Metrics!Latest
<1>5. \A r, n : Metrics!Exceeds(r, n)' <=> Metrics!Exceeds(r, n)
  BY <1>4 DEF Metrics!Exceeds
<1> QED BY <1>1, <1>2, <1>3, <1>4, <1>5 DEF Fits

\* One that changes a row of r for n, after which r has the alert for n that
\* it should.
LEMMA LoudCall ==
    ASSUME MetricsInv, NEW p \in MetricHandlers, OnErrand(p), NEW f, Evaluator!Goto(p, f),
           UNCHANGED <<rules, about, readings, stored, sound, errand>>,
           NEW a \in AlertIds, NEW row, alerts' = [alerts EXCEPT ![a] = row],
           alerts[a].status = "active"
              => alerts[a].rule = row.rule /\ alerts[a].target = row.target,
           Fits(row.rule, row.target)', FrameCurrent(f)',
           \A r, n : CallOwes(call[p], r, n) => r = row.rule /\ n = row.target
    PROVE  OnErrand(p)'
<1>1. ErrandCurrent(errand[p]) /\ Owed(errand[p], call[p]) /\ Alone(p)
  BY DEF OnErrand
<1>2. PICK t : t = errand[p]
  OBVIOUS
<1>3. Metrics!Continue(p, t)
  BY <1>2, MetricRows DEF Metrics!Continue
<1>4. /\ \A r, n : r # row.rule \/ n # row.target => (Fits(r, n)' <=> Fits(r, n))
      /\ \A r, n : Metrics!Watches(r, n)' <=> Metrics!Watches(r, n)
      /\ \A n, name : Metrics!Latest(n, name)' = Metrics!Latest(n, name)
  BY OneAlertChanges
<1>5. ErrandCurrent(t)'
  BY <1>1, <1>2, <1>4 DEF ErrandCurrent
<1>6. \A r, n : ErrandOwes(t, r, n)' <=> ErrandOwes(t, r, n)
  BY DEF ErrandOwes, ToCome
<1>7. Owed(t, f)'
  <2>1. ASSUME NEW r \in Rules, NEW n \in sound
        PROVE  Fits(r, n)' \/ ErrandOwes(t, r, n)
    <3>1. CASE r = row.rule /\ n = row.target
      <4>1. Fits(row.rule, row.target)'
        OBVIOUS
      <4> QED BY <3>1, <4>1 DEF Fits, Metrics!Watches, Metrics!Exceeds, Metrics!Latest, Evaluator!ActiveFor
    <3>2. CASE r # row.rule \/ n # row.target
      <4>1. Fits(r, n) \/ ErrandOwes(t, r, n) \/ CallOwes(call[p], r, n)
        BY <1>1, <1>2 DEF Owed
      <4> QED BY <1>4, <3>2, <4>1
    <3> QED BY <3>1, <3>2
  <2> QED BY <1>6, <2>1 DEF Owed
<1> QED BY <1>1, <1>3, <1>5, <1>7, ErrandTurn

\* Opening an alert: it was owed.
LEMMA CreateErrand ==
    ASSUME MetricsInv, NEW p \in MetricHandlers, OnErrand(p),
           UNCHANGED <<about, readings, stored, sound, errand>>,
           Evaluator!Create(p) \/ Evaluator!CreateLost(p) \/ Evaluator!CreateRefused(p)
    PROVE  OnErrand(p)'
<1>1. PICK r, n : r = call[p].rule /\ n = call[p].target
  OBVIOUS
<1>2. call[p].pc = "create" /\ FrameCurrent(call[p])
  BY DEF Evaluator!Create, Evaluator!CreateLost, Evaluator!CreateRefused, Evaluator!At, OnErrand
<1>3. r \in Rules /\ n \in Nodes /\ Metrics!Watches(r, n) /\ Metrics!Exceeds(r, n)
  BY <1>1, <1>2 DEF FrameCurrent
<1>4. \A r2, n2 : CallOwes(call[p], r2, n2) => r2 = r /\ n2 = n
  BY <1>1, <1>2 DEF CallOwes
<1>5. CASE Evaluator!Create(p)
  <2>1. PICK a \in AlertIds :
           /\ Evaluator!InsertActive(a, r, n)
           /\ Evaluator!Goto(p, Evaluator!Handling("logTriggered", a))
    BY <1>1, <1>5 DEF Evaluator!Create
  <2>2. PICK row, f : /\ row = [status |-> "active", rule |-> r, target |-> n, reason |-> None]
                      /\ f = Evaluator!Handling("logTriggered", a)
    OBVIOUS
  <2>3. /\ alerts' = [alerts EXCEPT ![a] = row] /\ alerts[a].status # "active"
        /\ row.rule = r /\ row.target = n /\ row.status = "active"
    BY <2>1, <2>2 DEF Evaluator!InsertActive, Evaluator!IsNextId
  <2>4. UNCHANGED rules
    BY <1>5 DEF Evaluator!Create
  <2>5. alerts'[a] = row /\ (Metrics!Exceeds(r, n)' <=> Metrics!Exceeds(r, n))
    BY <2>3, <2>4, OneAlertChanges
  <2>6. Fits(r, n)'
    <3>1. a \in Evaluator!ActiveFor(r, n)'
      BY <2>3, <2>5 DEF Evaluator!ActiveFor
    <3> QED BY <1>3, <2>5, <3>1 DEF Fits
  <2>7. Fits(row.rule, row.target)'
    BY <2>3, <2>6
  <2>8. f.pc = "logTriggered" /\ f.queue = {}
    BY <2>2, FrameFields
  <2>9. FrameCurrent(f)'
    BY <2>8 DEF FrameCurrent
  <2> QED BY <1>4, <2>1, <2>2, <2>3, <2>4, <2>7, <2>9, LoudCall
<1>6. CASE Evaluator!CreateLost(p)
  <2>1. Fits(r, n)
    BY <1>1, <1>3, <1>6 DEF Evaluator!CreateLost, Fits
  <2>2. PICK f : f = Evaluator!Returned
    OBVIOUS
  <2>3. Evaluator!Goto(p, f) /\ UNCHANGED <<alerts, rules>>
    BY <1>6, <2>2 DEF Evaluator!CreateLost
  <2>4. FrameCurrent(f)
    BY <2>2, FrameFields DEF FrameCurrent
  <2> QED BY <1>4, <2>1, <2>3, <2>4, QuietCall
<1>7. CASE Evaluator!CreateRefused(p)
  BY <1>1, <1>3, <1>7 DEF Evaluator!CreateRefused, Metrics!Watches
<1> QED BY <1>5, <1>6, <1>7

\* Resolving one: its node is not over the threshold, and it was the only one.
LEMMA ResolveErrand ==
    ASSUME MetricsInv, NEW p \in MetricHandlers, OnErrand(p),
           UNCHANGED <<about, readings, stored, sound, errand>>,
           Evaluator!Resolve(p) \/ Evaluator!ResolveLost(p)
    PROVE  OnErrand(p)'
<1>1. PICK a : a = call[p].alert
  OBVIOUS
<1>2. call[p].pc = "resolve" /\ FrameCurrent(call[p])
  BY DEF Evaluator!Resolve, Evaluator!ResolveLost, Evaluator!At, OnErrand
<1>3. PICK r, n : r = alerts[a].rule /\ n = alerts[a].target
  OBVIOUS
<1>4. a \in AlertIds /\ alerts[a].status = "active" /\ ~Metrics!Exceeds(r, n)
  BY <1>1, <1>2, <1>3 DEF FrameCurrent
<1>5. \A r2, n2 : CallOwes(call[p], r2, n2) => r2 = r /\ n2 = n
  BY <1>1, <1>2, <1>3 DEF CallOwes
<1>6. Evaluator!Resolve(p)
  BY <1>1, <1>4 DEF Evaluator!ResolveLost
<1>7. PICK row, f : /\ row = [alerts[a] EXCEPT !.status = "resolved"]
                    /\ f = Evaluator!Handling("logResolved", a)
  OBVIOUS
<1>8. /\ alerts' = [alerts EXCEPT ![a] = row] /\ Evaluator!Goto(p, f) /\ UNCHANGED rules
  BY <1>1, <1>6, <1>7 DEF Evaluator!Resolve, Evaluator!MarkResolved
<1>9. row.rule = r /\ row.target = n /\ row.status = "resolved"
  BY <1>3, <1>4, <1>7, MetricRows DEF BarAlert, Metrics!Evaluator!AlertRow
<1>10. /\ alerts'[a] = row /\ \A b \in AlertIds \ {a} : alerts'[b] = alerts[b]
       /\ Metrics!Exceeds(r, n)' <=> Metrics!Exceeds(r, n)
  BY <1>3, <1>4, <1>8, <1>9, OneAlertChanges
<1>11. Fits(r, n)'
  <2>1. ASSUME NEW b \in AlertIds, alerts'[b].status = "active",
               alerts'[b].rule = r, alerts'[b].target = n
        PROVE  FALSE
    BY <1>3, <1>4, <1>9, <1>10, <2>1 DEF Evaluator!AtMostOneActive, MetricsInv
  <2>2. Evaluator!ActiveFor(r, n)' = {}
    BY <2>1 DEF Evaluator!ActiveFor
  <2> QED BY <1>4, <1>10, <2>2 DEF Fits
<1>12. Fits(row.rule, row.target)'
  BY <1>9, <1>11
<1>13. f.pc = "logResolved" /\ f.queue = {}
  BY <1>7, FrameFields
<1>14. FrameCurrent(f)'
  BY <1>13 DEF FrameCurrent
<1> QED BY <1>3, <1>4, <1>5, <1>8, <1>9, <1>12, <1>14, LoudCall

\* Closing one: its rule does not watch its node.
LEMMA CloseErrand ==
    ASSUME MetricsInv, NEW p \in MetricHandlers, OnErrand(p),
           UNCHANGED <<about, readings, stored, sound, errand>>,
           Evaluator!Close(p) \/ Evaluator!CloseLost(p)
    PROVE  OnErrand(p)'
<1>1. call[p].pc = "close" /\ FrameCurrent(call[p]) /\ call[p] \in BarFrame
  <2>1. call[p].pc = "close"
    BY Zenon DEF Evaluator!Close, Evaluator!CloseLost, Evaluator!At
  <2> QED BY <2>1, MetricRows DEF OnErrand
<1>2. \A a \in call[p].queue : alerts[a].status = "active"
  BY <1>1 DEF FrameCurrent
<1>3. Evaluator!Close(p)
  BY <1>2 DEF Evaluator!CloseLost, Evaluator!IsFirst
<1>4. PICK a \in AlertIds :
         /\ Evaluator!IsFirst(a, call[p].queue)
         /\ Evaluator!MarkClosed(a, call[p].reason)
         /\ Evaluator!Goto(p, [call[p] EXCEPT !.pc = "logClosed", !.alert = a,
                                              !.queue = @ \ {a}])
  BY <1>3, Zenon DEF Evaluator!Close
<1>5. PICK row, f :
         /\ row = [alerts[a] EXCEPT !.status = "closed", !.reason = call[p].reason]
         /\ f = [call[p] EXCEPT !.pc = "logClosed", !.alert = a, !.queue = @ \ {a}]
  OBVIOUS
<1>6. /\ alerts' = [alerts EXCEPT ![a] = row] /\ Evaluator!Goto(p, f) /\ UNCHANGED rules
      /\ a \in call[p].queue
  <2>1. UNCHANGED rules
    BY <1>3, Zenon DEF Evaluator!Close
  <2>2. Evaluator!Goto(p, f)
    BY <1>4, <1>5, Zenon
  <2>3. a \in call[p].queue
    BY <1>4 DEF Evaluator!IsFirst
  <2>4. Evaluator!MarkClosed(a, call[p].reason)
    BY <1>4, Zenon
  <2>5. alerts' = [alerts EXCEPT ![a] = row]
    BY <1>5, <2>4 DEF Evaluator!MarkClosed
  <2> QED BY <2>1, <2>2, <2>3, <2>5
<1>7. row.rule = alerts[a].rule /\ row.target = alerts[a].target /\ row.status = "closed"
  BY <1>5, MetricRows DEF BarAlert, Metrics!Evaluator!AlertRow
<1>8. f.pc = "logClosed" /\ f.queue = call[p].queue \ {a}
  BY <1>1, <1>5 DEF BarFrame, Metrics!Evaluator!Frame
<1>9. /\ \A r, n : Metrics!Watches(r, n)' <=> Metrics!Watches(r, n)
      /\ \A b \in AlertIds \ {a} : alerts'[b] = alerts[b]
  BY <1>6, <1>7, OneAlertChanges
<1>10. ~Metrics!Watches(row.rule, row.target)
  BY <1>1, <1>6, <1>7 DEF FrameCurrent
<1>11. Fits(row.rule, row.target)'
  BY <1>9, <1>10 DEF Fits
<1>12. FrameCurrent(f)'
  <2>1. call[p].queue \subseteq AlertIds
    BY <1>1 DEF BarFrame, Metrics!Evaluator!Frame
  <2>2. ASSUME NEW b \in f.queue
        PROVE  /\ alerts'[b].status = "active"
               /\ ~Metrics!Watches(alerts[b].rule, alerts[b].target)'
    <3>1. b \in call[p].queue /\ alerts'[b] = alerts[b]
      BY <1>8, <1>9, <2>1, <2>2
    <3>2. PICK r, n : r = alerts[b].rule /\ n = alerts[b].target
      OBVIOUS
    <3>3. ~Metrics!Watches(r, n)'
      BY <1>1, <1>9, <3>1, <3>2 DEF FrameCurrent
    <3>4. Metrics!Watches(r, n)' <=> Metrics!Watches(alerts[b].rule, alerts[b].target)'
      BY <3>1, <3>2 DEF Metrics!Watches
    <3> QED BY <1>1, <3>1, <3>3, <3>4 DEF FrameCurrent
  <2> QED BY <1>8, <2>2 DEF FrameCurrent
<1>13. \A r, n : ~CallOwes(call[p], r, n)
  BY <1>1 DEF CallOwes
<1> QED BY <1>6, <1>7, <1>11, <1>12, <1>13, LoudCall

\* Recording, sending, and going on to the next alert to close.
LEMMA TellErrand ==
    ASSUME MetricsInv, NEW p \in MetricHandlers, OnErrand(p),
           UNCHANGED <<about, readings, stored, sound, errand>>,
           \/ Evaluator!LogTriggered(p) \/ Evaluator!SendTriggered(p)
           \/ Evaluator!LogResolved(p) \/ Evaluator!SendResolved(p)
           \/ Evaluator!LogClosed(p)
    PROVE  OnErrand(p)'
<1>1. FrameCurrent(call[p]) /\ call[p] \in BarFrame
  BY MetricRows DEF OnErrand
<1>2. \A r, n : ~CallOwes(call[p], r, n)
  BY DEF CallOwes, Evaluator!LogTriggered, Evaluator!SendTriggered, Evaluator!LogResolved,
     Evaluator!SendResolved, Evaluator!LogClosed, Evaluator!At
<1>3. UNCHANGED <<alerts, rules>>
  BY DEF Evaluator!LogTriggered, Evaluator!SendTriggered, Evaluator!LogResolved,
     Evaluator!SendResolved, Evaluator!LogClosed, Evaluator!Send
<1>4. CASE Evaluator!LogTriggered(p) \/ Evaluator!LogResolved(p)
  <2>1. PICK pc \in {"sendTriggered", "sendResolved"} :
           /\ Evaluator!Goto(p, [call[p] EXCEPT !.pc = pc])
           /\ call[p].pc \in {"logTriggered", "logResolved"}
    BY <1>4 DEF Evaluator!LogTriggered, Evaluator!LogResolved, Evaluator!At
  <2>2. PICK f : f = [call[p] EXCEPT !.pc = pc]
    OBVIOUS
  <2>3. f.pc = pc /\ f.queue = {}
    BY <1>1, <2>1, <2>2 DEF BarFrame, Metrics!Evaluator!Frame, FrameCurrent
  <2>4. FrameCurrent(f)
    BY <2>1, <2>3 DEF FrameCurrent
  <2> QED BY <1>2, <1>3, <2>1, <2>2, <2>4, QuietCall
<1>5. CASE Evaluator!SendTriggered(p) \/ Evaluator!SendResolved(p)
  <2>1. PICK f : f = Evaluator!Returned
    OBVIOUS
  <2>2. Evaluator!Goto(p, f)
    BY <1>5, <2>1 DEF Evaluator!SendTriggered, Evaluator!SendResolved, Evaluator!Send
  <2>3. FrameCurrent(f)
    BY <2>1, FrameFields DEF FrameCurrent
  <2> QED BY <1>2, <1>3, <2>2, <2>3, QuietCall
<1>6. CASE Evaluator!LogClosed(p)
  <2>1. PICK f : f = Evaluator!Closing(call[p].queue, call[p].reason)
    OBVIOUS
  <2>2. Evaluator!Goto(p, f)
    BY <1>6, <2>1 DEF Evaluator!LogClosed
  <2>3. FrameCurrent(f)
    BY <1>1, <2>1, ClosingFields DEF FrameCurrent
  <2> QED BY <1>2, <1>3, <2>2, <2>3, QuietCall
<1> QED BY <1>4, <1>5, <1>6

\* Every statement of the evaluator.
LEMMA StepErrand ==
    ASSUME MetricsInv, NEW p \in MetricHandlers, OnErrand(p), Metrics!EvaluatorStep(p)
    PROVE  OnErrand(p)'
<1>1. Evaluator!Step(p) /\ UNCHANGED <<about, readings, stored, sound, errand>>
  BY SameStatements DEF Metrics!EvaluatorStep, Metrics!metricVars, Metrics!history
<1> QED BY <1>1, CreateErrand, ResolveErrand, CloseErrand, TellErrand DEF Evaluator!Step

\* A rule is written: all nodes are to be looked at with it.
LEMMA PutErrand ==
    ASSUME MetricsInv, Sampled, Heard, NEW p \in MetricHandlers, NEW r \in Rules,
           NEW row, row.state = "live", NEW ask,
           rules' = [rules EXCEPT ![r] = row], about' = [about EXCEPT ![r] = ask],
           UNCHANGED <<alerts, call, readings, stored>>, Metrics!Begins({}), sound' # {},
           NEW pc \in {"load", "reconcile"},
           Metrics!Continue(p, [Metrics!NoTask EXCEPT !.pc = pc, !.rule = r, !.ruleRow = row])
    PROVE  OnErrand(p)'
<1>1. Metrics!Settled /\ sound' = sound
  BY DEF Metrics!Begins, Metrics!Upset
<1>2. call[p] = Evaluator!Idle /\ Alone(p) /\ \A q \in Rules, n \in sound : Fits(q, n)
  BY <1>1, AnyonesErrand
<1>3. PICK t, f : /\ t = [Metrics!NoTask EXCEPT !.pc = pc, !.rule = r, !.ruleRow = row]
                  /\ f = Evaluator!Idle
  OBVIOUS
<1>4. t.pc = pc /\ t.rule = r /\ t.ruleRow = row /\ t.rest = {} /\ t.turn = 0 /\ t.todo = {}
  BY <1>3, NoErrandFields
<1>5. Metrics!Continue(p, t) /\ Evaluator!Goto(p, f)
  BY <1>2, <1>3, MetricRows DEF Evaluator!Goto
<1>6. /\ rules'[r] = row /\ \A q \in Rules \ {r} : rules'[q] = rules[q]
      /\ \A q \in Rules \ {r} : about'[q] = about[q]
  BY DEF MetricsInv, MetricsTypeOK, SamplesTypeOK
<1>7. ErrandCurrent(t)' /\ FrameCurrent(f)'
  BY <1>3, <1>4, <1>6, IdleOwesNothing DEF ErrandCurrent, FrameCurrent
<1>8. ASSUME NEW q \in Rules, NEW n \in sound
      PROVE  Fits(q, n)' \/ ErrandOwes(t, q, n)'
  <2>1. CASE q = r
    BY <1>4, <2>1 DEF ErrandOwes
  <2>2. CASE q # r
    <3>1. Fits(q, n) /\ rules'[q] = rules[q] /\ about'[q] = about[q]
      BY <1>2, <1>6, <2>2
    <3>2. Evaluator!ActiveFor(q, n)' = Evaluator!ActiveFor(q, n)
      BY DEF Evaluator!ActiveFor
    <3>3. PICK name : name = about[q].name
      OBVIOUS
    <3>4. Metrics!Latest(n, name)' = Metrics!Latest(n, name)
      BY DEF Metrics!Latest
    <3>5. about'[q].name = name /\ about'[q].bar = about[q].bar
      BY <3>1, <3>3
    <3>6. Metrics!Exceeds(q, n)' <=> Metrics!Exceeds(q, n)
      BY <3>3, <3>4, <3>5 DEF Metrics!Exceeds
    <3> QED BY <3>1, <3>2, <3>6 DEF Fits, Metrics!Watches
  <2> QED BY <2>1, <2>2
<1>9. Owed(t, f)'
  BY <1>1, <1>8 DEF Owed
<1> QED BY <1>2, <1>5, <1>7, <1>9, ErrandTurn

\* A rule is created or edited.
LEMMA EditErrand ==
    ASSUME MetricsInv, Sampled, Heard, NEW p \in MetricHandlers, Metrics!Edit(p), sound' # {}
    PROVE  OnErrand(p)'
<1>1. PICK r \in Rules, scope \in Nodes \cup {All}, bar \in Bars :
         \/ \E name \in Metrics!Names :
               Metrics!CreateRule(p, r, scope, [name |-> name, bar |-> bar])
         \/ \E enabled \in BOOLEAN : Metrics!UpdateRule(p, r, scope, enabled, bar)
  BY Zenon DEF Metrics!Edit
<1>2. ASSUME NEW name \in Metrics!Names,
             Metrics!CreateRule(p, r, scope, [name |-> name, bar |-> bar])
      PROVE  OnErrand(p)'
  <2>1. PICK row, ask, pc : /\ row = [state |-> "live", enabled |-> TRUE, scope |-> scope]
                            /\ ask = [name |-> name, bar |-> bar] /\ pc = "load"
    OBVIOUS
  <2>2. row.state = "live"
    BY <2>1
  <2>3. /\ rules' = [rules EXCEPT ![r] = row] /\ about' = [about EXCEPT ![r] = ask]
        /\ UNCHANGED <<alerts, call, readings, stored>> /\ Metrics!Begins({})
        /\ Metrics!Continue(p, [Metrics!NoTask EXCEPT !.pc = pc, !.rule = r, !.ruleRow = row])
    BY <1>2, <2>1 DEF Metrics!CreateRule, Metrics!PutRule, Metrics!Evaluator!PutRule
  <2> QED BY <2>1, <2>2, <2>3, PutErrand, Zenon
<1>3. ASSUME NEW enabled \in BOOLEAN, Metrics!UpdateRule(p, r, scope, enabled, bar)
      PROVE  OnErrand(p)'
  <2>1. PICK row, ask, pc : /\ row = [state |-> "live", enabled |-> enabled, scope |-> scope]
                            /\ ask = [about[r] EXCEPT !.bar = bar] /\ pc = "reconcile"
    OBVIOUS
  <2>2. row.state = "live"
    BY <2>1
  <2>3. /\ rules' = [rules EXCEPT ![r] = row] /\ about' = [about EXCEPT ![r] = ask]
        /\ UNCHANGED <<alerts, call, readings, stored>> /\ Metrics!Begins({})
        /\ Metrics!Continue(p, [Metrics!NoTask EXCEPT !.pc = pc, !.rule = r, !.ruleRow = row])
    BY <1>3, <2>1 DEF Metrics!UpdateRule, Metrics!PutRule, Metrics!Evaluator!PutRule
  <2> QED BY <2>1, <2>2, <2>3, PutErrand, Zenon
<1> QED BY <1>1, <1>2, <1>3

\* A rule is deleted, with its alerts, beside no request.
LEMMA DeleteErrand ==
    ASSUME MetricsInv, Sampled, Heard, NEW p \in MetricHandlers, NEW r \in Rules,
           Metrics!DeleteRule(r), sound' # {}
    PROVE  OnErrand(p)'
<1>1. Metrics!Settled /\ sound' = sound
  BY DEF Metrics!DeleteRule
<1>2. /\ errand[p] = Metrics!NoTask /\ call[p] = Evaluator!Idle /\ Alone(p)
      /\ \A q \in Rules, n \in sound : Fits(q, n)
  BY <1>1, AnyonesErrand
<1>3. /\ rules' = [rules EXCEPT ![r].state = "dropped"]
      /\ alerts' = [a \in AlertIds |-> IF alerts[a].rule = r
                                       THEN [alerts[a] EXCEPT !.status = "deleted"]
                                       ELSE alerts[a]]
      /\ UNCHANGED <<call, errand, about, readings, stored>>
  BY SameStatements
  DEF Metrics!DeleteRule, Evaluator!DropRule, Evaluator!DropAlertsOf, Metrics!metricVars
<1>4. PICK t, f : t = Metrics!NoTask /\ f = Evaluator!Idle
  OBVIOUS
<1>5. Metrics!Continue(p, t) /\ Evaluator!Goto(p, f)
  BY <1>2, <1>3, <1>4, MetricRows DEF Metrics!Continue, Evaluator!Goto
<1>6. rules'[r].state = "dropped" /\ \A q \in Rules \ {r} : rules'[q] = rules[q]
  BY <1>3, MetricRows DEF BarRow, Metrics!Evaluator!RuleRow
<1>7. \A a \in AlertIds : \/ alerts[a].rule # r /\ alerts'[a] = alerts[a]
                          \/ alerts[a].rule = r /\ alerts'[a].rule = r
                             /\ alerts'[a].status = "deleted"
  BY <1>3, MetricRows DEF BarAlert, Metrics!Evaluator!AlertRow
<1>8. ErrandCurrent(t)' /\ FrameCurrent(f)'
  <2>1. t.pc = "idle" /\ t.todo = {}
    BY <1>4, NoErrandFields
  <2> QED BY <1>4, <2>1, IdleOwesNothing DEF ErrandCurrent, FrameCurrent
<1>9. ASSUME NEW q \in Rules, NEW n \in sound PROVE Fits(q, n)'
  <2>1. CASE q = r
    BY <1>6, <2>1 DEF Fits, Metrics!Watches
  <2>2. CASE q # r
    <3>1. Fits(q, n) /\ rules'[q] = rules[q]
      BY <1>2, <1>6, <2>2
    <3>2. Evaluator!ActiveFor(q, n)' = Evaluator!ActiveFor(q, n)
      BY <1>7, <2>2 DEF Evaluator!ActiveFor
    <3>3. Metrics!Exceeds(q, n)' <=> Metrics!Exceeds(q, n)
      BY <1>3 DEF Metrics!Exceeds, Metrics!Latest
    <3> QED BY <3>1, <3>2, <3>3 DEF Fits, Metrics!Watches
  <2> QED BY <2>1, <2>2
<1>10. Owed(t, f)'
  BY <1>1, <1>9 DEF Owed
<1> QED BY <1>2, <1>5, <1>8, <1>10, ErrandTurn

\* A reading that is not sent yet is not the latest sample.
LEMMA CollectErrand ==
    ASSUME MetricsInv, Sampled, NEW p \in MetricHandlers, OnErrand(p),
           NEW m \in Nodes, NEW reading \in Readings, Metrics!Collect(m, reading)
    PROVE  OnErrand(p)'
<1>1. /\ readings' = [readings EXCEPT ![m] = Append(@, reading)]
      /\ UNCHANGED <<alerts, rules, call, about, stored, errand, sound>>
  BY DEF Metrics!Collect, Metrics!evaluatorVars, Metrics!history
<1>2. PICK t, f : t = errand[p] /\ f = call[p]
  OBVIOUS
<1>3. t \in Metrics!Task /\ ErrandOK(t) /\ Metrics!Continue(p, t) /\ Evaluator!Goto(p, f)
  BY <1>1, <1>2, MetricRows DEF Metrics!Continue, Evaluator!Goto
<1>4. /\ SamplesTypeOK /\ \A n \in Nodes : readings[n] \in Seq(Readings)
      /\ sound \subseteq Nodes
  BY DEF MetricsInv, MetricsTypeOK, SamplesTypeOK
<1>5. ASSUME NEW n \in Nodes, NEW name \in Names
      PROVE  Metrics!Latest(n, name)' = Metrics!Latest(n, name)
  <2>1. PICK S : S = stored[n][name]
    OBVIOUS
  <2>2. S \in SUBSET Nat /\ S \subseteq DOMAIN readings[n] /\ stored'[n][name] = S
    BY <1>1, <1>4, <2>1 DEF SamplesTypeOK
  <2>3. \A i \in DOMAIN readings[n] : readings'[n][i] = readings[n][i]
    <3>1. CASE n = m
      <4>1. PICK q : q = Append(readings[n], reading)
        OBVIOUS
      <4>2. Len(readings[n]) \in Nat /\ DOMAIN readings[n] = 1 .. Len(readings[n])
        BY <1>4, LenProperties, Zenon
      <4>3. \A i \in 1 .. Len(readings[n]) : q[i] = readings[n][i]
        BY <1>4, <4>1, AppendProperties
      <4>4. readings'[n] = q
        BY <1>1, <3>1, <4>1 DEF MetricsInv, MetricsTypeOK, SamplesTypeOK
      <4> QED BY <4>2, <4>3, <4>4
    <3>2. CASE n # m
      BY <1>1, <3>2 DEF MetricsInv, MetricsTypeOK, SamplesTypeOK
    <3> QED BY <3>1, <3>2
  <2>4. CASE S = {}
    BY <2>1, <2>2, <2>4 DEF Metrics!Latest
  <2>5. CASE S # {}
    <3>1. PICK i : i = CHOOSE j \in S : \A k \in S : j >= k
      OBVIOUS
    <3>2. i \in S
      <4>1. Len(readings[n]) \in Nat /\ DOMAIN readings[n] = 1 .. Len(readings[n])
        BY <1>4, LenProperties, Zenon
      <4>2. \A j \in S : j <= Len(readings[n])
        BY <2>2, <4>1
      <4>3. \E j \in S : \A k \in S : j >= k
        BY <2>2, <2>5, <4>1, <4>2, GreatestNumber
      <4> QED BY <3>1, <4>3
    <3>3. readings'[n][i] = readings[n][i]
      BY <2>2, <2>3, <3>2
    <3>4. /\ Metrics!Latest(n, name) = readings[n][i][name]
          /\ Metrics!Latest(n, name)' = readings'[n][i][name]
      BY <2>1, <2>2, <2>5, <3>1 DEF Metrics!Latest
    <3> QED BY <3>3, <3>4
  <2> QED BY <2>4, <2>5
<1>6. \A r, n : Metrics!Watches(r, n)' <=> Metrics!Watches(r, n)
  BY <1>1 DEF Metrics!Watches
<1>7. ASSUME NEW r \in Rules, Born(r), NEW n \in Nodes
      PROVE  Metrics!Exceeds(r, n)' <=> Metrics!Exceeds(r, n)
  <2>1. PICK name : name = about[r].name
    OBVIOUS
  <2>2. name \in Names
    BY <1>7, <2>1, BornAbout
  <2>3. Metrics!Latest(n, name)' = Metrics!Latest(n, name)
    BY <1>5, <1>7, <2>2
  <2>4. about'[r].name = name /\ about'[r].bar = about[r].bar
    BY <1>1, <2>1
  <2> QED BY <2>1, <2>3, <2>4 DEF Metrics!Exceeds
<1>8. ErrandCurrent(t)'
  <2>1. ErrandCurrent(t)
    BY <1>2 DEF OnErrand
  <2>2. t.pc \in {"list", "rules", "call"} => t.node \in Nodes /\ t.name \in Names
    BY <1>3 DEF ErrandOK
  <2>3. t.pc \in {"list", "rules", "call"}
           => Metrics!Latest(t.node, t.name)' = Metrics!Latest(t.node, t.name)
    BY <1>5, <2>2
  <2> QED BY <1>1, <1>6, <2>1, <2>3 DEF ErrandCurrent
<1>9. FrameCurrent(f)'
  <2>1. FrameCurrent(f)
    BY <1>2 DEF OnErrand
  <2>2. ASSUME f.pc = "create" PROVE Metrics!Exceeds(f.rule, f.target)'
    <3>1. f.rule \in Rules /\ f.target \in Nodes /\ Born(f.rule) /\ Metrics!Exceeds(f.rule, f.target)
      BY <2>1, <2>2 DEF FrameCurrent, Metrics!Watches, Born
    <3> QED BY <1>7, <3>1
  <2>3. ASSUME f.pc = "resolve"
        PROVE  ~Metrics!Exceeds(alerts[f.alert].rule, alerts[f.alert].target)'
    <3>1. PICK r, n : r = alerts[f.alert].rule /\ n = alerts[f.alert].target
      OBVIOUS
    <3>2. r \in Rules /\ n \in Nodes /\ Born(r) /\ ~Metrics!Exceeds(r, n)
      BY <2>1, <2>3, <3>1 DEF FrameCurrent, Sampled, Supported, HasSample
    <3> QED BY <1>1, <1>7, <3>1, <3>2
  <2> QED BY <1>1, <1>6, <2>1, <2>2, <2>3 DEF FrameCurrent
<1>10. Owed(t, f)'
  <2>1. ASSUME NEW r \in Rules, NEW n \in sound, Fits(r, n) PROVE Fits(r, n)'
    <3>1. Evaluator!ActiveFor(r, n)' = Evaluator!ActiveFor(r, n)
      BY <1>1 DEF Evaluator!ActiveFor
    <3>2. CASE Born(r)
      BY <1>4, <1>6, <1>7, <2>1, <3>1, <3>2 DEF Fits
    <3>3. CASE ~Born(r)
      BY <1>1, <3>3 DEF Fits, Metrics!Watches, Born
    <3> QED BY <3>2, <3>3
  <2>2. Owed(t, f)
    BY <1>2 DEF OnErrand
  <2>3. \A r, n : /\ ErrandOwes(t, r, n)' <=> ErrandOwes(t, r, n)
                  /\ CallOwes(f, r, n)' <=> CallOwes(f, r, n)
    BY <1>1 DEF ErrandOwes, ToCome, CallOwes
  <2> QED BY <1>1, <2>1, <2>2, <2>3 DEF Owed
<1> QED BY <1>3, <1>8, <1>9, <1>10, ErrandTurn DEF OnErrand

\* A step of a request is made by a handler that serves one.
LEMMA ErrandsAreBusy ==
    ASSUME NEW p \in MetricHandlers, Metrics!Work(p)
    PROVE  errand[p] # Metrics!NoTask \/ call[p] # Evaluator!Idle
<1>1. CASE \E pc \in {"store", "latest", "list", "rules", "call",
                      "reconcile", "reconciling", "load", "evaluate"} : Metrics!At(p, pc)
  BY <1>1, NoErrandFields DEF Metrics!At
<1>2. CASE Metrics!EvaluatorStep(p)
  BY <1>2, SameStatements, StepsAreBusy, IdleOwesNothing DEF Metrics!EvaluatorStep
<1> QED BY <1>1, <1>2, Zenon DEF Metrics!Work, Metrics!StoreSample, Metrics!ReadLatest,
       Metrics!ListRules, Metrics!EvaluateRule, Metrics!EndCall, Metrics!ReconcileRule,
       Metrics!EndReconcile, Metrics!LoadNodes, Metrics!EvaluateNode

\* At the start nothing is under way, and there is no rule to fit.
LEMMA InitHeard == Metrics!Init => Heard
<1> SUFFICES ASSUME Metrics!Init, NEW p \in MetricHandlers PROVE OnErrand(p)
  BY AlertingAssumption DEF Heard
<1>1. \A q \in MetricHandlers : errand[q] = Metrics!NoTask /\ call[q] = Evaluator!Idle
  BY SameStatements DEF Metrics!Init, Metrics!Evaluator!Init
<1>2. PICK row : row = [state |-> "unborn", enabled |-> FALSE, scope |-> All]
  OBVIOUS
<1>3. rules = [r \in Rules |-> row] /\ row.state = "unborn"
  BY <1>2 DEF Metrics!Init
<1>4. \A r \in Rules : rules[r].state = "unborn"
  BY <1>3, Zenon
<1>5. \A r \in Rules : \A n : Fits(r, n)
  BY <1>4 DEF Fits, Metrics!Watches
<1> QED BY <1>1, <1>5, NoErrandOwesNothing DEF OnErrand, Alone, Owed

\* Every step leaves to the request under way what does not fit, unless
\* requests overlap.
LEMMA NextHeard ==
    ASSUME MetricsInv, Sampled, Heard, [Metrics!Next]_(Metrics!vars)
    PROVE  Heard'
<1> SUFFICES ASSUME sound' # {} PROVE \E p \in MetricHandlers : OnErrand(p)'
  BY DEF Heard
<1>1. PICK anyone \in MetricHandlers : TRUE
  BY AlertingAssumption
<1>2. CASE UNCHANGED Metrics!vars
  <2>1. /\ UNCHANGED <<alerts, rules, about, readings, stored>> /\ sound' = sound
        /\ UNCHANGED <<errand, call>>
    BY <1>2 DEF Metrics!vars, Metrics!evaluatorVars, Metrics!metricVars, Metrics!history
  <2>2. PICK p \in MetricHandlers : OnErrand(p)
    BY <2>1 DEF Heard
  <2>3. PICK t, f : t = errand[p] /\ f = call[p]
    OBVIOUS
  <2>4. Metrics!Continue(p, t) /\ Evaluator!Goto(p, f)
    BY <2>1, <2>3, MetricRows DEF Metrics!Continue, Evaluator!Goto
  <2>5. ErrandCurrent(t) /\ FrameCurrent(f)
    BY <2>2, <2>3 DEF OnErrand
  <2> QED BY <2>1, <2>2, <2>3, <2>4, <2>5, QuietErrand
<1>3. CASE Metrics!Begin
  <2>1. ASSUME NEW n \in Nodes, NEW reading \in Readings, Metrics!Collect(n, reading)
        PROVE  \E p \in MetricHandlers : OnErrand(p)'
    <3>1. sound' = sound
      BY <2>1 DEF Metrics!Collect, Metrics!history
    <3>2. PICK p \in MetricHandlers : OnErrand(p)
      BY <3>1 DEF Heard
    <3> QED BY <2>1, <3>2, CollectErrand
  <2>2. ASSUME NEW r \in Rules, Metrics!DeleteRule(r)
        PROVE  \E p \in MetricHandlers : OnErrand(p)'
    BY <1>1, <2>2, DeleteErrand
  <2>3. ASSUME NEW p \in MetricHandlers,
               \/ \E n \in Nodes : \E t \in DOMAIN readings[n] : Metrics!Deliver(p, n, t)
               \/ Metrics!Edit(p)
        PROVE  OnErrand(p)'
    BY <2>3, DeliverErrand, EditErrand
  <2> QED BY <1>3, <2>1, <2>2, <2>3 DEF Metrics!Begin
<1>4. ASSUME NEW q \in MetricHandlers, Metrics!Work(q)
      PROVE  \E p \in MetricHandlers : OnErrand(p)'
  <2>1. sound' = sound
    BY <1>4 DEF Metrics!Work, Metrics!StoreSample, Metrics!ReadLatest,
       Metrics!ListRules, Metrics!EvaluateRule, Metrics!EndCall, Metrics!ReconcileRule,
       Metrics!EndReconcile, Metrics!LoadNodes, Metrics!EvaluateNode,
       Metrics!EvaluatorStep, Metrics!history
  <2>2. PICK p \in MetricHandlers : OnErrand(p)
    BY <2>1 DEF Heard
  <2>3. q = p
    BY <1>4, <2>2, ErrandsAreBusy DEF OnErrand, Alone
  <2>4. OnErrand(p)'
    BY <1>4, <2>2, <2>3, StoreErrand, ReadErrand, ListErrand, EvaluateErrand, EndCallErrand,
       ReconcileErrand, EndReconcileErrand, LoadErrand, NodeErrand, StepErrand
    DEF Metrics!Work
  <2> QED BY <2>4
<1>5. ASSUME NEW q \in MetricHandlers, Metrics!Break(q) PROVE FALSE
  BY <1>5 DEF Metrics!Break, Metrics!Abort, Metrics!AbortCall, Metrics!Upset
<1> QED BY <1>2, <1>3, <1>4, <1>5 DEF Metrics!Next

\* What is known of the state of the metric monitor holds throughout.
LEMMA MetricsInvariance == Metrics!Spec => [](MetricsInv /\ Sampled /\ Heard)
<1>1. Metrics!Evaluator!AtMostOneActive => Evaluator!AtMostOneActive
  BY SameStatements DEF Metrics!Evaluator!AtMostOneActive, Evaluator!AtMostOneActive
<1>2. Metrics!TypeOK /\ MetricsTypeOK /\ Evaluator!AtMostOneActive => MetricsInv
  BY DEF MetricsInv
<1>3. Metrics!Spec => []MetricsInv
  BY <1>1, <1>2, MetricsTypeCorrect, OneActiveMetricAlert, PTL
<1>4. MetricsInv /\ Sampled /\ Heard /\ [Metrics!Next]_(Metrics!vars) => Sampled' /\ Heard'
  BY SampledNext, NextHeard
<1> QED BY <1>3, <1>4, SampledInit, InitHeard, PTL DEF Metrics!Spec

\* A batch served alone, even one sent long ago, repairs the alerts of its
\* node: whenever nothing is under way, a rule has an active alert for the node
\* exactly if its latest sample is over the threshold, until requests overlap
\* (CreateMetricSample, EvaluateMetricRules, GetLatestNodeMetricSampleByName).
THEOREM AlertsFollowMetrics == Metrics!Spec => []Metrics!AlertsTrackMetrics
<1>1. Sampled /\ Heard => Metrics!AlertsTrackMetrics
  BY AnyonesErrand, SameStatements DEF Metrics!AlertsTrackMetrics, Fits
<1> QED BY <1>1, MetricsInvariance, PTL

AboutMetrics == topic = "metrics"

\* A behaviour about metrics is one of MetricMonitor.
LEMMA MetricsByThemselves == AlertingSpec => []~AboutMetrics \/ ([]AboutMetrics /\ Metrics!Spec)
<1>1. AlertingInit /\ AboutMetrics => Metrics!Init
  BY DEF AlertingInit, AboutMetrics
<1>2. [AlertingNext]_alertingVars /\ AboutMetrics => AboutMetrics' /\ [Metrics!Next]_(Metrics!vars)
  BY DEF AlertingNext, alertingVars, vars, evaluatorVars, metricVars, AboutMetrics,
     Metrics!vars, Metrics!evaluatorVars, Metrics!metricVars, Metrics!history
<1>3. [AlertingNext]_alertingVars /\ ~AboutMetrics => ~AboutMetrics'
  BY DEF AlertingNext, alertingVars, AboutMetrics
<1> QED BY <1>1, <1>2, <1>3, PTL DEF AlertingSpec, Metrics!Spec

\* So it is for the nodes of Alerting.
THEOREM MetricAlertsFollow == AlertingSpec => []MetricAlertsTrack
<1>1. /\ Metrics!AlertsTrackMetrics => MetricAlertsTrack
      /\ ~AboutMetrics => MetricAlertsTrack
  BY DEF MetricAlertsTrack, AboutMetrics
<1> QED BY <1>1, MetricsByThemselves, AlertsFollowMetrics, PTL
=============================================================================
