--------------------------- MODULE ServiceMonitor ---------------------------
(***************************************************************************)
(* Service states and service_unhealthy alerts: agents and the managed     *)
(* check job deliver the results of health checks, each result moves the   *)
(* two counters of its service, and rules are evaluated on the row that    *)
(* was written.  As in NodeMonitor every statement is a transaction of its *)
(* own, so two results for one service can cross; and the alerting is      *)
(* AlertEvaluator, which this module is shown to implement.                *)
(***************************************************************************)
EXTENDS Naturals, Sequences

CONSTANTS
    Rules, AlertIds, None, All,
    Services, \* the services of a project
    Handlers  \* goroutines that serve requests or run checks

ASSUME ServiceAssumption ==
    /\ AlertIds \subseteq Nat /\ None \notin AlertIds \cup Rules \cup Services
    /\ None \notin {"healthy", "degraded", "unhealthy"}
    /\ All \notin Services
    /\ Handlers # {}

VARIABLES
    alerts, rules, events, notices, call, \* as in AlertEvaluator
    service, \* [Services -> ServiceRow]: app.services
    recent,  \* [Services -> Seq(BOOLEAN)]: the last rows of health_check_results
    failed,  \* [Services -> 0 .. 3]: how many of all its rows are failures
    logged,  \* [Services -> ServiceStates]: what the last service event says
    task     \* [Handlers -> Task]: the request or check being handled

serviceVars == <<service, recent, failed, logged>>

Evaluator == INSTANCE AlertEvaluator WITH Targets <- Services, Procs <- Handlers

evaluatorVars == <<alerts, rules, events, notices, call>>
vars == <<evaluatorVars, serviceVars, task>>

ServiceStates == {"healthy", "degraded", "unhealthy"}

\* Failures are counted up to 3, which stands for 3 and more: the code
\* tells no larger numbers apart.  Successes are written as 0 or 1.
ServiceRow == [state : ServiceStates, failures : 0 .. 3, successes : 0 .. 1]

NewService == [state |-> "healthy", failures |-> 0, successes |-> 0]

Up(n) == IF n < 3 THEN n + 1 ELSE 3

\* A task names the statement its goroutine executes next; row is the
\* service as it has read, computed or written it, was the state before.
Task == [pc      : {"idle", "read", "update", "list", "rules", "call", "log",
                    "reconcile", "reconciling", "load", "evaluate"},
         service : Services \cup {None},
         success : BOOLEAN,
         row     : ServiceRow \cup {None},
         was     : ServiceStates \cup {None},
         todo    : SUBSET Rules,
         rest    : SUBSET (Services \X ServiceRow),
         rule    : Rules \cup {None},
         ruleRow : Evaluator!RuleRow \cup {None}]

NoTask == [pc |-> "idle", service |-> None, success |-> FALSE, row |-> None,
           was |-> None, todo |-> {}, rest |-> {}, rule |-> None, ruleRow |-> None]

\* What the statement a task is at needs of it.
TaskOK(t) ==
    /\ t.pc \in {"read", "update", "list", "rules", "call", "log"}
          => t.service \in Services
    /\ t.pc \in {"update", "list", "rules", "call", "log"} => t.row \in ServiceRow
    /\ t.pc \in {"reconcile", "reconciling", "load"}
          => t.rule \in Rules /\ t.ruleRow \in Evaluator!RuleRow

TypeOK ==
    /\ Evaluator!TypeOK
    /\ service \in [Services -> ServiceRow]
    /\ recent \in [Services -> Seq(BOOLEAN)]
    /\ \A s \in Services : Len(recent[s]) <= 3
    /\ failed \in [Services -> 0 .. 3]
    /\ logged \in [Services -> ServiceStates]
    /\ task \in [Handlers -> Task]
    /\ \A p \in Handlers : TaskOK(task[p])

\* CreateService inserts services 'healthy', with both counters 0.
Init ==
    /\ Evaluator!Init
    /\ rules = [r \in Rules |-> [state |-> "unborn", enabled |-> FALSE, scope |-> All]]
    /\ service = [s \in Services |-> NewService]
    /\ recent = [s \in Services |-> <<>>]
    /\ failed = [s \in Services |-> 0]
    /\ logged = [s \in Services |-> "healthy"]
    /\ task = [p \in Handlers |-> NoTask]

-----------------------------------------------------------------------------
(* calculateServiceState.                                                  *)

\* Two failures are enough.
NextRowHasty(row, success) ==
    IF success
    THEN IF row.state = "healthy" \/ row.successes + 1 >= 2
         THEN NewService
         ELSE [state |-> "degraded", failures |-> 0, successes |-> row.successes + 1]
    ELSE [state |-> IF Up(row.failures) >= 2 THEN "unhealthy" ELSE "degraded",
          failures |-> Up(row.failures), successes |-> 0]

\* The successes are not forgotten at a failure.
NextRowForgiving(row, success) ==
    IF success
    THEN IF row.state = "healthy" \/ row.successes + 1 >= 2
         THEN NewService
         ELSE [state |-> "degraded", failures |-> 0, successes |-> row.successes + 1]
    ELSE [state |-> IF Up(row.failures) >= 3 THEN "unhealthy" ELSE "degraded",
          failures |-> Up(row.failures), successes |-> row.successes]

NextRow(row, success) ==
    IF success
    THEN IF row.state = "healthy" \/ row.successes + 1 >= 2
         THEN NewService
         ELSE [state |-> "degraded", failures |-> 0, successes |-> row.successes + 1]
    ELSE [state |-> IF Up(row.failures) >= 3 THEN "unhealthy" ELSE "degraded",
          failures |-> Up(row.failures), successes |-> 0]

-----------------------------------------------------------------------------
(* Results.                                                                *)

At(p, pc) == task[p].pc = pc
Continue(p, t) == task' = [task EXCEPT ![p] = t]

\* The work left when t is through with its service, and with its rules.
NextService(t) ==
    IF t.rest = {} THEN NoTask
    ELSE [NoTask EXCEPT !.pc = "evaluate", !.rest = t.rest]

NextRule(t) ==
    IF t.todo # {} THEN [t EXCEPT !.pc = "rules"]
    ELSE IF t.was \notin {None, t.row.state} THEN [t EXCEPT !.pc = "log"]
    ELSE NextService(t)

LastThree(w) == IF Len(w) > 3 THEN Tail(w) ELSE w

\* Ingest, of a request, of the job or of CheckNow: the result is inserted.
Store(p, s, success) ==
    /\ At(p, "idle")
    /\ recent' = [recent EXCEPT ![s] = LastThree(Append(@, success))]
    /\ failed' = [failed EXCEPT ![s] = IF success THEN @ ELSE Up(@)]
    /\ Continue(p, [NoTask EXCEPT !.pc = "read", !.service = s, !.success = success])
    /\ UNCHANGED <<evaluatorVars, service, logged>>

\* ApplyHealthResult: GetByID, and what the row becomes.
Read(p) ==
    /\ At(p, "read")
    /\ LET row == service[task[p].service] IN
         Continue(p, [task[p] EXCEPT !.pc = "update", !.was = row.state,
                                     !.row = NextRow(row, task[p].success)])
    /\ UNCHANGED <<evaluatorVars, serviceVars>>

\* UpdateState, unconditional.
Update(p) ==
    /\ At(p, "update")
    /\ service' = [service EXCEPT ![task[p].service] = task[p].row]
    /\ Continue(p, [task[p] EXCEPT !.pc = "list"])
    /\ UNCHANGED <<evaluatorVars, recent, failed, logged>>

\* ListEnabled.
Listed(s) ==
    {r \in Rules : /\ rules[r].state = "live"
                   /\ rules[r].enabled
                   /\ rules[r].scope \in {s, All}}

\* Evaluating transitions only.
ListRulesOnChange(p) ==
    /\ At(p, "list")
    /\ Continue(p, IF task[p].row.state = task[p].was THEN NoTask
                   ELSE NextRule([task[p] EXCEPT !.todo = Listed(task[p].service)]))
    /\ UNCHANGED <<evaluatorVars, serviceVars>>

\* EvaluateServiceRules, up to ListEnabled, on a row in hand.
ListRules(p) ==
    /\ At(p, "list")
    /\ Continue(p, NextRule([task[p] EXCEPT !.todo = Listed(task[p].service)]))
    /\ UNCHANGED <<evaluatorVars, serviceVars>>

\* A degraded service alerts.
EvaluateRuleEagerly(p) ==
    /\ At(p, "rules")
    /\ \E r \in task[p].todo :
          /\ Evaluator!Apply(p, r, task[p].service, task[p].row.state # "healthy")
          /\ Continue(p, [task[p] EXCEPT !.pc = "call", !.todo = @ \ {r}])
    /\ UNCHANGED serviceVars

\* The body of its loop.
EvaluateRule(p) ==
    /\ At(p, "rules")
    /\ \E r \in task[p].todo :
          /\ Evaluator!Apply(p, r, task[p].service, task[p].row.state = "unhealthy")
          /\ Continue(p, [task[p] EXCEPT !.pc = "call", !.todo = @ \ {r}])
    /\ UNCHANGED serviceVars

\* The evaluator returns to it; an error ends the request.
EndCall(p) ==
    /\ At(p, "call")
    /\ Continue(p, IF Evaluator!At(p, "failed") THEN NoTask ELSE NextRule(task[p]))
    /\ Evaluator!Return(p)
    /\ UNCHANGED serviceVars

\* CreateServiceStateChange.
LogState(p) ==
    /\ At(p, "log")
    /\ logged' = [logged EXCEPT ![task[p].service] = task[p].row.state]
    /\ Continue(p, NextService(task[p]))
    /\ UNCHANGED <<evaluatorVars, service, recent, failed>>

-----------------------------------------------------------------------------
(* Rule edits.                                                             *)

\* AlertRuleService.Create.
CreateRule(p, r, scope) ==
    /\ At(p, "idle")
    /\ rules[r].state = "unborn"
    /\ LET row == [state |-> "live", enabled |-> TRUE, scope |-> scope] IN
         /\ Evaluator!PutRule(r, row)
         /\ Continue(p, [NoTask EXCEPT !.pc = "load", !.rule = r, !.ruleRow = row])
    /\ UNCHANGED serviceVars

\* AlertRuleService.Update ...
UpdateRule(p, r, enabled, scope) ==
    /\ At(p, "idle")
    /\ rules[r].state = "live"
    /\ LET row == [state |-> "live", enabled |-> enabled, scope |-> scope] IN
         /\ Evaluator!PutRule(r, row)
         /\ Continue(p, [NoTask EXCEPT !.pc = "reconcile", !.rule = r, !.ruleRow = row])
    /\ UNCHANGED serviceVars

\* ... then ReconcileRule ...
ReconcileRule(p) ==
    /\ At(p, "reconcile")
    /\ Evaluator!Reconcile(p, task[p].rule, task[p].ruleRow)
    /\ Continue(p, [task[p] EXCEPT !.pc = "reconciling"])
    /\ UNCHANGED serviceVars

\* ... then, if it is enabled, evaluateCurrentState.
EndReconcile(p) ==
    /\ At(p, "reconciling")
    /\ Continue(p, IF Evaluator!At(p, "done") /\ task[p].ruleRow.enabled
                   THEN [task[p] EXCEPT !.pc = "load"] ELSE NoTask)
    /\ Evaluator!Return(p)
    /\ UNCHANGED serviceVars

\* servicesForRule.
LoadServices(p) ==
    /\ At(p, "load")
    /\ LET found == IF task[p].ruleRow.scope = All THEN Services
                    ELSE {task[p].ruleRow.scope}
       IN  Continue(p, NextService([NoTask EXCEPT
                          !.rest = {<<s, service[s]>> : s \in found}]))
    /\ UNCHANGED <<evaluatorVars, serviceVars>>

\* The loop over them: EvaluateServiceRules on the row as it was loaded.
EvaluateService(p) ==
    /\ At(p, "evaluate")
    /\ \E next \in task[p].rest :
          Continue(p, NextRule([task[p] EXCEPT
             !.service = next[1], !.row = next[2], !.rest = @ \ {next},
             !.todo = Listed(next[1])]))
    /\ UNCHANGED <<evaluatorVars, serviceVars>>

\* AlertRuleService.Delete is one statement.
DeleteRule(r) ==
    /\ Evaluator!DropRule(r)
    /\ UNCHANGED <<serviceVars, task>>

-----------------------------------------------------------------------------
(* Failures.                                                               *)

\* A statement outside the evaluator fails.
Abort(p) ==
    /\ task[p].pc \notin {"idle", "call", "reconciling"}
    /\ Continue(p, NoTask)
    /\ UNCHANGED <<evaluatorVars, serviceVars>>

\* A statement inside the evaluator fails.
AbortCall(p) ==
    /\ task[p].pc \in {"call", "reconciling"}
    /\ Evaluator!Fail(p)
    /\ UNCHANGED <<serviceVars, task>>

EvaluatorStep(p) ==
    /\ Evaluator!Step(p)
    /\ UNCHANGED <<serviceVars, task>>

-----------------------------------------------------------------------------

Edit(p) ==
    \E r \in Rules, scope \in Services \cup {All} :
        \/ CreateRule(p, r, scope)
        \/ \E enabled \in BOOLEAN : UpdateRule(p, r, enabled, scope)

Begin ==
    \/ \E p \in Handlers :
          \/ \E s \in Services, success \in BOOLEAN : Store(p, s, success)
          \/ Edit(p)
    \/ \E r \in Rules : DeleteRule(r)

Work(p) ==
    \/ Read(p) \/ Update(p)
    \/ ListRules(p) \/ EvaluateRule(p) \/ EndCall(p) \/ LogState(p)
    \/ ReconcileRule(p) \/ EndReconcile(p) \/ LoadServices(p) \/ EvaluateService(p)
    \/ EvaluatorStep(p)

Break(p) == Abort(p) \/ AbortCall(p)

Next == Begin \/ \E p \in Handlers : Work(p) \/ Break(p)

Spec == Init /\ [][Next]_vars

Settled == \A p \in Handlers : task[p] = NoTask

\* One request at a time, and no failures.
SerialNext ==
    \/ Settled /\ Begin
    \/ \E p \in Handlers : Work(p)

SerialSpec == Init /\ [][SerialNext]_vars

-----------------------------------------------------------------------------

Alerting(r, s) == Evaluator!ActiveFor(r, s) # {}

Watches(r, s) ==
    /\ rules[r].state = "live" /\ rules[r].enabled
    /\ rules[r].scope \in {s, All}

\* calculateServiceState keeps two counters; this is what they are to say of
\* the results themselves: a service is unhealthy when its last three checks
\* failed, and healthy when its last two succeeded or none ever failed.
Verdict(s) ==
    LET w == recent[s] IN
    IF Len(w) = 3 /\ \A i \in 1 .. 3 : ~w[i] THEN "unhealthy"
    ELSE IF failed[s] = 0 \/ (Len(w) > 1 /\ w[Len(w)] /\ w[Len(w) - 1]) THEN "healthy"
    ELSE "degraded"

\* The incremental counters of ApplyHealthResult agree with the verdict on
\* the stored results, and so does the last event of the service, after any
\* sequence of results and of rule edits, which evaluate rows as well.
StateTellsResults ==
    Settled => \A s \in Services : service[s].state = Verdict(s) /\ logged[s] = Verdict(s)

\* A rule has an active alert for a service it watches exactly when the
\* service is unhealthy, whatever results and edits came before.
AlertsTrackServices ==
    Settled => \A r \in Rules, s \in Services :
                  Watches(r, s) => (Alerting(r, s) <=> service[s].state = "unhealthy")

\* However results overtake each other, are lost or are applied to rows read
\* before others were written: nobody is alerted of a service that has not
\* failed three checks.
AlertsAreEarned ==
    \A a \in AlertIds : alerts[a].status # "none" => failed[alerts[a].target] = 3

\* The monitor calls the evaluator as AlertEvaluator allows.
ImplementsEvaluator == Evaluator!Spec
=============================================================================
