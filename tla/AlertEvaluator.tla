--------------------------- MODULE AlertEvaluator ---------------------------
(***************************************************************************)
(* services/alert-evaluator.service.go: applyRuleCondition,                *)
(* closeActiveAlertForTarget and ReconcileRule, run concurrently by any    *)
(* number of callers (agent requests, jobs, rule edits).  Each repository  *)
(* call is its own transaction, so a call is a sequence of steps that      *)
(* interleave with the others', and any of them may be the last one: a     *)
(* database error, a cancelled request or a killed process abandons the    *)
(* call and keeps what it has written.                                     *)
(*                                                                         *)
(* Callers are left open: they ask for any rule, target and condition.     *)
(* NodeMonitor says which ones the code asks for, and implements this      *)
(* module.                                                                 *)
(***************************************************************************)
EXTENDS AlertStore

CONSTANT Procs \* the goroutines that can be inside the evaluator

VARIABLES
    rules,   \* [Rules -> RuleRow]: app.alert_rules
    events,  \* [AlertIds -> [EventKinds -> Nat]]: rows of app.events
    notices, \* [AlertIds -> [NoticeKinds -> Nat]]: rounds of e-mail sent
    call     \* [Procs -> Frame]: where each goroutine is in the evaluator

evaluatorVars == <<alerts, rules, events, notices, call>>

EventKinds == {"triggered", "resolved", "closed"}
NoticeKinds == {"triggered", "resolved"}

\* state: bigserial ids are not reused, so a dropped rule never comes back.
RuleRow == [state   : {"unborn", "live", "dropped"},
            enabled : BOOLEAN,
            scope   : Targets \cup {All}]

\* A frame names the statement the goroutine executes next.
Frame == [pc     : {"idle", "create", "logTriggered", "sendTriggered",
                    "resolve", "logResolved", "sendResolved",
                    "close", "logClosed", "done", "failed"},
          rule   : Rules \cup {None},
          target : Targets \cup {None},
          alert  : AlertIds \cup {None},
          reason : ClosureReasons \cup {None},
          queue  : SUBSET AlertIds]

Idle == [pc |-> "idle", rule |-> None, target |-> None,
         alert |-> None, reason |-> None, queue |-> {}]

Returned == [Idle EXCEPT !.pc = "done"]
Failed == [Idle EXCEPT !.pc = "failed"]
Opening(r, t) == [Idle EXCEPT !.pc = "create", !.rule = r, !.target = t]
Handling(pc, a) == [Idle EXCEPT !.pc = pc, !.alert = a]

TypeOK ==
    /\ AlertsTypeOK
    /\ rules \in [Rules -> RuleRow]
    /\ events \in [AlertIds -> [EventKinds -> Nat]]
    /\ notices \in [AlertIds -> [NoticeKinds -> Nat]]
    /\ call \in [Procs -> Frame]

Init ==
    /\ alerts = [a \in AlertIds |-> NoRow]
    /\ rules \in [Rules -> RuleRow]
    /\ events = [a \in AlertIds |-> [k \in EventKinds |-> 0]]
    /\ notices = [a \in AlertIds |-> [k \in NoticeKinds |-> 0]]
    /\ call = [p \in Procs |-> Idle]

-----------------------------------------------------------------------------
(* Calls.  The first statement of each is a query, made in the same step.  *)

At(p, pc) == call[p].pc = pc

Goto(p, frame) == call' = [call EXCEPT ![p] = frame]

\* findActiveAlertForTarget, then the switch of applyRuleCondition.
Apply(p, r, t, met) ==
    /\ At(p, "idle")
    /\ \/ /\ met
          /\ ActiveFor(r, t) = {}
          /\ Goto(p, Opening(r, t))
       \/ /\ ~met
          /\ \E a \in ActiveFor(r, t) :
                Goto(p, Handling("resolve", a))
       \/ /\ met <=> ActiveFor(r, t) # {}
          /\ Goto(p, Returned)
    /\ UNCHANGED <<alerts, rules, events, notices>>

\* The frame that closes the alerts in queue, one by one.
Closing(queue, why) ==
    IF queue = {} THEN Returned
    ELSE [Idle EXCEPT !.pc = "close", !.queue = queue, !.reason = why]

CloseForTarget(p, r, t) ==
    /\ At(p, "idle")
    /\ Goto(p, Closing(ActiveFor(r, t), "target_hidden"))
    /\ UNCHANGED <<alerts, rules, events, notices>>

\* Without the comparison of targets.
RuleAppliesToAny(row, a) == TRUE

RuleAppliesTo(row, a) == row.scope = All \/ row.scope = alerts[a].target

\* ReconcileRule: row is the rule as the caller has just written it.
Reconcile(p, r, row) ==
    /\ At(p, "idle")
    /\ LET stale == {a \in ActiveOfRule(r) :
                        ~(row.enabled /\ RuleAppliesTo(row, a))}
           why   == IF row.enabled THEN "rule_scope_changed" ELSE "rule_disabled"
       IN  Goto(p, Closing(stale, why))
    /\ UNCHANGED <<alerts, rules, events, notices>>

-----------------------------------------------------------------------------
(* Steps inside a call.                                                    *)

Create(p) ==
    /\ At(p, "create")
    /\ rules[call[p].rule].state = "live"
    /\ \E a \in AlertIds :
          /\ InsertActive(a, call[p].rule, call[p].target)
          /\ Goto(p, Handling("logTriggered", a))
    /\ UNCHANGED <<rules, events, notices>>

\* isUniqueViolation: somebody else opened the incident first.
CreateLost(p) ==
    /\ At(p, "create")
    /\ ActiveFor(call[p].rule, call[p].target) # {}
    /\ Goto(p, Returned)
    /\ UNCHANGED <<alerts, rules, events, notices>>

\* The foreign key: the rule is deleted by now.
CreateRefused(p) ==
    /\ At(p, "create")
    /\ rules[call[p].rule].state # "live"
    /\ Goto(p, Failed)
    /\ UNCHANGED <<alerts, rules, events, notices>>

Resolve(p) ==
    /\ At(p, "resolve")
    /\ MarkResolved(call[p].alert)
    /\ Goto(p, Handling("logResolved", call[p].alert))
    /\ UNCHANGED <<rules, events, notices>>

\* sql.ErrNoRows: the incident has ended since it was looked up.
ResolveLost(p) ==
    /\ At(p, "resolve")
    /\ alerts[call[p].alert].status # "active"
    /\ Goto(p, Returned)
    /\ UNCHANGED <<alerts, rules, events, notices>>

\* The rows of a list query come ordered by id.
IsFirst(a, queue) == a \in queue /\ \A b \in queue : a <= b

Close(p) ==
    /\ At(p, "close")
    /\ \E a \in AlertIds :
          /\ IsFirst(a, call[p].queue)
          /\ MarkClosed(a, call[p].reason)
          /\ Goto(p, [call[p] EXCEPT !.pc = "logClosed", !.alert = a,
                                     !.queue = @ \ {a}])
    /\ UNCHANGED <<rules, events, notices>>

CloseLost(p) ==
    /\ At(p, "close")
    /\ \E a \in AlertIds :
          /\ IsFirst(a, call[p].queue)
          /\ alerts[a].status # "active"
          /\ Goto(p, Closing(call[p].queue \ {a}, call[p].reason))
    /\ UNCHANGED <<alerts, rules, events, notices>>

\* EventService.CreateAlertTriggered / Resolved / Closed.
Log(p, k) ==
    events' = [events EXCEPT ![call[p].alert][k] = @ + 1]

LogTriggered(p) ==
    /\ At(p, "logTriggered")
    /\ Log(p, "triggered")
    /\ Goto(p, [call[p] EXCEPT !.pc = "sendTriggered"])
    /\ UNCHANGED <<alerts, rules, notices>>

LogResolved(p) ==
    /\ At(p, "logResolved")
    /\ Log(p, "resolved")
    /\ Goto(p, [call[p] EXCEPT !.pc = "sendResolved"])
    /\ UNCHANGED <<alerts, rules, notices>>

LogClosed(p) ==
    /\ At(p, "logClosed")
    /\ Log(p, "closed")
    /\ Goto(p, Closing(call[p].queue, call[p].reason))
    /\ UNCHANGED <<alerts, rules, notices>>

\* Retried after an error, from the first recipient.
SendRetried(p, k) ==
    /\ notices' = [notices EXCEPT ![call[p].alert][k] = @ + 1]
    /\ notices[call[p].alert][k] < 2
    /\ Goto(p, Returned) \/ UNCHANGED call
    /\ UNCHANGED <<alerts, rules, events>>

\* NotifyAlertTriggered / NotifyAlertResolved: recipients are mailed once
\* each; an error before the first is logged and the call still succeeds.
Send(p, k) ==
    /\ \/ notices' = [notices EXCEPT ![call[p].alert][k] = @ + 1]
       \/ UNCHANGED notices
    /\ Goto(p, Returned)
    /\ UNCHANGED <<alerts, rules, events>>

SendTriggered(p) == At(p, "sendTriggered") /\ Send(p, "triggered")
SendResolved(p) == At(p, "sendResolved") /\ Send(p, "resolved")

\* The database refuses a statement, the request is cancelled or the process
\* dies: the call ends where it stands.
Fail(p) ==
    /\ ~At(p, "done") /\ ~At(p, "failed")
    /\ Goto(p, Failed)
    /\ UNCHANGED <<alerts, rules, events, notices>>

Return(p) ==
    /\ At(p, "done") \/ At(p, "failed")
    /\ Goto(p, Idle)
    /\ UNCHANGED <<alerts, rules, events, notices>>

Step(p) ==
    \/ Create(p) \/ CreateLost(p) \/ CreateRefused(p)
    \/ LogTriggered(p) \/ SendTriggered(p)
    \/ Resolve(p) \/ ResolveLost(p) \/ LogResolved(p) \/ SendResolved(p)
    \/ Close(p) \/ CloseLost(p) \/ LogClosed(p)

Call(p) ==
    \/ \E r \in Rules, t \in Targets, met \in BOOLEAN : Apply(p, r, t, met)
    \/ \E r \in Rules, t \in Targets : CloseForTarget(p, r, t)
    \/ \E r \in Rules, row \in RuleRow : Reconcile(p, r, row)

-----------------------------------------------------------------------------
(* The rule rows, which AlertRuleService writes.                           *)

PutRule(r, row) ==
    /\ rules[r].state # "dropped"
    /\ row.state = "live"
    /\ rules' = [rules EXCEPT ![r] = row]
    /\ UNCHANGED <<alerts, events, notices, call>>

DropRule(r) ==
    /\ rules[r].state = "live"
    /\ rules' = [rules EXCEPT ![r].state = "dropped"]
    /\ DropAlertsOf(r)
    /\ UNCHANGED <<events, notices, call>>

Next ==
    \/ \E p \in Procs : Call(p) \/ Step(p) \/ Fail(p) \/ Return(p)
    \/ \E r \in Rules, row \in RuleRow : PutRule(r, row)
    \/ \E r \in Rules : DropRule(r)

Spec == Init /\ [][Next]_evaluatorVars

-----------------------------------------------------------------------------
(* The inductive invariant: which facts a goroutine may rely on between    *)
(* two of its statements although the others run in between.               *)

TellsOpening(p, a) ==
    call[p].pc \in {"logTriggered", "sendTriggered"} /\ call[p].alert = a

TellsEnd(p, a) ==
    /\ call[p].pc \in {"logResolved", "sendResolved", "logClosed"}
    /\ call[p].alert = a

\* What call[p] needs of its operands, by program counter.
FrameOK(p) ==
    LET f == call[p] IN
    /\ f.pc = "create" => f.rule \in Rules /\ f.target \in Targets
    /\ f.pc \in {"resolve", "logTriggered", "sendTriggered", "logResolved",
                 "sendResolved", "logClosed"}
          => f.alert \in AlertIds /\ alerts[f.alert].status # "none"
    /\ f.pc \in {"close", "logClosed"}
          => f.reason \in ClosureReasons
    /\ \A a \in f.queue : alerts[a].status # "none"

\* What the ledgers hold of an incident while p is telling it.
TellerOK(p) ==
    LET f == call[p]
        a == call[p].alert
    IN  /\ f.pc = "logTriggered"
              => events[a]["triggered"] = 0 /\ notices[a]["triggered"] = 0
        /\ f.pc = "sendTriggered"
              => events[a]["triggered"] = 1 /\ notices[a]["triggered"] = 0
        /\ f.pc \in {"logResolved", "logClosed"}
              => events[a]["resolved"] = 0 /\ events[a]["closed"] = 0
        /\ f.pc \in {"logResolved", "sendResolved"}
              => /\ alerts[a].status \in {"resolved", "deleted"}
                 /\ notices[a]["resolved"] = 0
        /\ f.pc = "sendResolved" => events[a]["resolved"] = 1
        /\ f.pc = "logClosed" => alerts[a].status \in {"closed", "deleted"}

\* No two goroutines tell the same turn of the same incident.
OneTeller ==
    \A p, q \in Procs, a \in AlertIds :
        /\ TellsOpening(p, a) /\ TellsOpening(q, a) => p = q
        /\ TellsEnd(p, a) /\ TellsEnd(q, a) => p = q

\* Nothing is on record of an incident that has not come that far.
NothingEarly ==
    \A a \in AlertIds :
        /\ alerts[a].status = "none" =>
              events[a]["triggered"] = 0 /\ notices[a]["triggered"] = 0
        /\ alerts[a].status \in {"none", "active"} =>
              /\ events[a]["resolved"] = 0
              /\ events[a]["closed"] = 0
              /\ notices[a]["resolved"] = 0

IInv ==
    /\ TypeOK
    /\ AtMostOneActive
    /\ \A p \in Procs : FrameOK(p) /\ TellerOK(p)
    /\ OneTeller
    /\ NothingEarly

-----------------------------------------------------------------------------

Lifecycle == INSTANCE AlertLifecycle

\* The evaluator implements the incident life cycle.
ImplementsLifecycle == Lifecycle!Spec

\* However evaluations overlap and break off, recipients are told of a turn
\* only if it is in the event log, once, and nobody reads both "resolved" and
\* "closed" about one incident.
LedgersAgree == Lifecycle!LedgersAgree

\* An incident that has ended stays ended, for the reason first given: no
\* evaluation still under way reopens it or turns "resolved" into "closed".
EndedForGood == Lifecycle!EndedForGood
=============================================================================
