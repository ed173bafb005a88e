------------------------ MODULE AlertEvaluatorProofs ------------------------
(***************************************************************************)
(* For any number of goroutines, rules, targets and alerts: IInv is an     *)
(* invariant of the evaluator, at most one alert is active per rule and    *)
(* target, and the evaluator implements AlertLifecycle.                    *)
(***************************************************************************)
EXTENDS AlertEvaluator, TLAPS

USE AlertStoreAssumption

(* Typing.                                                                 *)

\* The frames the evaluator goes to are frames.
LEMMA FramesTyped ==
    /\ Idle \in Frame /\ Returned \in Frame /\ Failed \in Frame
    /\ \A r \in Rules, t \in Targets : Opening(r, t) \in Frame
    /\ \A a \in AlertIds, pc \in {"resolve", "logTriggered", "logResolved"} :
          Handling(pc, a) \in Frame
    /\ \A queue \in SUBSET AlertIds, why \in ClosureReasons \cup {None} :
          Closing(queue, why) \in Frame
  BY DEF Idle, Returned, Failed, Opening, Handling, Frame, Closing

\* Active alerts are alerts.
LEMMA ActiveTyped ==
    \A r, t : ActiveFor(r, t) \subseteq AlertIds /\ ActiveOfRule(r) \subseteq AlertIds
  BY DEF ActiveFor, ActiveOfRule

(* Steps that only move a goroutine to a place where it tells nothing.     *)

TellingPcs == {"logTriggered", "sendTriggered", "logResolved", "sendResolved", "logClosed"}

\* A goroutine that looks something up, loses a race, fails or returns.
LEMMA QuietMove ==
    ASSUME IInv, NEW p \in Procs, NEW f \in Frame,
           f.pc \notin TellingPcs,
           f.pc = "create" => f.rule \in Rules /\ f.target \in Targets,
           f.pc = "resolve" => f.alert \in AlertIds /\ alerts[f.alert].status # "none",
           f.pc = "close" => f.reason \in ClosureReasons,
           \A a \in f.queue : alerts[a].status # "none",
           call' = [call EXCEPT ![p] = f],
           UNCHANGED <<alerts, rules, events, notices>>
    PROVE  IInv'
<1>1. TypeOK'
  BY DEF IInv, TypeOK, AlertsTypeOK
<1>2. AtMostOneActive' /\ NothingEarly'
  BY DEF IInv, AtMostOneActive, NothingEarly
<1>3. call'[p] = f /\ \A q \in Procs \ {p} : call'[q] = call[q]
  BY DEF IInv, TypeOK
<1>4. ASSUME NEW q \in Procs PROVE FrameOK(q)' /\ TellerOK(q)'
  <2>1. CASE q = p
    BY <1>3, <2>1 DEF FrameOK, TellerOK, TellingPcs
  <2>2. CASE q # p
    <3>1. FrameOK(q) /\ TellerOK(q)
      BY DEF IInv
    <3>2. call'[q] = call[q]
      BY <1>3, <2>2
    <3>3. FrameOK(q)'
      BY <3>1, <3>2 DEF FrameOK
    <3>4. TellerOK(q)'
      BY <3>1, <3>2 DEF TellerOK
    <3>5. QED BY <3>3, <3>4
  <2>3. QED BY <2>1, <2>2
<1>5. OneTeller'
  <2>1. \A q \in Procs, a \in AlertIds :
           /\ TellsOpening(q, a)' => TellsOpening(q, a)
           /\ TellsEnd(q, a)' => TellsEnd(q, a)
    BY <1>3 DEF TellsOpening, TellsEnd, TellingPcs
  <2>2. QED
    BY <2>1 DEF IInv, OneTeller
<1>6. QED
  BY <1>1, <1>2, <1>4, <1>5 DEF IInv

\* Entering the evaluator: the query it starts with.
LEMMA CallInv ==
    ASSUME IInv, NEW p \in Procs, Call(p)
    PROVE  IInv'
<1>1. ASSUME NEW r \in Rules, NEW t \in Targets, NEW met \in BOOLEAN, Apply(p, r, t, met)
      PROVE  IInv'
  <2>1. CASE call' = [call EXCEPT ![p] = Opening(r, t)]
    BY <1>1, <2>1, QuietMove, FramesTyped DEF Apply, Opening, Idle, TellingPcs
  <2>2. ASSUME NEW a \in ActiveFor(r, t), call' = [call EXCEPT ![p] = Handling("resolve", a)]
        PROVE  IInv'
    <3>1. a \in AlertIds /\ alerts[a].status = "active"
      BY DEF ActiveFor
    <3>2. Handling("resolve", a) \in Frame
      BY <3>1, FramesTyped
    <3>3. QED
      BY <1>1, <2>2, <3>1, <3>2, QuietMove DEF Apply, Handling, Idle, TellingPcs
  <2>3. CASE call' = [call EXCEPT ![p] = Returned]
    BY <1>1, <2>3, QuietMove, FramesTyped DEF Apply, Returned, Idle, TellingPcs
  <2>4. QED
    BY <1>1, <2>1, <2>2, <2>3 DEF Apply, Goto
<1>2. ASSUME NEW queue \in SUBSET AlertIds, NEW why \in ClosureReasons,
             \A a \in queue : alerts[a].status # "none",
             call' = [call EXCEPT ![p] = Closing(queue, why)],
             UNCHANGED <<alerts, rules, events, notices>>
      PROVE  IInv'
  BY <1>2, QuietMove, FramesTyped DEF Closing, Returned, Idle, TellingPcs
<1>3. ASSUME NEW r \in Rules, NEW t \in Targets, CloseForTarget(p, r, t)
      PROVE  IInv'
  <2>1. ActiveFor(r, t) \in SUBSET AlertIds /\ "target_hidden" \in ClosureReasons
    BY ActiveTyped DEF ClosureReasons
  <2>2. \A a \in ActiveFor(r, t) : alerts[a].status # "none"
    BY DEF ActiveFor
  <2>3. QED
    BY <1>2, <1>3, <2>1, <2>2 DEF CloseForTarget, Goto
<1>4. ASSUME NEW r \in Rules, NEW row \in RuleRow, Reconcile(p, r, row)
      PROVE  IInv'
  <2> DEFINE stale == {a \in ActiveOfRule(r) : ~(row.enabled /\ RuleAppliesTo(row, a))}
             why == IF row.enabled THEN "rule_scope_changed" ELSE "rule_disabled"
  <2>1. stale \in SUBSET AlertIds /\ why \in ClosureReasons
    BY ActiveTyped DEF ClosureReasons
  <2>2. \A a \in stale : alerts[a].status # "none"
    BY DEF ActiveOfRule
  <2>3. call' = [call EXCEPT ![p] = Closing(stale, why)]
        /\ UNCHANGED <<alerts, rules, events, notices>>
    BY <1>4 DEF Reconcile, Goto
  <2>4. QED
    BY <1>2, <2>1, <2>2, <2>3
<1>5. QED
  BY <1>1, <1>3, <1>4 DEF Call

(* Steps that write a row, and then tell of it.                            *)

\* One goroutine moves, to a place the types allow: the others stay.
LEMMA OthersStay ==
    ASSUME TypeOK, NEW p \in Procs, NEW f, call' = [call EXCEPT ![p] = f]
    PROVE  call'[p] = f /\ \A q \in Procs \ {p} : call'[q] = call[q]
  BY DEF TypeOK

\* Opening an incident: the new row is one nobody has told anything of.
LEMMA CreateInv ==
    ASSUME IInv, NEW p \in Procs, Create(p)
    PROVE  IInv'
<1>1. PICK a \in AlertIds :
         /\ InsertActive(a, call[p].rule, call[p].target)
         /\ call' = [call EXCEPT ![p] = Handling("logTriggered", a)]
  BY DEF Create, Goto
<1> DEFINE row == [status |-> "active", rule |-> call[p].rule,
                   target |-> call[p].target, reason |-> None]
           f == Handling("logTriggered", a)
<1>2. f \in Frame /\ f.pc = "logTriggered" /\ f.alert = a /\ f.queue = {}
  BY FramesTyped DEF Handling, Idle
<1>3. row \in AlertRow
  BY DEF IInv, FrameOK, Create, At, AlertRow, Statuses
<1>4. /\ alerts' = [alerts EXCEPT ![a] = row]
      /\ alerts[a].status = "none"
      /\ ActiveFor(call[p].rule, call[p].target) = {}
      /\ UNCHANGED <<rules, events, notices>>
  BY <1>1 DEF InsertActive, IsNextId, Create
<1>5. alerts'[a] = row /\ \A b \in AlertIds \ {a} : alerts'[b] = alerts[b]
  BY <1>4 DEF IInv, TypeOK, AlertsTypeOK
<1>6. call'[p] = f /\ \A q \in Procs \ {p} : call'[q] = call[q]
  BY <1>1, OthersStay DEF IInv
<1>7. TypeOK'
  BY <1>1, <1>2, <1>3, <1>4 DEF IInv, TypeOK, AlertsTypeOK
<1>8. AtMostOneActive'
  BY <1>4, <1>5 DEF IInv, AtMostOneActive, ActiveFor
<1>9. NothingEarly'
  BY <1>4, <1>5 DEF IInv, NothingEarly
<1>10. \A b \in AlertIds : alerts[b].status # "none" => alerts'[b] = alerts[b]
  BY <1>4, <1>5
<1>11. ASSUME NEW q \in Procs PROVE FrameOK(q)' /\ TellerOK(q)'
  <2>1. CASE q = p
    BY <1>2, <1>4, <1>5, <1>6, <2>1 DEF FrameOK, TellerOK, IInv, NothingEarly
  <2>2. CASE q # p
    <3>1. FrameOK(q) /\ TellerOK(q) /\ call'[q] = call[q] /\ call[q] \in Frame
      BY <1>6, <2>2 DEF IInv, TypeOK
    <3>2. FrameOK(q)'
      BY <3>1, <1>10 DEF FrameOK, Frame
    <3>3. TellerOK(q)'
      BY <3>1, <1>4, <1>10 DEF FrameOK, TellerOK
    <3>4. QED BY <3>2, <3>3
  <2>3. QED BY <2>1, <2>2
<1>12. \A q \in Procs : ~TellsOpening(q, a) /\ ~TellsEnd(q, a)
  BY <1>4 DEF IInv, FrameOK, TellsOpening, TellsEnd
<1>13. OneTeller'
  <2>1. \A q \in Procs, b \in AlertIds :
           /\ TellsOpening(q, b)' => TellsOpening(q, b) \/ (q = p /\ b = a)
           /\ TellsEnd(q, b)' => TellsEnd(q, b)
    BY <1>2, <1>6 DEF TellsOpening, TellsEnd
  <2>2. QED
    BY <1>12, <2>1 DEF IInv, OneTeller
<1>14. QED
  BY <1>7, <1>8, <1>9, <1>11, <1>13 DEF IInv

\* Ending an incident: f is the frame that goes on to tell of it.
LEMMA EndInv ==
    ASSUME IInv, NEW p \in Procs, NEW a \in AlertIds, NEW f \in Frame,
           NEW row \in AlertRow,
           alerts[a].status = "active",
           \/ f.pc = "logResolved" /\ row.status = "resolved"
           \/ f.pc = "logClosed" /\ row.status = "closed" /\ f.reason \in ClosureReasons,
           alerts' = [alerts EXCEPT ![a] = row],
           f.alert = a,
           \A b \in f.queue : alerts[b].status # "none",
           call' = [call EXCEPT ![p] = f],
           UNCHANGED <<rules, events, notices>>
    PROVE  IInv'
<1>1. call'[p] = f /\ \A q \in Procs \ {p} : call'[q] = call[q]
  BY OthersStay DEF IInv
<1>2. /\ f.pc = "logResolved" => alerts'[a].status = "resolved"
      /\ f.pc = "logClosed" => alerts'[a].status = "closed"
      /\ f.pc \in {"logResolved", "logClosed"}
      /\ \A b \in AlertIds \ {a} : alerts'[b] = alerts[b]
  BY DEF IInv, TypeOK, AlertsTypeOK
<1>4. TypeOK'
  BY DEF IInv, TypeOK, AlertsTypeOK
<1>5. \A b \in AlertIds : alerts'[b].status = "active" => alerts'[b] = alerts[b]
  BY <1>2
<1>6. AtMostOneActive'
  <2>1. AtMostOneActive
    BY DEF IInv
  <2>2. SUFFICES ASSUME NEW b \in AlertIds, NEW c \in AlertIds,
                        alerts'[b].status = "active", alerts'[c].status = "active",
                        alerts'[b].rule = alerts'[c].rule,
                        alerts'[b].target = alerts'[c].target
                 PROVE  b = c
    BY DEF AtMostOneActive
  <2>3. alerts'[b] = alerts[b] /\ alerts'[c] = alerts[c]
    BY <1>5, <2>2
  <2>4. QED BY <2>1, <2>2, <2>3 DEF AtMostOneActive
<1>7. NothingEarly'
  BY <1>2 DEF IInv, NothingEarly
<1>8. \A q \in Procs : ~TellsEnd(q, a)
  BY DEF IInv, TellerOK, TellsEnd
<1>9. ASSUME NEW q \in Procs PROVE FrameOK(q)' /\ TellerOK(q)'
  <2>1. CASE q = p
    <3>1. events'[a]["resolved"] = 0 /\ events'[a]["closed"] = 0 /\ notices'[a]["resolved"] = 0
      BY DEF IInv, NothingEarly
    <3>2. call'[q] = f /\ f.alert = a /\ f \in Frame
      BY <1>1, <2>1
    <3>3. \A b \in AlertIds : alerts[b].status # "none" => alerts'[b].status # "none"
      BY <1>2
    <3>4. \A b \in f.queue : alerts'[b].status # "none"
      BY <3>2, <3>3 DEF Frame
    <3>5. FrameOK(q)'
      BY <1>2, <3>2, <3>4 DEF FrameOK
    <3>6. TellerOK(q)'
      BY <1>2, <3>1, <3>2 DEF TellerOK
    <3>7. QED BY <3>5, <3>6
  <2>2. CASE q # p
    <3>1. FrameOK(q) /\ TellerOK(q) /\ call'[q] = call[q] /\ call[q] \in Frame
      BY <1>1, <2>2 DEF IInv, TypeOK
    <3>2. FrameOK(q)'
      BY <3>1, <1>2 DEF FrameOK, Frame
    <3>3. TellerOK(q)'
      BY <3>1, <1>2 DEF FrameOK, TellerOK
    <3>4. QED BY <3>2, <3>3
  <2>3. QED BY <2>1, <2>2
<1>10. OneTeller'
  <2>1. \A q \in Procs, b \in AlertIds :
           /\ TellsOpening(q, b)' => TellsOpening(q, b)
           /\ TellsEnd(q, b)' => TellsEnd(q, b) \/ (q = p /\ b = a)
    BY <1>1, <1>2 DEF TellsOpening, TellsEnd
  <2>2. QED
    BY <1>8, <2>1 DEF IInv, OneTeller
<1>11. QED
  BY <1>4, <1>6, <1>7, <1>9, <1>10 DEF IInv

\* EndInv, for resolveActiveAlert and closeActiveAlert.
LEMMA ResolveCloseInv ==
    ASSUME IInv, NEW p \in Procs, Resolve(p) \/ Close(p)
    PROVE  IInv'
<1>1. CASE Resolve(p)
  <2> DEFINE a == call[p].alert
             f == Handling("logResolved", a)
             row == [alerts[a] EXCEPT !.status = "resolved"]
  <2>1. a \in AlertIds /\ alerts[a] \in AlertRow
    BY <1>1 DEF Resolve, At, IInv, FrameOK, TypeOK, AlertsTypeOK
  <2>2. f \in Frame /\ f.pc = "logResolved" /\ f.alert = a /\ f.queue = {}
    BY <2>1, FramesTyped DEF Handling, Idle
  <2>3. row \in AlertRow /\ row.status = "resolved"
    BY <2>1 DEF AlertRow, Statuses
  <2>4. /\ alerts[a].status = "active"
        /\ alerts' = [alerts EXCEPT ![a] = row]
        /\ call' = [call EXCEPT ![p] = f]
        /\ UNCHANGED <<rules, events, notices>>
    BY <1>1 DEF Resolve, MarkResolved, Goto
  <2> HIDE DEF a, f, row
  <2>5. QED
    BY <2>1, <2>2, <2>3, <2>4, EndInv
<1>2. CASE Close(p)
  <2>1. PICK a \in AlertIds :
           /\ a \in call[p].queue
           /\ MarkClosed(a, call[p].reason)
           /\ call' = [call EXCEPT ![p] = [call[p] EXCEPT !.pc = "logClosed", !.alert = a,
                                                          !.queue = @ \ {a}]]
    BY <1>2 DEF Close, Goto, IsFirst
  <2> DEFINE f == [call[p] EXCEPT !.pc = "logClosed", !.alert = a, !.queue = @ \ {a}]
             row == [alerts[a] EXCEPT !.status = "closed", !.reason = call[p].reason]
  <2>2. alerts[a] \in AlertRow /\ call[p] \in Frame /\ call[p].reason \in ClosureReasons
    BY <1>2 DEF Close, At, IInv, FrameOK, TypeOK, AlertsTypeOK
  <2>3. /\ f \in Frame /\ f.pc = "logClosed" /\ f.alert = a
        /\ f.reason \in ClosureReasons /\ f.queue \subseteq call[p].queue
    BY <2>2 DEF Frame
  <2>4. \A b \in f.queue : alerts[b].status # "none"
    BY <2>3 DEF IInv, FrameOK
  <2>5. row \in AlertRow /\ row.status = "closed"
    BY <2>2 DEF AlertRow, Statuses
  <2>6. /\ alerts[a].status = "active"
        /\ alerts' = [alerts EXCEPT ![a] = row]
        /\ call' = [call EXCEPT ![p] = f]
        /\ UNCHANGED <<rules, events, notices>>
    BY <1>2, <2>1 DEF Close, MarkClosed
  <2> HIDE DEF f, row
  <2>7. QED
    BY <2>3, <2>4, <2>5, <2>6, EndInv
<1>3. QED
  BY <1>1, <1>2

\* Adding one to an entry of a ledger changes that entry only.
LEMMA LedgerEntry ==
    ASSUME NEW Kinds, NEW L \in [AlertIds -> [Kinds -> Nat]], NEW M,
           NEW a \in AlertIds, NEW k \in Kinds, M = [L EXCEPT ![a][k] = @ + 1]
    PROVE  /\ M \in [AlertIds -> [Kinds -> Nat]]
           /\ M[a][k] = L[a][k] + 1
           /\ \A b \in AlertIds, j \in Kinds : b # a \/ j # k => M[b][j] = L[b][j]
  OBVIOUS

\* Telling the opening of an incident: p alone does, so no entry is doubled.
LEMMA TellOpeningInv ==
    ASSUME IInv, NEW p \in Procs, LogTriggered(p) \/ SendTriggered(p)
    PROVE  IInv'
<1> DEFINE a == call[p].alert
           f == call'[p]
<1>1. /\ a \in AlertIds /\ alerts[a].status # "none" /\ call[p] \in Frame
      /\ TellsOpening(p, a) /\ FrameOK(p) /\ TellerOK(p)
  BY DEF IInv, TypeOK, FrameOK, TellsOpening, LogTriggered, SendTriggered, At
<1>2. UNCHANGED <<alerts, rules>> /\ \A q \in Procs \ {p} : call'[q] = call[q]
  BY DEF LogTriggered, SendTriggered, Send, Goto, IInv, TypeOK
<1>3. /\ f \in Frame /\ call' \in [Procs -> Frame] /\ f.queue \subseteq call[p].queue
      /\ \/ f.pc = "sendTriggered" /\ f.alert = a /\ At(p, "logTriggered")
         \/ f.pc = "done"
  <2>1. CASE LogTriggered(p)
    BY <1>1, <2>1 DEF LogTriggered, Goto, IInv, TypeOK, Frame
  <2>2. CASE SendTriggered(p)
    BY <1>1, <2>2, FramesTyped DEF SendTriggered, Send, Goto, IInv, TypeOK, Returned, Idle
  <2>3. QED BY <2>1, <2>2
<1>4. /\ events' \in [AlertIds -> [EventKinds -> Nat]]
      /\ notices' \in [AlertIds -> [NoticeKinds -> Nat]]
      /\ \A b \in AlertIds :
            /\ events'[b]["resolved"] = events[b]["resolved"]
            /\ events'[b]["closed"] = events[b]["closed"]
            /\ notices'[b]["resolved"] = notices[b]["resolved"]
            /\ b # a => /\ events'[b]["triggered"] = events[b]["triggered"]
                        /\ notices'[b]["triggered"] = notices[b]["triggered"]
      /\ f.pc = "sendTriggered" => events'[a]["triggered"] = 1 /\ notices'[a]["triggered"] = 0
  <2>1. /\ events \in [AlertIds -> [EventKinds -> Nat]] /\ "triggered" \in EventKinds
        /\ notices \in [AlertIds -> [NoticeKinds -> Nat]] /\ "triggered" \in NoticeKinds
        /\ {"resolved", "closed"} \subseteq EventKinds /\ "resolved" \in NoticeKinds
    BY DEF IInv, TypeOK, EventKinds, NoticeKinds
  <2>2. CASE LogTriggered(p)
    <3>1. events' = [events EXCEPT ![a]["triggered"] = @ + 1] /\ UNCHANGED notices
      BY <2>2 DEF LogTriggered, Log
    <3>2. events[a]["triggered"] = 0 /\ notices[a]["triggered"] = 0
      BY <1>1, <2>2 DEF LogTriggered, At, TellerOK
    <3>3. /\ events' \in [AlertIds -> [EventKinds -> Nat]]
          /\ events'[a]["triggered"] = events[a]["triggered"] + 1
          /\ \A b \in AlertIds, j \in EventKinds :
                b # a \/ j # "triggered" => events'[b][j] = events[b][j]
      BY <1>1, <2>1, <3>1, LedgerEntry
    <3>4. QED BY <1>1, <2>1, <3>1, <3>2, <3>3 DEF EventKinds
  <2>3. CASE SendTriggered(p)
    <3>1. /\ \/ notices' = [notices EXCEPT ![a]["triggered"] = @ + 1]
             \/ UNCHANGED notices
          /\ UNCHANGED events
      BY <2>3 DEF SendTriggered, Send
    <3>2. f.pc = "done"
      BY <1>3, <2>3 DEF SendTriggered, At
    <3>3. /\ notices' \in [AlertIds -> [NoticeKinds -> Nat]]
          /\ \A b \in AlertIds, j \in NoticeKinds :
                b # a \/ j # "triggered" => notices'[b][j] = notices[b][j]
      <4>1. CASE UNCHANGED notices
        BY <2>1, <4>1
      <4>2. CASE notices' = [notices EXCEPT ![a]["triggered"] = @ + 1]
        BY <1>1, <2>1, <4>2, LedgerEntry
      <4>3. QED BY <3>1, <4>1, <4>2
    <3>4. QED BY <1>1, <2>1, <3>1, <3>2, <3>3 DEF NoticeKinds
  <2>4. QED BY <2>2, <2>3
<1> HIDE DEF a, f
<1>5. TypeOK' /\ AtMostOneActive' /\ NothingEarly'
  <2>1. TypeOK'
    BY <1>2, <1>3, <1>4 DEF IInv, TypeOK, AlertsTypeOK
  <2>2. AtMostOneActive'
    BY <1>2 DEF IInv, AtMostOneActive
  <2>3. NothingEarly'
    BY <1>1, <1>2, <1>4 DEF IInv, NothingEarly
  <2>4. QED BY <2>1, <2>2, <2>3
<1>6. ASSUME NEW q \in Procs PROVE FrameOK(q)' /\ TellerOK(q)'
  <2>1. CASE q = p
    <3>1. call'[q] = f
      BY <2>1 DEF f
    <3>2. FrameOK(q)'
      BY <1>1, <1>2, <1>3, <3>1, <2>1 DEF FrameOK, Frame
    <3>3. TellerOK(q)'
      BY <1>3, <1>4, <3>1 DEF TellerOK
    <3>4. QED BY <3>2, <3>3
  <2>2. CASE q # p
    <3>1. FrameOK(q) /\ TellerOK(q) /\ call'[q] = call[q] /\ call[q] \in Frame
      BY <1>2, <2>2 DEF IInv, TypeOK
    <3>2. ~TellsOpening(q, a)
      BY <1>1, <2>2 DEF IInv, OneTeller
    <3>3. FrameOK(q)'
      BY <1>2, <3>1 DEF FrameOK
    <3>4. TellerOK(q)'
      BY <1>2, <1>4, <3>1, <3>2 DEF TellerOK, TellsOpening, FrameOK
    <3>5. QED BY <3>3, <3>4
  <2>3. QED BY <2>1, <2>2
<1>7. OneTeller'
  <2>1. \A q \in Procs, b \in AlertIds :
           /\ TellsOpening(q, b)' => TellsOpening(q, b)
           /\ TellsEnd(q, b)' => TellsEnd(q, b)
    BY <1>1, <1>2, <1>3 DEF TellsOpening, TellsEnd, f
  <2>2. QED
    BY <2>1 DEF IInv, OneTeller
<1>8. QED
  BY <1>5, <1>6, <1>7 DEF IInv

\* Telling the end of an incident, likewise.
LEMMA TellEndInv ==
    ASSUME IInv, NEW p \in Procs, LogResolved(p) \/ SendResolved(p) \/ LogClosed(p)
    PROVE  IInv'
<1> DEFINE a == call[p].alert
           f == call'[p]
<1>1. /\ a \in AlertIds /\ alerts[a].status \notin {"none", "active"} /\ call[p] \in Frame
      /\ TellsEnd(p, a) /\ FrameOK(p) /\ TellerOK(p)
  BY DEF IInv, TypeOK, FrameOK, TellerOK, TellsEnd, LogResolved, SendResolved, LogClosed, At
<1>2. UNCHANGED <<alerts, rules>> /\ \A q \in Procs \ {p} : call'[q] = call[q]
  BY DEF LogResolved, SendResolved, LogClosed, Send, Goto, IInv, TypeOK
<1>3. /\ f \in Frame /\ call' \in [Procs -> Frame] /\ f.queue \subseteq call[p].queue
      /\ \/ f.pc = "sendResolved" /\ f.alert = a /\ At(p, "logResolved")
         \/ f.pc = "close" /\ f.reason \in ClosureReasons
         \/ f.pc = "done"
  <2>1. CASE LogResolved(p)
    BY <1>1, <2>1 DEF LogResolved, Goto, IInv, TypeOK, Frame
  <2>2. CASE SendResolved(p)
    BY <1>1, <2>2, FramesTyped DEF SendResolved, Send, Goto, IInv, TypeOK, Returned, Idle
  <2>3. CASE LogClosed(p)
    <3>1. call[p].reason \in ClosureReasons /\ call[p].queue \in SUBSET AlertIds
      BY <1>1, <2>3 DEF LogClosed, At, FrameOK, Frame
    <3>2. call' = [call EXCEPT ![p] = Closing(call[p].queue, call[p].reason)]
      BY <2>3 DEF LogClosed, Goto
    <3>3. Closing(call[p].queue, call[p].reason) \in Frame
      BY <3>1, FramesTyped
    <3>4. f = Closing(call[p].queue, call[p].reason) /\ call' \in [Procs -> Frame]
      BY <3>2, <3>3 DEF IInv, TypeOK
    <3>5. /\ Closing(call[p].queue, call[p].reason).queue \subseteq call[p].queue
          /\ \/ /\ Closing(call[p].queue, call[p].reason).pc = "close"
                /\ Closing(call[p].queue, call[p].reason).reason = call[p].reason
             \/ Closing(call[p].queue, call[p].reason).pc = "done"
      BY DEF Closing, Returned, Idle
    <3>6. QED BY <3>1, <3>3, <3>4, <3>5
  <2>4. QED BY <2>1, <2>2, <2>3
<1>4. /\ events' \in [AlertIds -> [EventKinds -> Nat]]
      /\ notices' \in [AlertIds -> [NoticeKinds -> Nat]]
      /\ \A b \in AlertIds :
            /\ events'[b]["triggered"] = events[b]["triggered"]
            /\ notices'[b]["triggered"] = notices[b]["triggered"]
            /\ b # a => /\ events'[b]["resolved"] = events[b]["resolved"]
                        /\ events'[b]["closed"] = events[b]["closed"]
                        /\ notices'[b]["resolved"] = notices[b]["resolved"]
      /\ f.pc = "sendResolved" => events'[a]["resolved"] = 1 /\ notices'[a]["resolved"] = 0
  <2>1. /\ events \in [AlertIds -> [EventKinds -> Nat]] /\ "triggered" \in EventKinds
        /\ notices \in [AlertIds -> [NoticeKinds -> Nat]] /\ "triggered" \in NoticeKinds
        /\ "resolved" \in EventKinds /\ "closed" \in EventKinds /\ "resolved" \in NoticeKinds
    BY DEF IInv, TypeOK, EventKinds, NoticeKinds
  <2>2. CASE LogResolved(p)
    <3>1. events' = [events EXCEPT ![a]["resolved"] = @ + 1] /\ UNCHANGED notices
      BY <2>2 DEF LogResolved, Log
    <3>2. events[a]["resolved"] = 0 /\ notices[a]["resolved"] = 0
      BY <1>1, <2>2 DEF LogResolved, At, TellerOK
    <3>3. /\ events' \in [AlertIds -> [EventKinds -> Nat]]
          /\ events'[a]["resolved"] = events[a]["resolved"] + 1
          /\ \A b \in AlertIds, j \in EventKinds :
                b # a \/ j # "resolved" => events'[b][j] = events[b][j]
      BY <1>1, <2>1, <3>1, LedgerEntry
    <3>4. QED BY <1>1, <2>1, <3>1, <3>2, <3>3 DEF EventKinds
  <2>3. CASE SendResolved(p)
    <3>1. /\ \/ notices' = [notices EXCEPT ![a]["resolved"] = @ + 1]
             \/ UNCHANGED notices
          /\ UNCHANGED events
      BY <2>3 DEF SendResolved, Send
    <3>2. f.pc # "sendResolved"
      BY <1>3, <2>3 DEF SendResolved, At
    <3>3. /\ notices' \in [AlertIds -> [NoticeKinds -> Nat]]
          /\ \A b \in AlertIds, j \in NoticeKinds :
                b # a \/ j # "resolved" => notices'[b][j] = notices[b][j]
      <4>1. CASE UNCHANGED notices
        BY <2>1, <4>1
      <4>2. CASE notices' = [notices EXCEPT ![a]["resolved"] = @ + 1]
        BY <1>1, <2>1, <4>2, LedgerEntry
      <4>3. QED BY <3>1, <4>1, <4>2
    <3>4. QED BY <1>1, <2>1, <3>1, <3>2, <3>3 DEF NoticeKinds
  <2>4. CASE LogClosed(p)
    <3>1. events' = [events EXCEPT ![a]["closed"] = @ + 1] /\ UNCHANGED notices
      BY <2>4 DEF LogClosed, Log
    <3>2. f.pc # "sendResolved" /\ events[a]["closed"] = 0
      BY <1>1, <1>3, <2>4 DEF LogClosed, At, TellerOK
    <3>3. /\ events' \in [AlertIds -> [EventKinds -> Nat]]
          /\ events'[a]["closed"] = events[a]["closed"] + 1
          /\ \A b \in AlertIds, j \in EventKinds :
                b # a \/ j # "closed" => events'[b][j] = events[b][j]
      BY <1>1, <2>1, <3>1, LedgerEntry
    <3>4. QED BY <1>1, <2>1, <3>1, <3>2, <3>3 DEF EventKinds
  <2>5. QED BY <2>2, <2>3, <2>4
<1> HIDE DEF a, f
<1>5. TypeOK' /\ AtMostOneActive' /\ NothingEarly'
  <2>1. TypeOK'
    BY <1>2, <1>3, <1>4 DEF IInv, TypeOK, AlertsTypeOK
  <2>2. AtMostOneActive'
    BY <1>2 DEF IInv, AtMostOneActive
  <2>3. NothingEarly'
    BY <1>1, <1>2, <1>4 DEF IInv, NothingEarly
  <2>4. QED BY <2>1, <2>2, <2>3
<1>6. ASSUME NEW q \in Procs PROVE FrameOK(q)' /\ TellerOK(q)'
  <2>1. CASE q = p
    <3>1. call'[q] = f
      BY <2>1 DEF f
    <3>2. FrameOK(q)'
      BY <1>1, <1>2, <1>3, <3>1, <2>1 DEF FrameOK, Frame
    <3>3. alerts'[a].status \in {"resolved", "deleted"} \/ f.pc # "sendResolved"
      BY <1>1, <1>2, <1>3 DEF TellerOK, At, a
    <3>4. TellerOK(q)'
      BY <1>3, <1>4, <3>1, <3>3 DEF TellerOK
    <3>5. QED BY <3>2, <3>4
  <2>2. CASE q # p
    <3>1. FrameOK(q) /\ TellerOK(q) /\ call'[q] = call[q] /\ call[q] \in Frame
      BY <1>2, <2>2 DEF IInv, TypeOK
    <3>2. ~TellsEnd(q, a)
      BY <1>1, <2>2 DEF IInv, OneTeller
    <3>3. FrameOK(q)'
      BY <1>2, <3>1 DEF FrameOK
    <3>4. TellerOK(q)'
      BY <1>2, <1>4, <3>1, <3>2 DEF TellerOK, TellsEnd, FrameOK
    <3>5. QED BY <3>3, <3>4
  <2>3. QED BY <2>1, <2>2
<1>7. OneTeller'
  <2>1. \A q \in Procs, b \in AlertIds :
           /\ TellsOpening(q, b)' => TellsOpening(q, b)
           /\ TellsEnd(q, b)' => TellsEnd(q, b)
    BY <1>1, <1>2, <1>3 DEF TellsOpening, TellsEnd, f
  <2>2. QED
    BY <2>1 DEF IInv, OneTeller
<1>8. QED
  BY <1>5, <1>6, <1>7 DEF IInv

(* Steps that lose a race or end a call, and the writes to the rules.      *)

\* Losing a race, failing and returning.
LEMMA GiveUpInv ==
    ASSUME IInv, NEW p \in Procs,
           \/ CreateLost(p) \/ CreateRefused(p) \/ ResolveLost(p) \/ CloseLost(p)
           \/ Fail(p) \/ Return(p)
    PROVE  IInv'
<1>1. ASSUME NEW f \in {Returned, Failed, Idle}, call' = [call EXCEPT ![p] = f],
             UNCHANGED <<alerts, rules, events, notices>>
      PROVE  IInv'
  <2>1. f \in Frame
    BY FramesTyped
  <2>2. f.pc \in {"done", "failed", "idle"} /\ f.queue = {}
    BY DEF Returned, Failed, Idle
  <2>3. QED
    BY <1>1, <2>1, <2>2, QuietMove DEF TellingPcs
<1>2. CASE CreateLost(p) \/ CreateRefused(p) \/ ResolveLost(p) \/ Fail(p) \/ Return(p)
  BY <1>1, <1>2 DEF CreateLost, CreateRefused, ResolveLost, Fail, Return, Goto
<1>3. CASE CloseLost(p)
  <2>1. PICK a \in AlertIds :
           call' = [call EXCEPT ![p] = Closing(call[p].queue \ {a}, call[p].reason)]
    BY <1>3 DEF CloseLost, Goto
  <2> DEFINE queue == call[p].queue \ {a}
             f == Closing(queue, call[p].reason)
  <2>2. /\ call[p].reason \in ClosureReasons /\ call[p].queue \in SUBSET AlertIds
        /\ \A b \in call[p].queue : alerts[b].status # "none"
    BY <1>3 DEF CloseLost, At, IInv, FrameOK, TypeOK, Frame
  <2>3. f \in Frame
    BY <2>2, FramesTyped
  <2>4. /\ f.pc \in {"close", "done"} /\ f.queue \subseteq queue
        /\ f.pc = "close" => f.reason \in ClosureReasons
    BY <2>2 DEF Closing, Returned, Idle
  <2>5. call' = [call EXCEPT ![p] = f] /\ UNCHANGED <<alerts, rules, events, notices>>
    BY <1>3, <2>1 DEF CloseLost
  <2>6. \A b \in f.queue : alerts[b].status # "none"
    BY <2>2, <2>4
  <2> HIDE DEF f
  <2>7. QED
    BY <2>3, <2>4, <2>5, <2>6, QuietMove DEF TellingPcs
<1>4. QED
  BY <1>2, <1>3

\* Saving a rule touches nothing the invariant relies on.
LEMMA PutRuleInv ==
    ASSUME IInv, NEW r \in Rules, NEW row \in RuleRow, PutRule(r, row)
    PROVE  IInv'
<1>1. TypeOK'
  BY DEF IInv, TypeOK, AlertsTypeOK, PutRule
<1>2. AtMostOneActive' /\ OneTeller' /\ NothingEarly'
  BY DEF IInv, PutRule, AtMostOneActive, OneTeller, NothingEarly, TellsOpening, TellsEnd
<1>3. \A p \in Procs : FrameOK(p)' /\ TellerOK(p)'
  BY DEF IInv, PutRule, FrameOK, TellerOK
<1>4. QED
  BY <1>1, <1>2, <1>3 DEF IInv

\* Deleting a rule takes its alerts along, under the feet of whoever tells
\* of them.
LEMMA DropRuleInv ==
    ASSUME IInv, NEW r \in Rules, DropRule(r)
    PROVE  IInv'
<1>1. /\ \A a \in AlertIds : alerts'[a] = alerts[a] \/ alerts'[a].status = "deleted"
      /\ alerts' \in [AlertIds -> AlertRow]
  <2>1. ASSUME NEW a \in AlertIds
        PROVE  /\ [alerts[a] EXCEPT !.status = "deleted"] \in AlertRow
               /\ [alerts[a] EXCEPT !.status = "deleted"].status = "deleted"
    <3>1. alerts[a] \in AlertRow
      BY DEF IInv, TypeOK, AlertsTypeOK
    <3>2. QED BY <3>1 DEF AlertRow, Statuses
  <2>2. alerts' = [a \in AlertIds |-> IF alerts[a].rule = r
                                     THEN [alerts[a] EXCEPT !.status = "deleted"]
                                     ELSE alerts[a]]
    BY DEF DropRule, DropAlertsOf
  <2>3. \A a \in AlertIds : alerts[a] \in AlertRow
    BY DEF IInv, TypeOK, AlertsTypeOK
  <2>4. QED
    BY <2>1, <2>2, <2>3
<1>2. rules' \in [Rules -> RuleRow] /\ UNCHANGED <<events, notices, call>>
  BY DEF IInv, TypeOK, DropRule, RuleRow
<1>3. TypeOK'
  BY <1>1, <1>2 DEF IInv, TypeOK, AlertsTypeOK
<1>4. AtMostOneActive'
  <2>1. AtMostOneActive
    BY DEF IInv
  <2>2. \A a \in AlertIds : alerts'[a].status = "active" => alerts'[a] = alerts[a]
    BY <1>1
  <2>3. SUFFICES ASSUME NEW b \in AlertIds, NEW c \in AlertIds,
                        alerts'[b].status = "active", alerts'[c].status = "active",
                        alerts'[b].rule = alerts'[c].rule,
                        alerts'[b].target = alerts'[c].target
                 PROVE  b = c
    BY DEF AtMostOneActive
  <2>4. QED BY <2>1, <2>2, <2>3 DEF AtMostOneActive
<1>5. OneTeller'
  BY <1>2 DEF IInv, OneTeller, TellsOpening, TellsEnd
<1>6. NothingEarly'
  BY <1>1, <1>2 DEF IInv, NothingEarly
<1>7. ASSUME NEW p \in Procs PROVE FrameOK(p)' /\ TellerOK(p)'
  <2>1. FrameOK(p) /\ TellerOK(p) /\ call[p] \in Frame
    BY DEF IInv, TypeOK
  <2>2. FrameOK(p)'
    BY <1>1, <1>2, <2>1 DEF FrameOK, Frame
  <2>3. TellerOK(p)'
    BY <1>1, <1>2, <2>1 DEF FrameOK, TellerOK
  <2>4. QED BY <2>2, <2>3
<1>8. QED
  BY <1>3, <1>4, <1>5, <1>6, <1>7 DEF IInv

-----------------------------------------------------------------------------

\* The evaluator starts in its invariant.
LEMMA InitInv == Init => IInv
<1> SUFFICES ASSUME Init PROVE IInv
  OBVIOUS
<1>1. NoRow \in AlertRow /\ NoRow.status = "none"
  BY DEF NoRow, AlertRow, Statuses
<1>2. Idle \in Frame /\ Idle.pc = "idle" /\ Idle.queue = {}
  BY FramesTyped DEF Idle
<1>3. TypeOK
  BY <1>1, <1>2 DEF Init, TypeOK, AlertsTypeOK
<1>4. AtMostOneActive /\ NothingEarly
  BY <1>1 DEF Init, AtMostOneActive, NothingEarly, EventKinds, NoticeKinds
<1>5. OneTeller /\ \A p \in Procs : FrameOK(p) /\ TellerOK(p)
  BY <1>2 DEF Init, OneTeller, TellsOpening, TellsEnd, FrameOK, TellerOK
<1>6. QED
  BY <1>3, <1>4, <1>5 DEF IInv

\* Every step keeps it.
LEMMA NextInv == IInv /\ [Next]_evaluatorVars => IInv'
<1> SUFFICES ASSUME IInv, [Next]_evaluatorVars PROVE IInv'
  OBVIOUS
<1>1. ASSUME NEW p \in Procs, Call(p) \/ Step(p) \/ Fail(p) \/ Return(p)
      PROVE  IInv'
  BY <1>1, CallInv, CreateInv, ResolveCloseInv, TellOpeningInv, TellEndInv, GiveUpInv DEF Step
<1>2. CASE UNCHANGED evaluatorVars
  <2>1. TypeOK' /\ AtMostOneActive' /\ OneTeller' /\ NothingEarly'
    BY <1>2 DEF evaluatorVars, IInv, TypeOK, AlertsTypeOK, AtMostOneActive, OneTeller,
                NothingEarly, TellsOpening, TellsEnd
  <2>2. \A p \in Procs : FrameOK(p)' /\ TellerOK(p)'
    BY <1>2 DEF evaluatorVars, IInv, FrameOK, TellerOK
  <2>3. QED BY <2>1, <2>2 DEF IInv
<1>3. QED
  BY <1>1, <1>2, PutRuleInv, DropRuleInv DEF Next

\* Whatever the goroutines of the process do, and wherever they are cut
\* short, what one of them relies on between two statements still holds.
THEOREM Invariance == Spec => []IInv
<1>1. QED
  BY InitInv, NextInv, PTL DEF Spec

\* The state is always well typed.
THEOREM TypeCorrect == Spec => []TypeOK
<1>1. IInv => TypeOK
  BY DEF IInv
<1>2. QED
  BY <1>1, Invariance, PTL

\* A rule never has two active alerts for one node or service.
THEOREM OneActiveAlert == Spec => []AtMostOneActive
<1>1. IInv => AtMostOneActive
  BY DEF IInv
<1>2. QED
  BY <1>1, Invariance, PTL

-----------------------------------------------------------------------------
(* Refinement of AlertLifecycle: each step is a turn of an incident, or    *)
(* nothing.                                                                *)

\* Adding one to an entry that is zero sets it to one.
LEMMA FirstEntry ==
    ASSUME NEW Kinds, NEW L \in [AlertIds -> [Kinds -> Nat]],
           NEW a \in AlertIds, NEW k \in Kinds, L[a][k] = 0
    PROVE  [L EXCEPT ![a][k] = @ + 1] = [L EXCEPT ![a][k] = 1]
<1>1. [L[a] EXCEPT ![k] = L[a][k] + 1] = [L[a] EXCEPT ![k] = 1]
  BY L[a][k] + 1 = 1
<1>2. QED
  BY <1>1

\* The statements that write a row are the turns that write it.
LEMMA RowStepRefines ==
    ASSUME IInv, NEW p \in Procs, Create(p) \/ Resolve(p) \/ Close(p)
    PROVE  Lifecycle!Next
<1>1. CASE Create(p)
  <2>1. PICK a \in AlertIds : InsertActive(a, call[p].rule, call[p].target)
    BY <1>1 DEF Create
  <2>2. call[p].rule \in Rules /\ call[p].target \in Targets
    BY <1>1 DEF Create, At, IInv, FrameOK
  <2>3. Lifecycle!Open(a, call[p].rule, call[p].target)
    BY <1>1, <2>1 DEF Create, Lifecycle!Open, InsertActive, Lifecycle!InsertActive, IsNextId,
                      Lifecycle!IsNextId, ActiveFor, Lifecycle!ActiveFor
  <2>4. QED BY <2>2, <2>3 DEF Lifecycle!Next
<1>2. CASE Resolve(p)
  <2>1. call[p].alert \in AlertIds
    BY <1>2 DEF Resolve, At, IInv, FrameOK
  <2>2. Lifecycle!Resolve(call[p].alert)
    BY <1>2 DEF Resolve, Lifecycle!Resolve, MarkResolved, Lifecycle!MarkResolved
  <2>3. QED BY <2>1, <2>2 DEF Lifecycle!Next
<1>3. CASE Close(p)
  <2>1. PICK a \in AlertIds : MarkClosed(a, call[p].reason)
    BY <1>3 DEF Close
  <2>2. call[p].reason \in Lifecycle!ClosureReasons
    BY <1>3 DEF Close, At, IInv, FrameOK, ClosureReasons, Lifecycle!ClosureReasons
  <2>3. Lifecycle!Close(a, call[p].reason)
    BY <1>3, <2>1 DEF Close, Lifecycle!Close, MarkClosed, Lifecycle!MarkClosed
  <2>4. QED BY <2>2, <2>3 DEF Lifecycle!Next
<1>4. QED
  BY <1>1, <1>2, <1>3

\* The event is recorded for the first time, of a turn that has come.
LEMMA LogRefines ==
    ASSUME IInv, NEW p \in Procs, LogTriggered(p) \/ LogResolved(p) \/ LogClosed(p)
    PROVE  Lifecycle!Next
<1> DEFINE a == call[p].alert
<1>1. /\ a \in AlertIds /\ alerts[a].status \in Statuses /\ alerts[a].status # "none"
      /\ TellerOK(p) /\ events \in [AlertIds -> [EventKinds -> Nat]]
  BY DEF IInv, TypeOK, AlertsTypeOK, AlertRow, FrameOK, LogTriggered, LogResolved, LogClosed, At
<1>2. ASSUME NEW k \in EventKinds, Log(p, k), UNCHANGED <<alerts, notices>>, events[a][k] = 0,
             alerts[a].status \in Lifecycle!StatusesAfter(k),
             k = "resolved" => events[a]["closed"] = 0,
             k = "closed" => events[a]["resolved"] = 0
      PROVE  Lifecycle!Next
  <2>1. events' = [events EXCEPT ![a][k] = 1]
    BY <1>1, <1>2, FirstEntry DEF Log
  <2>2. Lifecycle!Record(a, k)
    BY <1>2, <2>1 DEF Lifecycle!Record
  <2>3. QED BY <1>1, <2>2 DEF Lifecycle!Next, EventKinds, Lifecycle!EventKinds
<1>3. CASE LogTriggered(p)
  <2>1. /\ events[a]["triggered"] = 0
        /\ alerts[a].status \in Lifecycle!StatusesAfter("triggered")
    BY <1>1, <1>3 DEF LogTriggered, At, TellerOK, Lifecycle!StatusesAfter, Statuses
  <2>2. QED BY <1>2, <1>3, <2>1 DEF LogTriggered, EventKinds
<1>4. CASE LogResolved(p)
  <2>1. /\ events[a]["resolved"] = 0 /\ events[a]["closed"] = 0
        /\ alerts[a].status \in Lifecycle!StatusesAfter("resolved")
    BY <1>1, <1>4 DEF LogResolved, At, TellerOK, Lifecycle!StatusesAfter
  <2>2. QED BY <1>2, <1>4, <2>1 DEF LogResolved, EventKinds
<1>5. CASE LogClosed(p)
  <2>1. /\ events[a]["resolved"] = 0 /\ events[a]["closed"] = 0
        /\ alerts[a].status \in Lifecycle!StatusesAfter("closed")
    BY <1>1, <1>5 DEF LogClosed, At, TellerOK, Lifecycle!StatusesAfter
  <2>2. QED BY <1>2, <1>5, <2>1 DEF LogClosed, EventKinds
<1>6. QED
  BY <1>3, <1>4, <1>5

\* Mail goes out once, after the event; or not at all.
LEMMA SendRefines ==
    ASSUME IInv, NEW p \in Procs, SendTriggered(p) \/ SendResolved(p)
    PROVE  Lifecycle!Next \/ UNCHANGED Lifecycle!lifecycleVars
<1> DEFINE a == call[p].alert
<1>1. /\ a \in AlertIds /\ TellerOK(p) /\ notices \in [AlertIds -> [NoticeKinds -> Nat]]
  BY DEF IInv, TypeOK, FrameOK, SendTriggered, SendResolved, At
<1>2. ASSUME NEW k \in NoticeKinds, Send(p, k), events[a][k] = 1, notices[a][k] = 0
      PROVE  Lifecycle!Next \/ UNCHANGED Lifecycle!lifecycleVars
  <2>1. CASE UNCHANGED notices
    BY <1>2, <2>1 DEF Send, Lifecycle!lifecycleVars
  <2>2. CASE notices' = [notices EXCEPT ![a][k] = @ + 1]
    <3>1. notices' = [notices EXCEPT ![a][k] = 1]
      BY <1>1, <1>2, <2>2, FirstEntry
    <3>2. Lifecycle!Send(a, k)
      BY <1>2, <3>1 DEF Send, Lifecycle!Send
    <3>3. QED BY <1>1, <3>2 DEF Lifecycle!Next, NoticeKinds, Lifecycle!NoticeKinds
  <2>3. QED BY <1>2, <2>1, <2>2 DEF Send
<1>3. CASE SendTriggered(p)
  <2>1. events[a]["triggered"] = 1 /\ notices[a]["triggered"] = 0
    BY <1>1, <1>3 DEF SendTriggered, At, TellerOK
  <2>2. QED BY <1>2, <1>3, <2>1 DEF SendTriggered, NoticeKinds
<1>4. CASE SendResolved(p)
  <2>1. events[a]["resolved"] = 1 /\ notices[a]["resolved"] = 0
    BY <1>1, <1>4 DEF SendResolved, At, TellerOK
  <2>2. QED BY <1>2, <1>4, <2>1 DEF SendResolved, NoticeKinds
<1>5. QED
  BY <1>3, <1>4

\* Every step of the evaluator is a turn of an incident, or nothing.
LEMMA StepRefines ==
    IInv /\ [Next]_evaluatorVars => [Lifecycle!Next]_Lifecycle!lifecycleVars
<1> SUFFICES ASSUME IInv, [Next]_evaluatorVars
             PROVE  Lifecycle!Next \/ UNCHANGED Lifecycle!lifecycleVars
  OBVIOUS
<1>1. ASSUME NEW p \in Procs, Call(p) \/ Fail(p) \/ Return(p)
      PROVE  UNCHANGED Lifecycle!lifecycleVars
  BY <1>1 DEF Call, Apply, CloseForTarget, Reconcile, Fail, Return, Lifecycle!lifecycleVars
<1>2. ASSUME NEW p \in Procs, Step(p)
      PROVE  Lifecycle!Next \/ UNCHANGED Lifecycle!lifecycleVars
  <2>1. CASE CreateLost(p) \/ CreateRefused(p) \/ ResolveLost(p) \/ CloseLost(p)
    BY <2>1 DEF CreateLost, CreateRefused, ResolveLost, CloseLost, Lifecycle!lifecycleVars
  <2>2. QED
    BY <1>2, <2>1, RowStepRefines, LogRefines, SendRefines DEF Step
<1>3. ASSUME NEW r \in Rules, NEW row \in RuleRow, PutRule(r, row)
      PROVE  UNCHANGED Lifecycle!lifecycleVars
  BY <1>3 DEF PutRule, Lifecycle!lifecycleVars
<1>4. ASSUME NEW r \in Rules, DropRule(r)
      PROVE  Lifecycle!Purge(r)
  BY <1>4 DEF DropRule, DropAlertsOf, Lifecycle!Purge, Lifecycle!DropAlertsOf
<1>5. CASE UNCHANGED evaluatorVars
  BY <1>5 DEF evaluatorVars, Lifecycle!lifecycleVars
<1>6. QED
  BY <1>1, <1>2, <1>3, <1>4, <1>5 DEF Next, Lifecycle!Next

\* Concurrent evaluations of any rules keep the incident life cycle: one
\* incident at a time, ended once and for good, each turn told at most once
\* and only after it has happened.
THEOREM Refinement == Spec => ImplementsLifecycle
<1>1. Init => Lifecycle!Init
  BY DEF Init, Lifecycle!Init, NoRow, Lifecycle!NoRow, EventKinds, Lifecycle!EventKinds,
         NoticeKinds, Lifecycle!NoticeKinds
<1>2. QED
  BY <1>1, Invariance, StepRefines, PTL DEF Spec, ImplementsLifecycle, Lifecycle!Spec

-----------------------------------------------------------------------------
(* What AlertLifecycle promises, of itself: for any rules, targets and     *)
(* alerts its ledgers agree with the alerts, and an incident that has      *)
(* ended stays ended.                                                      *)

LifeInv == Lifecycle!TypeOK /\ Lifecycle!LedgersAgree

\* What a turn does to the rows: it writes one, forward, or a rule's are purged.
LEMMA LifeTurns ==
    ASSUME Lifecycle!TypeOK, Lifecycle!Next
    PROVE  \/ UNCHANGED alerts
           \/ \E a \in AlertIds, row \in Lifecycle!AlertRow :
                 /\ alerts' = [alerts EXCEPT ![a] = row]
                 /\ \/ alerts[a].status = "none" /\ row.status = "active"
                    \/ alerts[a].status = "active" /\ row.status \in {"resolved", "closed"}
           \/ /\ alerts' \in [AlertIds -> Lifecycle!AlertRow]
              /\ \A a \in AlertIds : alerts'[a] = alerts[a] \/ alerts'[a].status = "deleted"
<1> DEFINE Written(a, row) ==
             /\ alerts' = [alerts EXCEPT ![a] = row]
             /\ \/ alerts[a].status = "none" /\ row.status = "active"
                \/ alerts[a].status = "active" /\ row.status \in {"resolved", "closed"}
<1>0. alerts \in [AlertIds -> Lifecycle!AlertRow]
  BY DEF Lifecycle!TypeOK, Lifecycle!AlertsTypeOK
<1>1. ASSUME NEW a \in AlertIds, NEW r \in Rules, NEW t \in Targets, Lifecycle!Open(a, r, t)
      PROVE  \E row \in Lifecycle!AlertRow : Written(a, row)
  <2> DEFINE row == [status |-> "active", rule |-> r, target |-> t, reason |-> None]
  <2>1. row \in Lifecycle!AlertRow /\ row.status = "active"
    BY DEF Lifecycle!AlertRow, Lifecycle!Statuses
  <2>2. alerts[a].status = "none" /\ alerts' = [alerts EXCEPT ![a] = row]
    BY <1>1 DEF Lifecycle!Open, Lifecycle!InsertActive, Lifecycle!IsNextId
  <2> HIDE DEF row
  <2> QED BY <2>1, <2>2
<1>2. ASSUME NEW a \in AlertIds, Lifecycle!Resolve(a)
      PROVE  \E row \in Lifecycle!AlertRow : Written(a, row)
  <2> DEFINE row == [alerts[a] EXCEPT !.status = "resolved"]
  <2>1. row \in Lifecycle!AlertRow /\ row.status = "resolved"
    BY <1>0 DEF Lifecycle!AlertRow, Lifecycle!Statuses
  <2>2. alerts[a].status = "active" /\ alerts' = [alerts EXCEPT ![a] = row]
    BY <1>2 DEF Lifecycle!Resolve, Lifecycle!MarkResolved
  <2> HIDE DEF row
  <2> QED BY <2>1, <2>2
<1>3. ASSUME NEW a \in AlertIds, NEW why \in Lifecycle!ClosureReasons, Lifecycle!Close(a, why)
      PROVE  \E row \in Lifecycle!AlertRow : Written(a, row)
  <2> DEFINE row == [alerts[a] EXCEPT !.status = "closed", !.reason = why]
  <2>1. row \in Lifecycle!AlertRow /\ row.status = "closed"
    BY <1>0 DEF Lifecycle!AlertRow, Lifecycle!Statuses
  <2>2. alerts[a].status = "active" /\ alerts' = [alerts EXCEPT ![a] = row]
    BY <1>3 DEF Lifecycle!Close, Lifecycle!MarkClosed
  <2> HIDE DEF row
  <2> QED BY <2>1, <2>2
<1>4. ASSUME NEW r \in Rules, Lifecycle!Purge(r)
      PROVE  /\ alerts' \in [AlertIds -> Lifecycle!AlertRow]
             /\ \A a \in AlertIds : alerts'[a] = alerts[a] \/ alerts'[a].status = "deleted"
  BY <1>0, <1>4 DEF Lifecycle!Purge, Lifecycle!DropAlertsOf, Lifecycle!AlertRow,
                    Lifecycle!Statuses
<1>5. ASSUME NEW a \in AlertIds, NEW k, Lifecycle!Record(a, k) \/ Lifecycle!Send(a, k)
      PROVE  UNCHANGED alerts
  BY <1>5 DEF Lifecycle!Record, Lifecycle!Send
<1> QED BY <1>1, <1>2, <1>3, <1>4, <1>5 DEF Lifecycle!Next

\* Ledgers stay typed.
LEMMA LifeLedgersTyped ==
    ASSUME Lifecycle!TypeOK, Lifecycle!Next
    PROVE  Lifecycle!LedgersTypeOK'
  BY
     DEF Lifecycle!TypeOK, Lifecycle!LedgersTypeOK, Lifecycle!Next, Lifecycle!Open,
         Lifecycle!Resolve, Lifecycle!Close, Lifecycle!Purge, Lifecycle!Record,
         Lifecycle!Send

\* The order of an incident's life: a status only moves forward, so a turn
\* that has come stays in the past.
LEMMA Forward ==
    ASSUME Lifecycle!TypeOK, Lifecycle!Next
    PROVE  /\ Lifecycle!AlertsTypeOK'
           /\ \A a \in AlertIds :
                 /\ \A k \in Lifecycle!EventKinds :
                       alerts[a].status \in Lifecycle!StatusesAfter(k)
                          => alerts'[a].status \in Lifecycle!StatusesAfter(k)
                 /\ alerts[a].status \in {"resolved", "closed", "deleted"} =>
                       alerts'[a] = alerts[a] \/ alerts'[a].status = "deleted"
<1>1. alerts \in [AlertIds -> Lifecycle!AlertRow]
  BY DEF Lifecycle!TypeOK, Lifecycle!AlertsTypeOK
<1>2. Lifecycle!AlertsTypeOK'
  BY <1>1, LifeTurns DEF Lifecycle!AlertsTypeOK
<1>3. ASSUME NEW a \in AlertIds
      PROVE  \/ alerts'[a] = alerts[a]
             \/ alerts[a].status = "none" /\ alerts'[a].status = "active"
             \/ alerts[a].status = "active" /\ alerts'[a].status \in {"resolved", "closed"}
             \/ alerts'[a].status = "deleted"
  BY <1>1, LifeTurns
<1> QED BY <1>2, <1>3 DEF Lifecycle!StatusesAfter, Lifecycle!EventKinds

\* The ledgers start empty.
LEMMA LifeInit == Lifecycle!Init => LifeInv
<1>1. Lifecycle!NoRow \in Lifecycle!AlertRow
  BY DEF Lifecycle!NoRow, Lifecycle!AlertRow, Lifecycle!Statuses
<1>2. QED
  BY <1>1
     DEF Lifecycle!Init, LifeInv, Lifecycle!TypeOK, Lifecycle!AlertsTypeOK,
         Lifecycle!LedgersTypeOK, Lifecycle!LedgersAgree,
              Lifecycle!EventKinds, Lifecycle!NoticeKinds

\* Recording and sending keep them in step with the incidents.
LEMMA LifeNext == LifeInv /\ [Lifecycle!Next]_Lifecycle!lifecycleVars => LifeInv'
<1> SUFFICES ASSUME LifeInv, [Lifecycle!Next]_Lifecycle!lifecycleVars PROVE LifeInv'
  OBVIOUS
<1>1. CASE UNCHANGED Lifecycle!lifecycleVars
  BY <1>1
     DEF LifeInv, Lifecycle!TypeOK, Lifecycle!AlertsTypeOK, Lifecycle!LedgersTypeOK,
         Lifecycle!LedgersAgree, Lifecycle!lifecycleVars
<1>2. CASE Lifecycle!Next
  <2>1. Lifecycle!TypeOK'
    BY <1>2, Forward, LifeLedgersTyped DEF LifeInv, Lifecycle!TypeOK
  <2>2. /\ events \in [AlertIds -> [Lifecycle!EventKinds -> Nat]]
        /\ notices \in [AlertIds -> [Lifecycle!NoticeKinds -> Nat]]
        /\ Lifecycle!NoticeKinds \subseteq Lifecycle!EventKinds
        /\ "resolved" \in Lifecycle!EventKinds /\ "closed" \in Lifecycle!EventKinds
    BY
       DEF LifeInv, Lifecycle!TypeOK, Lifecycle!LedgersTypeOK, Lifecycle!EventKinds,
           Lifecycle!NoticeKinds
  <2>3. \A a \in AlertIds, k \in Lifecycle!EventKinds :
           alerts[a].status \in Lifecycle!StatusesAfter(k)
              => alerts'[a].status \in Lifecycle!StatusesAfter(k)
    BY <1>2, Forward DEF LifeInv
  <2>4. ASSUME UNCHANGED <<events, notices>> PROVE Lifecycle!LedgersAgree'
    BY <2>3, <2>4 DEF LifeInv, Lifecycle!LedgersAgree
  <2>5. ASSUME NEW a \in AlertIds, NEW k \in Lifecycle!EventKinds, Lifecycle!Record(a, k)
        PROVE  Lifecycle!LedgersAgree'
    <3>1. /\ events' = [events EXCEPT ![a][k] = 1] /\ events[a][k] = 0
          /\ alerts[a].status \in Lifecycle!StatusesAfter(k)
          /\ k = "resolved" => events[a]["closed"] = 0
          /\ k = "closed" => events[a]["resolved"] = 0
          /\ UNCHANGED <<alerts, notices>>
      BY <2>5 DEF Lifecycle!Record
    <3>2. /\ events'[a][k] = 1
          /\ \A b \in AlertIds, j \in Lifecycle!EventKinds :
                b # a \/ j # k => events'[b][j] = events[b][j]
      BY <2>2, <3>1
    <3>3. ASSUME NEW b \in AlertIds
          PROVE  /\ \A j \in Lifecycle!NoticeKinds : notices'[b][j] <= events'[b][j]
                 /\ \A j \in Lifecycle!EventKinds :
                       /\ events'[b][j] <= 1
                       /\ events'[b][j] = 1 => alerts'[b].status \in Lifecycle!StatusesAfter(j)
                 /\ events'[b]["resolved"] + events'[b]["closed"] <= 1
      <4>1. \A j \in Lifecycle!NoticeKinds : notices'[b][j] <= events'[b][j]
        BY <2>2, <3>1, <3>2 DEF LifeInv, Lifecycle!LedgersAgree
      <4>2. \A j \in Lifecycle!EventKinds :
               /\ events'[b][j] <= 1
               /\ events'[b][j] = 1 => alerts'[b].status \in Lifecycle!StatusesAfter(j)
        BY <3>1, <3>2 DEF LifeInv, Lifecycle!LedgersAgree
      <4>3. events'[b]["resolved"] + events'[b]["closed"] <= 1
        BY <2>2, <3>1, <3>2 DEF LifeInv, Lifecycle!LedgersAgree, Lifecycle!EventKinds
      <4>4. QED BY <4>1, <4>2, <4>3
    <3>4. QED BY <3>3 DEF Lifecycle!LedgersAgree
  <2>6. ASSUME NEW a \in AlertIds, NEW k \in Lifecycle!NoticeKinds, Lifecycle!Send(a, k)
        PROVE  Lifecycle!LedgersAgree'
    <3>1. /\ notices' = [notices EXCEPT ![a][k] = 1] /\ events[a][k] = 1
          /\ UNCHANGED <<alerts, events>>
      BY <2>6 DEF Lifecycle!Send
    <3>2. /\ notices'[a][k] = 1
          /\ \A b \in AlertIds, j \in Lifecycle!NoticeKinds :
                b # a \/ j # k => notices'[b][j] = notices[b][j]
      BY <2>2, <3>1
    <3>3. QED BY <2>2, <3>1, <3>2 DEF LifeInv, Lifecycle!LedgersAgree
  <2>7. Lifecycle!LedgersAgree'
    BY <1>2, <2>4, <2>5, <2>6
       DEF Lifecycle!Next, Lifecycle!Open, Lifecycle!Resolve, Lifecycle!Close,
           Lifecycle!Purge
  <2>8. QED BY <2>1, <2>7 DEF LifeInv
<1>3. QED
  BY <1>1, <1>2

\* The state is always well typed.
THEOREM LifeTypeCorrect == Lifecycle!Spec => []Lifecycle!TypeOK
<1>1. LifeInv => Lifecycle!TypeOK
  BY DEF LifeInv
<1>2. QED
  BY <1>1, LifeInit, LifeNext, PTL DEF Lifecycle!Spec

\* Nobody is told of a turn that is not on record, no turn is on record that
\* has not come, and no incident is on record as both resolved and closed.
THEOREM LifeLedgersCorrect == Lifecycle!Spec => []Lifecycle!LedgersAgree
<1>1. LifeInv => Lifecycle!LedgersAgree
  BY DEF LifeInv
<1>2. QED
  BY <1>1, LifeInit, LifeNext, PTL DEF Lifecycle!Spec

\* Resolved, closed and deleted incidents do not come back.
THEOREM LifeEndsForGood == Lifecycle!Spec => Lifecycle!EndedForGood
<1> DEFINE Ended(a) == alerts[a].status \in {"resolved", "closed", "deleted"} =>
                          \/ alerts'[a] = alerts[a]
                          \/ alerts'[a].status = "deleted"
<1>1. Lifecycle!TypeOK /\ [Lifecycle!Next]_Lifecycle!lifecycleVars
         => [\A a \in AlertIds : Ended(a)]_Lifecycle!lifecycleVars
  BY Forward
<1>2. QED
  BY <1>1, LifeTypeCorrect, PTL DEF Lifecycle!Spec, Lifecycle!EndedForGood

-----------------------------------------------------------------------------
(* With the refinement, the evaluator keeps these promises.                *)

\* The event log and the notices tell the same story of every incident, and
\* tell it once, whatever evaluations overlap or break off.
THEOREM LedgersCorrect == Spec => []LedgersAgree
  BY Refinement, LifeLedgersCorrect, PTL DEF ImplementsLifecycle, LedgersAgree

\* No evaluation still under way brings back an incident that has ended.
THEOREM NoReopening == Spec => EndedForGood
  BY Refinement, LifeEndsForGood, PTL DEF ImplementsLifecycle, EndedForGood
=============================================================================
