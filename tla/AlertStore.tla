----------------------------- MODULE AlertStore -----------------------------
(***************************************************************************)
(* The table app.alert_instances: one row per incident, and the SQL        *)
(* statements of alert_instances.sql that touch it.  Every statement runs  *)
(* in a transaction of its own (repositories/rls_exec.go), so each is one  *)
(* atomic step.  A rule and a target together are what the partial unique  *)
(* indexes are over.                                                       *)
(***************************************************************************)
EXTENDS AlertConstants

VARIABLE alerts \* [AlertIds -> AlertRow]: the table, with rows not yet inserted

Statuses == {"none", "active", "resolved", "closed", "deleted"}

ClosureReasons == {"rule_disabled", "rule_scope_changed", "target_hidden"}

AlertRow == [status : Statuses,
             rule   : Rules \cup {None},
             target : Targets \cup {None},
             reason : ClosureReasons \cup {None}]

NoRow == [status |-> "none", rule |-> None, target |-> None, reason |-> None]

AlertsTypeOK == alerts \in [AlertIds -> AlertRow]

ActiveFor(r, t) ==
    {a \in AlertIds : /\ alerts[a].status = "active"
                      /\ alerts[a].rule = r
                      /\ alerts[a].target = t}

ActiveOfRule(r) ==
    {a \in AlertIds : alerts[a].status = "active" /\ alerts[a].rule = r}

\* bigserial: ids are handed out in increasing order and never again.
IsNextId(a) ==
    /\ alerts[a].status = "none"
    /\ \A b \in AlertIds : b < a => alerts[b].status # "none"

\* INSERT ... status 'active'; the unique index refuses a second active row.
InsertActive(a, r, t) ==
    /\ IsNextId(a)
    /\ ActiveFor(r, t) = {}
    /\ alerts' = [alerts EXCEPT ![a] = [status |-> "active", rule |-> r,
                                        target |-> t, reason |-> None]]

\* Without AND status = 'active'.
MarkResolvedAnyway(a) ==
    /\ alerts[a].status # "deleted"
    /\ alerts' = [alerts EXCEPT ![a] = [@ EXCEPT !.status = "resolved"]]

\* UPDATE ... SET status = 'resolved' WHERE id = a AND status = 'active'.
MarkResolved(a) ==
    /\ alerts[a].status = "active"
    /\ alerts' = [alerts EXCEPT ![a] = [@ EXCEPT !.status = "resolved"]]

\* As if the target had recovered.
MarkClosedAsRecovery(a, why) ==
    /\ alerts[a].status = "active"
    /\ alerts' = [alerts EXCEPT ![a] = [@ EXCEPT !.status = "resolved"]]

\* UPDATE ... SET status = 'closed', closure_reason WHERE ... 'active'.
MarkClosed(a, why) ==
    /\ alerts[a].status = "active"
    /\ alerts' = [alerts EXCEPT ![a] = [@ EXCEPT !.status = "closed",
                                                 !.reason = why]]

\* ON DELETE CASCADE of the rule's foreign key.
DropAlertsOf(r) ==
    alerts' = [a \in AlertIds |-> IF alerts[a].rule = r
                                  THEN [alerts[a] EXCEPT !.status = "deleted"]
                                  ELSE alerts[a]]

\* At most one active row for a rule and a target: what
\* idx_alert_instances_rule_node_active and ..._rule_service_active promise,
\* and what the evaluator relies on when it looks for "the" active alert.
AtMostOneActive ==
    \A a, b \in AlertIds :
        /\ alerts[a].status = "active"
        /\ alerts[b].status = "active"
        /\ alerts[a].rule = alerts[b].rule
        /\ alerts[a].target = alerts[b].target
        => a = b
=============================================================================
