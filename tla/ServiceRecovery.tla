-------------------------- MODULE ServiceRecovery --------------------------
(***************************************************************************)
(* ServiceMonitor with services that go down and come back: what state and *)
(* alerts settle on once a service stays as it is.  Checks come again and  *)
(* again (runner.go, runHealthChecks; managed-service-check.job.go), and   *)
(* every check sees the service as it is when its result is stored.        *)
(***************************************************************************)
EXTENDS ServiceMonitor

CONSTANT MaxUpsets \* bound on outages, recoveries, rule updates and errors

ASSUME UpsetsAssumption == MaxUpsets \in Nat

VARIABLES
    up,    \* SUBSET Services: those that answer their checks
    upsets \* 0 .. MaxUpsets: how many of the above are still to come

recoveryVars == <<vars, up, upsets>>

RecoveryInit == Init /\ up = Services /\ upsets = MaxUpsets

Upset == upsets > 0 /\ upsets' = upsets - 1
Calm == UNCHANGED <<up, upsets>>

\* The outside world.
Flip(s) ==
    /\ Upset
    /\ up' = IF s \in up THEN up \ {s} ELSE up \cup {s}
    /\ UNCHANGED vars

\* A check by the agent's loop, or by the job's, and its delivery.
Check(s) ==
    /\ \E p \in Handlers : Store(p, s, s \in up)
    /\ Calm

Trouble ==
    /\ Upset
    /\ \E p \in Handlers :
          \/ Break(p)
          \/ \E r \in Rules, scope \in Services \cup {All}, enabled \in BOOLEAN :
                UpdateRule(p, r, enabled, scope)
    /\ UNCHANGED up

\* Rules are created and deleted once.
Enroll ==
    /\ \/ \E p \in Handlers, r \in Rules, scope \in Services \cup {All} :
             CreateRule(p, r, scope)
       \/ \E r \in Rules : DeleteRule(r)
    /\ Calm

Proceed(p) == Work(p) /\ Calm

RecoveryNext ==
    \/ \E s \in Services : Flip(s) \/ Check(s)
    \/ \E p \in Handlers : Proceed(p)
    \/ Trouble \/ Enroll

Fairness ==
    /\ \A p \in Handlers : WF_recoveryVars(Proceed(p))
    /\ \A s \in Services : WF_recoveryVars(Check(s))

RecoverySpec == RecoveryInit /\ [][RecoveryNext]_recoveryVars /\ Fairness

-----------------------------------------------------------------------------

AlertsAre(s, on) == \A r \in Rules : Watches(r, s) => (Alerting(r, s) <=> on)

\* A service that stays down ends up unhealthy for good, and alerted by the
\* rules that watch it, although results that cross lose counts and undo
\* alerts on the way.
OutagesAlert ==
    \A s \in Services :
        <>[](s \notin up) => <>[](service[s].state = "unhealthy" /\ AlertsAre(s, TRUE))

\* A service that stays up ends up healthy for good, without alerts.
RecoveriesResolve ==
    \A s \in Services :
        <>[](s \in up) => <>[](service[s].state = "healthy" /\ AlertsAre(s, FALSE))
=============================================================================
