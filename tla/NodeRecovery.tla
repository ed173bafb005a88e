---------------------------- MODULE NodeRecovery ----------------------------
(***************************************************************************)
(* NodeMonitor with agents that live and die, errors and rule edits, but   *)
(* only so many of each: what the monitor settles on once they are over.   *)
(* The agent of a node sends a heartbeat again and again (runner.go,       *)
(* runLoop); a request or job run that was begun goes on; the job runs     *)
(* again and again.                                                        *)
(***************************************************************************)
EXTENDS NodeMonitor

CONSTANT MaxUpsets \* bound on agent starts and stops, edits and errors

ASSUME UpsetsAssumption == MaxUpsets \in Nat

VARIABLES
    alive,  \* SUBSET Nodes: the nodes whose agent runs and reaches the server
    upsets  \* 0 .. MaxUpsets: how many starts, stops, edits and errors are still to come

recoveryVars == <<vars, alive, upsets>>

RecoveryInit == Init /\ alive = Nodes /\ upsets = MaxUpsets

Upset == upsets > 0 /\ upsets' = upsets - 1
Calm == UNCHANGED <<alive, upsets>>

StartAgent(n) ==
    /\ Upset
    /\ alive' = alive \cup {n}
    /\ UNCHANGED vars

\* main.go: the loops end, and on a signal a shutdown notice is sent.
StopAgent(n) ==
    /\ Upset
    /\ alive' = alive \ {n}
    /\ UNCHANGED vars \/ \E p \in Handlers : Shutdown(p, n)

Beat(n) ==
    /\ n \in alive
    /\ \E p \in Handlers : Heartbeat(p, n, 0)
    /\ Calm

\* A running agent's heartbeats come, and are stored, within TTL of each
\* other: the interval is configured shorter, and time does not pass while
\* one that is due has not arrived.
Timely ==
    /\ \A n \in alive : silence[n] # TTL
    /\ \A p \in Procs : ~At(p, "touch")

Advance == Tick /\ Timely /\ Calm

Trouble ==
    /\ Upset
    /\ \/ \E p \in Handlers : Edit(p)
       \/ \E r \in Rules : DeleteRule(r)
       \/ \E p \in Procs : Break(p)
    /\ UNCHANGED alive

Proceed(p) == Work(p) /\ Calm
Expiry == RunExpiry /\ Calm

RecoveryNext ==
    \/ \E n \in Nodes : StartAgent(n) \/ StopAgent(n) \/ Beat(n)
    \/ \E p \in Procs : Proceed(p)
    \/ Expiry \/ Advance \/ Trouble

Fairness ==
    /\ \A p \in Procs : WF_recoveryVars(Proceed(p))
    /\ \A n \in Nodes : WF_recoveryVars(Beat(n))
    /\ WF_recoveryVars(Expiry)
    /\ WF_recoveryVars(Advance)

RecoverySpec == RecoveryInit /\ [][RecoveryNext]_recoveryVars /\ Fairness

-----------------------------------------------------------------------------

\* However expiries, heartbeats, edits and errors have crossed before, a node
\* whose agent runs on ends up online for good, and no enabled rule that
\* looks at it keeps an alert about it.
Healthy(n) ==
    /\ nodeState[n] = "online"
    /\ \A r \in Rules : Watches(r, n) => ~Alerting(r, n)

LiveNodesRecover == \A n \in Nodes : <>[](n \in alive) => <>[]Healthy(n)

\* A node whose agent stays away ends up offline for good, notice or not.
DeadNodesExpire ==
    \A n \in Nodes : <>[](n \notin alive) => <>[](nodeState[n] = "offline")
=============================================================================
