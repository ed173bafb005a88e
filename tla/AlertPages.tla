----------------------------- MODULE AlertPages -----------------------------
(***************************************************************************)
(* Reading the alerts: the active ones as one list, the ended ones page by *)
(* page along a cursor, and the newest of both as the list older clients   *)
(* use.  Alerts are raised with the time of what raised them, so a new row *)
(* need not come first; they move from one list to the other when they     *)
(* end; and they vanish with their rule.  All of it goes on while a reader *)
(* is between two requests.  The rows are those of AlertStore, changed by  *)
(* its statements; what may issue them is the subject of the monitors.     *)
(***************************************************************************)
EXTENDS AlertStore, FiniteSets

CONSTANTS
    Times, \* of triggered_at
    Limit  \* of a page

VARIABLES
    triggered, \* [AlertIds -> Times]: triggered_at
    reader     \* a client of GET /alerts

vars == <<alerts, triggered, reader>>

\* before is the cursor, a time and an id; listed is what the active list
\* held, seen what the pages did.  seen, count and began (the rows there were
\* when the first list was read) are read by no action.
Reader == [pc     : {"idle", "history", "paging", "done"},
           before : (Times \X AlertIds) \cup {None},
           listed : SUBSET AlertIds,
           seen   : SUBSET AlertIds,
           began  : SUBSET AlertIds,
           count  : Nat]

NoReader == [pc |-> "idle", before |-> None, listed |-> {}, seen |-> {},
             began |-> {}, count |-> 0]

TypeOK ==
    /\ AlertsTypeOK
    /\ triggered \in [AlertIds -> Times \cup {None}]
    /\ reader \in Reader

Init ==
    /\ alerts = [a \in AlertIds |-> NoRow]
    /\ triggered = [a \in AlertIds |-> None]
    /\ reader = NoReader

-----------------------------------------------------------------------------
(* The queries.                                                            *)

Rows(statuses) == {a \in AlertIds : alerts[a].status \in statuses}

Table == Rows({"active", "resolved", "closed"})

\* ORDER BY triggered_at DESC, id DESC, with the position of a as a cursor.
Position(a) == <<triggered[a], a>>
Precedes(c, d) == c[1] > d[1] \/ (c[1] = d[1] /\ c[2] > d[2])

\* LIMIT n
First(S, n) ==
    {a \in S : Cardinality({b \in S : Precedes(Position(b), Position(a))}) < n}

\* ListActiveAlertInstancesForRead has no limit.
ListActive == Rows({"active"})

\* Without the alerts that were closed.
ListRecovered(before, n) ==
    First({a \in Rows({"resolved"}) :
              before # None => Precedes(before, Position(a))}, n)

\* ListResolvedAlertInstancesForRead: closed alerts have ended as well.
ListResolved(before, n) ==
    First({a \in Rows({"resolved", "closed"}) :
              before # None => Precedes(before, Position(a))}, n)

\* ListAlertInstances.
ListRecent(n) == First(Table, n)

-----------------------------------------------------------------------------
(* The reader.                                                             *)

\* AlertService.List for the ended ones: one row more than is returned tells
\* that there are more, and the last one returned becomes the cursor.
Page(r) ==
    LET fetched == ListResolved(r.before, Limit + 1)
        page == First(fetched, Limit)
        more == Cardinality(fetched) > Limit
        last == CHOOSE a \in page :
                   \A b \in page : b = a \/ Precedes(Position(b), Position(a))
    IN  [r EXCEPT !.pc = IF more THEN "paging" ELSE "done",
                  !.before = IF more THEN Position(last) ELSE None,
                  !.seen = @ \cup page,
                  !.count = @ + Cardinality(page)]

\* status=active
ReadActive ==
    /\ reader.pc = "idle"
    /\ reader' = [NoReader EXCEPT !.pc = "history", !.listed = ListActive, !.began = Table]
    /\ UNCHANGED <<alerts, triggered>>

\* status=resolved
ReadHistory ==
    /\ reader.pc = "history"
    /\ reader' = Page(reader)
    /\ UNCHANGED <<alerts, triggered>>

\* status=resolved&before=...
NextPage ==
    /\ reader.pc = "paging"
    /\ reader' = Page(reader)
    /\ UNCHANGED <<alerts, triggered>>

\* Neither: a list that ends where its limit is, and has no cursor.
ReadRecent ==
    /\ reader.pc = "idle"
    /\ reader' = [NoReader EXCEPT !.pc = "done", !.listed = ListRecent(Limit)]
    /\ UNCHANGED <<alerts, triggered>>

LeaveAlerts ==
    /\ reader.pc # "idle"
    /\ reader' = NoReader
    /\ UNCHANGED <<alerts, triggered>>

-----------------------------------------------------------------------------
(* The rows.                                                               *)

Raise(a, r, t, at) ==
    /\ InsertActive(a, r, t)
    /\ triggered' = [triggered EXCEPT ![a] = at]
    /\ UNCHANGED reader

End(a) ==
    /\ \/ MarkResolved(a)
       \/ \E why \in ClosureReasons : MarkClosed(a, why)
    /\ UNCHANGED <<triggered, reader>>

DropRule(r) ==
    /\ \E a \in Table : alerts[a].rule = r
    /\ DropAlertsOf(r)
    /\ UNCHANGED <<triggered, reader>>

Read == ReadActive \/ ReadHistory \/ NextPage \/ ReadRecent \/ LeaveAlerts

Next ==
    \/ Read
    \/ \E a \in AlertIds, r \in Rules, t \in Targets, at \in Times : Raise(a, r, t, at)
    \/ \E a \in AlertIds : End(a)
    \/ \E r \in Rules : DropRule(r)

Spec == Init /\ [][Next]_vars

-----------------------------------------------------------------------------

\* Who reads the active alerts and then follows the cursors of the history to
\* the end has seen every alert there was at the first request and still is,
\* whatever was raised, resolved, closed or deleted in between and however
\* many share a time, and has met none twice on the pages.
NoAlertIsLost ==
    /\ reader.count = Cardinality(reader.seen)
    /\ reader.pc = "done" => reader.began \cap Table \subseteq reader.listed \cup reader.seen
=============================================================================
