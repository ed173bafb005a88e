---------------------------- MODULE Observations ----------------------------
(***************************************************************************)
(* What becomes of a health check: the agent runs it, sends the result and *)
(* sends it again when it gets no good answer; the backend stores a row    *)
(* per request that gets through; a viewer is streamed the rows by id, and *)
(* a reader pages through them by time.  Ids are drawn from a sequence     *)
(* when a row is inserted and become visible when its transaction commits, *)
(* so rows appear in another order than that of their ids, which in turn   *)
(* need not be that of the checks.  One service; what a result does to its *)
(* state is the subject of ServiceMonitor.                                 *)
(***************************************************************************)
EXTENDS Naturals, FiniteSets

CONSTANTS
    Ids,        \* of app.health_check_results, a bigserial
    MaxChecks,  \* how often the agent runs the check: bounds the model
    RetryCount, \* AGRAFA_API_RETRY_COUNT
    Limit,      \* of the pages of the history
    Handlers,   \* goroutines that serve the agent's requests
    None

ASSUME ObservationsAssumption ==
    /\ Ids \subseteq Nat \ {0}
    /\ MaxChecks \in Nat
    /\ RetryCount \in 0 .. 2
    /\ Limit \in Nat \ {0}
    /\ None \notin Handlers \cup Nat /\ None \notin Nat \X Nat

VARIABLES
    service, \* "live" or "deleted"
    rows,    \* [Ids -> Row]
    agent,   \* the health loop, at one attempt of one check
    task,    \* [Handlers -> Task]: requests being served
    viewer,  \* the EventSource of a page and the handler that streams to it
    reader   \* a client that follows the cursors of the history

vars == <<service, rows, agent, task, viewer, reader>>

Times == 0 .. MaxChecks

\* at is observed_at: checks are run one after the other by one clock.
Row == [state : {"unborn", "pending", "stored", "gone"}, at : Times]

\* from is the handler that serves the attempt, if it was reached.
Agent == [pc : {"idle", "sending", "waiting"}, check : Times,
          attempt : 0 .. RetryCount + 1, from : Handlers \cup {None}]

Task == [pc : {"idle", "read", "insert", "commit", "apply"}, at : Times,
         id : Ids \cup {0}]

\* last and sent are what the handler knows and what came through; first
\* the rows there were when it opened, overtaken those that were in an open
\* transaction when a later id was delivered.  No action reads those two.
\* "refused" is an EventSource that was answered with an error: closed for good.
Viewer == [pc : {"closed", "opening", "open", "refused"}, last : Ids \cup {0}, sent : SUBSET Ids,
           first : SUBSET Ids, overtaken : SUBSET Ids, count : Nat]

\* before is the cursor: a time and an id.  seen, count and began (the rows
\* in range at the first page) are read by no action.
Reader == [pc : {"idle", "paging", "done"}, from : Times, to : Times,
           before : (Times \X Ids) \cup {None}, seen : SUBSET Ids,
           began : SUBSET Ids, count : Nat]

NoTask == [pc |-> "idle", at |-> 0, id |-> 0]
NoViewer == [pc |-> "closed", last |-> 0, sent |-> {}, first |-> {},
             overtaken |-> {}, count |-> 0]
Refused == [NoViewer EXCEPT !.pc = "refused"]
NoReader == [pc |-> "idle", from |-> 0, to |-> 0, before |-> None, seen |-> {},
             began |-> {}, count |-> 0]

TypeOK ==
    /\ service \in {"live", "deleted"}
    /\ rows \in [Ids -> Row]
    /\ agent \in Agent
    /\ task \in [Handlers -> Task]
    /\ viewer \in Viewer
    /\ reader \in Reader

Init ==
    /\ service = "live"
    /\ rows = [i \in Ids |-> [state |-> "unborn", at |-> 0]]
    /\ agent = [pc |-> "idle", check |-> 0, attempt |-> 0, from |-> None]
    /\ task = [p \in Handlers |-> NoTask]
    /\ viewer = NoViewer
    /\ reader = NoReader

-----------------------------------------------------------------------------
(* The table.                                                              *)

In(state) == {i \in Ids : rows[i].state = state}

Stored == In("stored")

\* ORDER BY observed_at DESC, id DESC, with the position of i as a cursor.
Position(i) == <<rows[i].at, i>>
Newer(c, d) == c[1] > d[1] \/ (c[1] = d[1] /\ c[2] > d[2])

\* LIMIT n
Newest(S, n) ==
    {i \in S : Cardinality({j \in S : Newer(Position(j), Position(i))}) < n}

\* GetLatestHealthCheckResultByServiceID: no row or one.
Latest == Newest(Stored, 1)

\* ListHealthCheckResultsByServiceIDAfterID
After(id) == {i \in Stored : i > id}

\* Comparing the times only.
HistoryByTime(from, to, before, n) ==
    Newest({i \in Stored : /\ rows[i].at \in from .. to
                           /\ before # None => before[1] > rows[i].at}, n)

\* ListHealthCheckHistoryByServiceID: the range, the cursor, the order.
History(from, to, before, n) ==
    Newest({i \in Stored : /\ rows[i].at \in from .. to
                           /\ before # None => Newer(before, Position(i))}, n)

-----------------------------------------------------------------------------
(* The agent.                                                              *)

\* runHealthChecks: the next check is run and sent.
RunCheck ==
    /\ agent.pc = "idle"
    /\ agent.check < MaxChecks
    /\ agent' = [pc |-> "sending", check |-> agent.check + 1, attempt |-> 1, from |-> None]
    /\ UNCHANGED <<service, rows, task, viewer, reader>>

\* One more than configured.
RetryOnceMore(a) ==
    IF a.attempt <= RetryCount + 1
    THEN [a EXCEPT !.pc = "sending", !.attempt = @ + 1, !.from = None]
    ELSE [a EXCEPT !.pc = "idle", !.attempt = 0, !.from = None]

\* doJSON after an attempt that may be repeated.
Retry(a) ==
    IF a.attempt < RetryCount + 1
    THEN [a EXCEPT !.pc = "sending", !.attempt = @ + 1, !.from = None]
    ELSE [a EXCEPT !.pc = "idle", !.attempt = 0, !.from = None]

\* The request reaches the backend, as far as the decoded body ...
Send(p) ==
    /\ agent.pc = "sending"
    /\ task[p].pc = "idle"
    /\ agent' = [agent EXCEPT !.pc = "waiting", !.from = p]
    /\ task' = [task EXCEPT ![p] = [NoTask EXCEPT !.pc = "read", !.at = agent.check]]
    /\ UNCHANGED <<service, rows, viewer, reader>>

\* ... or does not, or nothing comes back in time: the connection is closed,
\* and the handler, if any, goes on until a statement notices.
LoseTouch ==
    /\ agent.pc \in {"sending", "waiting"}
    /\ agent' = Retry(agent)
    /\ UNCHANGED <<service, rows, task, viewer, reader>>

\* What the answer of p makes of the agent, if it still waits for it.
Answered(p, retryable) ==
    IF agent.pc = "waiting" /\ agent.from = p
    THEN IF retryable THEN Retry(agent)
         ELSE [agent EXCEPT !.pc = "idle", !.attempt = 0, !.from = None]
    ELSE agent

(* The backend.                                                            *)

Answer(p, retryable) ==
    /\ agent' = Answered(p, retryable)
    /\ task' = [task EXCEPT ![p] = NoTask]

Goto(p, pc) == task' = [task EXCEPT ![p].pc = pc]

\* HealthIngestionService.Ingest: GetByID and the checks on what it returns.
ReadService(p) ==
    /\ task[p].pc = "read"
    /\ IF service = "live" THEN Goto(p, "insert") /\ UNCHANGED agent
       ELSE Answer(p, FALSE)
    /\ UNCHANGED <<service, rows, viewer, reader>>

\* CreateHealthCheckResult draws the next id, in a transaction of its own.
\* The foreign key refuses a service deleted meanwhile.
Insert(p) ==
    /\ task[p].pc = "insert"
    /\ IF service = "live"
       THEN \E i \in In("unborn") :
              /\ \A j \in In("unborn") : i <= j
              /\ rows' = [rows EXCEPT ![i] = [state |-> "pending", at |-> task[p].at]]
              /\ task' = [task EXCEPT ![p].pc = "commit", ![p].id = i]
              /\ UNCHANGED agent
       ELSE Answer(p, TRUE) /\ UNCHANGED rows
    /\ UNCHANGED <<service, viewer, reader>>

Commit(p) ==
    /\ task[p].pc = "commit"
    /\ rows' = [rows EXCEPT ![task[p].id].state = "stored"]
    /\ Goto(p, "apply")
    /\ UNCHANGED <<service, agent, viewer, reader>>

\* ApplyHealthResult: its GetByID may find the service gone.
Apply(p) ==
    /\ task[p].pc = "apply"
    /\ Answer(p, FALSE)
    /\ UNCHANGED <<service, rows, viewer, reader>>

\* A statement fails, of itself or because the client is gone.
Fail(p) ==
    /\ task[p].pc # "idle"
    /\ rows' = IF task[p].pc = "commit"
               THEN [rows EXCEPT ![task[p].id].state = "gone"] ELSE rows
    /\ Answer(p, TRUE)
    /\ UNCHANGED <<service, viewer, reader>>

\* DeleteServiceByID takes its rows along.  It waits for transactions that
\* insert one: they hold a key-share lock on the service.
DeleteService ==
    /\ service = "live"
    /\ In("pending") = {}
    /\ service' = "deleted"
    /\ rows' = [i \in Ids |-> IF i \in Stored THEN [rows[i] EXCEPT !.state = "gone"]
                              ELSE rows[i]]
    /\ UNCHANGED <<agent, task, viewer, reader>>

-----------------------------------------------------------------------------
(* The stream.                                                             *)

\* GetStreamSnapshot reads the service, which may be gone.  An error here or
\* in the next step is what the request is answered with.
OpenStream ==
    /\ viewer.pc = "closed"
    /\ \/ service = "live" /\ viewer' = [NoViewer EXCEPT !.pc = "opening"]
       \/ viewer' = Refused
    /\ UNCHANGED <<service, rows, agent, task, reader>>

\* Only its id is kept, as if the page had it.
FirstSnapshotUnsent ==
    /\ viewer.pc = "opening"
    /\ \/ viewer' = [viewer EXCEPT
             !.pc = "open", !.first = Stored,
             !.last = IF Latest = {} THEN 0 ELSE CHOOSE i \in Latest : TRUE]
       \/ viewer' = Refused
    /\ UNCHANGED <<service, rows, agent, task, reader>>

\* ... and its latest observation, which is sent and whose id is kept.
FirstSnapshot ==
    /\ viewer.pc = "opening"
    /\ \/ viewer' = [viewer EXCEPT
             !.pc = "open", !.sent = Latest, !.first = Stored,
             !.last = IF Latest = {} THEN 0 ELSE CHOOSE i \in Latest : TRUE,
             !.overtaken = {i \in In("pending") : \E j \in Latest : i < j},
             !.count = Cardinality(Latest)]
       \/ viewer' = Refused
    /\ UNCHANGED <<service, rows, agent, task, reader>>

\* Keeping the last id as it was.
PollFromStart ==
    /\ viewer.pc = "open"
    /\ After(viewer.last) # {}
    /\ LET new == After(viewer.last)
       IN  viewer' = [viewer EXCEPT
              !.sent = @ \cup new, !.count = IF @ > 3 THEN @ ELSE @ + Cardinality(new)]
    /\ UNCHANGED <<service, rows, agent, task, reader>>

\* Each tick sends what has a higher id, in that order.
PollStream ==
    /\ viewer.pc = "open"
    /\ After(viewer.last) # {}
    /\ LET new == After(viewer.last)
           last == CHOOSE i \in new : \A j \in new : i >= j
       IN  viewer' = [viewer EXCEPT
              !.last = last, !.sent = @ \cup new,
              !.overtaken = @ \cup {i \in In("pending") : i < last},
              !.count = @ + Cardinality(new)]
    /\ UNCHANGED <<service, rows, agent, task, reader>>

\* The connection is lost; an open stream reaches its deadline or finds the
\* service gone or unreadable; the browser leaves.
CloseStream ==
    /\ viewer.pc \in {"opening", "open"}
    /\ viewer' = NoViewer
    /\ UNCHANGED <<service, rows, agent, task, reader>>

\* The page is opened anew, with a new EventSource: useSSE makes one only when
\* the page appears, and does nothing about an error but report it.
ReloadPage ==
    /\ viewer.pc = "refused"
    /\ viewer' = NoViewer
    /\ UNCHANGED <<service, rows, agent, task, reader>>

(* The history.                                                            *)

\* ListHistory asks for one row more than it returns.
Page(r) ==
    LET fetched == History(r.from, r.to, r.before, Limit + 1)
        entries == Newest(fetched, Limit)
        more == Cardinality(fetched) > Limit
    IN  [r EXCEPT !.pc = IF more THEN "paging" ELSE "done",
                  !.before = IF more
                             THEN Position(CHOOSE i \in entries :
                                     \A j \in entries : j = i \/ Newer(Position(j), Position(i)))
                             ELSE None,
                  !.seen = @ \cup entries,
                  !.count = @ + Cardinality(entries)]

\* The first page ...
OpenHistory(from, to) ==
    /\ reader.pc = "idle"
    /\ reader' = Page([NoReader EXCEPT
          !.from = from, !.to = to, !.began = {i \in Stored : rows[i].at \in from .. to}])
    /\ UNCHANGED <<service, rows, agent, task, viewer>>

\* ... and the one its cursor leads to.
NextPage ==
    /\ reader.pc = "paging"
    /\ reader' = Page(reader)
    /\ UNCHANGED <<service, rows, agent, task, viewer>>

\* The reader leaves, or begins anew.
LeaveHistory ==
    /\ reader.pc # "idle"
    /\ reader' = NoReader
    /\ UNCHANGED <<service, rows, agent, task, viewer>>

-----------------------------------------------------------------------------

Serve(p) == ReadService(p) \/ Insert(p) \/ Commit(p) \/ Apply(p)

Stream == OpenStream \/ FirstSnapshot \/ PollStream \/ CloseStream \/ ReloadPage

Read ==
    \/ \E from, to \in 1 .. MaxChecks : from <= to /\ OpenHistory(from, to)
    \/ NextPage
    \/ LeaveHistory

Next ==
    \/ RunCheck \/ LoseTouch \/ DeleteService
    \/ \E p \in Handlers : Send(p) \/ Serve(p) \/ Fail(p)
    \/ Stream
    \/ Read

\* Goroutines and the agent's loop go on.  A stream polls by its ticker, is
\* ended by its deadline, and opened again by the browser, whose connections
\* are not all lost before they are answered.  Nobody need reload a page.
Fairness ==
    /\ WF_vars(RunCheck)
    /\ WF_vars(LoseTouch \/ \E p \in Handlers : Send(p))
    /\ \A p \in Handlers : WF_vars(Serve(p) \/ Fail(p))
    /\ WF_vars(OpenStream) /\ SF_vars(FirstSnapshot)
    /\ WF_vars(PollStream) /\ WF_vars(CloseStream)

Spec == Init /\ [][Next]_vars /\ Fairness

-----------------------------------------------------------------------------

\* While a stream is open it has sent every observation stored since, once,
\* or is about to, except for those that were still being committed when one
\* with a higher id was sent: those it never will.
StreamMissesOnlyOvertaken ==
    viewer.pc = "open" =>
        /\ \A i \in Stored : i \in viewer.sent \cup viewer.first \cup viewer.overtaken
                             \/ i > viewer.last
        /\ viewer.count = Cardinality(viewer.sent)

\* Who follows the cursors to the end has got each observation that was in
\* the range at the first page, and none twice, whatever was stored or deleted
\* meanwhile and however many share a time.
HistoryIsExact ==
    /\ reader.count = Cardinality(reader.seen)
    /\ reader.pc = "done" => reader.began \cap Stored \subseteq reader.seen

\* A check is stored once per attempt at most, however requests and answers
\* are lost, so that a service is not found unhealthy by one bad check that
\* is counted three times (with the default of one retry).
ChecksAreCountedByAttempt ==
    \A t \in Times : Cardinality({i \in Stored : rows[i].at = t}) <= RetryCount + 1

\* Unless a stream's opening is answered with an error time and again, or once
\* without the page being opened anew (EventSource does not try again then),
\* whoever watches is shown the latest check in the end, although the stream
\* may have missed it: the next one starts with it.
ViewersSeeLatest ==
    <>[](viewer.pc # "refused") => []<>(Latest \subseteq viewer.sent)
=============================================================================
