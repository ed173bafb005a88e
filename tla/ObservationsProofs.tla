------------------------- MODULE ObservationsProofs -------------------------
(***************************************************************************)
(* Theorems about Observations, for any number of ids, checks, retries and *)
(* handlers, and pages of any size.  What the statements of PostgreSQL     *)
(* select by their order and limit is the subject of the first lemmas.     *)
(***************************************************************************)
EXTENDS Observations, FiniteSetTheorems, WellFoundedInduction, TLAPS

Born == {i \in Ids : rows[i].state # "unborn"}

\* Ids are handed out in their order, so there is a last one.
IdsOK ==
    /\ \E n \in Nat : \A i \in Born : i <= n
    /\ \A i \in Ids \ Born, j \in Born : j < i

\* Who is to commit has a pending row, and nobody else has it.
Holds(t) == t.pc = "commit" =>
    t.id \in Ids /\ rows[t.id].state = "pending" /\ rows[t.id].at = t.at

TasksOK ==
    /\ \A p \in Handlers : Holds(task[p])
    /\ \A p, q \in Handlers :
          task[p].pc = "commit" /\ task[q].pc = "commit" /\ task[p].id = task[q].id => p = q

\* How many attempts of the check run at t have been sent.
Attempts(t) ==
    IF t > agent.check THEN 0
    ELSE IF t < agent.check \/ agent.pc = "idle" THEN RetryCount + 1
    ELSE IF agent.pc = "sending" THEN agent.attempt - 1 ELSE agent.attempt

\* The rows of that check, and the handlers that will yet insert one.
RowsOf(t) == {i \in Born : rows[i].at = t}
Asking(t) == {p \in Handlers : task[p].pc \in {"read", "insert"} /\ task[p].at = t}

\* Each row, and each row to come, is of an attempt of its own.
AttemptsOK ==
    /\ agent.pc # "idle" => agent.attempt >= 1
    /\ \A t \in Times :
          /\ IsFiniteSet(Asking(t))
          /\ Cardinality(RowsOf(t)) + Cardinality(Asking(t)) <= Attempts(t)

\* What a stream has passed by is known to it, or was pending then.
ViewerOK == viewer.pc = "open" =>
    /\ \A i \in Stored : i <= viewer.last =>
          i \in viewer.sent \cup viewer.first \cup viewer.overtaken
    /\ \A i \in In("pending") : i <= viewer.last => i \in viewer.overtaken
    /\ viewer.last = 0 \/ viewer.last \in Born
    /\ viewer.sent \subseteq Ids /\ \A i \in viewer.sent : i <= viewer.last
    /\ viewer.count = Cardinality(viewer.sent)

\* The pages behind a cursor are complete.
Passed(i) == ~Newer(reader.before, Position(i))

ReaderOK ==
    /\ reader.count = Cardinality(reader.seen)
    /\ reader.seen \subseteq Born
    /\ \A i \in reader.began : /\ rows[i].state \in {"stored", "gone"}
                               /\ rows[i].at \in reader.from .. reader.to
    /\ reader.pc = "paging" =>
          /\ reader.before \in Times \X Ids
          /\ \A i \in reader.seen : Passed(i)
          /\ \A i \in reader.began \cap Stored : Passed(i) => i \in reader.seen
    /\ reader.pc = "done" => reader.began \cap Stored \subseteq reader.seen

\* The inductive invariant.
IInv == TypeOK /\ IdsOK /\ TasksOK /\ AttemptsOK /\ ViewerOK /\ ReaderOK

\* What most proofs need of the constants.
LEMMA Constants ==
    /\ Ids \subseteq Nat /\ 0 \notin Ids
    /\ MaxChecks \in Nat /\ RetryCount \in Nat
    /\ Limit \in Nat /\ Limit > 0
BY ObservationsAssumption

USE Constants

-----------------------------------------------------------------------------
(* First and last elements.                                                *)

\* A nonempty set of numbers has a least element.
LEMMA LeastNumber ==
    ASSUME NEW S \in SUBSET Nat, S # {}
    PROVE  \E m \in S : \A x \in S : m <= x
<1> DEFINE below == OpToRel(<, Nat)
<1>1. IsWellFoundedOn(below, Nat)
  BY NatLessThanWellFounded
<1>2. \A x, y : <<x, y>> \in below <=> x \in Nat /\ y \in Nat /\ x < y
  BY DEF OpToRel
<1> HIDE DEF below
<1>3. PICK m \in S : \A x \in S : ~(<<x, m>> \in below)
  BY <1>1, WFMin
<1>4. \A x \in S : x \in Nat /\ m \in Nat
  OBVIOUS
<1>5. \A x \in S : ~(x < m)
  BY <1>2, <1>3, <1>4
<1> QED BY <1>4, <1>5

\* A bounded one has a greatest.
LEMMA GreatestNumber ==
    ASSUME NEW S \in SUBSET Nat, S # {}, NEW n \in Nat, \A x \in S : x <= n
    PROVE  \E m \in S : \A x \in S : m >= x
<1> DEFINE T == {n - x : x \in S}
<1>0. \A x \in S : n - x \in Nat
  OBVIOUS
<1>1. T \in SUBSET Nat /\ T # {}
  BY <1>0
<1>2. PICK d \in T : \A e \in T : d <= e
  BY <1>1, LeastNumber
<1>3. PICK m \in S : d = n - m
  BY <1>2
<1>4. \A x \in S : n - m <= n - x
  BY <1>2, <1>3
<1> QED BY <1>3, <1>4

-----------------------------------------------------------------------------
(* The order of the history, and what LIMIT takes of it.                   *)

Ahead(i, j) == Newer(Position(i), Position(j))

\* It is a strict total order: what shares a time is told apart by its id.
LEMMA AheadOrder ==
    ASSUME TypeOK, NEW i \in Ids, NEW j \in Ids, NEW k \in Ids
    PROVE  /\ ~Ahead(i, i)
           /\ Ahead(i, j) /\ Ahead(j, k) => Ahead(i, k)
           /\ i = j \/ Ahead(i, j) \/ Ahead(j, i)
<1>1. \A h \in Ids : rows[h].at \in Nat /\ h \in Nat
  BY DEF TypeOK, Row, Times
<1> QED BY <1>1 DEF Ahead, Newer, Position

AllAhead(S, i) == {j \in S : Ahead(j, i)}

\* A row is taken if fewer than the limit are ahead of it.
LEMMA NewestBy ==
    ASSUME NEW S, NEW n
    PROVE  Newest(S, n) = {i \in S : Cardinality(AllAhead(S, i)) < n}
BY DEF Newest, AllAhead, Ahead

\* More are ahead of what is further behind.
LEMMA FewerAhead ==
    ASSUME TypeOK, NEW S \in SUBSET Ids, IsFiniteSet(S), NEW i \in S, NEW j \in S, Ahead(j, i)
    PROVE  /\ Cardinality(AllAhead(S, j)) \in Nat /\ Cardinality(AllAhead(S, i)) \in Nat
           /\ Cardinality(AllAhead(S, j)) < Cardinality(AllAhead(S, i))
<1>1. AllAhead(S, j) \subseteq AllAhead(S, i) /\ AllAhead(S, i) \subseteq S
  BY AheadOrder DEF AllAhead
<1>2. j \in AllAhead(S, i) /\ j \notin AllAhead(S, j)
  BY AheadOrder DEF AllAhead
<1>3. IsFiniteSet(AllAhead(S, i)) /\ IsFiniteSet(AllAhead(S, j))
  BY <1>1, FS_Subset
<1>4. /\ Cardinality(AllAhead(S, j)) \in Nat /\ Cardinality(AllAhead(S, i)) \in Nat
      /\ Cardinality(AllAhead(S, j)) <= Cardinality(AllAhead(S, i))
      /\ Cardinality(AllAhead(S, j)) # Cardinality(AllAhead(S, i))
  BY <1>1, <1>2, <1>3, FS_Subset, FS_CardinalityType
<1> QED BY <1>4

\* Of finitely many rows one is ahead of all others, and one behind them.
LEMMA Extremes ==
    ASSUME TypeOK, NEW S \in SUBSET Ids, IsFiniteSet(S), S # {}
    PROVE  /\ \E i \in S : \A j \in S : j = i \/ Ahead(i, j)
           /\ \E i \in S : \A j \in S : j = i \/ Ahead(j, i)
<1> DEFINE rank(i) == Cardinality(AllAhead(S, i))
           ranks == {rank(i) : i \in S}
<1>1. \A i \in S : rank(i) \in Nat /\ rank(i) <= Cardinality(S)
  <2>1. \A i \in S : AllAhead(S, i) \subseteq S
    BY DEF AllAhead
  <2>2. \A T \in SUBSET S : IsFiniteSet(T) /\ Cardinality(T) <= Cardinality(S)
    BY FS_Subset
  <2> QED BY <2>1, <2>2, FS_CardinalityType
<1>2. ranks \in SUBSET Nat /\ ranks # {} /\ Cardinality(S) \in Nat
  BY <1>1, FS_CardinalityType
<1>3. \A i, j \in S : Ahead(j, i) => rank(j) < rank(i)
  BY FewerAhead
<1>4. \A x \in ranks : x <= Cardinality(S)
  BY <1>1
<1> HIDE DEF rank
<1>5. PICK first \in S : \A j \in S : rank(first) <= rank(j)
  <2>1. PICK m \in ranks : \A x \in ranks : m <= x
    BY <1>2, LeastNumber
  <2>2. PICK i \in S : m = rank(i)
    BY <2>1
  <2> QED BY <2>1, <2>2
<1>6. PICK last \in S : \A j \in S : rank(last) >= rank(j)
  <2>1. PICK m \in ranks : \A x \in ranks : m >= x
    BY <1>2, <1>4, GreatestNumber
  <2>2. PICK i \in S : m = rank(i)
    BY <2>1
  <2> QED BY <2>1, <2>2
<1>7. \A i, j \in S : ~(rank(i) < rank(j) /\ rank(j) <= rank(i))
  BY <1>1
<1>8. \A j \in S : ~Ahead(j, first) /\ ~Ahead(last, j)
  BY <1>3, <1>5, <1>6, <1>7
<1> QED BY <1>8, AheadOrder

\* What is ahead of a row that is taken is taken.
LEMMA NewestAreAhead ==
    ASSUME TypeOK, NEW S \in SUBSET Ids, IsFiniteSet(S), NEW n \in Nat,
           NEW i \in Newest(S, n), NEW j \in S, Ahead(j, i)
    PROVE  j \in Newest(S, n)
<1>1. i \in S /\ Cardinality(AllAhead(S, i)) < n
  BY NewestBy
<1> QED BY <1>1, FewerAhead, NewestBy

\* As many rows are taken as the limit allows, unless there are no more.
LEMMA NewestFillTheLimit ==
    ASSUME TypeOK, NEW S \in SUBSET Ids, IsFiniteSet(S), NEW n \in Nat
    PROVE  /\ Newest(S, n) \in SUBSET S /\ IsFiniteSet(Newest(S, n))
           /\ Cardinality(Newest(S, n)) \in Nat
           /\ Cardinality(Newest(S, n)) < n => Newest(S, n) = S
           /\ S # {} /\ n > 0 => Newest(S, n) # {}
<1>1. Newest(S, n) \in SUBSET S
  BY NewestBy
<1>2. IsFiniteSet(Newest(S, n)) /\ Cardinality(Newest(S, n)) \in Nat
  BY <1>1, FS_Subset, FS_CardinalityType
<1>3. ASSUME Newest(S, n) # S
      PROVE  Cardinality(Newest(S, n)) >= n
  <2> DEFINE rest == S \ Newest(S, n)
  <2>1. rest \in SUBSET Ids /\ rest # {} /\ IsFiniteSet(rest)
    BY <1>1, <1>3, FS_Subset
  <2>2. PICK i \in rest : \A j \in rest : j = i \/ Ahead(i, j)
    BY <2>1, Extremes
  <2>3. AllAhead(S, i) \subseteq Newest(S, n)
    BY <2>2, AheadOrder DEF AllAhead
  <2>4. /\ IsFiniteSet(AllAhead(S, i)) /\ Cardinality(AllAhead(S, i)) \in Nat
        /\ Cardinality(AllAhead(S, i)) <= Cardinality(Newest(S, n))
    BY <1>2, <2>3, FS_Subset, FS_CardinalityType
  <2>5. ~(Cardinality(AllAhead(S, i)) < n)
    BY <2>2, NewestBy
  <2> QED BY <1>2, <2>4, <2>5
<1>4. ASSUME S # {}, n > 0 PROVE Newest(S, n) # {}
  <2>1. PICK i \in S : \A j \in S : j = i \/ Ahead(i, j)
    BY <1>4, Extremes
  <2>2. AllAhead(S, i) = {}
    BY <2>1, AheadOrder DEF AllAhead
  <2>3. Cardinality(AllAhead(S, i)) < n
    BY <1>4, <2>2, FS_EmptySet
  <2> QED BY <2>3, NewestBy
<1> QED BY <1>1, <1>2, <1>3, <1>4

-----------------------------------------------------------------------------
(* The agent and the handlers.                                             *)

\* Nothing is in the tables, or on its way, at first.
LEMMA InitIInv == Init => IInv
<1> SUFFICES ASSUME Init PROVE IInv
  OBVIOUS
<1>1. /\ service = "live"
      /\ rows = [i \in Ids |-> [state |-> "unborn", at |-> 0]]
      /\ agent = [pc |-> "idle", check |-> 0, attempt |-> 0, from |-> None]
      /\ task = [p \in Handlers |-> NoTask]
      /\ viewer = NoViewer /\ reader = NoReader
  BY DEF Init
<1>2. TypeOK
  BY <1>1 DEF TypeOK, Row, Agent, Task, Viewer, Reader, Times, NoTask, NoViewer, NoReader
<1>3. Born = {} /\ Stored = {}
  BY <1>1 DEF Born, Stored, In
<1>4. IdsOK /\ TasksOK
  BY <1>1, <1>3 DEF IdsOK, TasksOK, Holds, NoTask
<1>5. AttemptsOK
  <2>1. \A t \in Times : RowsOf(t) = {} /\ Asking(t) = {} /\ Attempts(t) \in Nat
    BY <1>1, <1>3 DEF RowsOf, Asking, Attempts, NoTask, Times
  <2>2. \A t \in Times : /\ IsFiniteSet(Asking(t))
                         /\ Cardinality(RowsOf(t)) = 0 /\ Cardinality(Asking(t)) = 0
    BY <2>1, FS_EmptySet
  <2>3. agent.pc = "idle"
    BY <1>1
  <2> QED BY <2>1, <2>2, <2>3 DEF AttemptsOK
<1>6. ViewerOK /\ ReaderOK
  BY <1>1, <1>3, FS_EmptySet DEF ViewerOK, ReaderOK, NoViewer, NoReader
<1> QED BY <1>2, <1>4, <1>5, <1>6 DEF IInv

\* There are finitely many rows.
LEMMA BornFinite ==
    ASSUME IdsOK, NEW S \in SUBSET Born
    PROVE  IsFiniteSet(S) /\ Cardinality(S) \in Nat
<1>1. PICK n \in Nat : \A i \in Born : i <= n
  BY DEF IdsOK
<1>2. Born \in SUBSET Nat
  BY DEF Born
<1> QED BY <1>1, <1>2, FS_BoundedSetOfNaturals, FS_Subset, FS_CardinalityType

\* What a step may do to a row: it is drawn, as the next of all; it becomes
\* visible; it goes.  Its time stays.
Drawn(i) ==
    /\ rows[i].state = "unborn" /\ rows'[i].state = "pending"
    /\ \A j \in Ids : rows[j].state = "unborn" => i <= j
    /\ \A j \in Ids : j # i => rows'[j] = rows[j]

Forward(i) ==
    \/ rows'[i] = rows[i]
    \/ rows[i].state = "pending" /\ rows'[i].state \in {"stored", "gone"} /\ rows'[i].at = rows[i].at
    \/ rows[i].state = "stored" /\ rows'[i].state = "gone" /\ rows'[i].at = rows[i].at

RowsForward == (\A i \in Ids : Forward(i)) \/ \E i \in Ids : Drawn(i)

\* So ids stay in the order in which they are handed out.
LEMMA IdsStep ==
    ASSUME TypeOK, IdsOK, RowsForward
    PROVE  /\ IdsOK'
           /\ \A i \in Born : /\ i \in Born' /\ rows'[i].at = rows[i].at
                              /\ Forward(i)
<1>1. CASE \A i \in Ids : Forward(i)
  <2>1. \A i \in Ids : rows'[i].state = "unborn" <=> rows[i].state = "unborn"
    BY <1>1 DEF Forward
  <2>2. Born' = Born
    BY <2>1 DEF Born
  <2> QED BY <1>1, <2>2 DEF IdsOK, Forward, Born
<1>2. CASE \E i \in Ids : Drawn(i)
  <2>1. PICK i \in Ids : Drawn(i)
    BY <1>2
  <2>2. Born' = Born \cup {i} /\ i \notin Born
    BY <2>1 DEF Born, Drawn
  <2>3. PICK n \in Nat : \A j \in Born : j <= n
    BY DEF IdsOK
  <2>4. \A j \in Born' : j <= i
    <3>1. \A j \in Born : j < i
      BY <2>2 DEF IdsOK
    <3>2. Ids \subseteq Nat /\ Born \subseteq Ids
      BY DEF Born
    <3> QED BY <2>2, <3>1, <3>2
  <2>5. \A j \in Ids \ Born' : i < j
    BY <2>1, <2>2 DEF Born, Drawn
  <2>6. \A j \in Born : rows'[j] = rows[j]
    BY <2>1, <2>2 DEF Drawn, Born
  <2>7. \A j \in Ids \ Born', k \in Born' : k < j
    BY <2>2, <2>5 DEF IdsOK
  <2> QED BY <2>2, <2>4, <2>6, <2>7 DEF IdsOK, Forward
<1> QED BY <1>1, <1>2 DEF RowsForward

\* A handler moves on; the rows that others hold are left alone.
LEMMA TaskMoves ==
    ASSUME TypeOK, TasksOK, NEW p \in Handlers, NEW t \in Task,
           task' = [task EXCEPT ![p] = t],
           \A q \in Handlers : q # p /\ task[q].pc = "commit" =>
              /\ rows'[task[q].id] = rows[task[q].id]
              /\ t.pc = "commit" => t.id # task[q].id,
           t.pc = "commit" =>
              t.id \in Ids /\ rows'[t.id].state = "pending" /\ rows'[t.id].at = t.at
    PROVE  task' \in [Handlers -> Task] /\ TasksOK'
<1>1. task \in [Handlers -> Task]
  BY DEF TypeOK
<1>2. /\ task' \in [Handlers -> Task] /\ task'[p] = t
      /\ \A q \in Handlers : q # p => task'[q] = task[q]
  BY <1>1
<1>3. \A q \in Handlers : Holds(task[q])'
  BY <1>2 DEF TasksOK, Holds
<1>4. \A q, r \in Handlers :
         task'[q].pc = "commit" /\ task'[r].pc = "commit" /\ task'[q].id = task'[r].id => q = r
  BY <1>2 DEF TasksOK
<1> QED BY <1>2, <1>3, <1>4 DEF TasksOK

\* doJSON goes to its next attempt or is done with the check.
Done(a) == [a EXCEPT !.pc = "idle", !.attempt = 0, !.from = None]

\* Attempts are numbers, at most one more than retries, and only grow.
LEMMA AttemptsAreNumbers ==
    ASSUME TypeOK, AttemptsOK, NEW t \in Times
    PROVE  Attempts(t) \in Nat /\ Attempts(t) <= RetryCount + 1
BY DEF TypeOK, AttemptsOK, Attempts, Agent, Times

\* An attempt that ends, with or without another, keeps them so.
LEMMA AttemptEnds ==
    ASSUME TypeOK, AttemptsOK,
           \/ agent' = agent
           \/ agent.pc # "idle" /\ agent' \in {Done(agent), Retry(agent)}
    PROVE  /\ agent' \in Agent
           /\ agent'.pc # "idle" => agent'.attempt >= 1
           /\ \A t \in Times : Attempts(t)' \in Nat /\ Attempts(t) <= Attempts(t)'
<1>0. agent \in Agent
  BY DEF TypeOK
<1>1. CASE agent' = agent
  BY <1>0, <1>1, AttemptsAreNumbers DEF AttemptsOK, Attempts
<1>2. CASE agent.pc # "idle" /\ agent' = Done(agent)
  <2>1. /\ agent' \in Agent /\ agent'.pc = "idle" /\ agent'.check = agent.check
    <3>1. agent' = [pc |-> "idle", check |-> agent.check, attempt |-> 0, from |-> None]
      BY <1>0, <1>2 DEF Done, Agent
    <3> QED BY <1>0, <3>1 DEF Agent
  <2>2. ASSUME NEW t \in Times
        PROVE  Attempts(t)' \in Nat /\ Attempts(t) <= Attempts(t)'
    BY <1>0, <1>2, <2>1, AttemptsAreNumbers DEF Attempts, Times, Agent
  <2> QED BY <2>1, <2>2
<1>3. CASE /\ agent.pc # "idle" /\ agent.attempt < RetryCount + 1
           /\ agent' = [agent EXCEPT !.pc = "sending", !.attempt = @ + 1, !.from = None]
  <2>1. /\ agent' \in Agent /\ agent'.pc = "sending" /\ agent'.check = agent.check
        /\ agent'.attempt = agent.attempt + 1 /\ agent.attempt \in Nat
    <3>1. agent' = [pc |-> "sending", check |-> agent.check,
                    attempt |-> agent.attempt + 1, from |-> None]
      BY <1>0, <1>3 DEF Agent
    <3>2. agent.attempt \in Nat /\ agent.check \in Times
      BY <1>0 DEF Agent
    <3> QED BY <1>3, <3>1, <3>2 DEF Agent
  <2>2. ASSUME NEW t \in Times
        PROVE  Attempts(t)' \in Nat /\ Attempts(t) <= Attempts(t)'
    BY <1>0, <1>3, <2>1, AttemptsAreNumbers DEF Attempts, Times, Agent
  <2> QED BY <2>1, <2>2
<1> QED BY <1>1, <1>2, <1>3 DEF Retry, Done

\* While no row is drawn and nobody begins to ask, the count is kept.
LEMMA CountKept ==
    ASSUME TypeOK, IdsOK, AttemptsOK, \A i \in Ids : Forward(i),
           agent'.pc # "idle" => agent'.attempt >= 1,
           \A t \in Times : /\ Attempts(t)' \in Nat /\ Attempts(t) <= Attempts(t)'
                            /\ Asking(t)' \subseteq Asking(t)
    PROVE  AttemptsOK'
<1>1. ASSUME NEW t \in Times
      PROVE  /\ IsFiniteSet(Asking(t)')
             /\ Cardinality(RowsOf(t)') + Cardinality(Asking(t)') <= Attempts(t)'
  <2>1. RowsOf(t)' = RowsOf(t) /\ RowsOf(t) \subseteq Born
    BY DEF RowsOf, Born, Forward
  <2>2. Cardinality(RowsOf(t)) \in Nat
    BY <2>1, BornFinite
  <2>3. /\ IsFiniteSet(Asking(t)) /\ IsFiniteSet(Asking(t)')
        /\ Cardinality(Asking(t)') <= Cardinality(Asking(t))
        /\ Cardinality(Asking(t)') \in Nat /\ Cardinality(Asking(t)) \in Nat
    BY FS_Subset, FS_CardinalityType DEF AttemptsOK
  <2>4. /\ Cardinality(RowsOf(t)) + Cardinality(Asking(t)) <= Attempts(t)
        /\ Attempts(t) \in Nat /\ Attempts(t)' \in Nat /\ Attempts(t) <= Attempts(t)'
    BY AttemptsAreNumbers DEF AttemptsOK
  <2> QED BY <2>1, <2>2, <2>3, <2>4
<1> QED BY <1>1 DEF AttemptsOK

-----------------------------------------------------------------------------
(* The steps of the agent, the handlers and the deletion of the service.   *)

\* What all of them leave true.
Kept ==
    /\ TypeOK' /\ TasksOK' /\ AttemptsOK' /\ RowsForward
    /\ UNCHANGED <<viewer, reader>>

\* No request, whose frame holds nothing.
LEMMA NoTaskTyped == NoTask \in Task /\ NoTask.pc = "idle"
BY DEF NoTask, Task, Times

\* The parts of a state are typed one by one.
LEMMA TypeKept ==
    ASSUME TypeOK, service' \in {"live", "deleted"}, rows' \in [Ids -> Row],
           agent' \in Agent, task' \in [Handlers -> Task], UNCHANGED <<viewer, reader>>
    PROVE  TypeOK'
<1>1. viewer' \in Viewer /\ reader' \in Reader
  BY DEF TypeOK
<1> QED BY <1>1 DEF TypeOK

\* The next check is run: no attempt has been sent yet.
LEMMA RunCheckStep ==
    ASSUME IInv, RunCheck
    PROVE  Kept
<1>0. agent \in Agent /\ agent.check \in Nat /\ agent.attempt \in Nat
  BY DEF IInv, TypeOK, Agent, Times
<1>1. /\ agent.pc = "idle" /\ agent.check < MaxChecks
      /\ agent' = [pc |-> "sending", check |-> agent.check + 1, attempt |-> 1, from |-> None]
      /\ UNCHANGED <<service, rows, task, viewer, reader>>
  BY DEF RunCheck
<1>2. agent' \in Agent /\ agent'.attempt >= 1
  BY <1>0, <1>1 DEF Agent, Times
<1>3. TypeOK' /\ TasksOK' /\ \A i \in Ids : Forward(i)
  BY <1>1, <1>2, TypeKept DEF IInv, TypeOK, TasksOK, Holds, Forward
<1>4. \A t \in Times : Asking(t)' = Asking(t)
  BY <1>1 DEF Asking
<1>5. ASSUME NEW t \in Times
      PROVE  Attempts(t)' \in Nat /\ Attempts(t) <= Attempts(t)'
  BY <1>0, <1>1 DEF Attempts, Times
<1> QED BY <1>1, <1>2, <1>3, <1>4, <1>5, CountKept DEF IInv, Kept, RowsForward

\* Nothing is heard of an attempt.
LEMMA LoseTouchStep ==
    ASSUME IInv, LoseTouch
    PROVE  Kept
<1>1. /\ agent.pc # "idle" /\ agent' = Retry(agent)
      /\ UNCHANGED <<service, rows, task, viewer, reader>>
  BY DEF LoseTouch
<1>2. /\ agent' \in Agent
      /\ agent'.pc # "idle" => agent'.attempt >= 1
      /\ \A t \in Times : Attempts(t)' \in Nat /\ Attempts(t) <= Attempts(t)'
  BY <1>1, AttemptEnds DEF IInv
<1>3. TypeOK' /\ TasksOK' /\ \A i \in Ids : Forward(i)
  BY <1>1, <1>2, TypeKept DEF IInv, TypeOK, TasksOK, Holds, Forward
<1>4. \A t \in Times : Asking(t)' = Asking(t)
  BY <1>1 DEF Asking
<1> QED BY <1>1, <1>2, <1>3, <1>4, CountKept DEF IInv, Kept, RowsForward

\* An attempt reaches the backend: it is one more that is sent, and one more
\* that a handler may insert a row for.
LEMMA SendStep ==
    ASSUME IInv, NEW p \in Handlers, Send(p)
    PROVE  Kept
<1> DEFINE t == [NoTask EXCEPT !.pc = "read", !.at = agent.check]
<1>0. /\ agent \in Agent /\ agent.check \in Times /\ agent.check \in Nat /\ agent.attempt \in Nat
      /\ task \in [Handlers -> Task]
  BY DEF IInv, TypeOK, Agent, Times
<1>1. /\ agent.pc = "sending" /\ task[p].pc = "idle"
      /\ agent' = [agent EXCEPT !.pc = "waiting", !.from = p]
      /\ task' = [task EXCEPT ![p] = t]
      /\ UNCHANGED <<service, rows, viewer, reader>>
  BY DEF Send
<1>2. /\ agent' \in Agent /\ agent'.pc = "waiting" /\ agent'.check = agent.check
      /\ agent'.attempt = agent.attempt
  BY <1>0, <1>1 DEF Agent
<1>3. t \in Task /\ t.pc = "read" /\ t.at = agent.check /\ t.id = 0
  BY <1>0 DEF NoTask, Task
<1> HIDE DEF t
<1>4. task' \in [Handlers -> Task] /\ TasksOK'
  <2>1. /\ task' = [task EXCEPT ![p] = t] /\ rows' = rows /\ t.pc # "commit"
        /\ TypeOK /\ TasksOK
    BY <1>1, <1>3 DEF IInv
  <2> QED BY <1>3, <2>1, TaskMoves
<1>5. TypeOK' /\ \A i \in Ids : Forward(i)
  BY <1>1, <1>2, <1>4, TypeKept DEF IInv, TypeOK, Forward
<1>6. AttemptsOK'
  <2>1. ASSUME NEW c \in Times
        PROVE  /\ IsFiniteSet(Asking(c)')
               /\ Cardinality(RowsOf(c)') + Cardinality(Asking(c)') <= Attempts(c)'
    <3>1. RowsOf(c)' = RowsOf(c) /\ Cardinality(RowsOf(c)) \in Nat
      BY <1>1, BornFinite DEF RowsOf, Born, IInv
    <3>2. /\ IsFiniteSet(Asking(c)) /\ Cardinality(Asking(c)) \in Nat
          /\ Cardinality(RowsOf(c)) + Cardinality(Asking(c)) <= Attempts(c)
          /\ Attempts(c) \in Nat
      BY AttemptsAreNumbers, FS_CardinalityType DEF IInv, AttemptsOK
    <3>3. CASE c = agent.check
      <4>1. Asking(c)' = Asking(c) \cup {p} /\ p \notin Asking(c)
        BY <1>0, <1>1, <1>3, <3>3 DEF Asking
      <4>2. /\ IsFiniteSet(Asking(c)')
            /\ Cardinality(Asking(c)') = Cardinality(Asking(c)) + 1
        BY <3>2, <4>1, FS_AddElement
      <4>3. Attempts(c)' = Attempts(c) + 1
        BY <1>0, <1>1, <1>2, <3>3 DEF Attempts
      <4> QED BY <3>1, <3>2, <4>2, <4>3
    <3>4. CASE c # agent.check
      <4>1. Asking(c)' = Asking(c)
        BY <1>0, <1>1, <1>3, <3>4 DEF Asking
      <4>2. Attempts(c)' = Attempts(c)
        BY <1>0, <1>1, <1>2, <3>4 DEF Attempts, Times
      <4> QED BY <3>1, <3>2, <4>1, <4>2
    <3> QED BY <3>3, <3>4
  <2>2. agent'.attempt >= 1
    BY <1>1, <1>2 DEF IInv, AttemptsOK
  <2> QED BY <2>1, <2>2 DEF AttemptsOK
<1> QED BY <1>1, <1>4, <1>5, <1>6 DEF Kept, RowsForward

\* A request is answered: what the agent makes of it counts no attempt less.
LEMMA AnswerStep ==
    ASSUME IInv, NEW p \in Handlers, NEW retryable \in BOOLEAN, Answer(p, retryable),
           rows' \in [Ids -> Row], \A i \in Ids : Forward(i),
           \A q \in Handlers : q # p /\ task[q].pc = "commit" =>
              rows'[task[q].id] = rows[task[q].id],
           UNCHANGED <<service, viewer, reader>>
    PROVE  Kept
<1>0. /\ agent \in Agent /\ service \in {"live", "deleted"} /\ task \in [Handlers -> Task]
      /\ TypeOK /\ IdsOK /\ TasksOK /\ AttemptsOK
  BY DEF IInv, TypeOK
<1>1. /\ task' = [task EXCEPT ![p] = NoTask] /\ agent' = Answered(p, retryable)
  BY DEF Answer
<1>2. agent' = agent \/ (agent.pc # "idle" /\ agent' \in {Done(agent), Retry(agent)})
  BY <1>1 DEF Answered, Done
<1>3. /\ agent' \in Agent
      /\ agent'.pc # "idle" => agent'.attempt >= 1
      /\ \A t \in Times : Attempts(t)' \in Nat /\ Attempts(t) <= Attempts(t)'
  BY <1>0, <1>2, AttemptEnds
<1>4. task' \in [Handlers -> Task] /\ TasksOK'
  BY <1>0, <1>1, NoTaskTyped, TaskMoves
<1>5. TypeOK'
  BY <1>0, <1>3, <1>4, TypeKept
<1>6. \A t \in Times : Asking(t)' \subseteq Asking(t)
  BY <1>0, <1>1, NoTaskTyped DEF Asking
<1> QED BY <1>0, <1>3, <1>4, <1>5, <1>6, CountKept DEF Kept, RowsForward

\* A handler goes on to a statement at which it asks for no more than before.
LEMMA GotoStep ==
    ASSUME IInv, NEW p \in Handlers, NEW pc, Goto(p, pc),
           \/ pc = "insert" /\ task[p].pc = "read" /\ UNCHANGED rows
           \/ pc = "apply" /\ Forward(task[p].id) /\ rows' \in [Ids -> Row]
              /\ \A i \in Ids : i # task[p].id => rows'[i] = rows[i],
           pc = "apply" => task[p].pc = "commit",
           UNCHANGED <<service, agent, viewer, reader>>
    PROVE  Kept
<1> DEFINE t == [task[p] EXCEPT !.pc = pc]
<1>0. /\ agent \in Agent /\ service \in {"live", "deleted"} /\ rows \in [Ids -> Row]
      /\ task \in [Handlers -> Task] /\ task[p] \in Task
      /\ TypeOK /\ IdsOK /\ TasksOK /\ AttemptsOK
  BY DEF IInv, TypeOK
<1>1. pc \in {"insert", "apply"} /\ task' = [task EXCEPT ![p] = t]
  BY DEF Goto
<1>2. /\ t \in Task /\ t.pc = pc /\ t.at = task[p].at
  BY <1>0, <1>1 DEF Task
<1> HIDE DEF t
<1>3. /\ rows' \in [Ids -> Row] /\ \A i \in Ids : Forward(i)
      /\ \A q \in Handlers : q # p /\ task[q].pc = "commit" => rows'[task[q].id] = rows[task[q].id]
  <2>1. CASE UNCHANGED rows
    BY <1>0, <2>1 DEF Forward
  <2>2. CASE pc = "apply"
    <3>1. \A q \in Handlers : q # p /\ task[q].pc = "commit" =>
             task[q].id \in Ids /\ task[q].id # task[p].id
      BY <1>0, <2>2 DEF TasksOK, Holds
    <3> QED BY <2>2, <3>1 DEF Forward
  <2> QED BY <2>1, <2>2
<1>4. task' \in [Handlers -> Task] /\ TasksOK'
  BY <1>0, <1>1, <1>2, <1>3, TaskMoves
<1>5. TypeOK'
  BY <1>0, <1>3, <1>4, TypeKept
<1>6. \A c \in Times : Asking(c)' \subseteq Asking(c)
  BY <1>0, <1>1, <1>2 DEF Asking
<1>7. \A c \in Times : Attempts(c)' = Attempts(c) /\ Attempts(c) \in Nat
  BY <1>0, AttemptsAreNumbers DEF Attempts
<1>8. \A c \in Times : Attempts(c)' \in Nat /\ Attempts(c) <= Attempts(c)'
  BY <1>7
<1>9. agent'.pc # "idle" => agent'.attempt >= 1
  BY <1>0 DEF AttemptsOK
<1> QED BY <1>0, <1>3, <1>4, <1>5, <1>6, <1>8, <1>9, CountKept DEF Kept, RowsForward

\* The row is drawn: what the handler asked for is there now.
LEMMA DrawStep ==
    ASSUME IInv, NEW p \in Handlers, NEW i \in In("unborn"), task[p].pc = "insert",
           \A j \in In("unborn") : i <= j,
           rows' = [rows EXCEPT ![i] = [state |-> "pending", at |-> task[p].at]],
           task' = [task EXCEPT ![p].pc = "commit", ![p].id = i],
           UNCHANGED <<service, agent, viewer, reader>>
    PROVE  Kept
<1> DEFINE t == [task[p] EXCEPT !.pc = "commit", !.id = i]
           c == task[p].at
<1>0. /\ agent \in Agent /\ service \in {"live", "deleted"} /\ rows \in [Ids -> Row]
      /\ task \in [Handlers -> Task] /\ task[p] \in Task /\ task[p].at \in Times
      /\ TypeOK /\ IdsOK /\ TasksOK /\ AttemptsOK
  BY DEF IInv, TypeOK, Task
<1>1. i \in Ids /\ rows[i].state = "unborn"
  BY DEF In
<1>2. /\ t \in Task /\ t.pc = "commit" /\ t.id = i /\ t.at = c
      /\ task' = [task EXCEPT ![p] = t]
  BY <1>0, <1>1 DEF Task
<1> HIDE DEF t
<1>3. /\ rows' \in [Ids -> Row] /\ rows'[i].state = "pending" /\ rows'[i].at = c
      /\ \A j \in Ids : j # i => rows'[j] = rows[j]
  BY <1>0, <1>1 DEF Row
<1>4. Drawn(i)
  BY <1>1, <1>3 DEF Drawn, In
<1>5. \A q \in Handlers : q # p /\ task[q].pc = "commit" =>
         rows'[task[q].id] = rows[task[q].id] /\ i # task[q].id
  BY <1>0, <1>1, <1>3 DEF TasksOK, Holds
<1>6. task' \in [Handlers -> Task] /\ TasksOK'
  <2>1. t.id \in Ids /\ rows'[t.id].state = "pending" /\ rows'[t.id].at = t.at
    BY <1>1, <1>2, <1>3
  <2>2. \A q \in Handlers : q # p /\ task[q].pc = "commit" =>
           /\ rows'[task[q].id] = rows[task[q].id]
           /\ t.pc = "commit" => t.id # task[q].id
    BY <1>2, <1>5
  <2>3. /\ TypeOK /\ TasksOK /\ t \in Task
        /\ task' = [task EXCEPT ![p] = t]
    BY <1>0, <1>2
  <2>4. t.pc = "commit" =>
           t.id \in Ids /\ rows'[t.id].state = "pending" /\ rows'[t.id].at = t.at
    BY <2>1, Zenon
  <2> QED BY <2>2, <2>3, <2>4, TaskMoves, ZenonT(30)
<1>7. TypeOK'
  BY <1>0, <1>3, <1>6, TypeKept
<1>8. ASSUME NEW x \in Times
      PROVE  /\ IsFiniteSet(Asking(x)')
             /\ Cardinality(RowsOf(x)') + Cardinality(Asking(x)') <= Attempts(x)'
  <2>1. /\ IsFiniteSet(Asking(x)) /\ Cardinality(Asking(x)) \in Nat
        /\ IsFiniteSet(RowsOf(x)) /\ Cardinality(RowsOf(x)) \in Nat
        /\ Cardinality(RowsOf(x)) + Cardinality(Asking(x)) <= Attempts(x)
        /\ Attempts(x)' = Attempts(x)
    BY <1>0, BornFinite, FS_CardinalityType DEF AttemptsOK, RowsOf, Attempts
  <2>2. CASE x = c
    <3>1. /\ RowsOf(x)' = RowsOf(x) \cup {i} /\ i \notin RowsOf(x)
      BY <1>1, <1>3, <2>2 DEF RowsOf, Born
    <3>2. Asking(x)' = Asking(x) \ {p} /\ p \in Asking(x)
      BY <1>0, <1>2, <2>2 DEF Asking
    <3>3. /\ Cardinality(RowsOf(x)') = Cardinality(RowsOf(x)) + 1
          /\ IsFiniteSet(Asking(x)')
          /\ Cardinality(Asking(x)') = Cardinality(Asking(x)) - 1
      <4>1. Cardinality(RowsOf(x) \cup {i}) = Cardinality(RowsOf(x)) + 1
        BY <2>1, <3>1, FS_AddElement
      <4>2. /\ IsFiniteSet(Asking(x) \ {p})
            /\ Cardinality(Asking(x) \ {p}) = Cardinality(Asking(x)) - 1
        BY <2>1, <3>2, FS_RemoveElement
      <4> QED BY <3>1, <3>2, <4>1, <4>2
    <3> QED BY <2>1, <3>3, <1>0, AttemptsAreNumbers
  <2>3. CASE x # c
    <3>1. RowsOf(x)' = RowsOf(x)
      BY <1>1, <1>3, <2>3 DEF RowsOf, Born
    <3>2. Asking(x)' = Asking(x)
      BY <1>0, <1>2, <2>3 DEF Asking
    <3> QED BY <2>1, <3>1, <3>2
  <2> QED BY <2>2, <2>3
<1>9. AttemptsOK'
  BY <1>0, <1>8 DEF AttemptsOK
<1> QED BY <1>1, <1>4, <1>6, <1>7, <1>9 DEF Kept, RowsForward

\* A handler's statements.
LEMMA ServeStep ==
    ASSUME IInv, NEW p \in Handlers, Serve(p)
    PROVE  Kept
<1>0. TypeOK /\ TasksOK /\ rows \in [Ids -> Row]
  BY DEF IInv, TypeOK
<1>1. CASE ReadService(p)
  BY <1>0, <1>1, AnswerStep, GotoStep DEF ReadService, Forward
<1>2. CASE Insert(p)
  <2>1. CASE service = "live"
    BY <1>2, <2>1, DrawStep DEF Insert
  <2>2. CASE service # "live"
    BY <1>0, <1>2, <2>2, AnswerStep DEF Insert, Forward
  <2> QED BY <2>1, <2>2
<1>3. CASE Commit(p)
  <2>1. /\ task[p].pc = "commit" /\ task[p].id \in Ids /\ rows[task[p].id].state = "pending"
    BY <1>0, <1>3 DEF Commit, TasksOK, Holds
  <2>2. /\ rows' \in [Ids -> Row] /\ Forward(task[p].id)
        /\ \A i \in Ids : i # task[p].id => rows'[i] = rows[i]
    BY <1>0, <1>3, <2>1 DEF Commit, Row, Forward
  <2> QED BY <1>3, <2>1, <2>2, GotoStep DEF Commit
<1>4. CASE Apply(p)
  BY <1>0, <1>4, AnswerStep DEF Apply, Forward
<1> QED BY <1>1, <1>2, <1>3, <1>4 DEF Serve

\* A statement fails; a row that was not committed is never seen.
LEMMA FailStep ==
    ASSUME IInv, NEW p \in Handlers, Fail(p)
    PROVE  Kept
<1>0. TypeOK /\ TasksOK /\ rows \in [Ids -> Row]
  BY DEF IInv, TypeOK
<1>1. Answer(p, TRUE) /\ UNCHANGED <<service, viewer, reader>>
  BY DEF Fail
<1>2. CASE task[p].pc = "commit"
  <2>1. task[p].id \in Ids /\ rows[task[p].id].state = "pending"
    BY <1>0, <1>2 DEF TasksOK, Holds
  <2>2. /\ rows' \in [Ids -> Row]
        /\ rows'[task[p].id].state = "gone" /\ rows'[task[p].id].at = rows[task[p].id].at
        /\ \A i \in Ids : i # task[p].id => rows'[i] = rows[i]
    BY <1>0, <1>2, <2>1 DEF Fail, Row
  <2>3. \A i \in Ids : Forward(i)
    BY <2>1, <2>2 DEF Forward
  <2>4. \A q \in Handlers : q # p /\ task[q].pc = "commit" =>
           rows'[task[q].id] = rows[task[q].id]
    BY <1>0, <1>2, <2>2 DEF TasksOK, Holds
  <2> QED BY <1>1, <2>2, <2>3, <2>4, AnswerStep
<1>3. CASE task[p].pc # "commit"
  BY <1>0, <1>1, <1>3, AnswerStep DEF Fail, Forward
<1> QED BY <1>2, <1>3

\* The service goes, with the rows that are visible; nobody holds one then.
LEMMA DeleteServiceStep ==
    ASSUME IInv, DeleteService
    PROVE  Kept
<1>0. /\ agent \in Agent /\ rows \in [Ids -> Row] /\ task \in [Handlers -> Task]
      /\ TypeOK /\ IdsOK /\ TasksOK /\ AttemptsOK
  BY DEF IInv, TypeOK
<1>1. /\ In("pending") = {} /\ service' = "deleted"
      /\ rows' = [i \in Ids |-> IF i \in Stored THEN [rows[i] EXCEPT !.state = "gone"]
                                ELSE rows[i]]
      /\ UNCHANGED <<agent, task, viewer, reader>>
  BY DEF DeleteService
<1>2. ASSUME NEW i \in Ids PROVE rows'[i] \in Row /\ Forward(i)
  BY <1>0, <1>1 DEF Forward, Stored, In, Row
<1>3. TypeOK'
  BY <1>0, <1>1, <1>2, TypeKept
<1>4. TasksOK'
  BY <1>0, <1>1 DEF TasksOK, Holds, In
<1>5. \A t \in Times : Attempts(t)' = Attempts(t) /\ Asking(t)' = Asking(t) /\ Attempts(t) \in Nat
  BY <1>0, <1>1, AttemptsAreNumbers DEF Attempts, Asking
<1>6. \A t \in Times : /\ Attempts(t)' \in Nat /\ Attempts(t) <= Attempts(t)'
                       /\ Asking(t)' \subseteq Asking(t)
  BY <1>5
<1>7. agent'.pc # "idle" => agent'.attempt >= 1
  BY <1>0, <1>1 DEF AttemptsOK
<1> QED BY <1>0, <1>1, <1>2, <1>3, <1>4, <1>6, <1>7, CountKept DEF Kept, RowsForward

-----------------------------------------------------------------------------
(* The stream and the history, while rows come and go.                     *)

\* A row that is drawn has a higher id than the last one sent; one that
\* becomes visible behind it was pending when it was passed by.
LEMMA ViewerKept ==
    ASSUME TypeOK, IdsOK, ViewerOK, RowsForward, UNCHANGED viewer
    PROVE  ViewerOK'
<1> SUFFICES ASSUME viewer.pc = "open" PROVE ViewerOK'
  BY DEF ViewerOK
<1>1. \A i \in Born : i \in Born' /\ Forward(i)
  BY IdsStep
<1>2. viewer.last \in Nat
  <2>1. viewer.last \in Ids \cup {0}
    BY DEF TypeOK, Viewer
  <2>2. CASE viewer.last \in Ids
    BY <2>2
  <2>3. CASE viewer.last = 0
    BY <2>3
  <2> QED BY <2>1, <2>2, <2>3
<1>3. ASSUME NEW i \in Ids, rows'[i].state \in {"stored", "pending"}, i <= viewer.last
      PROVE  i \in Born
  <2>1. CASE \A j \in Ids : Forward(j)
    BY <1>3, <2>1 DEF Forward, Born
  <2>2. ASSUME NEW j \in Ids, Drawn(j) PROVE i \in Born
    <3>1. viewer.last < j
      BY <1>2, <2>2 DEF ViewerOK, IdsOK, Born, Drawn
    <3>2. i # j
      BY <1>2, <1>3, <3>1
    <3> QED BY <1>3, <2>2, <3>2 DEF Drawn, Born
  <2> QED BY <2>1, <2>2 DEF RowsForward
<1>4. ASSUME NEW i \in Stored', i <= viewer.last
      PROVE  i \in viewer.sent \cup viewer.first \cup viewer.overtaken
  <2>1. i \in Ids /\ rows'[i].state = "stored" /\ i \in Born /\ Forward(i)
    BY <1>1, <1>3, <1>4 DEF Stored, In
  <2>2. rows[i].state \in {"stored", "pending"}
    BY <2>1 DEF Forward
  <2> QED BY <1>4, <2>1, <2>2 DEF ViewerOK, Stored, In
<1>5. ASSUME NEW i \in In("pending")', i <= viewer.last
      PROVE  i \in viewer.overtaken
  <2>1. i \in Ids /\ rows'[i].state = "pending" /\ i \in Born /\ Forward(i)
    BY <1>1, <1>3, <1>5 DEF In
  <2>2. rows[i].state = "pending"
    BY <2>1 DEF Forward
  <2> QED BY <1>5, <2>1, <2>2 DEF ViewerOK, In
<1>6. viewer.last = 0 \/ viewer.last \in Born'
  BY <1>1 DEF ViewerOK
<1>7. /\ viewer.sent \subseteq Ids /\ \A i \in viewer.sent : i <= viewer.last
      /\ viewer.count = Cardinality(viewer.sent)
  BY DEF ViewerOK
<1> QED BY <1>4, <1>5, <1>6, <1>7 DEF ViewerOK

\* The places of rows in the history do not change.
LEMMA ReaderKept ==
    ASSUME TypeOK, IdsOK, ReaderOK, RowsForward, UNCHANGED reader
    PROVE  ReaderOK'
<1>1. \A i \in Born : i \in Born' /\ Forward(i) /\ rows'[i].at = rows[i].at
  BY IdsStep
<1>2. \A i \in reader.seen \cup reader.began : i \in Born
  BY DEF ReaderOK, Born, TypeOK, Reader
<1>3. \A i \in reader.seen \cup reader.began : Passed(i)' <=> Passed(i)
  BY <1>1, <1>2 DEF Passed, Position
<1>4. \A i \in reader.began : rows'[i].state \in {"stored", "gone"}
  BY <1>1, <1>2 DEF ReaderOK, Forward
<1>5. \A i \in reader.began : i \in Stored' => i \in Stored
  BY <1>1, <1>2 DEF ReaderOK, Forward, Stored, In
<1> QED BY <1>1, <1>2, <1>3, <1>4, <1>5 DEF ReaderOK

\* At most one row is the latest.
LEMMA LatestIsOne ==
    ASSUME TypeOK, IdsOK
    PROVE  /\ Latest \in SUBSET Stored /\ IsFiniteSet(Latest)
           /\ \A i, j \in Latest : i = j
<1>1. Stored \in SUBSET Ids /\ Stored \in SUBSET Born
  BY DEF Stored, In, Born
<1>2. IsFiniteSet(Stored)
  BY <1>1, BornFinite
<1>3. Latest \in SUBSET Stored /\ IsFiniteSet(Latest)
  BY <1>1, <1>2, NewestFillTheLimit DEF Latest
<1>4. ASSUME NEW i \in Latest, NEW j \in Latest, Ahead(i, j) PROVE FALSE
  <2>1. /\ Cardinality(AllAhead(Stored, j)) < 1
        /\ Cardinality(AllAhead(Stored, i)) \in Nat
        /\ Cardinality(AllAhead(Stored, j)) \in Nat
        /\ Cardinality(AllAhead(Stored, i)) < Cardinality(AllAhead(Stored, j))
    BY <1>1, <1>2, <1>3, <1>4, FewerAhead, NewestBy DEF Latest
  <2> QED BY <2>1
<1>5. \A i, j \in Latest : i = j
  BY <1>1, <1>3, <1>4, AheadOrder
<1> QED BY <1>3, <1>5

\* The steps of the stream: what they send, they have not sent before.
LEMMA StreamStep ==
    ASSUME IInv, Stream
    PROVE  viewer' \in Viewer /\ ViewerOK'
<1>0. /\ TypeOK /\ IdsOK /\ ViewerOK /\ viewer \in Viewer /\ UNCHANGED rows
      /\ Stored' = Stored /\ In("pending")' = In("pending") /\ Born' = Born
      /\ Stored \subseteq Born /\ Born \subseteq Ids /\ Ids \subseteq Nat \ {0}
  BY DEF IInv, TypeOK, Stream, OpenStream, FirstSnapshot, PollStream, CloseStream,
         ReloadPage, Stored, In, Born
<1>1. CASE OpenStream
  BY <1>1 DEF OpenStream, NoViewer, Refused, Viewer, ViewerOK
<1>2. CASE FirstSnapshot /\ viewer' # Refused
  <2> DEFINE last == IF Latest = {} THEN 0 ELSE CHOOSE i \in Latest : TRUE
             over == {i \in In("pending") : \E j \in Latest : i < j}
  <2>1. viewer' = [viewer EXCEPT !.pc = "open", !.sent = Latest, !.first = Stored,
                                 !.last = last, !.overtaken = over,
                                 !.count = Cardinality(Latest)]
    BY <1>2 DEF FirstSnapshot
  <2>2. Latest \in SUBSET Stored /\ IsFiniteSet(Latest) /\ \A i, j \in Latest : i = j
    BY <1>0, LatestIsOne
  <2>3. last \in Ids \cup {0} /\ ((last = 0 /\ Latest = {}) \/ last \in Latest)
    BY <1>0, <2>2
  <2>4. Cardinality(Latest) \in Nat /\ over \subseteq Ids
    BY <2>2, FS_CardinalityType DEF In
  <2> HIDE DEF last, over
  <2>5. /\ viewer' \in Viewer /\ viewer'.last = last /\ viewer'.sent = Latest
        /\ viewer'.first = Stored /\ viewer'.overtaken = over
        /\ viewer'.count = Cardinality(Latest)
    BY <1>0, <2>1, <2>2, <2>3, <2>4 DEF Viewer
  <2>6. ASSUME NEW i \in In("pending"), i <= last PROVE i \in over
    <3>1. i \in Ids /\ i \notin Stored /\ i \in Nat /\ i # 0
      BY <1>0 DEF In, Stored
    <3>2. last \in Latest /\ i # last
      BY <2>2, <2>3, <2>6, <3>1
    <3>3. i < last
      BY <1>0, <2>2, <2>6, <3>1, <3>2
    <3> QED BY <3>2, <3>3 DEF over
  <2>7. \A i \in Latest : i <= last
    BY <1>0, <2>2, <2>3
  <2>8. last = 0 \/ last \in Born
    BY <1>0, <2>2, <2>3
  <2> QED BY <1>0, <2>2, <2>5, <2>6, <2>7, <2>8 DEF ViewerOK
<1>3. CASE PollStream
  <2> DEFINE new == After(viewer.last)
             last == CHOOSE i \in new : \A j \in new : i >= j
             over == viewer.overtaken \cup {i \in In("pending") : i < last}
  <2>1. /\ viewer.pc = "open" /\ new # {}
        /\ viewer' = [viewer EXCEPT !.last = last, !.sent = @ \cup new,
                                    !.overtaken = over, !.count = @ + Cardinality(new)]
    BY <1>3 DEF PollStream
  <2>2. new \in SUBSET Stored /\ new \in SUBSET Nat /\ \A i \in Stored : i \in new <=> i > viewer.last
    BY <1>0 DEF After
  <2>3. last \in new /\ \A j \in new : last >= j
    <3>1. PICK n \in Nat : \A i \in Born : i <= n
      BY <1>0 DEF IdsOK
    <3>2. \E i \in new : \A j \in new : i >= j
      BY <1>0, <2>1, <2>2, <3>1, GreatestNumber
    <3> QED BY <3>2
  <2> HIDE DEF new, last
  <2>4. viewer.last \in Nat /\ last \in Nat /\ viewer.last < last
    <3>1. viewer.last \in Ids \cup {0}
      BY <1>0 DEF Viewer
    <3>2. viewer.last \in Nat
      <4>1. CASE viewer.last \in Ids
        BY <4>1
      <4>2. CASE viewer.last = 0
        BY <4>2
      <4> QED BY <3>1, <4>1, <4>2
    <3>3. last \in Nat /\ last > viewer.last
      BY <2>2, <2>3
    <3> QED BY <3>2, <3>3
  <2>5. viewer.sent \subseteq Ids /\ IsFiniteSet(viewer.sent) /\ viewer.sent \cap new = {}
    <3>1. /\ viewer.sent \subseteq Nat /\ viewer.sent \subseteq Ids
          /\ \A i \in viewer.sent : i <= viewer.last
      BY <1>0, <2>1 DEF ViewerOK
    <3>2. IsFiniteSet(viewer.sent)
      BY <2>4, <3>1, FS_BoundedSetOfNaturals
    <3>3. \A i \in new : ~(i <= viewer.last)
      BY <2>2, <2>4
    <3> QED BY <3>1, <3>2, <3>3
  <2>6. IsFiniteSet(new) /\ Cardinality(new) \in Nat
    BY <1>0, <2>2, BornFinite
  <2>7. Cardinality(viewer.sent \cup new) = Cardinality(viewer.sent) + Cardinality(new)
    <3>1. Cardinality(viewer.sent \cap new) = 0
      BY <2>5, FS_EmptySet
    <3>2. Cardinality(viewer.sent) \in Nat
      BY <2>5, FS_CardinalityType
    <3>3. Cardinality(viewer.sent \cup new) =
             Cardinality(viewer.sent) + Cardinality(new) - Cardinality(viewer.sent \cap new)
      BY <2>5, <2>6, FS_Union
    <3> QED BY <2>6, <3>1, <3>2, <3>3
  <2>8. over \subseteq Ids
    BY <1>0 DEF Viewer, In
  <2> HIDE DEF over
  <2>9. /\ viewer' \in Viewer /\ viewer'.last = last /\ viewer'.sent = viewer.sent \cup new
        /\ viewer'.first = viewer.first /\ viewer'.overtaken = over
        /\ viewer'.count = viewer.count + Cardinality(new)
    <3>1. viewer.sent \cup new \in SUBSET Ids /\ last \in Ids \cup {0}
      BY <1>0, <2>2, <2>3, <2>5
    <3>2. viewer.count + Cardinality(new) \in Nat
      BY <1>0, <2>6 DEF Viewer
    <3> QED BY <1>0, <2>1, <2>8, <3>1, <3>2 DEF Viewer
  <2>10. \A i \in Stored : i \in viewer.sent \cup new \cup viewer.first \cup over
    <3>1. \A i \in Stored : i \in new \/ i <= viewer.last
      BY <1>0, <2>2, <2>4
    <3> QED BY <1>0, <2>1, <3>1 DEF ViewerOK, over
  <2>11. ASSUME NEW i \in In("pending"), i <= last PROVE i \in over
    <3>1. i \in Nat /\ i # last
      BY <1>0, <2>2, <2>3 DEF In, Stored
    <3> QED BY <2>4, <2>11, <3>1 DEF over
  <2>12. \A i \in viewer.sent \cup new : i <= last
    <3>1. \A i \in viewer.sent : i \in Nat /\ i <= viewer.last
      BY <1>0, <2>1, <2>5 DEF ViewerOK
    <3>2. \A i \in new : i \in Nat /\ last >= i
      BY <2>2, <2>3
    <3> QED BY <2>4, <3>1, <3>2
  <2>13. viewer'.count = Cardinality(viewer'.sent)
    BY <1>0, <2>1, <2>7, <2>9 DEF ViewerOK
  <2>14. last \in Born /\ viewer.sent \cup new \subseteq Ids
    BY <1>0, <2>2, <2>3, <2>5
  <2> QED BY <1>0, <2>9, <2>10, <2>11, <2>12, <2>13, <2>14 DEF ViewerOK
<1>4. CASE CloseStream \/ ReloadPage
  BY <1>4 DEF CloseStream, ReloadPage, NoViewer, Viewer, ViewerOK
<1>5. CASE viewer' = Refused
  BY <1>5 DEF Refused, NoViewer, Viewer, ViewerOK
<1> QED BY <1>1, <1>2, <1>3, <1>4, <1>5 DEF Stream

-----------------------------------------------------------------------------
(* The pages.                                                              *)

\* The rows of a range that a cursor leaves.
Left(r) == {i \in Stored : /\ rows[i].at \in r.from .. r.to
                           /\ r.before # None => Newer(r.before, Position(i))}

\* What a page shows of the rows that are left, and where it leaves off: it
\* shows all of them, or else all that are not behind its last row.
LEMMA PageShows ==
    ASSUME TypeOK, IdsOK, NEW r \in Reader
    PROVE  \E entries \in SUBSET Left(r) :
              /\ Page(r) = [pc |-> Page(r).pc, from |-> r.from, to |-> r.to,
                            before |-> Page(r).before, seen |-> r.seen \cup entries,
                            began |-> r.began, count |-> r.count + Cardinality(entries)]
              /\ IsFiniteSet(entries) /\ Cardinality(entries) \in Nat
              /\ \/ Page(r).pc = "done" /\ Page(r).before = None /\ entries = Left(r)
                 \/ /\ Page(r).pc = "paging"
                    /\ \E last \in entries :
                          /\ Page(r).before = Position(last)
                          /\ \A i \in Left(r) : Ahead(last, i) \/ i \in entries
                          /\ \A i \in entries : ~Ahead(last, i)
<1> DEFINE S == Left(r)
           fetched == History(r.from, r.to, r.before, Limit + 1)
           entries == Newest(fetched, Limit)
           more == Cardinality(fetched) > Limit
           last == CHOOSE i \in entries : \A j \in entries : j = i \/ Newer(Position(j), Position(i))
<1>1. S \in SUBSET Stored /\ S \in SUBSET Ids /\ S \in SUBSET Born
  BY DEF Left, Stored, In, Born
<1>2. IsFiniteSet(S)
  BY <1>1, BornFinite
<1>3. fetched = Newest(S, Limit + 1)
  BY DEF History, Left
<1>4. Page(r) = [r EXCEPT !.pc = IF more THEN "paging" ELSE "done",
                          !.before = IF more THEN Position(last) ELSE None,
                          !.seen = @ \cup entries,
                          !.count = @ + Cardinality(entries)]
  BY Zenon DEF Page
<1> HIDE DEF S, fetched
<1>5. /\ fetched \in SUBSET S /\ IsFiniteSet(fetched) /\ Cardinality(fetched) \in Nat
      /\ Cardinality(fetched) < Limit + 1 => fetched = S
  BY <1>1, <1>2, <1>3, NewestFillTheLimit
<1>6. fetched \in SUBSET Ids
  BY <1>1, <1>5
<1>7. /\ entries \in SUBSET fetched /\ IsFiniteSet(entries) /\ Cardinality(entries) \in Nat
      /\ Cardinality(entries) < Limit => entries = fetched
      /\ fetched # {} => entries # {}
  BY <1>5, <1>6, NewestFillTheLimit
<1>8. CASE ~more
  <2>1. fetched = S
    BY <1>5, <1>8
  <2>2. entries = fetched
    <3>1. CASE Cardinality(entries) < Limit
      BY <1>7, <3>1
    <3>2. CASE Cardinality(entries) >= Limit
      BY <1>5, <1>7, <1>8, <3>2, FS_Subset
    <3> QED BY <1>7, <3>1, <3>2
  <2>3. /\ Page(r).pc = "done" /\ Page(r).before = None
        /\ Page(r) = [pc |-> "done", from |-> r.from, to |-> r.to, before |-> None,
                      seen |-> r.seen \cup entries, began |-> r.began,
                      count |-> r.count + Cardinality(entries)]
    <3> HIDE DEF entries, last, more
    <3> QED BY <1>4, <1>8 DEF Reader
  <2> HIDE DEF entries
  <2> QED BY <1>5, <1>7, <2>1, <2>2, <2>3 DEF S
<1>9. CASE more
  <2>1. entries # {} /\ entries \in SUBSET Ids
    <3>1. fetched # {}
      BY <1>5, <1>9, FS_EmptySet
    <3> QED BY <1>6, <1>7, <3>1
  <2>2. last \in entries /\ \A j \in entries : j = last \/ Ahead(j, last)
    <3>1. \E i \in entries : \A j \in entries : j = i \/ Newer(Position(j), Position(i))
      BY <1>7, <2>1, Extremes DEF Ahead
    <3> HIDE DEF entries
    <3> QED BY <3>1 DEF Ahead
  <2>3. Page(r).pc = "paging" /\ Page(r).before = Position(last)
        /\ Page(r) = [pc |-> "paging", from |-> r.from, to |-> r.to,
                      before |-> Position(last), seen |-> r.seen \cup entries,
                      began |-> r.began, count |-> r.count + Cardinality(entries)]
    <3> HIDE DEF entries, last, more
    <3> QED BY <1>4, <1>9 DEF Reader
  <2> HIDE DEF last
  <2>4. ASSUME NEW i \in S, ~Ahead(last, i) PROVE i \in entries
    <3>1. CASE i = last
      BY <2>2, <3>1
    <3>2. CASE Ahead(i, last)
      <4>1. last \in fetched /\ last \in Newest(S, Limit + 1) /\ last \in Newest(fetched, Limit)
        BY <1>3, <1>7, <2>2
      <4>2. i \in fetched
        BY <1>1, <1>2, <1>3, <3>2, <4>1, NewestAreAhead
      <4> QED BY <1>5, <1>6, <3>2, <4>1, <4>2, NewestAreAhead
    <3>3. i \in Ids /\ last \in Ids
      BY <1>1, <2>1, <2>2
    <3> QED BY <2>4, <3>1, <3>2, <3>3, AheadOrder
  <2>5. \A i \in entries : ~Ahead(last, i)
    BY <2>1, <2>2, AheadOrder
  <2> HIDE DEF entries
  <2>6. entries \in SUBSET S
    BY <1>5, <1>7
  <2> QED BY <1>7, <2>2, <2>3, <2>4, <2>5, <2>6 DEF S
<1> QED BY <1>8, <1>9

\* A page goes on where the one before left off: what is left has not been
\* seen, and nothing that was there from the first is neither seen nor left.
LEMMA TurnPage ==
    ASSUME TypeOK, IdsOK, UNCHANGED rows, NEW r \in Reader, reader' = Page(r),
           r.count = Cardinality(r.seen), r.seen \subseteq Born,
           \A i \in r.began : rows[i].state \in {"stored", "gone"} /\ rows[i].at \in r.from .. r.to,
           r.seen \cap Left(r) = {},
           r.began \cap Stored \subseteq r.seen \cup Left(r),
           \A i \in Left(r), j \in r.seen : ~Ahead(i, j)
    PROVE  reader' \in Reader /\ ReaderOK'
<1>1. PICK entries \in SUBSET Left(r) :
              /\ Page(r) = [pc |-> Page(r).pc, from |-> r.from, to |-> r.to,
                            before |-> Page(r).before, seen |-> r.seen \cup entries,
                            began |-> r.began, count |-> r.count + Cardinality(entries)]
              /\ IsFiniteSet(entries) /\ Cardinality(entries) \in Nat
              /\ \/ Page(r).pc = "done" /\ Page(r).before = None /\ entries = Left(r)
                 \/ /\ Page(r).pc = "paging"
                    /\ \E last \in entries :
                          /\ Page(r).before = Position(last)
                          /\ \A i \in Left(r) : Ahead(last, i) \/ i \in entries
                          /\ \A i \in entries : ~Ahead(last, i)
  BY PageShows
<1>2. /\ Left(r) \subseteq Stored /\ Stored \subseteq Born /\ Born \subseteq Ids
      /\ Stored' = Stored /\ Born' = Born
  BY DEF Left, Stored, In, Born
<1>3. \A i \in Ids : Position(i) \in Times \X Ids /\ Position(i)' = Position(i)
  BY DEF TypeOK, Row, Position
<1>3a. /\ reader'.from = r.from /\ reader'.to = r.to /\ reader'.began = r.began
      /\ reader'.seen = r.seen \cup entries /\ reader'.count = r.count + Cardinality(entries)
      /\ reader'.pc = Page(r).pc /\ reader'.before = Page(r).before
      /\ IsFiniteSet(entries) /\ Cardinality(entries) \in Nat
  BY <1>1
<1>3b. \A i \in reader'.began : /\ rows'[i].state \in {"stored", "gone"}
                              /\ rows'[i].at \in reader'.from .. reader'.to
  BY <1>3a
<1>4. reader'.count = Cardinality(reader'.seen) /\ reader'.count \in Nat
  <2>1. IsFiniteSet(r.seen) /\ Cardinality(r.seen) \in Nat
    BY BornFinite
  <2>2. r.seen \cap entries = {}
    OBVIOUS
  <2>3. Cardinality(r.seen \cap entries) = 0
    BY <2>2, FS_EmptySet
  <2>4. Cardinality(r.seen \cup entries)
           = Cardinality(r.seen) + Cardinality(entries) - Cardinality(r.seen \cap entries)
    BY <1>3a, <2>1, FS_Union
  <2> QED BY <1>3a, <2>1, <2>3, <2>4
<1>5. reader'.seen \subseteq Born /\ reader'.seen \in SUBSET Ids
  BY <1>1, <1>2
<1>6. reader' \in Reader
  <2>1. Page(r).pc \in {"paging", "done"} /\ Page(r).before \in (Times \X Ids) \cup {None}
    BY <1>1, <1>2, <1>3
  <2>2. /\ r.from \in Times /\ r.to \in Times /\ r.began \in SUBSET Ids
        /\ reader'.seen = r.seen \cup entries
        /\ reader'.count = r.count + Cardinality(entries)
    BY <1>1 DEF Reader
  <2> QED BY <1>1, <1>4, <1>5, <2>1, <2>2 DEF Reader
<1>7. CASE reader'.pc = "done"
  <2>1. entries = Left(r)
    BY <1>1, <1>7
  <2>2. reader'.began \cap Stored' \subseteq reader'.seen /\ reader'.seen \subseteq Born'
    BY <1>2, <1>5, <1>3a, <2>1
  <2> QED BY <1>4, <1>6, <1>7, <1>3b, <2>2 DEF ReaderOK
<1>8. CASE reader'.pc = "paging"
  <2>1. PICK last \in entries :
           /\ Page(r).before = Position(last)
           /\ \A i \in Left(r) : Ahead(last, i) \/ i \in entries
           /\ \A i \in entries : ~Ahead(last, i)
    BY <1>1, <1>8
  <2>2. reader'.before = Position(last) /\ last \in Left(r) /\ last \in Ids
    BY <1>2, <2>1
  <2>3. \A i \in Ids : Passed(i)' <=> ~Ahead(last, i)
    BY <1>3, <2>2 DEF Passed, Ahead, Newer
  <2>4. \A i \in reader'.seen : Passed(i)'
    BY <1>1, <1>2, <2>1, <2>2, <2>3
  <2>5. ASSUME NEW i \in reader'.began \cap Stored', Passed(i)'
        PROVE  i \in reader'.seen
    <3>1. i \in r.began \cap Stored /\ i \in Ids
      BY <1>1, <1>2
    <3>2. ~Ahead(last, i)
      BY <2>3, <2>5, <3>1
    <3> QED BY <1>1, <2>1, <3>1, <3>2
  <2>6. reader'.before \in Times \X Ids
    BY <1>3, <2>2
  <2>7. reader'.seen \subseteq Born'
    BY <1>2, <1>5
  <2> QED BY <1>4, <1>6, <1>8, <1>3b, <2>4, <2>5, <2>6, <2>7 DEF ReaderOK
<1> QED BY <1>1, <1>6, <1>7, <1>8

\* The steps of the history.
LEMMA ReadStep ==
    ASSUME IInv, Read
    PROVE  reader' \in Reader /\ ReaderOK'
<1>0. /\ TypeOK /\ IdsOK /\ ReaderOK /\ reader \in Reader /\ UNCHANGED rows
      /\ Stored \subseteq Ids
  <2>1. UNCHANGED rows
    <3>1. CASE NextPage
      BY <3>1 DEF NextPage
    <3>2. CASE LeaveHistory
      BY <3>2 DEF LeaveHistory
    <3>3. ASSUME NEW from, NEW to, OpenHistory(from, to) PROVE UNCHANGED rows
      BY <3>3 DEF OpenHistory
    <3> QED BY <3>1, <3>2, <3>3 DEF Read
  <2> QED BY <2>1 DEF IInv, TypeOK, Stored, In
<1>1. ASSUME NEW from \in 1 .. MaxChecks, NEW to \in 1 .. MaxChecks, OpenHistory(from, to)
      PROVE  reader' \in Reader /\ ReaderOK'
  <2> DEFINE range == {i \in Stored : rows[i].at \in from .. to}
             r == [NoReader EXCEPT !.from = from, !.to = to, !.began = range]
  <2>1. reader' = Page(r)
    BY <1>1 DEF OpenHistory
  <2>2. /\ r.from = from /\ r.to = to /\ r.began = range /\ r.seen = {} /\ r.count = 0
        /\ r.before = None
    BY DEF NoReader
  <2>3. r \in Reader
    <3>1. range \in SUBSET Ids
      BY <1>0
    <3>2. from \in Times /\ to \in Times /\ 0 \in Times
      BY DEF Times
    <3> HIDE DEF range
    <3> QED BY <3>1, <3>2 DEF NoReader, Reader
  <2> HIDE DEF r
  <2>4. Left(r) = range
    BY <2>2 DEF Left
  <2>5. \A i \in range : rows[i].state \in {"stored", "gone"} /\ rows[i].at \in from .. to
    BY DEF Stored, In
  <2>6. r.count = Cardinality(r.seen)
    BY <2>2, FS_EmptySet
  <2> HIDE DEF range
  <2> QED BY <1>0, <2>1, <2>2, <2>3, <2>4, <2>5, <2>6, TurnPage
<1>2. CASE NextPage
  <2>1. reader' = Page(reader) /\ reader.pc = "paging"
    BY <1>2 DEF NextPage
  <2>2. reader.before \in Times \X Ids /\ reader.before # None
    <3>1. reader.before \in Times \X Ids
      BY <1>0, <2>1 DEF ReaderOK
    <3>2. Times \subseteq Nat
      BY DEF Times
    <3>3. Times \X Ids \subseteq Nat \X Nat
      BY <3>2
    <3> QED BY <3>1, <3>3, ObservationsAssumption
  <2>3. \A i \in Left(reader) : i \in Stored /\ i \in Ids /\ ~Passed(i)
    BY <1>0, <2>2 DEF Left, Passed
  <2>4. reader.seen \cap Left(reader) = {}
    BY <1>0, <2>1, <2>3 DEF ReaderOK
  <2>5. reader.began \cap Stored \subseteq reader.seen \cup Left(reader)
    BY <1>0, <2>1, <2>2 DEF ReaderOK, Left, Passed
  <2>6. ASSUME NEW i \in Left(reader), NEW j \in reader.seen PROVE ~Ahead(i, j)
    <3>0. Passed(j) /\ j \in Born
      BY <1>0, <2>1 DEF ReaderOK
    <3>1. Passed(j) /\ ~Passed(i) /\ j \in Ids /\ i \in Ids
      BY <2>3, <3>0 DEF Born
    <3>2. \A h \in Ids : rows[h].at \in Nat /\ h \in Nat
      BY <1>0 DEF TypeOK, Row, Times
    <3>3. reader.before[1] \in Nat /\ reader.before[2] \in Nat
      <4>1. reader.before[1] \in Times /\ reader.before[2] \in Ids
        BY <2>2
      <4>2. Times \subseteq Nat
        BY DEF Times
      <4> QED BY <4>1, <4>2
    <3> QED BY <3>1, <3>2, <3>3 DEF Ahead, Passed, Newer, Position
  <2>7. /\ reader.count = Cardinality(reader.seen) /\ reader.seen \subseteq Born
        /\ \A i \in reader.began : /\ rows[i].state \in {"stored", "gone"}
                                   /\ rows[i].at \in reader.from .. reader.to
    BY <1>0 DEF ReaderOK
  <2> QED BY <1>0, <2>1, <2>4, <2>5, <2>6, <2>7, TurnPage
<1>3. CASE LeaveHistory
  BY <1>3, FS_EmptySet DEF LeaveHistory, NoReader, Reader, ReaderOK, Times
<1> QED BY <1>1, <1>2, <1>3 DEF Read

-----------------------------------------------------------------------------
(* The theorems.                                                           *)

\* What those who only read leave as it is.
LEMMA TablesKept ==
    ASSUME IInv, UNCHANGED <<service, rows, agent, task>>
    PROVE  IdsOK' /\ TasksOK' /\ AttemptsOK' /\ RowsForward
<1>1. RowsForward
  BY DEF RowsForward, Forward
<1>2. IdsOK'
  BY <1>1, IdsStep DEF IInv
<1>3. TasksOK'
  BY DEF IInv, TasksOK, Holds
<1>4. AttemptsOK'
  <2>1. Born' = Born
    BY DEF Born
  <2>2. \A t \in Times : /\ RowsOf(t)' = RowsOf(t) /\ Asking(t)' = Asking(t)
                         /\ Attempts(t)' = Attempts(t)
    BY <2>1 DEF RowsOf, Asking, Attempts
  <2> QED BY <2>2 DEF IInv, AttemptsOK
<1> QED BY <1>1, <1>2, <1>3, <1>4

\* Every step preserves the invariant.
LEMMA NextIInv == IInv /\ [Next]_vars => IInv'
<1> SUFFICES ASSUME IInv, [Next]_vars PROVE IInv'
  OBVIOUS
<1>1. ASSUME Kept PROVE IInv'
  BY <1>1, IdsStep, ViewerKept, ReaderKept DEF Kept, IInv
<1>2. CASE RunCheck \/ LoseTouch \/ DeleteService
  BY <1>1, <1>2, RunCheckStep, LoseTouchStep, DeleteServiceStep
<1>3. CASE \E p \in Handlers : Send(p) \/ Serve(p) \/ Fail(p)
  BY <1>1, <1>3, SendStep, ServeStep, FailStep
<1>4. CASE Stream
  <2>1. UNCHANGED <<service, rows, agent, task, reader>>
    BY <1>4 DEF Stream, OpenStream, FirstSnapshot, PollStream, CloseStream,
                ReloadPage
  <2>2. viewer' \in Viewer /\ ViewerOK'
    BY <1>4, StreamStep
  <2>3. ReaderOK' /\ reader' \in Reader
    BY <2>1, TablesKept, ReaderKept DEF IInv, TypeOK
  <2> QED BY <2>1, <2>2, <2>3, TablesKept DEF IInv, TypeOK
<1>5. CASE Read
  <2>1. UNCHANGED <<service, rows, agent, task, viewer>>
    <3>1. ASSUME NEW from, NEW to, OpenHistory(from, to)
          PROVE  UNCHANGED <<service, rows, agent, task, viewer>>
      BY <3>1 DEF OpenHistory
    <3>2. CASE NextPage \/ LeaveHistory
      BY <3>2 DEF NextPage, LeaveHistory
    <3> QED BY <1>5, <3>1, <3>2 DEF Read
  <2>2. reader' \in Reader /\ ReaderOK'
    BY <1>5, ReadStep
  <2>3. ViewerOK' /\ viewer' \in Viewer
    BY <2>1, TablesKept, ViewerKept DEF IInv, TypeOK
  <2> QED BY <2>1, <2>2, <2>3, TablesKept DEF IInv, TypeOK
<1>6. CASE UNCHANGED vars
  <2>1. UNCHANGED <<service, rows, agent, task, viewer, reader>>
    BY <1>6 DEF vars
  <2> QED BY <2>1, TablesKept, ViewerKept, ReaderKept DEF IInv, TypeOK
<1> QED BY <1>2, <1>3, <1>4, <1>5, <1>6 DEF Next

\* The invariant holds of every behaviour; no fairness is needed for it.
LEMMA Invariance == Spec => []IInv
BY InitIInv, NextIInv, PTL DEF Spec

\* Rows, requests, the stream and the pages keep to their types.
THEOREM TypeCorrect == Spec => []TypeOK
<1>1. IInv => TypeOK
  BY DEF IInv
<1> QED BY <1>1, Invariance, PTL

\* However attempts, answers and statements are lost, delayed or fail, a check
\* is stored at most once for each attempt the agent may make.
THEOREM NoCheckIsOvercounted == Spec => []ChecksAreCountedByAttempt
<1>1. IInv => ChecksAreCountedByAttempt
  <2> SUFFICES ASSUME IInv, NEW t \in Times
               PROVE  Cardinality({i \in Stored : rows[i].at = t}) <= RetryCount + 1
    BY DEF ChecksAreCountedByAttempt
  <2> DEFINE stored == {i \in Stored : rows[i].at = t}
  <2>1. stored \subseteq RowsOf(t) /\ RowsOf(t) \subseteq Born
    BY DEF RowsOf, Born, Stored, In
  <2>2. IsFiniteSet(RowsOf(t)) /\ Cardinality(RowsOf(t)) \in Nat /\ Cardinality(stored) \in Nat
        /\ Cardinality(stored) <= Cardinality(RowsOf(t))
    BY <2>1, BornFinite, FS_Subset DEF IInv
  <2>3. Cardinality(Asking(t)) \in Nat /\ Attempts(t) \in Nat /\ Attempts(t) <= RetryCount + 1
        /\ Cardinality(RowsOf(t)) + Cardinality(Asking(t)) <= Attempts(t)
    BY FS_CardinalityType, AttemptsAreNumbers DEF IInv, AttemptsOK
  <2> HIDE DEF stored
  <2>4. Cardinality(stored) <= RetryCount + 1
    BY <2>2, <2>3
  <2> QED BY <2>4 DEF stored
<1> QED BY <1>1, Invariance, PTL

\* A stream sends each row once, and misses only those that were pending when
\* it sent one with a higher id.
THEOREM StreamsMissLittle == Spec => []StreamMissesOnlyOvertaken
<1>1. IInv => StreamMissesOnlyOvertaken
  <2> SUFFICES ASSUME IInv, viewer.pc = "open" PROVE StreamMissesOnlyOvertaken
    BY DEF StreamMissesOnlyOvertaken
  <2>1. \A i \in Stored : i <= viewer.last \/ i > viewer.last
    <3>1. viewer.last \in Ids \cup {0} /\ Stored \subseteq Ids
      BY DEF IInv, TypeOK, Viewer, Stored, In
    <3>2. Stored \subseteq Nat
      BY <3>1
    <3>3. viewer.last \in Nat
      <4>1. CASE viewer.last \in Ids
        BY <4>1
      <4>2. CASE viewer.last = 0
        BY <4>2
      <4> QED BY <3>1, <4>1, <4>2
    <3> QED BY <3>2, <3>3
  <2> QED BY <2>1 DEF IInv, ViewerOK, StreamMissesOnlyOvertaken
<1> QED BY <1>1, Invariance, PTL

\* Who follows the cursors of the history to the end gets every row that was
\* there at the first page and is there still, and none twice.
THEOREM HistoriesAreExact == Spec => []HistoryIsExact
<1>1. IInv => HistoryIsExact
  BY DEF IInv, ReaderOK, HistoryIsExact
<1> QED BY <1>1, Invariance, PTL
=============================================================================
