---------------------------- MODULE AccessProofs ----------------------------
(***************************************************************************)
(* Theorems about Access: whatever requests overlap, and however roles,    *)
(* rows and projects come and go between the steps of one, the three       *)
(* layers - middleware, handler, database - let through what they should.  *)
(***************************************************************************)
EXTENDS Access, TLAPS

\* The tables a row of a table can refer to.
ReferredBy(table) ==
    IF table = "services" THEN {"nodes"}
    ELSE IF table = "alert_rules" THEN {"nodes", "services"} ELSE {}

\* What refers to a row goes with it: so references never dangle, and a
\* cascade is never deeper than from a node over its services to their rules.
RowOK(r) ==
    /\ ~Live(r) => rows[r] = NoRow
    /\ Live(r) => rows[r].table \in RowTables /\ rows[r].project \in Projects
    /\ Live(r) /\ rows[r].refers # None =>
          /\ Live(rows[r].refers)
          /\ rows[rows[r].refers].table \in ReferredBy(rows[r].table)
          /\ rows[rows[r].refers].project = rows[r].project

RowsOK == \A r \in Rows : RowOK(r)

\* A request about a row of the project it was authorised in; a row that is
\* gone meanwhile stays gone as long as the request names it.
OnRow(route) == route.table \in RowTables /\ route.by = "row"
InsertsInto(route) == route.table \in RowTables /\ route.op = "insert"
OnMember(route) == route.table = "project_members" /\ (route.by = "row" \/ route.op = "insert")

TargetOK(t) ==
    /\ OnRow(t.route) =>
          /\ t.target \in Rows
          /\ Live(t.target) => /\ rows[t.target].table = t.route.table
                               /\ t.pc # "resolve" => rows[t.target].project = t.project
    /\ InsertsInto(t.route) => t.target \in Rows /\ ~Live(t.target)
    /\ OnMember(t.route) => t.target \in Users
    /\ ~(OnRow(t.route) \/ InsertsInto(t.route) \/ OnMember(t.route)) => t.target = None

\* What a body names besides can be referred to by the row, once loaded from
\* the same project.
RefersOK(t) ==
    t.refers # None =>
        /\ t.refers \in Rows /\ t.route.op \in {"insert", "update"}
        /\ Live(t.refers) => /\ rows[t.refers].table \in ReferredBy(t.route.table)
                             /\ t.pc \in {"execute", "refused"} =>
                                   rows[t.refers].project = t.project

\* A request that was let through was permitted once, and is still unless the
\* role has changed.
PermittedOK(t) ==
    LET permits == Permits(role[t.project][t.user], t)
    IN  /\ t.pc = "authorize" /\ permits => t.permitted
        /\ t.pc \in {"load", "execute"} => t.permitted /\ (t.changed \/ permits)
        /\ t.pc = "refused" => t.changed

TaskOK(t) ==
    t.pc # "idle" =>
        /\ t.user \in Users /\ t.route \in Routes
        /\ \/ t.project \in Projects
           \/ t.pc = "resolve" /\ t.route.table \in RowTables
        /\ t.pc = "resolve" => t.route.by = "row"
        /\ TargetOK(t) /\ RefersOK(t) /\ PermittedOK(t)

\* The row to be inserted has an id nobody else names.
Inserts(t) == t.pc # "idle" /\ InsertsInto(t.route)
NamesOK ==
    \A p, h \in Handlers : Inserts(task[p]) =>
        /\ task[p].target # task[h].refers
        /\ h # p => task[p].target # task[h].target

TasksOK == \A p \in Handlers : TaskOK(task[p])

\* The inductive invariant.
IInv == TypeOK /\ RowsOK /\ TasksOK /\ NamesOK

USE AccessAssumption, NoRoleAssumption

-----------------------------------------------------------------------------
(* The tables of routes, permissions and policies.                         *)

\* What the routes have in common: only rows in the path are updated,
\* deleted or streamed, and what is inserted belongs to the project a body
\* names.
LEMMA RouteTyped ==
    ASSUME NEW route \in Routes
    PROVE  /\ route.op \in {"select", "stream", "insert", "update", "delete"}
           /\ route.by \in {"row", "query", "body"}
           /\ route.op \in {"update", "delete", "stream"} => route.by = "row"
           /\ route.op = "insert" => route.by = "body" /\ route.table # "projects"
           /\ route.op = "stream" => route.table \in RowTables
           /\ route = Route(route.permission, route.table, route.op, route.by)
BY DEF Routes, ProjectRoutes, MemberRoutes, InvitationRoutes, NodeRoutes, ServiceRoutes,
       AlertRoutes, RecipientRoutes, ListRoutes, Route, RowTables

\* What is written needs more than a viewer's permission, members an owner's.
LEMMA RoutePermissions ==
    ASSUME NEW route \in Routes
    PROVE  \/ route.op \in {"select", "stream"}
           \/ /\ route.permission \in {"members.manage", "project.delete"}
              /\ route.table \in {"project_members", "project_invitations"}
                 \/ (route.table = "projects" /\ route.op = "delete")
           \/ /\ route.permission \notin ViewerPermissions
              /\ route.table \in RowTables \/ (route.table = "projects" /\ route.op = "update")
BY DEF Routes, ProjectRoutes, MemberRoutes, InvitationRoutes, NodeRoutes, ServiceRoutes,
       AlertRoutes, RecipientRoutes, ListRoutes, Route, RowTables, ViewerPermissions

\* What a role permits.
LEMMA RoleFacts ==
    ASSUME NEW r, NEW permission, RoleHasPermission(r, permission)
    PROVE  /\ r # None => r \in Roles
           /\ r \in Roles
           /\ permission \in {"members.manage", "project.delete"} => r = "owner"
           /\ permission \notin ViewerPermissions => r \in {"owner", "admin"}
<1>1. r \in Roles /\ permission \in RolePermissions[r]
  BY DEF RoleHasPermission
<1>2. /\ RolePermissions["owner"] = OwnerPermissions
      /\ RolePermissions["admin"] = AdminPermissions
      /\ RolePermissions["viewer"] = ViewerPermissions
  BY DEF RolePermissions
<1>3. permission \in {"members.manage", "project.delete"} =>
         permission \notin AdminPermissions /\ permission \notin ViewerPermissions
  BY DEF AdminPermissions, ViewerPermissions
<1> QED BY <1>1, <1>2, <1>3 DEF Roles
\* What the middleware lets pass, with the role it read, no policy refuses.
LEMMA PermittedIsAllowed ==
    ASSUME NEW route \in Routes, NEW u, NEW q,
           RoleHasPermission(role[q][u], route.permission)
    PROVE  Allowed(route.table, route.op, u, q)
BY RoutePermissions, RoleFacts DEF Allowed, Member, Writer, Owner

-----------------------------------------------------------------------------

\* No request: nothing is named and nothing to be inserted.
LEMMA NoTaskOK == NoTask \in Task /\ TaskOK(NoTask) /\ ~Inserts(NoTask)
BY DEF NoTask, Task, TaskOK, Inserts

\* What the invariant says of one request.
LEMMA TaskTyped ==
    ASSUME IInv, NEW p \in Handlers
    PROVE  task[p] \in Task /\ TaskOK(task[p])
BY DEF IInv, TypeOK, TasksOK

\* What is to be inserted is a row's id.
LEMMA InsertsRow ==
    ASSUME NEW t, TaskOK(t), Inserts(t)
    PROVE  t.target \in Rows /\ ~Live(t.target)
BY DEF TaskOK, Inserts, TargetOK

\* In the initial states no request is under way.
LEMMA InitIInv == Init => IInv
<1> SUFFICES ASSUME Init PROVE IInv
  OBVIOUS
<1>1. TypeOK
  BY NoTaskOK DEF Init, TypeOK, Row, NoRow
<1>2. RowsOK
  BY DEF Init, RowsOK, RowOK, Live, NoRow
<1>3. TasksOK /\ NamesOK
  BY NoTaskOK DEF Init, TasksOK, NamesOK
<1> QED BY <1>1, <1>2, <1>3 DEF IInv

\* A step of p that changes nothing but its task.
LEMMA TaskStep ==
    ASSUME IInv, NEW p \in Handlers, NEW t \in Task, task' = [task EXCEPT ![p] = t],
           UNCHANGED <<projects, role, rows, restricted>>, TaskOK(t),
           Inserts(t) => /\ t.target # t.refers
                         /\ \A h \in Handlers \ {p} :
                               t.target # task[h].target /\ t.target # task[h].refers,
           \A h \in Handlers \ {p} : Inserts(task[h]) =>
               task[h].target # t.target /\ task[h].target # t.refers
    PROVE  IInv'
<1>1. /\ task \in [Handlers -> Task]
      /\ \A h \in Handlers : TaskOK(task[h])
  BY DEF IInv, TypeOK, TasksOK
<1>2. /\ task' \in [Handlers -> Task] /\ task'[p] = t
      /\ \A h \in Handlers \ {p} : task'[h] = task[h]
  BY <1>1
<1>3. TypeOK' /\ RowsOK'
  BY <1>2 DEF IInv, TypeOK, RowsOK, RowOK, Live
<1>4. TasksOK'
  <2> SUFFICES ASSUME NEW h \in Handlers PROVE TaskOK(task[h])'
    BY DEF TasksOK
  <2>1. TaskOK(task'[h])
    BY <1>1, <1>2
  <2> QED BY <2>1 DEF TaskOK, TargetOK, RefersOK, PermittedOK, Live
<1>5. NamesOK'
  <2> SUFFICES ASSUME NEW q \in Handlers, NEW h \in Handlers, Inserts(task'[q])
               PROVE  /\ task'[q].target # task'[h].refers
                      /\ h # q => task'[q].target # task'[h].target
    BY DEF NamesOK, Inserts
  <2>1. CASE q = p
    BY <1>2, <2>1
  <2>2. CASE q # p
    BY <1>2, <2>2 DEF IInv, NamesOK
  <2> QED BY <2>1, <2>2
<1> QED BY <1>3, <1>4, <1>5 DEF IInv

\* A request ends and leaves the tables as they are.
LEMMA EndStep ==
    ASSUME IInv, NEW p \in Handlers, End(p), UNCHANGED <<projects, role, rows, restricted>>
    PROVE  IInv'
<1>1. \A h \in Handlers : Inserts(task[h]) => task[h].target # None
  BY TaskTyped, InsertsRow
<1>2. NoTask.target = None /\ NoTask.refers = None
  BY DEF NoTask
<1> QED BY <1>1, <1>2, NoTaskOK, TaskStep DEF End

\* A request goes on to its next step.
LEMMA GoOnStep ==
    ASSUME IInv, NEW p \in Handlers, ~At(p, "idle"), NEW t \in Task,
           task' = [task EXCEPT ![p] = t],
           t.route = task[p].route, t.target = task[p].target, t.refers = task[p].refers,
           TaskOK(t), UNCHANGED <<projects, role, rows, restricted>>
    PROVE  IInv'
<1>1. Inserts(t) => Inserts(task[p])
  BY DEF Inserts, At
<1>2. \A h \in Handlers \ {p} : Inserts(task[h]) =>
         task[h].target # t.target /\ task[h].target # t.refers
  BY DEF IInv, NamesOK
<1>3. Inserts(t) => /\ t.target # t.refers
                    /\ \A h \in Handlers \ {p} :
                          t.target # task[h].target /\ t.target # task[h].refers
  BY <1>1 DEF IInv, NamesOK
<1> QED BY <1>2, <1>3, TaskStep

\* A note of changed roles leaves a request what it was.
LEMMA NotingKeeps ==
    ASSUME NEW t \in Task, NEW after
    PROVE  LET n == Noting(t, after)
           IN  /\ n \in Task
               /\ n.pc = t.pc /\ n.user = t.user /\ n.route = t.route /\ n.project = t.project
               /\ n.target = t.target /\ n.refers = t.refers
               /\ t.permitted => n.permitted
               /\ t.changed => n.changed
               /\ t.pc \in {"authorize", "load", "execute", "refused"} =>
                     IF after[t.project][t.user] # role[t.project][t.user]
                     THEN n.changed /\ (Permits(after[t.project][t.user], t) => n.permitted)
                     ELSE n = t
<1>1. CASE t.pc \in {"authorize", "load", "execute", "refused"} /\
           after[t.project][t.user] # role[t.project][t.user]
  <2> DEFINE b == t.permitted \/ Permits(after[t.project][t.user], t)
  <2>1. Noting(t, after) = [t EXCEPT !.permitted = b, !.changed = TRUE]
    BY <1>1 DEF Noting
  <2>2. b \in BOOLEAN
    BY DEF Task, Permits, RoleHasPermission
  <2>3. (t.permitted => b) /\ (Permits(after[t.project][t.user], t) => b)
    OBVIOUS
  <2> HIDE DEF b
  <2> QED BY <1>1, <2>1, <2>2, <2>3 DEF Task
<1>2. CASE ~(t.pc \in {"authorize", "load", "execute", "refused"} /\
             after[t.project][t.user] # role[t.project][t.user])
  BY <1>2 DEF Noting
<1> QED BY <1>1, <1>2

\* A step after which requests are what they were but for the notes, or
\* have ended; of the rows others name, none changes but by going.
LEMMA StateStep ==
    ASSUME IInv, projects' \in [Projects -> BOOLEAN],
           role' \in [Projects -> [Users -> Roles \cup {None}]],
           rows' \in [Rows -> Row], UNCHANGED restricted, RowsOK',
           DOMAIN task' = Handlers, task' = [h \in Handlers |-> task'[h]],
           \A h \in Handlers : task'[h] = NoTask \/ task'[h] = Noting(task[h], role'),
           \A x \in Rows :
              \/ /\ rows'[x].live = rows[x].live /\ rows'[x].table = rows[x].table
                 /\ rows'[x].project = rows[x].project
              \/ ~rows'[x].live
              \/ \A h \in Handlers :
                    task'[h] # NoTask => x # task[h].target /\ x # task[h].refers
    PROVE  IInv'
<1>1. \A h \in Handlers : task[h] \in Task /\ TaskOK(task[h])
  BY TaskTyped
<1>2. \A h \in Handlers : task'[h] \in Task
  <2> SUFFICES ASSUME NEW h \in Handlers PROVE task'[h] \in Task
    OBVIOUS
  <2>1. Noting(task[h], role') \in Task
    BY <1>1, NotingKeeps
  <2> QED BY <2>1, NoTaskOK
<1>3. TypeOK'
  BY <1>2 DEF IInv, TypeOK
<1>4. \A h \in Handlers :
         \/ task'[h] = NoTask
         \/ LET n == task'[h]  t == task[h]
            IN  /\ n.pc = t.pc /\ n.user = t.user /\ n.route = t.route
                /\ n.project = t.project /\ n.target = t.target /\ n.refers = t.refers
                /\ t.permitted => n.permitted
                /\ t.changed => n.changed
                /\ t.pc \in {"authorize", "load", "execute", "refused"} =>
                      IF role'[t.project][t.user] # role[t.project][t.user]
                      THEN n.changed /\ (Permits(role'[t.project][t.user], t) => n.permitted)
                      ELSE n = t
  BY <1>1, NotingKeeps
<1>5. TasksOK'
  <2> SUFFICES ASSUME NEW h \in Handlers, task'[h] # NoTask, task[h].pc # "idle"
               PROVE  TaskOK(task[h])'
    BY <1>4 DEF TasksOK, TaskOK, NoTask
  <2>1. TargetOK(task[h])'
    <3>1. \A x \in Rows : x = task[h].target =>
             \/ /\ rows'[x].live = rows[x].live /\ rows'[x].table = rows[x].table
                /\ rows'[x].project = rows[x].project
             \/ ~rows'[x].live
      OBVIOUS
    <3> QED BY <1>1, <1>4, <3>1 DEF TaskOK, TargetOK, Live
  <2>2. RefersOK(task[h])'
    <3>1. \A x \in Rows : x = task[h].refers =>
             \/ /\ rows'[x].live = rows[x].live /\ rows'[x].table = rows[x].table
                /\ rows'[x].project = rows[x].project
             \/ ~rows'[x].live
      OBVIOUS
    <3> QED BY <1>1, <1>4, <3>1 DEF TaskOK, RefersOK, Live
  <2>3. PermittedOK(task[h])'
    <3>1. PermittedOK(task[h])
      BY <1>1 DEF TaskOK
    <3> QED BY <1>4, <3>1 DEF PermittedOK, Permits
  <2> QED BY <1>1, <1>4, <2>1, <2>2, <2>3 DEF TaskOK
<1>6. NamesOK'
  <2> SUFFICES ASSUME NEW q \in Handlers, NEW h \in Handlers, Inserts(task'[q])
               PROVE  /\ task'[q].target # task'[h].refers
                      /\ h # q => task'[q].target # task'[h].target
    BY DEF NamesOK, Inserts
  <2>1. task'[q] # NoTask
    BY NoTaskOK
  <2>2. Inserts(task[q]) /\ task'[q].target = task[q].target
    BY <1>4, <2>1 DEF Inserts
  <2>3. task[q].target # None
    BY <1>1, <2>2, InsertsRow
  <2>4. CASE task'[h] = NoTask
    BY <2>2, <2>3, <2>4 DEF NoTask
  <2>5. CASE task'[h] # NoTask
    BY <1>4, <2>2, <2>5 DEF IInv, NamesOK
  <2> QED BY <2>4, <2>5
<1> QED BY <1>3, <1>5, <1>6 DEF IInv
-----------------------------------------------------------------------------
(* Every action preserves the invariant. *)

\* What a body can name besides.
LEMMA ChoicesOK ==
    ASSUME IInv, NEW route \in Routes, NEW refers \in Choices(route)
    PROVE  /\ refers \in Rows \cup {None}
           /\ refers # None => /\ Live(refers) /\ route.op \in {"insert", "update"}
                               /\ rows[refers].table \in ReferredBy(route.table)
<1>1. CASE route.table = "services" /\ route.op = "insert"
  BY <1>1 DEF Choices, ReferredBy
<1>2. CASE route.table = "alert_rules" /\ route.op \in {"insert", "update"}
  BY <1>2 DEF Choices, ReferredBy
<1>3. CASE /\ ~(route.table = "services" /\ route.op = "insert")
           /\ ~(route.table = "alert_rules" /\ route.op \in {"insert", "update"})
  BY <1>3 DEF Choices
<1> QED BY <1>1, <1>2, <1>3

\* The ids handed out to new rows are free, and no request names them.
LEMMA FreshRow ==
    ASSUME NEW r \in FreshRows
    PROVE  /\ r \in Rows /\ ~Live(r)
           /\ \A h \in Handlers : r # task[h].target /\ r # task[h].refers
BY DEF FreshRows, NextOf

\* A request begins, about a target that is there or that nobody names.
LEMMA BeginStep ==
    ASSUME IInv, NEW p \in Handlers, NEW u \in Users, NEW route \in Routes,
           NEW q \in Projects \cup {None}, NEW target \in Rows \cup Users \cup {None},
           NEW refers \in Choices(route), Begin(p, u, route, q, target, refers),
           q = None => OnRow(route),
           OnRow(route) => target \in Rows /\ Live(target) /\ rows[target].table = route.table,
           InsertsInto(route) => target \in FreshRows,
           OnMember(route) => target \in Users,
           ~(OnRow(route) \/ InsertsInto(route) \/ OnMember(route)) => target = None
    PROVE  IInv'
<1> DEFINE may == route.by # "row" /\ RoleHasPermission(role[q][u], route.permission)
           t == [pc |-> IF route.by = "row" THEN "resolve" ELSE "authorize", user |-> u,
                 route |-> route, project |-> q, target |-> target, refers |-> refers,
                 permitted |-> may, changed |-> FALSE]
<1>1. task' = [task EXCEPT ![p] = t] /\ UNCHANGED <<projects, role, rows, restricted>>
  BY DEF Begin
<1>2. may \in BOOLEAN
  BY DEF RoleHasPermission
<1>3. refers \in Rows \cup {None}
  BY ChoicesOK
<1>4. t \in Task
  BY <1>2, <1>3 DEF Task
<1>5. /\ t.pc = IF route.by = "row" THEN "resolve" ELSE "authorize"
      /\ t.user = u /\ t.route = route /\ t.project = q /\ t.target = target
      /\ t.refers = refers /\ t.permitted = may
  OBVIOUS
<1>6. PermittedOK(t)
  BY <1>5 DEF PermittedOK, Permits
<1> HIDE DEF t, may
<1>7. TargetOK(t)
  <2>1. OnRow(route) => t.pc = "resolve"
    BY <1>5 DEF OnRow
  <2> QED BY <1>5, <2>1, FreshRow DEF TargetOK
<1>8. RefersOK(t)
  BY <1>3, <1>5, ChoicesOK DEF RefersOK
<1>9. TaskOK(t)
  BY <1>5, <1>6, <1>7, <1>8 DEF TaskOK, OnRow
<1>10. \A h \in Handlers : Inserts(task[h]) =>
          task[h].target # t.target /\ task[h].target # t.refers
  <2> SUFFICES ASSUME NEW h \in Handlers, Inserts(task[h])
               PROVE  task[h].target # target /\ task[h].target # refers
    BY <1>5
  <2>1. task[h].target \in Rows /\ ~Live(task[h].target)
    BY TaskTyped, InsertsRow
  <2>2. task[h].target # refers
    BY <2>1, ChoicesOK
  <2>3. target \in Rows => Live(target) \/ target \in FreshRows
    OBVIOUS
  <2> QED BY <2>1, <2>2, <2>3, FreshRow
<1>11. Inserts(t) => /\ t.target # t.refers
                     /\ \A h \in Handlers \ {p} :
                           t.target # task[h].target /\ t.target # task[h].refers
  <2> SUFFICES ASSUME Inserts(t) PROVE target \in FreshRows /\ target # refers
    BY <1>5, FreshRow
  <2>1. target \in FreshRows
    BY <1>5 DEF Inserts
  <2> QED BY <2>1, FreshRow, ChoicesOK
<1> QED BY <1>1, <1>4, <1>9, <1>10, <1>11, TaskStep

\* A request that a user makes about a row or in a project begins.
LEMMA RequestStep ==
    ASSUME IInv, NEW p \in Handlers, Request(p)
    PROVE  IInv'
<1>1. PICK u \in Users, route \in Routes :
         RequestOnRow(p, u, route) \/ RequestInProject(p, u, route)
  BY DEF Request
<1>2. CASE RequestOnRow(p, u, route)
  <2>1. PICK refers \in Choices(route) :
           CASE route.table = "projects" ->
                  \E q \in Projects : projects[q] /\ Begin(p, u, route, q, None, refers)
             [] route.table = "project_members" ->
                  \E q \in Projects, v \in Users :
                     Member(v, q) /\ Begin(p, u, route, q, v, refers)
             [] OTHER ->
                  \E r \in Rows : /\ Live(r) /\ rows[r].table = route.table
                                  /\ Begin(p, u, route, None, r, refers)
    BY <1>2 DEF RequestOnRow
  <2>2. route.by = "row"
    BY <1>2 DEF RequestOnRow
  <2>3. CASE route.table = "projects"
    <3>1. PICK q \in Projects : Begin(p, u, route, q, None, refers)
      BY <2>1, <2>3
    <3> QED BY <2>3, <3>1, BeginStep DEF OnRow, InsertsInto, OnMember, RowTables
  <2>4. CASE route.table = "project_members"
    <3>1. PICK q \in Projects, v \in Users : Begin(p, u, route, q, v, refers)
      BY <2>1, <2>4
    <3> QED BY <2>2, <2>4, <3>1, BeginStep DEF OnRow, InsertsInto, OnMember, RowTables
  <2>5. CASE route.table \notin {"projects", "project_members"}
    <3>1. PICK r \in Rows : /\ Live(r) /\ rows[r].table = route.table
                            /\ Begin(p, u, route, None, r, refers)
      BY <2>1, <2>5
    <3>2. route.table \in RowTables
      BY <3>1 DEF IInv, RowsOK, RowOK
    <3>3. OnRow(route) /\ ~InsertsInto(route) /\ ~OnMember(route)
      BY <2>2, <2>5, <3>2, RouteTyped DEF OnRow, InsertsInto, OnMember
    <3> QED BY <3>1, <3>3, BeginStep
  <2> QED BY <2>3, <2>4, <2>5
<1>3. CASE RequestInProject(p, u, route)
  <2>1. PICK q \in Projects, refers \in Choices(route) :
           CASE route.op = "insert" /\ route.table = "project_members" ->
                  \E v \in Users : Begin(p, u, route, q, v, refers)
             [] route.op = "insert" /\ route.table # "project_members" ->
                  \E r \in FreshRows : Begin(p, u, route, q, r, refers)
             [] OTHER -> Begin(p, u, route, q, None, refers)
    BY <1>3 DEF RequestInProject
  <2>2. route.by # "row"
    BY <1>3 DEF RequestInProject
  <2>3. CASE route.op = "insert" /\ route.table = "project_members"
    <3>1. PICK v \in Users : Begin(p, u, route, q, v, refers)
      BY <2>1, <2>3
    <3> QED BY <2>2, <2>3, <3>1, BeginStep DEF OnRow, InsertsInto, OnMember, RowTables
  <2>4. CASE route.op = "insert" /\ route.table # "project_members"
    <3>1. PICK r \in FreshRows : Begin(p, u, route, q, r, refers)
      BY <2>1, <2>4
    <3>2. route.table \in RowTables
      BY <2>4, RoutePermissions, RouteTyped DEF RowTables
    <3>3. r \in Rows
      BY FreshRow
    <3>4. InsertsInto(route) /\ ~OnRow(route) /\ ~OnMember(route)
      BY <2>2, <2>4, <3>2 DEF OnRow, InsertsInto, OnMember
    <3> QED BY <3>1, <3>3, <3>4, BeginStep
  <2>5. CASE route.op # "insert"
    <3>1. Begin(p, u, route, q, None, refers)
      BY <2>1, <2>5
    <3> QED BY <2>2, <2>5, <3>1, BeginStep DEF OnRow, InsertsInto, OnMember
  <2> QED BY <2>3, <2>4, <2>5
<1> QED BY <1>1, <1>2, <1>3

\* The lookup of the project: the row's own, if it is there still.
LEMMA ResolveStep ==
    ASSUME IInv, NEW p \in Handlers, Resolve(p)
    PROVE  IInv'
<1> DEFINE q == ProjectOf(task[p])
<1>0. task[p] \in Task /\ TaskOK(task[p]) /\ task[p].pc = "resolve"
  BY TaskTyped DEF Resolve, At
<1>1. UNCHANGED <<projects, role, rows, restricted>>
  BY DEF Resolve
<1>2. CASE q = None
  BY <1>1, <1>2, EndStep DEF Resolve
<1>3. CASE q # None
  <2> DEFINE may == Permits(role[q][task[p].user], task[p])
             t == [task[p] EXCEPT !.pc = "authorize", !.project = q, !.permitted = may]
  <2>1. task' = [task EXCEPT ![p] = t]
    <3>1. task' = [task EXCEPT ![p].pc = "authorize", ![p].project = q, ![p].permitted = may]
      BY <1>3 DEF Resolve
    <3>2. task \in [Handlers -> Task]
      BY DEF IInv, TypeOK
    <3> QED BY <3>1, <3>2
  <2>2. may \in BOOLEAN
    BY DEF Permits, RoleHasPermission
  <2>3. /\ q \in Projects
        /\ task[p].route.table \in RowTables => q = rows[task[p].target].project
    <3>1. /\ task[p].route.by = "row" /\ task[p].route \in Routes
          /\ task[p].project \in Projects \/ task[p].route.table \in RowTables
          /\ TargetOK(task[p])
      BY <1>0 DEF TaskOK
    <3>2. CASE task[p].route.table \in RowTables
      <4>0. task[p].route.table # "projects" /\ task[p].route.table # "project_members"
        BY <3>2 DEF RowTables
      <4>1. q = IF Live(task[p].target) THEN rows[task[p].target].project ELSE None
        BY <4>0 DEF ProjectOf
      <4>2. task[p].target \in Rows
        BY <3>1, <3>2 DEF TargetOK, OnRow
      <4> QED BY <1>3, <4>1, <4>2 DEF IInv, RowsOK, RowOK
    <3>3. CASE task[p].route.table \in {"projects", "project_members"}
      BY <1>3, <3>1, <3>3 DEF ProjectOf, RowTables
    <3>4. task[p].route.table \in RowTables \cup {"projects", "project_members"}
      BY <3>1 DEF Routes, ProjectRoutes, MemberRoutes, InvitationRoutes, NodeRoutes,
                  ServiceRoutes, AlertRoutes, RecipientRoutes, ListRoutes, Route, RowTables
    <3> QED BY <3>2, <3>3, <3>4 DEF RowTables
  <2>4. t \in Task /\ t.pc = "authorize" /\ t.user = task[p].user /\ t.route = task[p].route
        /\ t.project = q /\ t.target = task[p].target /\ t.refers = task[p].refers
        /\ t.permitted = may
    BY <1>0, <2>2, <2>3 DEF Task
  <2>5. PermittedOK(t)
    BY <2>4 DEF PermittedOK, Permits
  <2> HIDE DEF t, may
  <2>6. TargetOK(t)
    <3>1. TargetOK(task[p]) /\ task[p].route.by = "row"
      BY <1>0 DEF TaskOK
    <3> QED BY <2>3, <2>4, <3>1 DEF TargetOK, OnRow
  <2>7. TaskOK(t)
    BY <1>0, <2>3, <2>4, <2>5, <2>6 DEF TaskOK, RefersOK
  <2> HIDE DEF q
  <2> QED BY <1>0, <1>1, <2>1, <2>4, <2>7, GoOnStep DEF At
<1> QED BY <1>2, <1>3
\* The middleware's check, and the look at what a body names.
LEMMA AuthorizeStep ==
    ASSUME IInv, NEW p \in Handlers, Authorize(p) \/ Load(p)
    PROVE  IInv'
<1>0. /\ task[p] \in Task /\ TaskOK(task[p]) /\ task[p].pc \in {"authorize", "load"}
      /\ task \in [Handlers -> Task]
  BY TaskTyped DEF Authorize, Load, At, IInv, TypeOK
<1>1. UNCHANGED <<projects, role, rows, restricted>>
  BY DEF Authorize, Load
<1>2. CASE End(p)
  BY <1>1, <1>2, EndStep
<1>3. CASE ~End(p)
  <2>1. PICK pc \in {"load", "execute"} : Goto(p, pc)
    BY <1>3 DEF Authorize, Load
  <2> DEFINE t == [task[p] EXCEPT !.pc = pc]
  <2>2. task' = [task EXCEPT ![p] = t]
    BY <1>0, <2>1 DEF Goto
  <2>3. /\ t \in Task /\ t.pc = pc /\ t.user = task[p].user /\ t.route = task[p].route
        /\ t.project = task[p].project /\ t.target = task[p].target
        /\ t.refers = task[p].refers /\ t.permitted = task[p].permitted
        /\ t.changed = task[p].changed
    BY <1>0, <2>1 DEF Task
  <2> HIDE DEF t
  <2>4. PermittedOK(t)
    <3>1. CASE Authorize(p)
      <4>1. Permits(role[task[p].project][task[p].user], task[p]) /\ task[p].pc = "authorize"
        BY <1>3, <3>1 DEF Authorize, At, Permits
      <4> QED BY <1>0, <2>3, <4>1 DEF TaskOK, PermittedOK, Permits
    <3>2. CASE Load(p)
      <4>1. task[p].pc = "load"
        BY <3>2 DEF Load, At
      <4> QED BY <1>0, <2>3, <4>1 DEF TaskOK, PermittedOK, Permits
    <3> QED BY <3>1, <3>2
  <2>5. TargetOK(t)
    BY <1>0, <2>3 DEF TaskOK, TargetOK
  <2>6. RefersOK(t)
    <3>1. CASE Authorize(p)
      <4>1. pc = IF task[p].refers # None THEN "load" ELSE "execute"
        <5>1. Goto(p, IF task[p].refers # None THEN "load" ELSE "execute")
          BY <1>3, <3>1 DEF Authorize
        <5>2. \A a : Goto(p, a) => task'[p].pc = a
          BY <1>0 DEF Goto, Task
        <5> QED BY <2>1, <5>1, <5>2
      <4> QED BY <1>0, <2>3, <4>1 DEF TaskOK, RefersOK
    <3>2. CASE Load(p)
      <4>1. rows[task[p].refers].project = task[p].project
        BY <1>3, <3>2 DEF Load
      <4> QED BY <1>0, <2>3, <4>1 DEF TaskOK, RefersOK
    <3> QED BY <3>1, <3>2
  <2>7. TaskOK(t)
    BY <1>0, <2>3, <2>4, <2>5, <2>6 DEF TaskOK
  <2> QED BY <1>0, <1>1, <2>2, <2>3, <2>7, GoOnStep DEF At
<1> QED BY <1>2, <1>3

\* A policy refuses only whose role has changed since.
LEMMA RefuseStep ==
    ASSUME IInv, NEW p \in Handlers, Refuse(p)
    PROVE  IInv'
<1>0. /\ task[p] \in Task /\ TaskOK(task[p]) /\ task[p].pc = "execute"
      /\ task \in [Handlers -> Task]
  BY TaskTyped DEF Refuse, At, IInv, TypeOK
<1>1. UNCHANGED <<projects, role, rows, restricted>>
  BY DEF Refuse
<1> DEFINE t == [task[p] EXCEPT !.pc = "refused"]
<1>2. task' = [task EXCEPT ![p] = t]
  BY <1>0 DEF Refuse, Goto
<1>3. /\ t \in Task /\ t.pc = "refused" /\ t.user = task[p].user /\ t.route = task[p].route
      /\ t.project = task[p].project /\ t.target = task[p].target
      /\ t.refers = task[p].refers /\ t.changed = task[p].changed
  BY <1>0 DEF Task
<1> HIDE DEF t
<1>4. task[p].changed
  <2>1. ~Permits(role[task[p].project][task[p].user], task[p])
    <3>1. task[p].route \in Routes
      BY <1>0 DEF TaskOK
    <3>2. ~Allowed(task[p].route.table, task[p].route.op, task[p].user, task[p].project)
      BY DEF Refuse, Refused
    <3>3. PICK route, u, q :
             route \in Routes /\ route = task[p].route /\ u = task[p].user /\ q = task[p].project
      BY <3>1
    <3>4. ~RoleHasPermission(role[q][u], route.permission)
      BY <3>2, <3>3, PermittedIsAllowed
    <3> QED BY <3>3, <3>4 DEF Permits
  <2> QED BY <1>0, <2>1 DEF TaskOK, PermittedOK
<1>5. TaskOK(t)
  BY <1>0, <1>3, <1>4 DEF TaskOK, TargetOK, RefersOK, PermittedOK
<1> QED BY <1>0, <1>1, <1>2, <1>3, <1>5, GoOnStep DEF At

\* The statements that read, and what ends a request.
LEMMA ReadStep ==
    ASSUME IInv, NEW p \in Handlers,
           \/ Get(p) \/ List(p) \/ UpdateRow(p) \/ UpdateProject(p) \/ OpenStream(p)
           \/ CloseStream(p) \/ Answer(p) \/ Fail(p)
    PROVE  IInv'
<1>1. UNCHANGED <<projects, role, rows, restricted>>
  BY DEF Get, List, UpdateRow, UpdateProject, OpenStream, CloseStream, Answer, Fail
<1>2. CASE End(p)
  BY <1>1, <1>2, EndStep
<1>3. CASE ~End(p)
  <2>0. /\ task[p] \in Task /\ TaskOK(task[p]) /\ task \in [Handlers -> Task]
    BY TaskTyped DEF IInv, TypeOK
  <2> DEFINE t == [task[p] EXCEPT !.pc = "stream", !.permitted = FALSE, !.changed = FALSE]
  <2>1. task[p].pc = "execute" /\ task' = [task EXCEPT ![p] = t]
    <3>1. /\ task[p].pc = "execute"
          /\ task' = [task EXCEPT ![p].pc = "stream", ![p].permitted = FALSE,
                                  ![p].changed = FALSE]
      BY <1>3 DEF Get, List, UpdateRow, UpdateProject, OpenStream, CloseStream, Answer, Fail,
                  Executes, At
    <3> QED BY <2>0, <3>1
  <2>2. /\ t \in Task /\ t.pc = "stream" /\ t.user = task[p].user /\ t.route = task[p].route
        /\ t.project = task[p].project /\ t.target = task[p].target
        /\ t.refers = task[p].refers
    BY <2>0 DEF Task
  <2> HIDE DEF t
  <2>3. TaskOK(t)
    BY <2>0, <2>1, <2>2 DEF TaskOK, TargetOK, RefersOK, PermittedOK
  <2> QED BY <1>1, <2>1, <2>2, <2>3, GoOnStep DEF At
<1> QED BY <1>2, <1>3

\* The end of a request that wrote rows.
LEMMA EndOf ==
    ASSUME IInv, NEW p \in Handlers, End(p), UNCHANGED role
    PROVE  /\ task' = [h \in Handlers |-> task'[h]]
           /\ \A h \in Handlers : task'[h] = NoTask \/ task'[h] = Noting(task[h], role')
           /\ \A h \in Handlers \ {p} : task'[h] = task[h]
           /\ task'[p] = NoTask
<1>1. task \in [Handlers -> Task]
  BY DEF IInv, TypeOK
<1>2. \A h \in Handlers : Noting(task[h], role') = task[h]
  BY DEF Noting
<1> QED BY <1>1, <1>2 DEF End

\* The row is inserted that the handler drew an id for.
LEMMA InsertRowStep ==
    ASSUME IInv, NEW p \in Handlers, InsertRow(p)
    PROVE  IInv'
<1> DEFINE t == task[p]
           new == [live |-> TRUE, table |-> t.route.table, project |-> t.project,
                   refers |-> t.refers]
<1>0. /\ t \in Task /\ TaskOK(t) /\ t.pc = "execute" /\ Inserts(t)
      /\ rows \in [Rows -> Row]
  BY TaskTyped DEF InsertRow, Executes, At, Inserts, InsertsInto, IInv, TypeOK
<1>1. End(p) /\ UNCHANGED <<projects, role, restricted>>
  BY DEF InsertRow
<1>2. CASE rows' = rows
  BY <1>1, <1>2, EndStep
<1>3. CASE rows' # rows
  <2>1. /\ rows' = [rows EXCEPT ![t.target] = new]
        /\ t.refers # None => Live(t.refers)
    BY <1>3 DEF InsertRow
  <2>2. t.target \in Rows /\ ~Live(t.target)
    BY <1>0, InsertsRow
  <2>3. /\ t.project \in Projects /\ t.route.table \in RowTables
        /\ t.refers # None => /\ t.refers \in Rows /\ t.refers # t.target
                              /\ rows[t.refers].table \in ReferredBy(t.route.table)
                              /\ rows[t.refers].project = t.project
    BY <1>0, <2>1, <2>2 DEF TaskOK, RefersOK, Inserts, InsertsInto
  <2>4. new \in Row
    BY <1>0, <2>3 DEF Row, Task
  <2>5. /\ rows'[t.target] = new
        /\ \A x \in Rows \ {t.target} : rows'[x] = rows[x]
    BY <1>0, <2>1, <2>2
  <2>6. rows' \in [Rows -> Row]
    BY <1>0, <2>1, <2>4
  <2>7. RowsOK'
    <3> SUFFICES ASSUME NEW x \in Rows PROVE RowOK(x)'
      BY DEF RowsOK
    <3>1. CASE x = t.target
      BY <2>1, <2>3, <2>5, <3>1 DEF RowOK, Live
    <3>2. CASE x # t.target
      <4>1. RowOK(x) /\ (Live(x) /\ rows[x].refers # None => rows[x].refers # t.target)
        BY <2>2 DEF IInv, RowsOK, RowOK
      <4>2. rows[x].refers \in Rows \cup {None}
        BY <1>0 DEF Row
      <4> QED BY <2>5, <3>2, <4>1, <4>2 DEF RowOK, Live
    <3> QED BY <3>1, <3>2
  <2>8. \A h \in Handlers : task'[h] # NoTask =>
           t.target # task[h].target /\ t.target # task[h].refers
    BY <1>0, <1>1, EndOf DEF IInv, NamesOK
  <2>9. /\ projects' \in [Projects -> BOOLEAN] /\ UNCHANGED restricted
        /\ role' \in [Projects -> [Users -> Roles \cup {None}]]
    BY <1>1 DEF IInv, TypeOK
  <2> HIDE DEF t, new
  <2> QED BY <1>1, <2>5, <2>6, <2>7, <2>8, <2>9, EndOf, StateStep
<1> QED BY <1>2, <1>3

\* A rule's new target is of the rule's project.
LEMMA UpdateRuleStep ==
    ASSUME IInv, NEW p \in Handlers, UpdateRule(p)
    PROVE  IInv'
<1> DEFINE t == task[p]
<1>0. /\ t \in Task /\ TaskOK(t) /\ t.pc = "execute" /\ rows \in [Rows -> Row]
      /\ t.route.table = "alert_rules" /\ t.route.op = "update"
  BY TaskTyped DEF UpdateRule, Executes, At, IInv, TypeOK
<1>1. End(p) /\ UNCHANGED <<projects, role, restricted>>
  BY DEF UpdateRule
<1>2. CASE rows' = rows
  BY <1>1, <1>2, EndStep
<1>3. CASE rows' # rows
  <2>1. /\ rows' = [rows EXCEPT ![t.target].refers = t.refers]
        /\ Live(t.target) /\ t.refers # None /\ Live(t.refers)
    BY <1>3 DEF UpdateRule
  <2>2. /\ t.target \in Rows /\ rows[t.target].table = "alert_rules"
        /\ rows[t.target].project = t.project
    <3>1. OnRow(t.route)
      BY <1>0, RouteTyped DEF TaskOK, OnRow, RowTables
    <3> QED BY <1>0, <2>1, <3>1 DEF TaskOK, TargetOK
  <2>3. /\ t.refers \in Rows /\ rows[t.refers].table \in {"nodes", "services"}
        /\ rows[t.refers].project = t.project
    BY <1>0, <2>1 DEF TaskOK, RefersOK, ReferredBy
  <2>4. \A x \in Rows :
           /\ rows'[x] \in Row /\ rows'[x].live = rows[x].live
           /\ rows'[x].table = rows[x].table /\ rows'[x].project = rows[x].project
           /\ rows'[x].refers = IF x = t.target THEN t.refers ELSE rows[x].refers
           /\ x # t.target => rows'[x] = rows[x]
    BY <1>0, <2>1, <2>2, <2>3 DEF Row
  <2>5. rows' \in [Rows -> Row]
    BY <1>0, <2>1, <2>4
  <2>6. RowsOK'
    <3> SUFFICES ASSUME NEW x \in Rows PROVE RowOK(x)'
      BY DEF RowsOK
    <3>1. CASE x = t.target
      BY <2>1, <2>2, <2>3, <2>4, <3>1 DEF IInv, RowsOK, RowOK, Live, ReferredBy
    <3>2. CASE x # t.target
      <4>1. RowOK(x) /\ rows[x].refers \in Rows \cup {None}
        BY <1>0 DEF IInv, RowsOK, Row
      <4> QED BY <2>4, <3>2, <4>1 DEF RowOK, Live
    <3> QED BY <3>1, <3>2
  <2>7. /\ projects' \in [Projects -> BOOLEAN] /\ UNCHANGED restricted
        /\ role' \in [Projects -> [Users -> Roles \cup {None}]]
    BY <1>1 DEF IInv, TypeOK
  <2> HIDE DEF t
  <2> QED BY <1>1, <2>4, <2>5, <2>6, <2>7, EndOf, StateStep
<1> QED BY <1>2, <1>3
\* Rows that go with all that refers to them leave the others whole.
LEMMA RowsGone ==
    ASSUME IInv, NEW gone \in SUBSET Rows,
           rows' = [r \in Rows |-> IF r \in gone THEN NoRow ELSE rows[r]],
           \A r \in Rows \ gone : Live(r) => rows[r].refers \notin gone
    PROVE  /\ rows' \in [Rows -> Row] /\ RowsOK'
           /\ \A r \in Rows : rows'[r] = rows[r] \/ ~rows'[r].live
<1>0. rows \in [Rows -> Row] /\ NoRow \in Row /\ ~NoRow.live
  BY DEF IInv, TypeOK, Row, NoRow
<1>1. rows' \in [Rows -> Row]
  BY <1>0
<1>2. RowsOK'
  <2> SUFFICES ASSUME NEW r \in Rows PROVE RowOK(r)'
    BY DEF RowsOK
  <2>1. CASE r \in gone
    BY <1>0, <2>1 DEF RowOK, Live
  <2>2. CASE r \notin gone
    <3>1. RowOK(r) /\ rows[r].refers \in Rows \cup {None}
      BY <1>0 DEF IInv, RowsOK, Row
    <3>2. rows'[r] = rows[r]
      BY <2>2
    <3>3. Live(r) /\ rows[r].refers # None => rows'[rows[r].refers] = rows[rows[r].refers]
      BY <2>2, <3>1
    <3> QED BY <3>1, <3>2, <3>3 DEF RowOK, Live
  <2> QED BY <2>1, <2>2
<1>3. \A r \in Rows : rows'[r] = rows[r] \/ ~rows'[r].live
  BY <1>0
<1> QED BY <1>1, <1>2, <1>3

\* The cascade reaches all that refers to a row.
LEMMA CascadeCloses ==
    ASSUME IInv, NEW r \in Rows, NEW x \in Rows, Live(x),
           rows[x].refers \in WithReferrers(r)
    PROVE  x \in WithReferrers(r)
<1> DEFINE direct == {y \in Rows : Live(y) /\ rows[y].refers = r}
<1>1. WithReferrers(r) = {r} \cup direct \cup {y \in Rows : Live(y) /\ rows[y].refers \in direct}
  BY DEF WithReferrers
<1>2. CASE rows[x].refers \in {r} \cup direct
  BY <1>1, <1>2
<1>3. CASE rows[x].refers \notin {r} \cup direct
  <2>1. PICK y \in Rows : y = rows[x].refers /\ Live(y) /\ rows[y].refers \in direct
    BY <1>1, <1>3
  <2>2. PICK z \in Rows : z = rows[y].refers /\ Live(z) /\ rows[z].refers = r
    BY <2>1
  <2>3. RowOK(x) /\ RowOK(y) /\ RowOK(z)
    BY DEF IInv, RowsOK
  <2>4. rows[z].table \in ReferredBy(rows[y].table) /\ rows[y].table \in ReferredBy(rows[x].table)
    BY <2>1, <2>2, <2>3 DEF RowOK
  <2>5. rows[z].table = "nodes"
    BY <2>4 DEF ReferredBy
  <2>6. rows[r].table \in ReferredBy(rows[z].table)
    BY <2>2, <2>3 DEF RowOK
  <2> QED BY <2>5, <2>6 DEF ReferredBy
<1> QED BY <1>2, <1>3

\* The cascade stays in the row's project.
LEMMA CascadeStays ==
    ASSUME IInv, NEW r \in Rows, Live(r), NEW x \in WithReferrers(r)
    PROVE  x \in Rows /\ rows[x].project = rows[r].project
<1>1. \A y \in Rows : RowOK(y)
  BY DEF IInv, RowsOK
<1> DEFINE direct == {y \in Rows : Live(y) /\ rows[y].refers = r}
<1>2. \A y \in direct : y \in Rows /\ rows[y].project = rows[r].project
  BY <1>1 DEF RowOK
<1>3. \A y \in Rows : Live(y) /\ rows[y].refers \in direct => rows[y].project = rows[r].project
  BY <1>1, <1>2 DEF RowOK
<1> QED BY <1>2, <1>3 DEF WithReferrers

\* A row is deleted with those that refer to it.
LEMMA DeleteRowStep ==
    ASSUME IInv, NEW p \in Handlers, DeleteRow(p)
    PROVE  IInv'
<1> DEFINE gone == IF Live(task[p].target) THEN WithReferrers(task[p].target) ELSE {}
<1>0. TaskOK(task[p]) /\ task[p].pc = "execute" /\ task[p].route.table \in RowTables
      /\ task[p].route.op = "delete"
  BY TaskTyped DEF DeleteRow, Executes, At
<1>1. task[p].target \in Rows
  BY <1>0, RouteTyped DEF TaskOK, TargetOK, OnRow
<1>2. gone \in SUBSET Rows
  BY <1>1 DEF WithReferrers
<1>3. rows' = [r \in Rows |-> IF r \in gone THEN NoRow ELSE rows[r]]
  BY DEF DeleteRow
<1>4. \A r \in Rows \ gone : Live(r) => rows[r].refers \notin gone
  BY <1>1, CascadeCloses
<1>5. End(p) /\ UNCHANGED <<projects, role, restricted>>
  BY DEF DeleteRow
<1>6. projects' \in [Projects -> BOOLEAN] /\ role' \in [Projects -> [Users -> Roles \cup {None}]]
  BY <1>5 DEF IInv, TypeOK
<1> HIDE DEF gone
<1>7. /\ rows' \in [Rows -> Row] /\ RowsOK'
      /\ \A r \in Rows : rows'[r] = rows[r] \/ ~rows'[r].live
  BY <1>2, <1>3, <1>4, RowsGone
<1> QED BY <1>5, <1>6, <1>7, EndOf, StateStep

\* Roles change, and requests take note.
LEMMA NotedStep ==
    ASSUME IInv, NEW after \in [Projects -> [Users -> Roles \cup {None}]], role' = after,
           \/ \E p \in Handlers : EndNoting(p, after)
           \/ task' = [h \in Handlers |-> Noting(task[h], after)],
           projects' \in [Projects -> BOOLEAN], UNCHANGED <<rows, restricted>>
    PROVE  IInv'
<1>1. /\ task' = [h \in Handlers |-> task'[h]]
      /\ \A h \in Handlers : task'[h] = NoTask \/ task'[h] = Noting(task[h], role')
  BY DEF EndNoting
<1>2. rows' \in [Rows -> Row] /\ RowsOK'
  BY DEF IInv, TypeOK, RowsOK, RowOK, Live
<1> QED BY <1>1, <1>2, StateStep

\* A role that is changed leaves the roles of all others typed.
LEMMA RoleTyped ==
    ASSUME IInv, NEW q, NEW u, NEW r \in Roles \cup {None}
    PROVE  [role EXCEPT ![q][u] = r] \in [Projects -> [Users -> Roles \cup {None}]]
<1>1. role \in [Projects -> [Users -> Roles \cup {None}]]
  BY DEF IInv, TypeOK
<1>2. [role[q] EXCEPT ![u] = r] \in [Users -> Roles \cup {None}] \/ q \notin Projects
  BY <1>1
<1> QED BY <1>1, <1>2

\* A membership is created, changed or removed; requests under way take note.
LEMMA WriteMemberStep ==
    ASSUME IInv, NEW p \in Handlers, WriteMember(p)
    PROVE  IInv'
<1>0. /\ role \in [Projects -> [Users -> Roles \cup {None}]]
      /\ projects \in [Projects -> BOOLEAN]
  BY DEF IInv, TypeOK
<1>1. PICK r \in Roles \cup {None} :
         LET t == task[p] IN
         \/ role' = [role EXCEPT ![t.project][t.target] = r]
            /\ EndNoting(p, [role EXCEPT ![t.project][t.target] = r])
         \/ role' = role /\ EndNoting(p, role)
  BY DEF WriteMember
<1>2. PICK after \in [Projects -> [Users -> Roles \cup {None}]] :
         role' = after /\ EndNoting(p, after)
  BY <1>0, <1>1, RoleTyped
<1> QED BY <1>0, <1>2, NotedStep DEF WriteMember

\* A project goes with its members and rows.
LEMMA DeleteProjectStep ==
    ASSUME IInv, NEW p \in Handlers, DeleteProject(p)
    PROVE  IInv'
<1> DEFINE q == task[p].project
           after == [role EXCEPT ![q] = [u \in Users |-> None]]
           gone == {r \in Rows : rows[r].project = q}
<1>0. /\ role \in [Projects -> [Users -> Roles \cup {None}]]
      /\ projects \in [Projects -> BOOLEAN]
  BY DEF IInv, TypeOK
<1>1. /\ projects' = [projects EXCEPT ![q] = FALSE] /\ role' = after
      /\ rows' = [r \in Rows |-> IF rows[r].project = q THEN NoRow ELSE rows[r]]
      /\ EndNoting(p, role') /\ UNCHANGED restricted
  BY DEF DeleteProject
<1>2. /\ projects' \in [Projects -> BOOLEAN]
      /\ role' \in [Projects -> [Users -> Roles \cup {None}]]
  BY <1>0, <1>1
<1>3. rows' = [r \in Rows |-> IF r \in gone THEN NoRow ELSE rows[r]]
  BY <1>1
<1>4. \A r \in Rows \ gone : Live(r) => rows[r].refers \notin gone
  BY DEF IInv, RowsOK, RowOK
<1>5. gone \in SUBSET Rows
  OBVIOUS
<1> HIDE DEF q, after, gone
<1>6. /\ rows' \in [Rows -> Row] /\ RowsOK'
      /\ \A r \in Rows : rows'[r] = rows[r] \/ ~rows'[r].live
  BY <1>3, <1>4, <1>5, RowsGone
<1>7. /\ task' = [h \in Handlers |-> task'[h]]
      /\ \A h \in Handlers : task'[h] = NoTask \/ task'[h] = Noting(task[h], role')
  BY <1>1 DEF EndNoting
<1> QED BY <1>1, <1>2, <1>6, <1>7, StateStep

\* Projects and roles change in requests of no concern here.
LEMMA OutsideStep ==
    ASSUME IInv, NEW u \in Users, NEW q \in Projects,
           CreateProject(u, q) \/ \E r \in Roles \cup {None} : ChangeRole(u, q, r)
    PROVE  IInv'
<1>0. projects \in [Projects -> BOOLEAN]
  BY DEF IInv, TypeOK
<1>1. PICK r \in Roles \cup {None} :
         /\ role' = [role EXCEPT ![q][u] = r]
         /\ task' = [h \in Handlers |-> Noting(task[h], [role EXCEPT ![q][u] = r])]
  BY DEF CreateProject, ChangeRole, Roles
<1>2. PICK after \in [Projects -> [Users -> Roles \cup {None}]] :
         role' = after /\ task' = [h \in Handlers |-> Noting(task[h], after)]
  BY <1>1, RoleTyped
<1>3. projects' \in [Projects -> BOOLEAN] /\ UNCHANGED <<rows, restricted>>
  BY <1>0 DEF CreateProject, ChangeRole
<1> QED BY <1>2, <1>3, NotedStep

\* Every step preserves the invariant.
LEMMA NextIInv == IInv /\ [Next]_vars => IInv'
<1> SUFFICES ASSUME IInv, [Next]_vars PROVE IInv'
  OBVIOUS
<1>1. CASE UNCHANGED vars
  BY <1>1 DEF vars, IInv, TypeOK, RowsOK, RowOK, Live, TasksOK, TaskOK, TargetOK, RefersOK,
              PermittedOK, NamesOK
<1>2. CASE Next
  BY <1>2, RequestStep, ResolveStep, AuthorizeStep, RefuseStep, ReadStep, InsertRowStep,
     UpdateRuleStep, DeleteRowStep, WriteMemberStep, DeleteProjectStep, OutsideStep
     DEF Next, Serve, Execute
<1> QED BY <1>1, <1>2

-----------------------------------------------------------------------------
(* What the steps of any reachable state may touch. *)

Authorized(p) ==
    LET t == task[p]
        of == {rows[r].project : r \in Touched(p)} \cup {rows'[r].project : r \in Touched(p)}
              \cup {q \in Projects : role[q] # role'[q] \/ projects[q] # projects'[q]}
    IN  t.pc = "execute" /\ task'[p].pc \in {"idle", "stream"} /\ of # {} =>
           t.permitted /\ of \subseteq {t.project, None}

\* It is enough that every row touched is of the project, or of none.
LEMMA AuthorizedIf ==
    ASSUME IInv, NEW p \in Handlers,
           task[p].pc = "execute" =>
              /\ \A r \in Rows : rows[r] # rows'[r] =>
                    rows[r].project \in {task[p].project, None} /\
                    rows'[r].project \in {task[p].project, None}
              /\ \A q \in Projects : role[q] # role'[q] \/ projects[q] # projects'[q] =>
                    q = task[p].project
    PROVE  Authorized(p)
<1> SUFFICES ASSUME task[p].pc = "execute"
             PROVE  /\ task[p].permitted
                    /\ \A r \in Touched(p) : rows[r].project \in {task[p].project, None} /\
                                             rows'[r].project \in {task[p].project, None}
                    /\ \A q \in Projects : role[q] # role'[q] \/ projects[q] # projects'[q] =>
                          q = task[p].project
  BY DEF Authorized
<1>0. TaskOK(task[p])
  BY TaskTyped
<1>1. task[p].permitted
  BY <1>0 DEF TaskOK, PermittedOK
<1>2. ASSUME NEW r \in Rows, task[p].target = r, Live(r)
      PROVE  rows[r].project = task[p].project
  <2>1. r # None /\ r \notin Users
    OBVIOUS
  <2> QED BY <1>0, <1>2, <2>1 DEF TaskOK, TargetOK
<1> QED BY <1>1, <1>2 DEF Touched
\* A request's step leaves every other one where it is.
LEMMA OthersWait ==
    ASSUME IInv, NEW h \in Handlers, Request(h) \/ Serve(h) \/ CloseStream(h) \/ Fail(h),
           NEW p \in Handlers \ {h}
    PROVE  task'[p].pc = task[p].pc
<1>0. task \in [Handlers -> Task]
  BY DEF IInv, TypeOK
<1>1. ASSUME NEW after, EndNoting(h, after) PROVE task'[p].pc = task[p].pc
  <2>1. task'[p] = Noting(task[p], after)
    BY <1>1 DEF EndNoting
  <2> QED BY <1>0, <2>1, NotingKeeps
<1>2. CASE Request(h)
  <2>1. ASSUME NEW u, NEW route, NEW q, NEW target, NEW refers,
               Begin(h, u, route, q, target, refers)
        PROVE  task'[p].pc = task[p].pc
    BY <1>0, <2>1 DEF Begin
  <2>2. PICK u \in Users, route \in Routes :
           RequestOnRow(h, u, route) \/ RequestInProject(h, u, route)
    BY <1>2 DEF Request
  <2>3. \E q, target, refers : Begin(h, u, route, q, target, refers)
    <3>1. CASE RequestOnRow(h, u, route)
      BY <3>1 DEF RequestOnRow
    <3>2. CASE RequestInProject(h, u, route)
      <4>1. PICK q \in Projects, refers \in Choices(route) :
               CASE route.op = "insert" /\ route.table = "project_members" ->
                      \E v \in Users : Begin(h, u, route, q, v, refers)
                 [] route.op = "insert" /\ route.table # "project_members" ->
                      \E r \in FreshRows : Begin(h, u, route, q, r, refers)
                 [] OTHER -> Begin(h, u, route, q, None, refers)
        BY <3>2 DEF RequestInProject
      <4> QED BY <4>1
    <3> QED BY <2>2, <3>1, <3>2
  <2> QED BY <2>1, <2>3
<1>3. CASE Resolve(h)
  <2>1. CASE ProjectOf(task[h]) = None
    BY <1>0, <1>3, <2>1 DEF Resolve, End
  <2>2. CASE ProjectOf(task[h]) # None
    BY <1>0, <1>3, <2>2 DEF Resolve
  <2> QED BY <2>1, <2>2
<1>4. CASE \/ Authorize(h) \/ Load(h) \/ Refuse(h) \/ OpenStream(h) \/ Get(h) \/ List(h)
           \/ InsertRow(h) \/ UpdateRow(h) \/ UpdateRule(h) \/ DeleteRow(h)
           \/ UpdateProject(h) \/ Answer(h) \/ CloseStream(h) \/ Fail(h)
  BY <1>0, <1>4 DEF Authorize, Load, Refuse, OpenStream, Get, List, InsertRow, UpdateRow,
     UpdateRule, DeleteRow, UpdateProject, Answer, CloseStream, Fail, End, Goto
<1>5. CASE WriteMember(h) \/ DeleteProject(h)
  BY <1>1, <1>5 DEF WriteMember, DeleteProject
<1> QED BY <1>2, <1>3, <1>4, <1>5 DEF Serve, Execute

\* A step writes rows and roles of the project it was authorised in.
LEMMA WritesInProject ==
    ASSUME IInv, NEW p \in Handlers, Request(p) \/ Serve(p) \/ CloseStream(p) \/ Fail(p),
           task[p].pc = "execute"
    PROVE  /\ \A r \in Rows : rows[r] # rows'[r] =>
                 rows[r].project \in {task[p].project, None} /\
                 rows'[r].project \in {task[p].project, None}
           /\ \A q \in Projects : role[q] # role'[q] \/ projects[q] # projects'[q] =>
                 q = task[p].project
<1>0. /\ TaskOK(task[p]) /\ rows \in [Rows -> Row] /\ NoRow.project = None
      /\ role \in [Projects -> [Users -> Roles \cup {None}]]
      /\ projects \in [Projects -> BOOLEAN]
  BY TaskTyped DEF IInv, TypeOK, NoRow
<1>1. CASE ~(InsertRow(p) \/ UpdateRule(p) \/ DeleteRow(p) \/ WriteMember(p) \/ DeleteProject(p))
  <2>1. ~Request(p) /\ ~Resolve(p) /\ ~Authorize(p) /\ ~Load(p)
    <3>1. \A u, route, q, target, refers : ~Begin(p, u, route, q, target, refers)
      BY DEF Begin, At
    <3>2. ASSUME NEW u, NEW route, RequestInProject(p, u, route) PROVE FALSE
      <4>1. PICK q \in Projects, refers \in Choices(route) :
               CASE route.op = "insert" /\ route.table = "project_members" ->
                      \E v \in Users : Begin(p, u, route, q, v, refers)
                 [] route.op = "insert" /\ route.table # "project_members" ->
                      \E r \in FreshRows : Begin(p, u, route, q, r, refers)
                 [] OTHER -> Begin(p, u, route, q, None, refers)
        BY <3>2 DEF RequestInProject
      <4> QED BY <3>1, <4>1
    <3>3. ASSUME NEW u, NEW route, RequestOnRow(p, u, route) PROVE FALSE
      BY <3>1, <3>3 DEF RequestOnRow
    <3>4. ~Request(p)
      BY <3>2, <3>3 DEF Request
    <3> QED BY <3>4 DEF Resolve, Authorize, Load, At
  <2>2. UNCHANGED <<projects, role, rows>>
    BY <1>1, <2>1 DEF Serve, Execute, Refuse, OpenStream, Get, List, UpdateRow, UpdateProject,
       Answer, CloseStream, Fail
  <2> QED BY <2>2
<1>2. CASE InsertRow(p)
  <2>1. task[p].target \in Rows /\ ~Live(task[p].target)
    <3>1. Inserts(task[p])
      BY <1>2 DEF InsertRow, Executes, Inserts, InsertsInto
    <3> QED BY <1>0, <3>1, InsertsRow
  <2>2. rows[task[p].target].project = None
    BY <1>0, <2>1 DEF IInv, RowsOK, RowOK
  <2>3. /\ \A r \in Rows \ {task[p].target} : rows'[r] = rows[r]
        /\ \/ rows'[task[p].target] = rows[task[p].target]
           \/ rows'[task[p].target].project = task[p].project
    BY <1>0, <1>2, <2>1 DEF InsertRow
  <2> QED BY <1>2, <2>2, <2>3 DEF InsertRow
<1>3. CASE UpdateRule(p)
  <2>1. OnRow(task[p].route)
    BY <1>0, <1>3, RouteTyped DEF UpdateRule, Executes, TaskOK, OnRow, RowTables
  <2>2. /\ task[p].target \in Rows
        /\ Live(task[p].target) => rows[task[p].target].project = task[p].project
    BY <1>0, <2>1 DEF TaskOK, TargetOK
  <2>3. /\ \A r \in Rows \ {task[p].target} : rows'[r] = rows[r]
        /\ rows'[task[p].target].project = rows[task[p].target].project
        /\ ~Live(task[p].target) => rows' = rows
    BY <1>0, <1>3, <2>2 DEF UpdateRule, Row
  <2> QED BY <1>3, <2>2, <2>3 DEF UpdateRule
<1>4. CASE DeleteRow(p)
  <2>1. OnRow(task[p].route)
    BY <1>0, <1>4, RouteTyped DEF DeleteRow, Executes, TaskOK, OnRow
  <2>2. /\ task[p].target \in Rows
        /\ Live(task[p].target) => rows[task[p].target].project = task[p].project
    BY <1>0, <2>1 DEF TaskOK, TargetOK
  <2>3. \A r \in Rows : rows'[r] # rows[r] =>
           r \in WithReferrers(task[p].target) /\ Live(task[p].target) /\ rows'[r] = NoRow
    BY <1>4 DEF DeleteRow
  <2>4. \A r \in Rows : rows'[r] # rows[r] => rows[r].project = task[p].project
    BY <2>2, <2>3, CascadeStays
  <2> QED BY <1>0, <1>4, <2>3, <2>4 DEF DeleteRow
<1>5. CASE WriteMember(p)
  <2>1. PICK r : \/ role' = [role EXCEPT ![task[p].project][task[p].target] = r]
                 \/ role' = role
    BY <1>5 DEF WriteMember
  <2>2. \A q \in Projects : role[q] # role'[q] => q = task[p].project
    BY <1>0, <2>1
  <2> QED BY <1>5, <2>2 DEF WriteMember
<1>6. CASE DeleteProject(p)
  BY <1>0, <1>6 DEF DeleteProject
<1> QED BY <1>1, <1>2, <1>3, <1>4, <1>5, <1>6

\* Every step touches rows only as the role of its user permits.
LEMMA NextAuthorized == IInv /\ [Next]_vars => \A p \in Handlers : Authorized(p)
<1> SUFFICES ASSUME IInv, [Next]_vars, NEW p \in Handlers PROVE Authorized(p)
  OBVIOUS
<1>0. task \in [Handlers -> Task]
  BY DEF IInv, TypeOK
<1>1. CASE task'[p].pc = task[p].pc
  BY <1>1 DEF Authorized
<1>2. CASE UNCHANGED vars
  BY <1>1, <1>2 DEF vars
<1>3. ASSUME NEW h \in Handlers, Request(h) \/ Serve(h) \/ CloseStream(h) \/ Fail(h)
      PROVE  Authorized(p)
  <2>1. CASE h # p
    BY <1>1, <1>3, <2>1, OthersWait
  <2>2. CASE h = p
    BY <1>3, <2>2, WritesInProject, AuthorizedIf
  <2> QED BY <2>1, <2>2
<1>4. ASSUME NEW u \in Users, NEW q \in Projects,
             CreateProject(u, q) \/ \E r \in Roles \cup {None} : ChangeRole(u, q, r)
      PROVE  Authorized(p)
  <2>1. PICK after : task' = [h \in Handlers |-> Noting(task[h], after)]
    BY <1>4 DEF CreateProject, ChangeRole
  <2>2. task'[p].pc = task[p].pc
    BY <1>0, <2>1, NotingKeeps
  <2> QED BY <1>1, <2>2
<1> QED BY <1>2, <1>3, <1>4 DEF Next

-----------------------------------------------------------------------------

\* Every value has its type, whatever requests overlap.
THEOREM TypeCorrect == Spec => []TypeOK
<1>1. IInv => TypeOK
  BY DEF IInv
<1> QED BY <1>1, InitIInv, NextIInv, PTL DEF Spec

\* What is read or written of a project was permitted, in that project, at
\* some moment of the request.
THEOREM AccessAuthorized == Spec => AccessIsAuthorized
<1>1. IInv /\ [Next]_vars => [\A p \in Handlers : Authorized(p)]_vars
  BY NextAuthorized
<1>2. Spec => [][\A p \in Handlers : Authorized(p)]_vars
  BY <1>1, InitIInv, NextIInv, PTL DEF Spec
<1>3. [][\A p \in Handlers : Authorized(p)]_vars => AccessIsAuthorized
  BY DEF AccessIsAuthorized, Authorized
<1> QED BY <1>2, <1>3

\* No service or rule ever refers out of its project, or to what is gone.
THEOREM ReferencesStay == Spec => []RowsShareProject
<1>1. IInv => RowsShareProject
  BY DEF IInv, RowsOK, RowOK, RowsShareProject
<1> QED BY <1>1, InitIInv, NextIInv, PTL DEF Spec

\* A policy of the database refuses only a request whose user's role has
\* changed since the middleware let it pass.
THEOREM NoFalseRefusal == Spec => []LayersAgree
<1>1. IInv => LayersAgree
  BY DEF IInv, TasksOK, TaskOK, PermittedOK, LayersAgree, At
<1> QED BY <1>1, InitIInv, NextIInv, PTL DEF Spec
=============================================================================
