------------------------------- MODULE Access -------------------------------
(***************************************************************************)
(* Who may do what in a project.  A protected route names a permission and *)
(* says where its project comes from; the middleware looks the project up, *)
(* reads the user's role in it and goes on to a handler, whose statements  *)
(* are subject to the row policies of the database, which look at the role *)
(* once more.  Roles change between any two of these steps: why and how is *)
(* the subject of Membership.  A body is taken to name one project.        *)
(***************************************************************************)
CONSTANTS
    Users, Projects,
    Rows,     \* rows of the tables that belong to a project
    Handlers, \* goroutines that serve requests
    None

ASSUME AccessAssumption ==
    /\ None \notin Users \cup Projects \cup Rows
    /\ Projects \cap Rows = {} /\ Users \cap (Projects \cup Rows) = {}

VARIABLES
    projects,  \* [Projects -> BOOLEAN]: which are there
    role,      \* [Projects -> [Users -> Roles or None]]: app.project_members
    rows,      \* [Rows -> Row]
    task,      \* [Handlers -> Task]
    restricted \* BOOLEAN: the database role is subject to row policies

vars == <<projects, role, rows, task, restricted>>

-----------------------------------------------------------------------------
(* The permissions of the roles.                                           *)

ViewerPermissions ==
    {"project.read", "nodes.read", "services.read", "alerts.read",
     "notification_recipients.read", "events.read"}

\* With one of the owner's too many.
AdminPermissionsToo ==
    ViewerPermissions \cup
    {"project.update", "members.read", "members.manage", "nodes.write", "services.write",
     "alerts.write", "notification_recipients.write", "agent_tokens.write"}

AdminPermissions ==
    ViewerPermissions \cup
    {"project.update", "members.read", "nodes.write", "services.write",
     "alerts.write", "notification_recipients.write", "agent_tokens.write"}

OwnerPermissions == AdminPermissions \cup {"project.delete", "members.manage"}

Roles == {"owner", "admin", "viewer"}

ASSUME NoRoleAssumption == None \notin Roles

RolePermissions ==
    [owner |-> OwnerPermissions, admin |-> AdminPermissions, viewer |-> ViewerPermissions]

RoleHasPermission(r, permission) == r \in Roles /\ permission \in RolePermissions[r]

(* The routes, and what the handler behind one does in the end: select,    *)
(* stream, insert, update or delete.  by says what the project is of: the  *)
(* row in the path, or named in the "query" or "body".                     *)

Route(permission, table, op, by) ==
    [permission |-> permission, table |-> table, op |-> op, by |-> by]

ProjectRoutes ==
    {Route("project.read", "projects", "select", "row"),
     Route("project.update", "projects", "update", "row"),
     Route("project.delete", "projects", "delete", "row")}

MemberRoutes ==
    {Route("members.read", "project_members", "select", "query"),
     Route("members.read", "project_members", "select", "row"),
     Route("members.manage", "project_members", "insert", "body"),
     Route("members.manage", "project_members", "update", "row"),
     Route("members.manage", "project_members", "delete", "row")}

InvitationRoutes ==
    {Route("members.manage", "project_invitations", "insert", "body"),
     Route("members.read", "project_invitations", "select", "query"),
     Route("members.manage", "project_invitations", "delete", "row")}

NodeRoutes ==
    {Route("nodes.write", "nodes", "insert", "body"),
     Route("nodes.read", "nodes", "select", "row"),
     Route("nodes.read", "nodes", "stream", "row"),
     Route("nodes.write", "nodes", "update", "row"),
     Route("nodes.write", "nodes", "delete", "row"),
     Route("agent_tokens.write", "nodes", "update", "row")}

ServiceRoutes ==
    {Route("services.write", "services", "insert", "body"),
     Route("services.read", "services", "select", "row"),
     Route("services.read", "services", "stream", "row"),
     Route("services.write", "services", "update", "row"),
     Route("services.write", "services", "delete", "row")}

AlertRoutes ==
    {Route("alerts.read", "alert_rules", "select", "row"),
     Route("alerts.write", "alert_rules", "insert", "body"),
     Route("alerts.write", "alert_rules", "update", "row"),
     Route("alerts.write", "alert_rules", "delete", "row")}

\* With the test mail, which reads nothing but the project.
RecipientRoutes ==
    {Route("notification_recipients.write", "notification_recipients", "insert", "body"),
     Route("notification_recipients.write", "projects", "select", "body"),
     Route("notification_recipients.read", "notification_recipients", "select", "query"),
     Route("notification_recipients.read", "notification_recipients", "select", "row"),
     Route("notification_recipients.write", "notification_recipients", "update", "row"),
     Route("notification_recipients.write", "notification_recipients", "delete", "row")}

ListRoutes ==
    {Route("alerts.read", "notification_deliveries", "select", "query"),
     Route("nodes.read", "nodes", "select", "query"),
     Route("services.read", "services", "select", "query"),
     Route("alerts.read", "alert_rules", "select", "query"),
     Route("alerts.read", "alert_instances", "select", "query"),
     Route("events.read", "events", "select", "query"),
     Route("project.read", "projects", "select", "query")}

Routes == ProjectRoutes \cup MemberRoutes \cup InvitationRoutes \cup NodeRoutes
          \cup ServiceRoutes \cup AlertRoutes \cup RecipientRoutes \cup ListRoutes

RowTables == {"project_invitations", "nodes", "services", "alert_rules",
              "notification_recipients"}

-----------------------------------------------------------------------------

\* refers is the node of a service, or the node or service a rule is for.
Row == [live : BOOLEAN, table : RowTables \cup {None}, project : Projects \cup {None},
        refers : Rows \cup {None}]

NoRow == [live |-> FALSE, table |-> None, project |-> None, refers |-> None]

\* target is the row in the path or the one to insert: of project_members a
\* user, of projects none.  Of the user's role in the project since the
\* project was known, permitted says that it has been one that permits the
\* request, and changed that it has not been the same; no action reads them.
Task == [pc : {"idle", "resolve", "authorize", "load", "execute", "refused", "stream"},
         user : Users \cup {None}, route : Routes \cup {None},
         project : Projects \cup {None}, target : Rows \cup Users \cup {None},
         refers : Rows \cup {None}, permitted : BOOLEAN, changed : BOOLEAN]

NoTask == [pc |-> "idle", user |-> None, route |-> None, project |-> None,
           target |-> None, refers |-> None, permitted |-> FALSE, changed |-> FALSE]

TypeOK ==
    /\ projects \in [Projects -> BOOLEAN]
    /\ role \in [Projects -> [Users -> Roles \cup {None}]]
    /\ rows \in [Rows -> Row]
    /\ task \in [Handlers -> Task]
    /\ restricted \in BOOLEAN

Init ==
    /\ projects = [q \in Projects |-> FALSE]
    /\ role = [q \in Projects |-> [u \in Users |-> None]]
    /\ rows = [r \in Rows |-> NoRow]
    /\ task = [p \in Handlers |-> NoTask]
    /\ restricted \in BOOLEAN

At(p, pc) == task[p].pc = pc
Goto(p, pc) == task' = [task EXCEPT ![p].pc = pc]
End(p) == task' = [task EXCEPT ![p] = NoTask]

Permits(r, t) == RoleHasPermission(r, t.route.permission)

\* The requests under way, when the roles become those of after.
Noting(t, after) ==
    IF t.pc \in {"authorize", "load", "execute", "refused"} /\
       after[t.project][t.user] # role[t.project][t.user]
    THEN [t EXCEPT !.permitted = @ \/ Permits(after[t.project][t.user], t), !.changed = TRUE]
    ELSE t

EndNoting(p, after) ==
    task' = [h \in Handlers |-> IF h = p THEN NoTask ELSE Noting(task[h], after)]

\* What app.project_*_context_matches asks of the user.
Member(u, q) == role[q][u] # None
Writer(u, q) == role[q][u] \in {"owner", "admin"}
Owner(u, q) == role[q][u] = "owner"

\* The row policies; project_invitations, notification_deliveries and events
\* have none.
Allowed(table, op, u, q) ==
    \/ ~restricted
    \/ table \in {"project_invitations", "notification_deliveries", "events"}
    \/ op \in {"select", "stream"} /\ Member(u, q)
    \/ table = "project_members" /\ Owner(u, q)
    \/ table = "projects" /\ op = "update" /\ Writer(u, q)
    \/ table = "projects" /\ op = "delete" /\ Owner(u, q)
    \/ table \in RowTables /\ Writer(u, q)

-----------------------------------------------------------------------------
(* A request.                                                              *)

Begin(p, u, route, q, target, refers) ==
    /\ At(p, "idle")
    /\ task' = [task EXCEPT ![p] =
          [pc |-> IF route.by = "row" THEN "resolve" ELSE "authorize", user |-> u,
           route |-> route, project |-> q, target |-> target, refers |-> refers,
           permitted |-> route.by # "row" /\ RoleHasPermission(role[q][u], route.permission),
           changed |-> FALSE]]
    /\ UNCHANGED <<projects, role, rows, restricted>>

Live(r) == rows[r].live

\* The node or service a body names besides: a service is always on a node,
\* a rule can be for all of them.
Choices(route) ==
    LET of(tables) == {r \in Rows : Live(r) /\ rows[r].table \in tables}
    IN  CASE route.table = "services" /\ route.op = "insert" -> of({"nodes"})
          [] route.table = "alert_rules" /\ route.op \in {"insert", "update"} ->
                {None} \cup of({"nodes", "services"})
          [] OTHER -> {None}

\* Sequences number rows and projects.  Which of the ids that no row has and
\* no request names comes next makes no difference, nor whether it was used.
NextOf(S) == IF S = {} THEN {} ELSE {CHOOSE x \in S : TRUE}
FreshRows ==
    NextOf({r \in Rows : ~Live(r) /\ \A h \in Handlers : r \notin {task[h].target, task[h].refers}})
FreshProjects ==
    NextOf({q \in Projects : ~projects[q] /\ \A h \in Handlers : task[h].project # q})

\* A path names a row that is there, or was: of project_members by an id
\* that is the user's in one project, which the request is given.
RequestOnRow(p, u, route) ==
    /\ route.by = "row"
    /\ \E refers \in Choices(route) :
         CASE route.table = "projects" ->
                \E q \in Projects : projects[q] /\ Begin(p, u, route, q, None, refers)
           [] route.table = "project_members" ->
                \E q \in Projects, v \in Users :
                   Member(v, q) /\ Begin(p, u, route, q, v, refers)
           [] OTHER ->
                \E r \in Rows : /\ Live(r) /\ rows[r].table = route.table
                                /\ Begin(p, u, route, None, r, refers)

RequestInProject(p, u, route) ==
    /\ route.by # "row"
    /\ \E q \in Projects, refers \in Choices(route) :
         CASE route.op = "insert" /\ route.table = "project_members" ->
                \E v \in Users : Begin(p, u, route, q, v, refers)
           [] route.op = "insert" /\ route.table # "project_members" ->
                \E r \in FreshRows : Begin(p, u, route, q, r, refers)
           [] OTHER -> Begin(p, u, route, q, None, refers)

Request(p) ==
    \E u \in Users, route \in Routes : RequestOnRow(p, u, route) \/ RequestInProject(p, u, route)

\* The project of the row in the path, None when it is gone: ProjectIDForNode
\* and its like, which no policy restricts.
ProjectOf(t) ==
    CASE t.route.table = "projects" -> IF projects[t.project] THEN t.project ELSE None
      [] t.route.table = "project_members" -> IF Member(t.target, t.project) THEN t.project ELSE None
      [] OTHER -> IF Live(t.target) THEN rows[t.target].project ELSE None

Resolve(p) ==
    /\ At(p, "resolve")
    /\ LET q == ProjectOf(task[p]) IN
         IF q = None THEN End(p)
         ELSE task' = [task EXCEPT ![p].pc = "authorize", ![p].project = q,
                                   ![p].permitted = Permits(role[q][task[p].user], task[p])]
    /\ UNCHANGED <<projects, role, rows, restricted>>

\* Being a member is enough.
AuthorizeMembers(p) ==
    /\ At(p, "authorize")
    /\ IF Member(task[p].user, task[p].project)
       THEN Goto(p, IF task[p].refers # None THEN "load" ELSE "execute")
       ELSE End(p)
    /\ UNCHANGED <<projects, role, rows, restricted>>

\* RequireProjectPermission reads the membership.
Authorize(p) ==
    /\ At(p, "authorize")
    /\ IF RoleHasPermission(role[task[p].project][task[p].user], task[p].route.permission)
       THEN Goto(p, IF task[p].refers # None THEN "load" ELSE "execute")
       ELSE End(p)
    /\ UNCHANGED <<projects, role, rows, restricted>>

\* Finding it is enough.
LoadAny(p) ==
    /\ At(p, "load")
    /\ LET r == task[p].refers
           found == Live(r) /\ Allowed(rows[r].table, "select", task[p].user, rows[r].project)
       IN  IF found THEN Goto(p, "execute") ELSE End(p)
    /\ UNCHANGED <<projects, role, rows, restricted>>

\* The handler reads the node or service the body names, which has to be of
\* the project.
Load(p) ==
    /\ At(p, "load")
    /\ LET r == task[p].refers
           found == Live(r) /\ Allowed(rows[r].table, "select", task[p].user, rows[r].project)
       IN  IF found /\ rows[r].project = task[p].project THEN Goto(p, "execute") ELSE End(p)
    /\ UNCHANGED <<projects, role, rows, restricted>>

Refused(t) == ~Allowed(t.route.table, t.route.op, t.user, t.project)

\* A policy hides the row from the statement or refuses the new one.
Refuse(p) ==
    /\ At(p, "execute")
    /\ Refused(task[p])
    /\ Goto(p, "refused")
    /\ UNCHANGED <<projects, role, rows, restricted>>

\* Execute: a policy lets the statement of route op on one of tables through.
Executes(p, tables, ops) ==
    /\ At(p, "execute")
    /\ task[p].route.table \in tables
    /\ task[p].route.op \in ops
    /\ ~Refused(task[p])

AllTables == {route.table : route \in Routes}

\* The row in the path, with what is known of it.
Get(p) ==
    /\ Executes(p, AllTables, {"select"})
    /\ task[p].route.by = "row"
    /\ End(p)
    /\ UNCHANGED <<projects, role, rows, restricted>>

\* The rows of the project named in the query.
List(p) ==
    /\ Executes(p, AllTables, {"select"})
    /\ task[p].route.by # "row"
    /\ End(p)
    /\ UNCHANGED <<projects, role, rows, restricted>>

\* The first snapshot, if the row is there.
OpenStream(p) ==
    /\ Executes(p, AllTables, {"stream"})
    /\ IF Live(task[p].target)
       THEN task' = [task EXCEPT ![p].pc = "stream", ![p].permitted = FALSE, ![p].changed = FALSE]
       ELSE End(p)
    /\ UNCHANGED <<projects, role, rows, restricted>>

\* With no deadline.
CloseEmptyStream(p) ==
    /\ At(p, "stream")
    /\ Live(task[p].target) => Refused(task[p])
    /\ End(p)
    /\ UNCHANGED <<projects, role, rows, restricted>>

\* A snapshot finds nothing any more, or streamMaxDuration is over.
CloseStream(p) ==
    /\ At(p, "stream")
    /\ End(p)
    /\ UNCHANGED <<projects, role, rows, restricted>>

\* The foreign keys refuse a row of what has been deleted meanwhile.
InsertRow(p) ==
    /\ Executes(p, RowTables, {"insert"})
    /\ LET t == task[p]
           fits == projects[t.project] /\ (t.refers # None => Live(t.refers))
       IN  rows' = IF fits
                   THEN [rows EXCEPT ![t.target] =
                           [live |-> TRUE, table |-> t.route.table,
                            project |-> t.project, refers |-> t.refers]]
                   ELSE rows
    /\ End(p)
    /\ UNCHANGED <<projects, role, restricted>>

\* Names, checks, settings and tokens: a row stays where it is.
UpdateRow(p) ==
    /\ Executes(p, RowTables \ {"alert_rules"}, {"update"})
    /\ End(p)
    /\ UNCHANGED <<projects, role, rows, restricted>>

\* A rule can be given another target, or keeps its own.
UpdateRule(p) ==
    /\ Executes(p, {"alert_rules"}, {"update"})
    /\ LET t == task[p] IN
          rows' = IF Live(t.target) /\ t.refers # None /\ Live(t.refers)
                  THEN [rows EXCEPT ![t.target].refers = t.refers] ELSE rows
    /\ End(p)
    /\ UNCHANGED <<projects, role, restricted>>

\* ON DELETE CASCADE: with r all rows that refer to it, and to those.
WithReferrers(r) ==
    LET direct == {s \in Rows : Live(s) /\ rows[s].refers = r}
    IN  {r} \cup direct \cup {s \in Rows : Live(s) /\ rows[s].refers \in direct}

DeleteRow(p) ==
    /\ Executes(p, RowTables, {"delete"})
    /\ rows' = [r \in Rows |-> IF r \in WithReferrers(task[p].target) /\ Live(task[p].target)
                               THEN NoRow ELSE rows[r]]
    /\ End(p)
    /\ UNCHANGED <<projects, role, restricted>>

\* A role is given, changed or taken, to or from the user target.
WriteMember(p) ==
    /\ Executes(p, {"project_members"}, {"insert", "update", "delete"})
    /\ LET t == task[p]
           there == Member(t.target, t.project)
           fits == IF t.route.op = "insert" THEN ~there /\ projects[t.project] ELSE there
       IN  \E r \in IF t.route.op = "delete" THEN {None} ELSE Roles :
             LET after == IF fits THEN [role EXCEPT ![t.project][t.target] = r] ELSE role
             IN  role' = after /\ EndNoting(p, after)
    /\ UNCHANGED <<projects, rows, restricted>>

UpdateProject(p) ==
    /\ Executes(p, {"projects"}, {"update"})
    /\ End(p)
    /\ UNCHANGED <<projects, role, rows, restricted>>

\* With all that belongs to it (ON DELETE CASCADE).
DeleteProject(p) ==
    /\ Executes(p, {"projects"}, {"delete"})
    /\ LET q == task[p].project
           after == [role EXCEPT ![q] = [u \in Users |-> None]]
       IN  /\ projects' = [projects EXCEPT ![q] = FALSE]
           /\ role' = after
           /\ rows' = [r \in Rows |-> IF rows[r].project = q
                          THEN NoRow ELSE rows[r]]
           /\ EndNoting(p, after)
    /\ UNCHANGED restricted

Execute(p) ==
    \/ Get(p) \/ List(p) \/ InsertRow(p) \/ UpdateRow(p) \/ UpdateRule(p) \/ DeleteRow(p)
    \/ WriteMember(p) \/ UpdateProject(p) \/ DeleteProject(p)

\* The handler answers that there is no such row, or an error.
Answer(p) ==
    /\ At(p, "refused")
    /\ End(p)
    /\ UNCHANGED <<projects, role, rows, restricted>>

\* The request fails before its statement: a field is not valid, the
\* database is away.
Fail(p) ==
    /\ task[p].pc \in {"resolve", "authorize", "load", "execute"}
    /\ End(p)
    /\ UNCHANGED <<projects, role, rows, restricted>>

-----------------------------------------------------------------------------
(* What needs no permission, or is asked of other handlers.                *)

\* CreateWithOwner, for any user.
CreateProject(u, q) ==
    /\ q \in FreshProjects
    /\ LET after == [role EXCEPT ![q][u] = "owner"]
       IN  role' = after /\ task' = [p \in Handlers |-> Noting(task[p], after)]
    /\ projects' = [projects EXCEPT ![q] = TRUE]
    /\ UNCHANGED <<rows, restricted>>

\* Someone joins with an invitation, or an owner's request is served.
ChangeRole(u, q, r) ==
    /\ projects[q]
    /\ r # role[q][u]
    /\ LET after == [role EXCEPT ![q][u] = r]
       IN  role' = after /\ task' = [p \in Handlers |-> Noting(task[p], after)]
    /\ UNCHANGED <<projects, rows, restricted>>

Serve(p) ==
    Resolve(p) \/ Authorize(p) \/ Load(p) \/ Refuse(p) \/ OpenStream(p) \/ Execute(p) \/ Answer(p)

Next ==
    \/ \E p \in Handlers : Request(p) \/ Serve(p) \/ CloseStream(p) \/ Fail(p)
    \/ \E u \in Users, q \in Projects :
          CreateProject(u, q) \/ \E r \in Roles \cup {None} : ChangeRole(u, q, r)

\* Statements return, and streams have a deadline.
Fairness == \A p \in Handlers : WF_vars(Serve(p)) /\ WF_vars(CloseStream(p))

Spec == Init /\ [][Next]_vars /\ Fairness

-----------------------------------------------------------------------------

\* The rows a statement of p is about, inserted ones included.
Touched(p) == {r \in Rows : rows[r] # rows'[r] \/ (task[p].target = r /\ Live(r))}

\* Whoever reads or writes rows of a project had, at some moment of the
\* request, a role in that very project that permits it, whatever the path or
\* body named, and whatever became of rows and roles meanwhile.
AccessIsAuthorized ==
    [][\A p \in Handlers :
          LET t == task[p]
              of == {rows[r].project : r \in Touched(p)} \cup {rows'[r].project : r \in Touched(p)}
                    \cup {q \in Projects : role[q] # role'[q] \/ projects[q] # projects'[q]}
          IN  t.pc = "execute" /\ task'[p].pc \in {"idle", "stream"} /\ of # {} =>
                 t.permitted /\ of \subseteq {t.project, None}]_vars

\* Services and rules are in one project with what they are on or for.
RowsShareProject ==
    \A r \in Rows : Live(r) /\ rows[r].refers # None =>
        Live(rows[r].refers) /\ rows[rows[r].refers].project = rows[r].project

\* The two layers agree: what the middleware lets pass no policy refuses,
\* unless the user's role in the project has changed since.
LayersAgree ==
    \A p \in Handlers : At(p, "refused") => task[p].changed

Watches(p, u, q) == At(p, "stream") /\ task[p].user = u /\ task[p].project = q

\* Who has been removed for good does not watch the project for ever, even
\* where no policy stops an open stream.
RemovedStopWatching ==
    \A u \in Users, q \in Projects :
        <>[](role[q][u] = None) => <>[](\A p \in Handlers : ~Watches(p, u, q))
=============================================================================
