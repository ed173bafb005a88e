-------------------------- MODULE MembershipProofs --------------------------
(***************************************************************************)
(* Theorems about Membership: what every interleaving and failure leaves   *)
(* true, and that owners remain when requests do not overlap.              *)
(***************************************************************************)
EXTENDS Membership, FiniteSetTheorems, TLAPS

\* What the rows of both tables hold.
RowsOK ==
    /\ \A m \in MemberIds :
          IF members[m].state = "none" THEN members[m] = NoMember
          ELSE members[m].user \in Users /\ members[m].role \in Roles
    /\ \A i \in InvitationIds : invitations[i].state \in {"pending", "accepted"} =>
          invitations[i].email \in Users /\ invitations[i].role \in InviteRoles

Admitted(u) == \E m \in MemberIds : members[m].user = u

\* A request that accepts an invitation is its addressee's; when it comes to
\* mark it, the addressee has been let in.
AcceptOK(t) ==
    /\ t.pc \in {"find", "insert", "mark"} /\ t.invitation # None =>
         /\ invitations[t.invitation].state # "none"
         /\ invitations[t.invitation].state \in {"pending", "accepted"} =>
               invitations[t.invitation].email = t.user
    /\ t.pc = "mark" => Admitted(t.user)

\* Rows under deletion stay pending until their transaction ends.
DoomedOK(t) ==
    \A i \in t.doomed : invitations[i].state \in {"pending", "deleted"}

TasksOK == \A p \in Handlers : AcceptOK(task[p]) /\ DoomedOK(task[p])

\* The inductive invariant.
IInv ==
    /\ TypeOK
    /\ RowsOK
    /\ OneMembership
    /\ AcceptanceAdmits
    /\ TasksOK

USE MembershipAssumption

\* At first the creator is the only member, and nobody is invited.
LEMMA InitIInv == Init => IInv
<1> SUFFICES ASSUME Init PROVE IInv
  OBVIOUS
<1> DEFINE m0 == CHOOSE n \in MemberIds : TRUE
<1>0. m0 \in MemberIds
  OBVIOUS
<1>1. /\ members = [m \in MemberIds |->
             IF m = m0 THEN [state |-> "live", user |-> Creator,
                             role |-> "owner", via |-> None]
             ELSE NoMember]
      /\ invitations = [i \in InvitationIds |-> NoInvitation]
      /\ mailed = {} /\ verified = {Creator}
      /\ task = [p \in Handlers |-> NoTask]
  BY DEF Init
<1> HIDE DEF m0
<1>2. TypeOK
  <2>1. members \in [MemberIds -> MemberRow]
    BY <1>1 DEF MemberRow, NoMember, Roles
  <2>2. invitations \in [InvitationIds -> InvitationRow]
    BY <1>1 DEF InvitationRow, NoInvitation
  <2>3. task \in [Handlers -> Task] /\ \A p \in Handlers : TaskOK(task[p])
    BY <1>1 DEF Task, NoTask, TaskOK
  <2> QED BY <1>1, <2>1, <2>2, <2>3 DEF TypeOK
<1>3. RowsOK
  BY <1>1 DEF RowsOK, NoMember, NoInvitation, Roles
<1>4. OneMembership
  BY <1>1 DEF OneMembership, Live, NoMember
<1>5. AcceptanceAdmits
  BY <1>1 DEF AcceptanceAdmits, NoInvitation
<1>6. TasksOK
  BY <1>1 DEF TasksOK, AcceptOK, DoomedOK, NoTask
<1> QED BY <1>2, <1>3, <1>4, <1>5, <1>6 DEF IInv

-----------------------------------------------------------------------------

\* A task at rest asks nothing.
LEMMA NoTaskOK ==
    NoTask \in Task /\ TaskOK(NoTask) /\ AcceptOK(NoTask) /\ DoomedOK(NoTask)
BY DEF NoTask, Task, TaskOK, AcceptOK, DoomedOK

\* A step of p that leaves both tables alone, or changes nothing the
\* invariant says of them, is judged by the task it leaves p with.
LEMMA TaskStep ==
    ASSUME IInv, NEW p \in Handlers, NEW t \in Task, Continue(p, t),
           TaskOK(t), AcceptOK(t), DoomedOK(t),
           UNCHANGED <<members, invitations>>,
           mailed' \subseteq InvitationIds, verified' \subseteq Users
    PROVE  IInv'
<1>1. /\ task \in [Handlers -> Task]
      /\ \A q \in Handlers : TaskOK(task[q]) /\ AcceptOK(task[q]) /\ DoomedOK(task[q])
  BY DEF IInv, TypeOK, TasksOK
<1>2. /\ task' \in [Handlers -> Task]
      /\ \A q \in Handlers : task'[q] = t \/ task'[q] = task[q]
  BY <1>1 DEF Continue
<1>3. \A q \in Handlers : TaskOK(task'[q])
  BY <1>1, <1>2
<1>4. TypeOK'
  BY <1>2, <1>3 DEF IInv, TypeOK
<1>5. RowsOK' /\ OneMembership' /\ AcceptanceAdmits'
  BY DEF IInv, RowsOK, OneMembership, AcceptanceAdmits, Live
<1>6. TasksOK'
  <2> SUFFICES ASSUME NEW q \in Handlers PROVE (AcceptOK(task[q]) /\ DoomedOK(task[q]))'
    BY DEF TasksOK
  <2>1. CASE task'[q] = t
    BY <2>1 DEF AcceptOK, DoomedOK, Admitted
  <2>2. CASE task'[q] = task[q]
    BY <2>2, <1>1 DEF AcceptOK, DoomedOK, Admitted
  <2> QED BY <2>1, <2>2, <1>2
<1> QED BY <1>4, <1>5, <1>6 DEF IInv

\* A step of p that changes a table is judged by the rows it leaves and by
\* what they mean to the other tasks.
LEMMA TableStep ==
    ASSUME IInv, NEW p \in Handlers, NEW t \in Task, Continue(p, t),
           TaskOK(t), AcceptOK(t)', DoomedOK(t)',
           members' \in [MemberIds -> MemberRow],
           invitations' \in [InvitationIds -> InvitationRow],
           UNCHANGED <<mailed, verified>>,
           RowsOK', OneMembership', AcceptanceAdmits',
           \A q \in Handlers \ {p}, s \in Task :
               s = task[q] => AcceptOK(s)' /\ DoomedOK(s)'
    PROVE  IInv'
<1>1. /\ task \in [Handlers -> Task]
      /\ \A q \in Handlers : TaskOK(task[q])
  BY DEF IInv, TypeOK
<1>2. /\ task' \in [Handlers -> Task]
      /\ task'[p] = t
      /\ \A q \in Handlers \ {p} : task'[q] = task[q]
  BY <1>1 DEF Continue
<1>3. TypeOK'
  <2>1. \A q \in Handlers : TaskOK(task'[q])
    BY <1>1, <1>2
  <2> QED BY <1>2, <2>1 DEF IInv, TypeOK
<1>4. TasksOK'
  <2> SUFFICES ASSUME NEW q \in Handlers PROVE (AcceptOK(task[q]) /\ DoomedOK(task[q]))'
    BY DEF TasksOK
  <2>1. CASE q = p
    BY <2>1, <1>2 DEF AcceptOK, DoomedOK, Admitted
  <2>2. CASE q # p
    <3>1. task[q] \in Task /\ task'[q] = task[q]
      BY <2>2, <1>1, <1>2
    <3>2. \A s \in Task : s = task[q] => AcceptOK(s)' /\ DoomedOK(s)'
      BY <2>2
    <3> QED BY <3>1, <3>2 DEF AcceptOK, DoomedOK, Admitted
  <2> QED BY <2>1, <2>2
<1> QED BY <1>3, <1>4 DEF IInv

-----------------------------------------------------------------------------

\* A task of a reachable state.
LEMMA TaskTyped ==
    ASSUME IInv, NEW p \in Handlers
    PROVE  task[p] \in Task /\ TaskOK(task[p]) /\ AcceptOK(task[p]) /\ DoomedOK(task[p])
BY DEF IInv, TypeOK, TasksOK

\* What is left of a batch asks nothing but to be taken from.
LEMMA NextItemOK ==
    ASSUME NEW t \in Task
    PROVE  /\ NextItem(t) \in Task /\ TaskOK(NextItem(t))
           /\ AcceptOK(NextItem(t)) /\ DoomedOK(NextItem(t))
<1>1. CASE t.todo = {}
  BY <1>1, NoTaskOK DEF NextItem
<1>2. CASE t.todo # {}
  <2> DEFINE n == [NoTask EXCEPT !.pc = "items", !.todo = t.todo]
  <2>1. NextItem(t) = n
    BY <1>2 DEF NextItem
  <2>2. t.todo \in SUBSET (Users \X InviteRoles)
    BY DEF Task
  <2>3. n \in Task
    BY <2>2 DEF Task, NoTask
  <2>4. n.pc = "items" /\ n.doomed = {}
    BY DEF NoTask
  <2>5. TaskOK(n) /\ AcceptOK(n) /\ DoomedOK(n)
    BY <2>4 DEF TaskOK, AcceptOK, DoomedOK
  <2> QED BY <2>1, <2>3, <2>5
<1> QED BY <1>1, <1>2

\* Where no table changes, none of its parts does.
LEMMA TablesUnchanged ==
    ASSUME IInv, UNCHANGED tables
    PROVE  /\ UNCHANGED <<members, invitations>>
           /\ mailed' \subseteq InvitationIds /\ verified' \subseteq Users
BY DEF IInv, TypeOK, tables

\* A request begins with what the middleware and its loads have read.
LEMMA BeginStep ==
    ASSUME IInv, NEW p \in Handlers, Begin(p)
    PROVE  IInv'
<1>1. ASSUME NEW actor \in Users, NEW u \in Users, NEW role \in Roles,
             AddMember(p, actor, u, role)
      PROVE  IInv'
  <2> DEFINE t == [NoTask EXCEPT !.pc = "find", !.actor = actor,
                                 !.user = u, !.role = role]
  <2>1. /\ t \in Task /\ TaskOK(t) /\ AcceptOK(t) /\ DoomedOK(t)
    BY DEF Task, NoTask, TaskOK, AcceptOK, DoomedOK
  <2>2. Continue(p, t) /\ UNCHANGED tables
    BY <1>1 DEF AddMember
  <2> HIDE DEF t
  <2> QED BY <2>1, <2>2, TablesUnchanged, TaskStep
<1>2. ASSUME NEW actor \in Users, NEW m \in MemberIds, NEW role \in Roles \cup {"gone"},
             ChangeMember(p, actor, m, role)
      PROVE  IInv'
  <2> DEFINE t == [NoTask EXCEPT !.pc = "load", !.actor = actor,
                                 !.member = m, !.role = role]
  <2>1. /\ t \in Task /\ TaskOK(t) /\ AcceptOK(t) /\ DoomedOK(t)
    BY DEF Task, NoTask, TaskOK, AcceptOK, DoomedOK
  <2>2. Continue(p, t) /\ UNCHANGED tables
    BY <1>2 DEF ChangeMember
  <2> HIDE DEF t
  <2> QED BY <2>1, <2>2, TablesUnchanged, TaskStep
<1>3. ASSUME NEW actor \in Users, NEW batch \in Batches, Invite(p, actor, batch)
      PROVE  IInv'
  <2> DEFINE t == [NoTask EXCEPT !.pc = "items", !.todo = batch]
  <2>1. /\ t \in Task /\ TaskOK(t) /\ AcceptOK(t) /\ DoomedOK(t)
    BY DEF Batches, Task, NoTask, TaskOK, AcceptOK, DoomedOK
  <2>2. Continue(p, t) /\ UNCHANGED tables
    BY <1>3 DEF Invite
  <2> HIDE DEF t
  <2> QED BY <2>1, <2>2, TablesUnchanged, TaskStep
<1>4. ASSUME NEW actor \in Users, NEW i \in InvitationIds, Revoke(p, actor, i)
      PROVE  IInv'
  <2> DEFINE t == [NoTask EXCEPT !.pc = "revoke", !.invitation = i]
  <2>1. /\ t \in Task /\ TaskOK(t) /\ AcceptOK(t) /\ DoomedOK(t)
    BY DEF Task, NoTask, TaskOK, AcceptOK, DoomedOK
  <2>2. Continue(p, t) /\ UNCHANGED tables
    BY <1>4 DEF Revoke
  <2> HIDE DEF t
  <2> QED BY <2>1, <2>2, TablesUnchanged, TaskStep
<1>5. ASSUME NEW u \in Users, NEW i \in InvitationIds, Accept(p, u, i)
      PROVE  IInv'
  <2> DEFINE t == [NoTask EXCEPT !.pc = "find", !.user = u,
                      !.role = invitations[i].role, !.invitation = i,
                      !.unverified = u \notin verified]
  <2>1. /\ invitations[i].state = "pending" /\ invitations[i].email = u
        /\ invitations[i].role \in InviteRoles
    BY <1>5 DEF Accept, Active, Pending, IInv, RowsOK
  <2>2. /\ t \in Task /\ TaskOK(t) /\ AcceptOK(t) /\ DoomedOK(t)
    BY <2>1 DEF Task, NoTask, TaskOK, AcceptOK, DoomedOK, Roles
  <2>3. Continue(p, t) /\ UNCHANGED tables
    BY <1>5 DEF Accept
  <2> HIDE DEF t
  <2> QED BY <2>2, <2>3, TablesUnchanged, TaskStep
<1> QED BY <1>1, <1>2, <1>3, <1>4, <1>5 DEF Begin

\* The statements that read, and those that fail.
LEMMA ReadStep ==
    ASSUME IInv, NEW p \in Handlers,
           \/ Find(p) \/ InsertRefused(p) \/ MarkLost(p) \/ Load(p) \/ Count(p)
           \/ WriteLost(p) \/ TakeItem(p) \/ Replace(p) \/ Abort(p)
    PROVE  IInv'
<1>0. task[p] \in Task /\ TaskOK(task[p]) /\ AcceptOK(task[p]) /\ DoomedOK(task[p])
  BY TaskTyped
<1>1. CASE InsertRefused(p) \/ MarkLost(p) \/ WriteLost(p) \/ Abort(p)
  <2>1. Continue(p, NoTask) /\ UNCHANGED tables
    BY <1>1 DEF InsertRefused, MarkLost, WriteLost, Abort
  <2> QED BY <2>1, NoTaskOK, TablesUnchanged, TaskStep
<1>2. CASE Find(p)
  <2> DEFINE t == IF ~IsMember(task[p].user) THEN [task[p] EXCEPT !.pc = "insert"]
                  ELSE IF task[p].invitation # None THEN [task[p] EXCEPT !.pc = "mark"]
                  ELSE NoTask
  <2>1. Continue(p, t) /\ UNCHANGED tables /\ At(p, "find")
    BY <1>2 DEF Find
  <2>2. t \in Task /\ TaskOK(t) /\ AcceptOK(t) /\ DoomedOK(t)
    <3>1. CASE ~IsMember(task[p].user)
      BY <3>1, <2>1, <1>0 DEF At, Task, TaskOK, AcceptOK, DoomedOK
    <3>2. CASE IsMember(task[p].user) /\ task[p].invitation # None
      BY <3>2, <2>1, <1>0 DEF At, Task, TaskOK, AcceptOK, DoomedOK, IsMember, Admitted
    <3>3. CASE IsMember(task[p].user) /\ task[p].invitation = None
      BY <3>3, NoTaskOK
    <3> QED BY <3>1, <3>2, <3>3
  <2> HIDE DEF t
  <2> QED BY <2>1, <2>2, TablesUnchanged, TaskStep
<1>3. CASE Load(p) \/ Count(p)
  <2>1. PICK t \in {NoTask, [task[p] EXCEPT !.pc = "count"], [task[p] EXCEPT !.pc = "write"]} :
           Continue(p, t)
    BY <1>3 DEF Load, Count
  <2>2. t \in Task /\ TaskOK(t) /\ AcceptOK(t) /\ DoomedOK(t) /\ UNCHANGED tables
    BY <1>3, <1>0, NoTaskOK DEF Load, Count, At, Task, TaskOK, AcceptOK, DoomedOK
  <2> QED BY <2>1, <2>2, TablesUnchanged, TaskStep
<1>4. CASE TakeItem(p)
  <2>1. PICK item \in task[p].todo :
          LET t == [task[p] EXCEPT !.todo = @ \ {item}] IN
          Continue(p, IF \E i \in InvitationIds : Active(i) /\ invitations[i].email = item[1]
                      THEN NextItem(t)
                      ELSE [t EXCEPT !.pc = "replace", !.user = item[1], !.role = item[2]])
    BY <1>4 DEF TakeItem
  <2> DEFINE s == [task[p] EXCEPT !.todo = @ \ {item}]
             t == [s EXCEPT !.pc = "replace", !.user = item[1], !.role = item[2]]
  <2>2. item[1] \in Users /\ item[2] \in InviteRoles
    BY <1>0 DEF Task
  <2>3. s \in Task
    BY <1>0 DEF Task
  <2>4. t \in Task /\ TaskOK(t) /\ AcceptOK(t) /\ DoomedOK(t)
    <3>1. t \in Task
      BY <2>2, <2>3 DEF Task, Roles
    <3>2. /\ t.pc = "replace" /\ t.user = item[1] /\ t.role = item[2]
          /\ t.doomed = task[p].doomed
      BY <1>0 DEF Task
    <3> HIDE DEF s, t
    <3> QED BY <3>1, <3>2, <2>2, <1>0 DEF TaskOK, AcceptOK, DoomedOK
  <2>5. (Continue(p, NextItem(s)) \/ Continue(p, t)) /\ UNCHANGED tables
    BY <2>1, <1>4 DEF TakeItem
  <2> HIDE DEF s, t
  <2> QED BY <2>3, <2>4, <2>5, NextItemOK, TablesUnchanged, TaskStep
<1>5. CASE Replace(p)
  <2> DEFINE t == [task[p] EXCEPT !.pc = "commit", !.doomed =
          {i \in InvitationIds : Pending(i) /\ invitations[i].email = task[p].user}]
  <2>1. Continue(p, t) /\ UNCHANGED tables
    BY <1>5 DEF Replace
  <2>2. t \in Task /\ TaskOK(t) /\ AcceptOK(t) /\ DoomedOK(t)
    BY <1>5, <1>0 DEF Replace, At, Task, TaskOK, AcceptOK, DoomedOK, Pending
  <2> HIDE DEF t
  <2> QED BY <2>1, <2>2, TablesUnchanged, TaskStep
<1> QED BY <1>1, <1>2, <1>3, <1>4, <1>5

\* The statements that write neither table.
LEMMA SideStep ==
    ASSUME IInv, NEW p \in Handlers, Verify(p) \/ Mail(p) \/ ItemFails(p)
    PROVE  IInv'
<1>0. task[p] \in Task /\ TaskOK(task[p])
  BY TaskTyped
<1>1. CASE Verify(p)
  <2>1. task[p].user \in Users
    BY <1>0, <1>1 DEF Verify, At, TaskOK
  <2>2. verified' \subseteq Users /\ mailed' \subseteq InvitationIds
    BY <1>1, <2>1 DEF Verify, IInv, TypeOK
  <2> QED BY <1>1, <2>2, NoTaskOK, TaskStep DEF Verify
<1>2. CASE Mail(p) \/ ItemFails(p)
  <2>1. /\ Continue(p, NextItem(task[p])) /\ UNCHANGED <<members, invitations, verified>>
        /\ mailed' = mailed \/ (At(p, "mail") /\ mailed' = mailed \cup {task[p].invitation})
    BY <1>2 DEF Mail, ItemFails
  <2>2. At(p, "mail") => task[p].invitation \in InvitationIds
    BY <1>0 DEF At, TaskOK
  <2>3. verified' \subseteq Users /\ mailed' \subseteq InvitationIds
    BY <2>1, <2>2 DEF IInv, TypeOK
  <2> QED BY <1>0, <2>1, <2>3, NextItemOK, TaskStep
<1> QED BY <1>1, <1>2

-----------------------------------------------------------------------------

\* A new row is for one who is not a member, and takes nobody's place.
LEMMA InsertStep ==
    ASSUME IInv, NEW p \in Handlers, Insert(p)
    PROVE  IInv'
<1> DEFINE m == CHOOSE n \in FreshMembers : TRUE
           row == [state |-> "live", user |-> task[p].user, role |-> task[p].role,
                   via |-> task[p].invitation]
<1>0. task[p] \in Task /\ TaskOK(task[p]) /\ AcceptOK(task[p]) /\ DoomedOK(task[p])
  BY TaskTyped
<1>t. PICK t : t = IF task[p].invitation # None THEN [task[p] EXCEPT !.pc = "mark"]
                   ELSE NoTask
  OBVIOUS
<1>1. /\ members' = [members EXCEPT ![m] = row]
      /\ Continue(p, t)
      /\ UNCHANGED <<invitations, mailed, verified>>
      /\ task[p].pc = "insert"
      /\ ~IsMember(task[p].user)
  BY <1>t DEF Insert, At, Insertable
<1>2. m \in MemberIds /\ members[m].state = "none"
  BY DEF Insert, FreshMembers
<1> HIDE DEF m
<1>3. /\ task[p].user \in Users /\ task[p].role \in Roles
      /\ task[p].invitation \in InvitationIds \cup {None}
  BY <1>0, <1>1 DEF TaskOK, Task
<1>4. row \in MemberRow
  BY <1>3 DEF MemberRow
<1>5. /\ members \in [MemberIds -> MemberRow]
      /\ members' \in [MemberIds -> MemberRow]
      /\ members'[m] = row
      /\ \A n \in MemberIds \ {m} : members'[n] = members[n]
  BY <1>1, <1>2, <1>4 DEF IInv, TypeOK
<1>6. RowsOK'
  BY <1>1, <1>3, <1>5 DEF IInv, RowsOK
<1>7. OneMembership'
  BY <1>1, <1>5 DEF IInv, OneMembership, IsMember, Live
<1>8. members[m].user = None
  BY <1>2 DEF IInv, RowsOK, NoMember
<1>9. \A u \in Users : Admitted(u) => Admitted(u)'
  BY <1>5, <1>8 DEF Admitted
<1>10. AcceptanceAdmits'
  BY <1>1, <1>9 DEF IInv, RowsOK, AcceptanceAdmits, Admitted
<1>11. t \in Task /\ TaskOK(t) /\ AcceptOK(t)' /\ DoomedOK(t)'
  <2>1. CASE task[p].invitation # None
    <3>1. t \in Task /\ TaskOK(t) /\ t.doomed = task[p].doomed
      BY <2>1, <1>t, <1>0, <1>3 DEF Task, TaskOK
    <3>2. t.pc = "mark" /\ t.user = task[p].user /\ t.invitation = task[p].invitation
      BY <2>1, <1>t, <1>0 DEF Task
    <3>3. Admitted(t.user)'
      BY <3>2, <1>2, <1>5 DEF Admitted
    <3> QED BY <2>1, <3>1, <3>2, <3>3, <1>0, <1>1 DEF AcceptOK, DoomedOK
  <2>2. CASE task[p].invitation = None
    BY <2>2, <1>t, NoTaskOK DEF NoTask, AcceptOK, DoomedOK
  <2> QED BY <2>1, <2>2
<1>12. ASSUME NEW q \in Handlers \ {p}, NEW s \in Task, s = task[q]
       PROVE  AcceptOK(s)' /\ DoomedOK(s)'
  <2>1. TaskOK(s) /\ AcceptOK(s) /\ DoomedOK(s)
    BY <1>12, TaskTyped
  <2> QED BY <2>1, <1>1, <1>9 DEF TaskOK, AcceptOK, DoomedOK
<1> QED BY <1>1, <1>5, <1>6, <1>7, <1>10, <1>11, <1>12, TableStep DEF IInv, TypeOK

\* A row changes its role or is deleted; its user remains.
LEMMA WriteStep ==
    ASSUME IInv, NEW p \in Handlers, Write(p)
    PROVE  IInv'
<1> DEFINE m == task[p].member
           row == IF task[p].role = "gone" THEN [members[m] EXCEPT !.state = "deleted"]
                  ELSE [members[m] EXCEPT !.role = task[p].role]
<1>0. task[p] \in Task /\ TaskOK(task[p])
  BY TaskTyped
<1>1. /\ members' = [members EXCEPT ![m] = row]
      /\ Continue(p, NoTask)
      /\ UNCHANGED <<invitations, mailed, verified>>
      /\ members[m].state = "live" /\ m \in MemberIds
      /\ task[p].role \in Roles \cup {"gone"}
  BY <1>0 DEF Write, At, Live, TaskOK
<1>2. members \in [MemberIds -> MemberRow]
  BY DEF IInv, TypeOK
<1>3. members[m] \in MemberRow /\ members[m].user \in Users /\ members[m].role \in Roles
  BY <1>1, <1>2 DEF IInv, RowsOK
<1>4. /\ row \in MemberRow /\ row.user = members[m].user
      /\ row.state \in {"live", "deleted"} /\ row.role \in Roles
  BY <1>1, <1>3 DEF MemberRow
<1> HIDE DEF row
<1>5. /\ members' \in [MemberIds -> MemberRow]
      /\ members'[m] = row
      /\ \A n \in MemberIds \ {m} : members'[n] = members[n]
  BY <1>1, <1>2, <1>4
<1>6. \A n \in MemberIds : members'[n].user = members[n].user
                           /\ (Live(n)' => Live(n))
  BY <1>1, <1>4, <1>5 DEF Live
<1>7. RowsOK'
  BY <1>1, <1>3, <1>4, <1>5 DEF IInv, RowsOK
<1>8. OneMembership'
  BY <1>6 DEF IInv, OneMembership
<1>9. \A u : Admitted(u)' <=> Admitted(u)
  BY <1>6 DEF Admitted
<1>10. AcceptanceAdmits'
  BY <1>1, <1>6 DEF IInv, AcceptanceAdmits
<1>11. AcceptOK(NoTask)' /\ DoomedOK(NoTask)'
  BY DEF NoTask, AcceptOK, DoomedOK
<1>12. ASSUME NEW q \in Handlers \ {p}, NEW s \in Task, s = task[q]
       PROVE  AcceptOK(s)' /\ DoomedOK(s)'
  <2>1. AcceptOK(s) /\ DoomedOK(s)
    BY <1>12, TaskTyped
  <2> QED BY <2>1, <1>1, <1>9 DEF AcceptOK, DoomedOK
<1> QED BY <1>1, <1>5, <1>7, <1>8, <1>10, <1>11, <1>12, NoTaskOK, TableStep DEF IInv, TypeOK

\* Only one who was let in marks an invitation, and none that a transaction
\* is about to delete.
LEMMA MarkStep ==
    ASSUME IInv, NEW p \in Handlers, Mark(p)
    PROVE  IInv'
<1> DEFINE i == task[p].invitation
<1>0. task[p] \in Task /\ TaskOK(task[p]) /\ AcceptOK(task[p]) /\ DoomedOK(task[p])
  BY TaskTyped
<1>t. PICK t : t = IF task[p].unverified THEN [task[p] EXCEPT !.pc = "verify"]
                   ELSE NoTask
  OBVIOUS
<1>1. /\ invitations' = [invitations EXCEPT ![i].state = "accepted"]
      /\ Continue(p, t)
      /\ UNCHANGED <<members, mailed, verified>>
      /\ invitations[i].state \in {"pending", "accepted"}
      /\ \A q \in Handlers : i \notin task[q].doomed
      /\ task[p].pc = "mark" /\ i \in InvitationIds /\ task[p].user \in Users
  BY <1>0, <1>t DEF Mark, At, Locked, TaskOK
<1>2. Admitted(task[p].user) /\ invitations[i].email = task[p].user
  BY <1>0, <1>1 DEF AcceptOK
<1>3. invitations \in [InvitationIds -> InvitationRow]
  BY DEF IInv, TypeOK
<1>4. /\ invitations'[i] = [invitations[i] EXCEPT !.state = "accepted"]
      /\ \A j \in InvitationIds \ {i} : invitations'[j] = invitations[j]
  BY <1>1, <1>3
<1>5. invitations[i] \in InvitationRow
  BY <1>1, <1>3
<1>6. /\ invitations'[i] \in InvitationRow
      /\ invitations'[i].state = "accepted"
      /\ invitations'[i].email = invitations[i].email
      /\ invitations'[i].role = invitations[i].role
  BY <1>4, <1>5 DEF InvitationRow
<1>7. invitations' \in [InvitationIds -> InvitationRow]
  BY <1>1, <1>3, <1>6
<1>8. RowsOK'
  BY <1>1, <1>4, <1>6 DEF IInv, RowsOK
<1>9. OneMembership'
  BY <1>1 DEF IInv, OneMembership, Live
<1>10. AcceptanceAdmits'
  BY <1>1, <1>2, <1>4, <1>6 DEF IInv, AcceptanceAdmits, Admitted
<1>11. t \in Task /\ TaskOK(t) /\ AcceptOK(t)' /\ DoomedOK(t)'
  <2>1. CASE task[p].unverified
    <3>1. t \in Task /\ TaskOK(t) /\ t.pc = "verify" /\ t.doomed = task[p].doomed
      BY <2>1, <1>t, <1>0, <1>1 DEF Task, TaskOK
    <3>2. t.doomed \subseteq InvitationIds \ {i}
      BY <3>1, <1>0, <1>1 DEF Task
    <3> QED BY <3>1, <3>2, <1>0, <1>4 DEF AcceptOK, DoomedOK
  <2>2. CASE ~task[p].unverified
    BY <2>2, <1>t, NoTaskOK DEF NoTask, AcceptOK, DoomedOK
  <2> QED BY <2>1, <2>2
<1>12. ASSUME NEW q \in Handlers \ {p}, NEW s \in Task, s = task[q]
       PROVE  AcceptOK(s)' /\ DoomedOK(s)'
  <2>1. AcceptOK(s) /\ DoomedOK(s)
    BY <1>12, TaskTyped
  <2>2. s.doomed \subseteq InvitationIds \ {i} /\ s.invitation \in InvitationIds \cup {None}
    BY <1>1, <1>12 DEF Task
  <2>3. AcceptOK(s)'
    BY <2>1, <2>2, <1>1, <1>4, <1>6 DEF AcceptOK, Admitted
  <2>4. DoomedOK(s)'
    BY <2>1, <2>2, <1>4 DEF DoomedOK
  <2> QED BY <2>3, <2>4
<1> QED BY <1>1, <1>7, <1>8, <1>9, <1>10, <1>11, <1>12, TableStep DEF IInv, TypeOK

\* A new row, and the end of those it takes the place of: no request that
\* accepts one of them finds another address on it.
LEMMA CommitStep ==
    ASSUME IInv, NEW p \in Handlers, Commit(p)
    PROVE  IInv'
<1> DEFINE i == CHOOSE j \in FreshInvitations : TRUE
           row == [state |-> "pending", email |-> task[p].user,
                   role |-> task[p].role, expired |-> FALSE]
<1>0. task[p] \in Task /\ TaskOK(task[p]) /\ DoomedOK(task[p])
  BY TaskTyped
<1>t. PICK t : t = [task[p] EXCEPT !.pc = "mail", !.invitation = i, !.doomed = {}]
  OBVIOUS
<1>1. /\ invitations' = [j \in InvitationIds |->
             IF j = i THEN row
             ELSE IF j \in task[p].doomed THEN DeletedInvitation ELSE invitations[j]]
      /\ Continue(p, t)
      /\ UNCHANGED <<members, mailed, verified>>
      /\ task[p].pc = "commit"
  BY <1>t DEF Commit, At
<1>2. i \in InvitationIds /\ invitations[i].state = "none"
  BY DEF Commit, FreshInvitations
<1> HIDE DEF i
<1>3. task[p].user \in Users /\ task[p].role \in InviteRoles
  BY <1>0, <1>1 DEF TaskOK
<1>4. row \in InvitationRow /\ DeletedInvitation \in InvitationRow
  BY <1>3 DEF InvitationRow, DeletedInvitation, NoInvitation
<1>5. DeletedInvitation.state = "deleted"
  BY DEF DeletedInvitation, NoInvitation
<1>6. /\ invitations'[i] = row
      /\ \A j \in InvitationIds \ {i} :
            invitations'[j] = invitations[j] \/ invitations'[j] = DeletedInvitation
  BY <1>1, <1>2
<1>7. invitations' \in [InvitationIds -> InvitationRow]
  BY <1>1, <1>4 DEF IInv, TypeOK
<1>8. RowsOK'
  BY <1>1, <1>3, <1>5, <1>6 DEF IInv, RowsOK
<1>9. OneMembership'
  BY <1>1 DEF IInv, OneMembership, Live
<1>10. AcceptanceAdmits'
  BY <1>1, <1>5, <1>6 DEF IInv, AcceptanceAdmits
<1>11. t \in Task /\ TaskOK(t) /\ AcceptOK(t)' /\ DoomedOK(t)'
  <2>1. t \in Task /\ t.pc = "mail" /\ t.doomed = {} /\ t.invitation = i
    BY <1>t, <1>0, <1>2 DEF Task
  <2> QED BY <2>1, <1>2 DEF TaskOK, AcceptOK, DoomedOK
<1>12. ASSUME NEW q \in Handlers \ {p}, NEW s \in Task, s = task[q]
       PROVE  AcceptOK(s)' /\ DoomedOK(s)'
  <2>1. TaskOK(s) /\ AcceptOK(s) /\ DoomedOK(s)
    BY <1>12, TaskTyped
  <2>2. s.doomed \subseteq InvitationIds /\ s.invitation \in InvitationIds \cup {None}
    BY DEF Task
  <2>3. AcceptOK(s)'
    BY <2>1, <2>2, <1>1, <1>2, <1>5, <1>6 DEF AcceptOK, Admitted
  <2>4. DoomedOK(s)'
    BY <2>1, <2>2, <1>2, <1>5, <1>6 DEF DoomedOK
  <2> QED BY <2>3, <2>4
<1> QED BY <1>1, <1>7, <1>8, <1>9, <1>10, <1>11, <1>12, TableStep DEF IInv, TypeOK

\* An invitation that a request has loaded is deleted.
LEMMA DeleteStep ==
    ASSUME IInv, NEW p \in Handlers, DeleteInvitation(p)
    PROVE  IInv'
<1> DEFINE i == task[p].invitation
<1>0. task[p] \in Task /\ TaskOK(task[p])
  BY TaskTyped
<1>1. /\ invitations' = [invitations EXCEPT ![i] = DeletedInvitation]
      /\ Continue(p, NoTask)
      /\ UNCHANGED <<members, mailed, verified>>
      /\ i \in InvitationIds
  BY <1>0 DEF DeleteInvitation, At, TaskOK
<1>2. DeletedInvitation \in InvitationRow /\ DeletedInvitation.state = "deleted"
  BY DEF InvitationRow, DeletedInvitation, NoInvitation
<1>3. invitations \in [InvitationIds -> InvitationRow]
  BY DEF IInv, TypeOK
<1>4. /\ invitations'[i] = DeletedInvitation
      /\ \A j \in InvitationIds \ {i} : invitations'[j] = invitations[j]
  BY <1>1, <1>3
<1>5. invitations' \in [InvitationIds -> InvitationRow]
  BY <1>1, <1>2, <1>3
<1>6. RowsOK' /\ OneMembership' /\ AcceptanceAdmits'
  BY <1>1, <1>2, <1>4 DEF IInv, RowsOK, OneMembership, AcceptanceAdmits, Live
<1>7. AcceptOK(NoTask)' /\ DoomedOK(NoTask)'
  BY DEF NoTask, AcceptOK, DoomedOK
<1>8. ASSUME NEW q \in Handlers \ {p}, NEW s \in Task, s = task[q]
      PROVE  AcceptOK(s)' /\ DoomedOK(s)'
  <2>1. AcceptOK(s) /\ DoomedOK(s)
    BY <1>8, TaskTyped
  <2>2. s.doomed \subseteq InvitationIds /\ s.invitation \in InvitationIds \cup {None}
    BY DEF Task
  <2>3. AcceptOK(s)'
    BY <2>1, <2>2, <1>1, <1>2, <1>4 DEF AcceptOK, Admitted
  <2>4. DoomedOK(s)'
    BY <2>1, <2>2, <1>2, <1>4 DEF DoomedOK
  <2> QED BY <2>3, <2>4
<1> QED BY <1>1, <1>5, <1>6, <1>7, <1>8, NoTaskOK, TableStep DEF IInv, TypeOK

\* Time runs out for an invitation.
LEMMA ExpireStep ==
    ASSUME IInv, NEW i \in InvitationIds, Expire(i)
    PROVE  IInv'
<1>1. /\ invitations' = [invitations EXCEPT ![i].expired = TRUE]
      /\ UNCHANGED <<members, mailed, verified, task>>
  BY DEF Expire
<1>2. invitations \in [InvitationIds -> InvitationRow]
  BY DEF IInv, TypeOK
<1>3. invitations[i] \in InvitationRow
  BY <1>2
<1>4. [invitations[i] EXCEPT !.expired = TRUE] \in InvitationRow
  BY <1>3 DEF InvitationRow
<1>5. invitations' \in [InvitationIds -> InvitationRow]
  BY <1>1, <1>2, <1>4
<1>6. \A j \in InvitationIds : /\ invitations'[j].state = invitations[j].state
                               /\ invitations'[j].email = invitations[j].email
                               /\ invitations'[j].role = invitations[j].role
  BY <1>1, <1>2, <1>3 DEF InvitationRow
<1>7. TypeOK'
  BY <1>1, <1>5 DEF IInv, TypeOK
<1>8. RowsOK' /\ OneMembership' /\ AcceptanceAdmits'
  BY <1>1, <1>6 DEF IInv, RowsOK, OneMembership, AcceptanceAdmits, Live
<1>9. TasksOK'
  <2> SUFFICES ASSUME NEW q \in Handlers PROVE (AcceptOK(task[q]) /\ DoomedOK(task[q]))'
    BY DEF TasksOK
  <2>1. task[q] \in Task /\ AcceptOK(task[q]) /\ DoomedOK(task[q]) /\ task'[q] = task[q]
    BY <1>1, TaskTyped
  <2>2. /\ task[q].doomed \subseteq InvitationIds
        /\ task[q].invitation \in InvitationIds \cup {None}
    BY <2>1 DEF Task
  <2>3. AcceptOK(task[q])'
    BY <2>1, <2>2, <1>1, <1>6 DEF AcceptOK, Admitted
  <2>4. DoomedOK(task[q])'
    BY <2>1, <2>2, <1>6 DEF DoomedOK
  <2> QED BY <2>3, <2>4
<1> QED BY <1>7, <1>8, <1>9 DEF IInv

\* Every step preserves the invariant.
LEMMA NextIInv == IInv /\ [Next]_vars => IInv'
<1> SUFFICES ASSUME IInv, [Next]_vars PROVE IInv'
  OBVIOUS
<1>1. CASE UNCHANGED vars
  BY <1>1 DEF vars, tables, IInv, TypeOK, RowsOK, OneMembership, AcceptanceAdmits,
              TasksOK, AcceptOK, DoomedOK, Admitted, Live
<1>2. CASE Expiry
  BY <1>2, ExpireStep DEF Expiry
<1>3. ASSUME NEW p \in Handlers, Begin(p) \/ Work(p) \/ Break(p)
      PROVE  IInv'
  BY <1>3, BeginStep, ReadStep, SideStep, InsertStep, WriteStep, MarkStep,
     CommitStep, DeleteStep DEF Work, Break
<1> QED BY <1>1, <1>2, <1>3 DEF Next

\* The inductive invariant holds whatever requests overlap, fail or race.
THEOREM Invariance == Spec => []IInv
BY InitIInv, NextIInv, PTL DEF Spec

-----------------------------------------------------------------------------

\* Both tables and every request keep to their types: the fresh ids, the
\* batches and the rows a transaction is about to delete among them.
THEOREM TypeCorrect == Spec => []TypeOK
<1>1. IInv => TypeOK
  BY DEF IInv
<1> QED BY <1>1, Invariance, PTL

\* However many requests look for a membership and then insert one, no user
\* of the project is a member twice.
THEOREM NobodyJoinsTwice == Spec => []OneMembership
<1>1. IInv => OneMembership
  BY DEF IInv
<1> QED BY <1>1, Invariance, PTL

\* Accept may stop after any of its statements and be repeated: an invitation
\* is spent only on one who is or was a member.
THEOREM SpentInvitationsAdmit == Spec => []AcceptanceAdmits
<1>1. IInv => AcceptanceAdmits
  BY DEF IInv
<1> QED BY <1>1, Invariance, PTL

\* Who changes which table: all other steps leave it alone.
LEMMA BeginLeavesTables ==
    ASSUME NEW p, Begin(p) PROVE UNCHANGED tables
BY DEF Begin, AddMember, Accept, ChangeMember, Invite, Revoke

\* Statements that read, or that find nothing to write, write nothing.
LEMMA ReadersLeaveTables ==
    ASSUME NEW p,
           \/ Find(p) \/ InsertRefused(p) \/ MarkLost(p) \/ Load(p) \/ Count(p)
           \/ WriteLost(p) \/ TakeItem(p) \/ Replace(p) \/ Abort(p)
    PROVE  UNCHANGED tables
BY DEF Find, InsertRefused, MarkLost, Load, Count, WriteLost, TakeItem, Replace, Abort

\* Statements about invitations leave the members as they are,
LEMMA OthersLeaveMembers ==
    ASSUME NEW p,
           Verify(p) \/ Mail(p) \/ ItemFails(p) \/ Mark(p) \/ Commit(p) \/ DeleteInvitation(p)
    PROVE  UNCHANGED members
BY DEF Verify, Mail, ItemFails, Mark, Commit, DeleteInvitation

\* and those about members the invitations.
LEMMA OthersLeaveInvitations ==
    ASSUME NEW p, Verify(p) \/ Mail(p) \/ ItemFails(p) \/ Insert(p) \/ Write(p)
    PROVE  UNCHANGED invitations
BY DEF Verify, Mail, ItemFails, Insert, Write

\* Who writes a membership: the insertion, a change of role, a removal.
LEMMA MemberWriters ==
    ASSUME [Next]_vars, members' # members
    PROVE  \E p \in Handlers : Insert(p) \/ Write(p)
<1>1. ~UNCHANGED vars /\ ~UNCHANGED tables
  BY DEF vars, tables
<1>2. ~Expiry
  BY DEF Expiry, Expire
<1>3. PICK p \in Handlers : Begin(p) \/ Work(p) \/ Break(p)
  BY <1>1, <1>2 DEF Next
<1> QED
  BY <1>1, <1>3, BeginLeavesTables, ReadersLeaveTables, OthersLeaveMembers DEF Work, Break

\* Who writes an invitation: time, an acceptance, a renewal, a withdrawal.
LEMMA InvitationWriters ==
    ASSUME [Next]_vars, invitations' # invitations
    PROVE  \/ Expiry
           \/ \E p \in Handlers : Mark(p) \/ Commit(p) \/ DeleteInvitation(p)
<1>1. ~UNCHANGED vars /\ ~UNCHANGED tables
  BY DEF vars, tables
<1>2. CASE \E p \in Handlers : Begin(p) \/ Work(p) \/ Break(p)
  BY <1>1, <1>2, BeginLeavesTables, ReadersLeaveTables, OthersLeaveInvitations
     DEF Work, Break
<1> QED BY <1>1, <1>2 DEF Next

\* A membership that was removed stays as it is.
LEMMA RemovedStep ==
    ASSUME IInv, [Next]_vars, NEW m \in MemberIds, members[m].state = "deleted"
    PROVE  members'[m] = members[m]
<1>1. members \in [MemberIds -> MemberRow]
  BY DEF IInv, TypeOK
<1>2. ASSUME NEW p \in Handlers, Insert(p) PROVE members'[m] = members[m]
  <2> DEFINE n == CHOOSE k \in FreshMembers : TRUE
  <2>1. members' = [members EXCEPT ![n] = members'[n]] /\ n \in FreshMembers
    BY <1>1, <1>2 DEF Insert, FreshMembers
  <2>2. n # m
    BY <2>1 DEF FreshMembers
  <2> HIDE DEF n
  <2> QED BY <2>1, <2>2, <1>1
<1>3. ASSUME NEW p \in Handlers, Write(p) PROVE members'[m] = members[m]
  BY <1>1, <1>3 DEF Write, Live
<1> QED BY <1>2, <1>3, MemberWriters

\* No request, whatever it read before, gives a removed membership back.
THEOREM RemovedMembersStayRemoved == Spec => RemovedStayRemoved
<1>1. IInv /\ [Next]_vars =>
        [\A m \in MemberIds : members[m].state = "deleted" => members'[m] = members[m]]_vars
  BY RemovedStep
<1> QED BY <1>1, Invariance, PTL DEF Spec, RemovedStayRemoved

\* Only a withdrawal takes an accepted invitation away.
LEMMA AcceptedStep ==
    ASSUME IInv, [Next]_vars, NEW i \in InvitationIds,
           invitations[i].state = "accepted", invitations'[i].state # "accepted"
    PROVE  \E p \in Handlers : At(p, "revoke") /\ task[p].invitation = i
<1>1. invitations \in [InvitationIds -> InvitationRow]
  BY DEF IInv, TypeOK
<1>2. ~Expiry
  <2> SUFFICES ASSUME NEW j \in InvitationIds, Expire(j) PROVE FALSE
    BY DEF Expiry
  <2>1. j # i
    BY DEF Expire, Active, Pending
  <2> QED BY <2>1, <1>1 DEF Expire
<1>3. ASSUME NEW p \in Handlers, Mark(p) PROVE FALSE
  <2> DEFINE j == task[p].invitation
  <2>1. invitations' = [invitations EXCEPT ![j].state = "accepted"]
    BY <1>3 DEF Mark
  <2>2. invitations[i] \in InvitationRow
    BY <1>1
  <2>3. CASE j = i
    BY <2>1, <2>2, <2>3, <1>1 DEF InvitationRow
  <2>4. CASE j # i
    BY <2>1, <2>4, <1>1
  <2> QED BY <2>3, <2>4
<1>4. ASSUME NEW p \in Handlers, Commit(p) PROVE FALSE
  <2> DEFINE k == CHOOSE j \in FreshInvitations : TRUE
  <2>1. k \in FreshInvitations
    BY <1>4 DEF Commit
  <2>2. invitations'[i] = IF i \in task[p].doomed THEN DeletedInvitation ELSE invitations[i]
    BY <1>4, <2>1 DEF Commit, FreshInvitations
  <2>3. i \notin task[p].doomed
    BY TaskTyped DEF DoomedOK
  <2> QED BY <2>2, <2>3
<1>5. ASSUME NEW p \in Handlers, DeleteInvitation(p)
      PROVE  At(p, "revoke") /\ task[p].invitation = i
  BY <1>1, <1>5 DEF DeleteInvitation
<1> QED BY <1>2, <1>3, <1>4, <1>5, InvitationWriters

\* An acceptance waits for a renewal that is about to delete its row, and a
\* renewal spares what is accepted: only a request to delete an accepted
\* invitation removes it.
THEOREM AcceptedInvitationsStay == Spec => AcceptedStay
<1>1. IInv /\ [Next]_vars =>
        [\A i \in InvitationIds :
            invitations[i].state = "accepted" /\ invitations'[i].state # "accepted"
                => \E p \in Handlers : At(p, "revoke") /\ task[p].invitation = i]_vars
  BY AcceptedStep
<1> QED BY <1>1, Invariance, PTL DEF Spec, AcceptedStay

-----------------------------------------------------------------------------

\* An owner about to be changed is not the last one.
SafeWrite(t) ==
    t.pc = "write" /\ t.member \in Owners => \E o \in Owners : o # t.member

SerialInv ==
    /\ IInv
    /\ OwnersRemain
    /\ \A p, q \in Handlers : task[p] # NoTask /\ task[q] # NoTask => p = q
    /\ \A p \in Handlers : SafeWrite(task[p])

\* At first no request is under way, and the creator owns the project.
LEMMA InitSerialInv == Init => SerialInv
<1> SUFFICES ASSUME Init PROVE SerialInv
  OBVIOUS
<1> DEFINE m0 == CHOOSE n \in MemberIds : TRUE
<1>1. m0 \in MemberIds
  OBVIOUS
<1>2. members[m0] = [state |-> "live", user |-> Creator, role |-> "owner", via |-> None]
  BY <1>1 DEF Init
<1> HIDE DEF m0
<1>3. OwnersRemain
  BY <1>1, <1>2 DEF OwnersRemain, Owners, Live
<1>4. \A p \in Handlers : task[p] = NoTask
  BY DEF Init
<1>5. \A p \in Handlers : SafeWrite(task[p])
  BY <1>4 DEF SafeWrite, NoTask
<1> QED BY <1>3, <1>4, <1>5, InitIInv DEF SerialInv

\* Between two counts nobody else writes: counted owners are there still.
LEMMA CountedOwners ==
    ASSUME ~(Cardinality(Owners) <= 1), NEW m \in Owners
    PROVE  \E o \in Owners : o # m
<1> SUFFICES ASSUME \A o \in Owners : o = m PROVE FALSE
  OBVIOUS
<1>1. Owners = {m}
  OBVIOUS
<1>2. Cardinality(Owners) = 1
  BY <1>1, FS_Singleton
<1> QED BY <1>2

\* Requests that do not overlap preserve it, as none has written since another counted.
LEMMA SerialStep == SerialInv /\ [SerialNext]_vars => SerialInv'
<1> SUFFICES ASSUME SerialInv, [SerialNext]_vars PROVE SerialInv'
  OBVIOUS
<1>0. IInv'
  BY NextIInv DEF SerialInv, SerialNext, Next
<1>t. task \in [Handlers -> Task] /\ members \in [MemberIds -> MemberRow]
  BY DEF SerialInv, IInv, TypeOK
<1>1. CASE UNCHANGED vars \/ Expiry
  <2>1. UNCHANGED <<members, task>>
    BY <1>1 DEF vars, tables, Expiry, Expire
  <2> QED BY <2>1, <1>0 DEF SerialInv, OwnersRemain, Owners, Live, SafeWrite
<1>2. ASSUME NEW p \in Handlers, (Settled /\ Begin(p)) \/ Work(p)
      PROVE  SerialInv'
  <2>1. \A q \in Handlers \ {p} : task[q] = NoTask
    <3>1. CASE Settled
      BY <3>1 DEF Settled
    <3>2. CASE Work(p)
      <4>1. ~At(p, "idle")
        BY <3>2 DEF Work, Find, Insert, InsertRefused, Mark, MarkLost, Verify, Load, Count,
           Write, WriteLost, TakeItem, Replace, Commit, Mail, DeleteInvitation, At
      <4>2. task[p] # NoTask
        BY <4>1 DEF At, NoTask
      <4> QED BY <4>2 DEF SerialInv
    <3> QED BY <3>1, <3>2, <1>2
  <2>2. \E t : Continue(p, t)
    BY <1>2 DEF Begin, AddMember, ChangeMember, Invite, Revoke, Accept,
       Work, Find, Insert, InsertRefused, Mark, MarkLost, Verify,
       Load, Count, Write, WriteLost, TakeItem, Replace, Commit, Mail, DeleteInvitation
  <2>3. \A q \in Handlers \ {p} : task'[q] = NoTask
    BY <2>1, <2>2, <1>t DEF Continue
  <2>4. \A q, r \in Handlers : task'[q] # NoTask /\ task'[r] # NoTask => q = r
    BY <2>3
  <2>5. \A q \in Handlers \ {p} : SafeWrite(task[q])'
    BY <2>3 DEF SafeWrite, NoTask
  <2>6. OwnersRemain' /\ SafeWrite(task[p])'
    <3>0. task[p] \in Task /\ TaskOK(task[p])
      BY TaskTyped DEF SerialInv
    <3>1. CASE Insert(p)
      <4> DEFINE n == CHOOSE k \in FreshMembers : TRUE
      <4>1. /\ n \in FreshMembers
            /\ \A k \in MemberIds \ {n} : members'[k] = members[k]
        BY <3>1, <1>t DEF Insert
      <4>2. n \notin Owners
        BY <4>1 DEF FreshMembers, Owners, Live
      <4> HIDE DEF n
      <4>3. Owners \subseteq Owners'
        BY <4>1, <4>2 DEF Owners, Live
      <4>4. task'[p].pc # "write"
        BY <3>0, <3>1, <1>t DEF Insert, Continue, Task, NoTask
      <4> QED BY <4>3, <4>4 DEF SerialInv, OwnersRemain, SafeWrite
    <3>2. CASE Write(p)
      <4> DEFINE m == task[p].member
      <4>1. m \in MemberIds /\ \A k \in MemberIds \ {m} : members'[k] = members[k]
        BY <3>0, <3>2, <1>t DEF Write, At, TaskOK
      <4>2. PICK o \in Owners : m \in Owners => o # m
        BY <3>2 DEF Write, At, SerialInv, OwnersRemain, SafeWrite
      <4>3. o \in Owners'
        BY <4>1, <4>2 DEF Owners, Live
      <4>4. task'[p] = NoTask
        BY <3>2, <1>t DEF Write, Continue
      <4> QED BY <4>3, <4>4 DEF OwnersRemain, SafeWrite, NoTask
    <3>3. CASE Load(p)
      <4>1. members' = members
        BY <3>3 DEF Load, tables
      <4>2. OwnersRemain'
        BY <4>1 DEF SerialInv, OwnersRemain, Owners, Live
      <4>3. \/ task'[p] = NoTask
            \/ task'[p] = [task[p] EXCEPT !.pc = "count"]
            \/ /\ task'[p] = [task[p] EXCEPT !.pc = "write"]
               /\ members[task[p].member].role # "owner"
        BY <3>3, <1>t DEF Load, Continue
      <4>4. \/ task'[p].pc # "write"
            \/ /\ task'[p].member = task[p].member
               /\ members'[task'[p].member].role # "owner"
        BY <4>1, <4>3, <3>0 DEF Task, NoTask
      <4> QED BY <4>2, <4>4 DEF SafeWrite, Owners
    <3>4. CASE Count(p)
      <4>1. members' = members /\ Owners' = Owners
        BY <3>4 DEF Count, tables, Owners, Live
      <4>2. OwnersRemain'
        BY <4>1 DEF SerialInv, OwnersRemain
      <4>3. \/ task'[p] = NoTask
            \/ /\ task'[p] = [task[p] EXCEPT !.pc = "write"]
               /\ ~(Cardinality(Owners) <= 1)
        BY <3>4, <1>t DEF Count, Continue
      <4>4. \/ task'[p].pc # "write"
            \/ task'[p].member \in Owners => \E o \in Owners : o # task'[p].member
        BY <4>3, CountedOwners DEF NoTask
      <4> QED BY <4>1, <4>2, <4>4 DEF SafeWrite
    <3>5. CASE Begin(p)
      <4>1. members' = members
        BY <3>5, BeginLeavesTables DEF tables
      <4>2. OwnersRemain'
        BY <4>1 DEF SerialInv, OwnersRemain, Owners, Live
      <4>3. task'[p].pc # "write"
        <5>1. ASSUME NEW actor, NEW u, NEW role, AddMember(p, actor, u, role)
              PROVE  task'[p].pc # "write"
          BY <5>1, <1>t DEF AddMember, Continue, NoTask
        <5>2. ASSUME NEW actor, NEW m, NEW role, ChangeMember(p, actor, m, role)
              PROVE  task'[p].pc # "write"
          BY <5>2, <1>t DEF ChangeMember, Continue, NoTask
        <5>3. ASSUME NEW actor, NEW batch, Invite(p, actor, batch)
              PROVE  task'[p].pc # "write"
          BY <5>3, <1>t DEF Invite, Continue, NoTask
        <5>4. ASSUME NEW actor, NEW i, Revoke(p, actor, i)
              PROVE  task'[p].pc # "write"
          BY <5>4, <1>t DEF Revoke, Continue, NoTask
        <5>5. ASSUME NEW u, NEW i, Accept(p, u, i)
              PROVE  task'[p].pc # "write"
          BY <5>5, <1>t DEF Accept, Continue, NoTask
        <5> QED BY <3>5, <5>1, <5>2, <5>3, <5>4, <5>5 DEF Begin
      <4> QED BY <4>2, <4>3 DEF SafeWrite
    <3>6. CASE \/ Find(p) \/ InsertRefused(p) \/ Mark(p) \/ MarkLost(p) \/ Verify(p)
               \/ WriteLost(p) \/ TakeItem(p) \/ Replace(p) \/ Commit(p) \/ Mail(p)
               \/ DeleteInvitation(p)
      <4>1. members' = members
        BY <3>6, ReadersLeaveTables, OthersLeaveMembers DEF tables
      <4>2. OwnersRemain'
        BY <4>1 DEF SerialInv, OwnersRemain, Owners, Live
      <4>3. task'[p].pc # "write"
        <5>1. CASE \/ InsertRefused(p) \/ MarkLost(p) \/ Verify(p) \/ WriteLost(p)
                   \/ DeleteInvitation(p)
          BY <5>1, <1>t DEF InsertRefused, MarkLost, Verify, WriteLost,
                            DeleteInvitation, Continue, NoTask
        <5>2. CASE Find(p) \/ Mark(p)
          BY <5>2, <1>t, <3>0 DEF Find, Mark, Continue, Task, NoTask
        <5>3. CASE TakeItem(p) \/ Replace(p) \/ Commit(p) \/ Mail(p)
          <6>1. \A t : NextItem(t).pc # "write"
            BY DEF NextItem, NoTask
          <6>2. CASE Mail(p)
            BY <6>1, <6>2, <1>t DEF Mail, Continue
          <6>3. CASE TakeItem(p)
            <7>0. PICK item \in task[p].todo : \E t :
                     /\ t = [task[p] EXCEPT !.todo = @ \ {item}]
                     /\ \/ Continue(p, NextItem(t))
                        \/ Continue(p, [t EXCEPT !.pc = "replace", !.user = item[1],
                                                 !.role = item[2]])
              BY <6>3 DEF TakeItem
            <7>1. PICK t :
                     /\ t = [task[p] EXCEPT !.todo = @ \ {item}]
                     /\ \/ Continue(p, NextItem(t))
                        \/ Continue(p, [t EXCEPT !.pc = "replace", !.user = item[1],
                                                 !.role = item[2]])
              BY <7>0
            <7>2. t \in Task
              BY <7>1, <3>0 DEF Task
            <7>3. CASE Continue(p, NextItem(t))
              BY <6>1, <7>3, <1>t DEF Continue
            <7>4. CASE Continue(p, [t EXCEPT !.pc = "replace", !.user = item[1],
                                             !.role = item[2]])
              BY <7>2, <7>4, <1>t DEF Continue, Task
            <7> QED BY <7>1, <7>3, <7>4
          <6>4. CASE Replace(p)
            <7>1. PICK rows : Continue(p, [task[p] EXCEPT !.pc = "commit", !.doomed = rows])
              BY <6>4 DEF Replace
            <7> QED BY <7>1, <1>t, <3>0 DEF Continue, Task
          <6>5. CASE Commit(p)
            <7>1. PICK i : Continue(p, [task[p] EXCEPT !.pc = "mail", !.invitation = i,
                                                       !.doomed = {}])
              BY <6>5 DEF Commit
            <7> QED BY <7>1, <1>t, <3>0 DEF Continue, Task
          <6> QED BY <5>3, <6>2, <6>3, <6>4, <6>5
        <5> QED BY <3>6, <5>1, <5>2, <5>3
      <4> QED BY <4>2, <4>3 DEF SafeWrite
    <3> QED BY <3>1, <3>2, <3>3, <3>4, <3>5, <3>6, <1>2 DEF Work
  <2> QED BY <1>0, <2>4, <2>5, <2>6 DEF SerialInv
<1> QED BY <1>1, <1>2 DEF SerialNext

\* While requests are served one after the other, a project keeps an owner:
\* the count that precedes a change still holds when the change is written.
THEOREM OwnersRemainInTurn == SerialSpec => []OwnersRemain
<1>1. SerialInv => OwnersRemain
  BY DEF SerialInv
<1> QED BY <1>1, InitSerialInv, SerialStep, PTL DEF SerialSpec
=============================================================================
