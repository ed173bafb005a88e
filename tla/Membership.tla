----------------------------- MODULE Membership -----------------------------
(***************************************************************************)
(* The members of a project and the invitations to it.  Owners add, change *)
(* and remove members and invite others by mail; who has an invitation's   *)
(* token joins with it.  Every request reads the tables, decides, and      *)
(* writes, in statements of their own, so that requests overlap; only the  *)
(* replacement of pending invitations is a transaction of two statements.  *)
(***************************************************************************)
EXTENDS Naturals, FiniteSets

CONSTANTS
    Users,         \* with an account each; a user stands for its address too
    Creator,       \* the user who created the project
    MemberIds,     \* the ids project_members rows are given
    InvitationIds, \* the ids project_invitations rows are given
    Handlers,      \* goroutines that serve requests
    InviteRoles,   \* the roles one can be invited to: "admin" and "viewer"
    RowPolicies,   \* BOOLEAN: the database role is subject to row policies
    None

ASSUME MembershipAssumption ==
    /\ Creator \in Users
    /\ RowPolicies \in BOOLEAN
    /\ None \notin Users \cup MemberIds \cup InvitationIds
    /\ InviteRoles \cap {"owner", "gone", None} = {}
    /\ MemberIds # {}

VARIABLES
    members,     \* [MemberIds -> MemberRow]: app.project_members
    invitations, \* [InvitationIds -> InvitationRow]: app.project_invitations
    mailed,      \* SUBSET InvitationIds: those whose token was mailed
    verified,    \* SUBSET Users: auth.users.email_verified
    task         \* [Handlers -> Task]: the request being handled

tables == <<members, invitations, mailed, verified>>
vars == <<tables, task>>

Roles == {"owner"} \cup InviteRoles

\* "none" is a row not yet inserted; "deleted" rows are kept so that
\* histories can be stated, of an invitation only that it was deleted.  via
\* is the invitation the member came with.
MemberRow == [state : {"none", "live", "deleted"}, user : Users \cup {None},
              role : Roles \cup {None}, via : InvitationIds \cup {None}]

InvitationRow == [state : {"none", "pending", "accepted", "deleted"},
                  email : Users \cup {None}, role : InviteRoles \cup {None},
                  expired : BOOLEAN]

NoMember == [state |-> "none", user |-> None, role |-> None, via |-> None]
NoInvitation == [state |-> "none", email |-> None, role |-> None, expired |-> FALSE]
DeletedInvitation == [NoInvitation EXCEPT !.state = "deleted"]

\* A task names the statement its handler executes next.  A request to
\* remove a member is one to give it the role "gone".
Task == [pc         : {"idle", "find", "insert", "mark", "verify", "load", "count",
                       "write", "items", "replace", "commit", "mail", "revoke"},
         actor      : Users \cup {None},
         user       : Users \cup {None},
         role       : Roles \cup {"gone", None},
         member     : MemberIds \cup {None},
         invitation : InvitationIds \cup {None},
         unverified : BOOLEAN,
         todo       : SUBSET (Users \X InviteRoles),
         doomed     : SUBSET InvitationIds]

NoTask == [pc |-> "idle", actor |-> None, user |-> None, role |-> None,
           member |-> None, invitation |-> None, unverified |-> FALSE,
           todo |-> {}, doomed |-> {}]

\* What the statement a task is at needs of it.
TaskOK(t) ==
    /\ t.pc \in {"find", "insert"} => t.user \in Users /\ t.role \in Roles
    /\ t.pc \in {"mark", "verify"} => t.user \in Users
    /\ t.pc \in {"mark", "mail", "revoke"} => t.invitation \in InvitationIds
    /\ t.pc \in {"load", "count", "write"} =>
         t.member \in MemberIds /\ t.role \in Roles \cup {"gone"}
    /\ t.pc \in {"replace", "commit"} => t.user \in Users /\ t.role \in InviteRoles

TypeOK ==
    /\ members \in [MemberIds -> MemberRow]
    /\ invitations \in [InvitationIds -> InvitationRow]
    /\ mailed \subseteq InvitationIds
    /\ verified \subseteq Users
    /\ task \in [Handlers -> Task]
    /\ \A p \in Handlers : TaskOK(task[p])

\* CreateWithOwner, one transaction.
Init ==
    /\ members = [m \in MemberIds |->
                    IF m = CHOOSE n \in MemberIds : TRUE
                    THEN [state |-> "live", user |-> Creator,
                          role |-> "owner", via |-> None]
                    ELSE NoMember]
    /\ invitations = [i \in InvitationIds |-> NoInvitation]
    /\ mailed = {}
    /\ verified = {Creator}
    /\ task = [p \in Handlers |-> NoTask]

-----------------------------------------------------------------------------

At(p, pc) == task[p].pc = pc
Continue(p, t) == task' = [task EXCEPT ![p] = t]

Live(m) == members[m].state = "live"
Owners == {m \in MemberIds : Live(m) /\ members[m].role = "owner"}
IsOwner(u) == \E m \in Owners : members[m].user = u
IsMember(u) == \E m \in MemberIds : Live(m) /\ members[m].user = u

\* What row policies leave of another's rows to the user of a request.
Sees(u) == RowPolicies => IsMember(u)
May(u) == RowPolicies => IsOwner(u)

Pending(i) == invitations[i].state = "pending"
Active(i) == Pending(i) /\ ~invitations[i].expired

\* Opaque random ids: which of the unused ones makes no difference.
FreshMembers == {m \in MemberIds : members[m].state = "none"}
FreshInvitations == {i \in InvitationIds : invitations[i].state = "none"}

\* Rows an open transaction has deleted: other writers wait for its end.
Locked(i) == \E p \in Handlers : i \in task[p].doomed

-----------------------------------------------------------------------------
(* ProjectMemberService.Create and ProjectInvitationService.Accept.        *)

\* RequireProjectPermission lets an owner's request pass.
AddMember(p, actor, u, role) ==
    /\ At(p, "idle")
    /\ IsOwner(actor)
    /\ Continue(p, [NoTask EXCEPT !.pc = "find", !.actor = actor,
                                  !.user = u, !.role = role])
    /\ UNCHANGED tables

\* getValidInvitationByToken, for a user who was mailed the token, and the
\* comparison of addresses.
Accept(p, u, i) ==
    /\ At(p, "idle")
    /\ i \in mailed /\ Active(i) /\ invitations[i].email = u
    /\ Continue(p, [NoTask EXCEPT !.pc = "find", !.user = u,
                       !.role = invitations[i].role, !.invitation = i,
                       !.unverified = u \notin verified])
    /\ UNCHANGED tables

\* The invitation is marked before the membership is made.
FindLater(p) ==
    /\ At(p, "find")
    /\ Continue(p, IF task[p].invitation # None THEN [task[p] EXCEPT !.pc = "mark"]
                   ELSE IF IsMember(task[p].user) THEN NoTask
                   ELSE [task[p] EXCEPT !.pc = "insert"])
    /\ UNCHANGED tables

\* GetByProjectAndUser: an invited user may be a member already, an added
\* one may not.
Find(p) ==
    /\ At(p, "find")
    /\ Continue(p, IF ~IsMember(task[p].user) THEN [task[p] EXCEPT !.pc = "insert"]
                   ELSE IF task[p].invitation # None THEN [task[p] EXCEPT !.pc = "mark"]
                   ELSE NoTask)
    /\ UNCHANGED tables

\* Without the constraint.
InsertableTwice(t) == t.invitation # None \/ May(t.actor)

\* The unique constraint, and the policy, from which Accept is exempt.
Insertable(t) == ~IsMember(t.user) /\ (t.invitation # None \/ May(t.actor))

Insert(p) ==
    /\ At(p, "insert") /\ Insertable(task[p])
    /\ FreshMembers # {}
    /\ LET m == CHOOSE n \in FreshMembers : TRUE IN
         members' = [members EXCEPT ![m] =
            [state |-> "live", user |-> task[p].user, role |-> task[p].role,
             via |-> task[p].invitation]]
    /\ Continue(p, IF task[p].invitation # None THEN [task[p] EXCEPT !.pc = "mark"]
                   ELSE NoTask)
    /\ UNCHANGED <<invitations, mailed, verified>>

\* The statement fails, and the request with it.
InsertRefused(p) ==
    /\ At(p, "insert") /\ ~Insertable(task[p])
    /\ Continue(p, NoTask)
    /\ UNCHANGED tables

\* MarkAccepted, of any row there is.
Mark(p) ==
    /\ At(p, "mark")
    /\ LET i == task[p].invitation IN
         /\ invitations[i].state \in {"pending", "accepted"} /\ ~Locked(i)
         /\ invitations' = [invitations EXCEPT ![i].state = "accepted"]
    /\ Continue(p, IF task[p].unverified THEN [task[p] EXCEPT !.pc = "verify"]
                   ELSE NoTask)
    /\ UNCHANGED <<members, mailed, verified>>

\* It is gone: an error, after the membership was made.
MarkLost(p) ==
    /\ At(p, "mark")
    /\ invitations[task[p].invitation].state = "deleted"
    /\ Continue(p, NoTask)
    /\ UNCHANGED tables

\* MarkEmailVerifiedByID.
Verify(p) ==
    /\ At(p, "verify")
    /\ verified' = verified \cup {task[p].user}
    /\ Continue(p, NoTask)
    /\ UNCHANGED <<members, invitations, mailed>>

-----------------------------------------------------------------------------
(* ProjectMemberService.UpdateRole and Delete.                             *)

ChangeMember(p, actor, m, role) ==
    /\ At(p, "idle")
    /\ IsOwner(actor) /\ Live(m)
    /\ Continue(p, [NoTask EXCEPT !.pc = "load", !.actor = actor,
                                  !.member = m, !.role = role])
    /\ UNCHANGED tables

\* GetByID; to change an owner, the owners are to be counted.
Load(p) ==
    /\ At(p, "load")
    /\ LET m == task[p].member IN
         Continue(p, IF ~Live(m) \/ ~Sees(task[p].actor)
                         \/ members[m].role = task[p].role THEN NoTask
                     ELSE IF members[m].role = "owner"
                     THEN [task[p] EXCEPT !.pc = "count"]
                     ELSE [task[p] EXCEPT !.pc = "write"])
    /\ UNCHANGED tables

\* CountOwners, then ErrCannotRemoveLastProjectOwner.
Count(p) ==
    /\ At(p, "count")
    /\ Continue(p, IF Cardinality(Owners) <= 1 \/ ~Sees(task[p].actor) THEN NoTask
                   ELSE [task[p] EXCEPT !.pc = "write"])
    /\ UNCHANGED tables

\* A removed member gets its role, and so its place, back.
WriteAnyway(p) ==
    /\ At(p, "write") /\ May(task[p].actor)
    /\ LET m == task[p].member IN
         members' = [members EXCEPT ![m] =
            IF task[p].role = "gone" THEN [@ EXCEPT !.state = "deleted"]
            ELSE [@ EXCEPT !.state = "live", !.role = task[p].role]]
    /\ Continue(p, NoTask)
    /\ UNCHANGED <<invitations, mailed, verified>>

\* UpdateProjectMemberRole and DeleteProjectMemberByID.
Write(p) ==
    /\ At(p, "write") /\ Live(task[p].member) /\ May(task[p].actor)
    /\ LET m == task[p].member IN
         members' = [members EXCEPT ![m] =
            IF task[p].role = "gone" THEN [@ EXCEPT !.state = "deleted"]
            ELSE [@ EXCEPT !.role = task[p].role]]
    /\ Continue(p, NoTask)
    /\ UNCHANGED <<invitations, mailed, verified>>

\* No row matches: it is gone, or a policy hides it.
WriteLost(p) ==
    /\ At(p, "write")
    /\ ~Live(task[p].member) \/ ~May(task[p].actor)
    /\ Continue(p, NoTask)
    /\ UNCHANGED tables

-----------------------------------------------------------------------------
(* ProjectInvitationService.CreateMany and Delete.                         *)

\* An address that occurs a second time in a batch is skipped.
Batches == {b \in SUBSET (Users \X InviteRoles) : b # {}
                /\ \A x, y \in b : x[1] = y[1] => x = y}

NextItem(t) ==
    IF t.todo = {} THEN NoTask
    ELSE [NoTask EXCEPT !.pc = "items", !.todo = t.todo]

Invite(p, actor, batch) ==
    /\ At(p, "idle")
    /\ IsOwner(actor)
    /\ Continue(p, [NoTask EXCEPT !.pc = "items", !.todo = batch])
    /\ UNCHANGED tables

\* Without `expires_at > now`.
TakeItemStale(p) ==
    /\ At(p, "items")
    /\ \E item \in task[p].todo :
          LET t == [task[p] EXCEPT !.todo = @ \ {item}] IN
          Continue(p, IF \E i \in InvitationIds : Pending(i) /\ invitations[i].email = item[1]
                      THEN NextItem(t)
                      ELSE [t EXCEPT !.pc = "replace", !.user = item[1], !.role = item[2]])
    /\ UNCHANGED tables

\* GetActiveByProjectAndEmail: who is invited already is skipped.
TakeItem(p) ==
    /\ At(p, "items")
    /\ \E item \in task[p].todo :
          LET t == [task[p] EXCEPT !.todo = @ \ {item}] IN
          Continue(p, IF \E i \in InvitationIds : Active(i) /\ invitations[i].email = item[1]
                      THEN NextItem(t)
                      ELSE [t EXCEPT !.pc = "replace", !.user = item[1], !.role = item[2]])
    /\ UNCHANGED tables

\* Without `accepted_at IS NULL`.
ReplaceAll(p) ==
    /\ At(p, "replace")
    /\ Continue(p, [task[p] EXCEPT !.pc = "commit", !.doomed =
          {i \in InvitationIds : /\ invitations[i].state \in {"pending", "accepted"}
                                 /\ invitations[i].email = task[p].user}])
    /\ UNCHANGED tables

\* CreateReplacingPending: its first statement deletes the pending rows it
\* sees, among them none an overlapping transaction is about to insert ...
Replace(p) ==
    /\ At(p, "replace")
    /\ Continue(p, [task[p] EXCEPT !.pc = "commit", !.doomed =
          {i \in InvitationIds : Pending(i) /\ invitations[i].email = task[p].user}])
    /\ UNCHANGED tables

\* ... and its second inserts one, and commits both.
Commit(p) ==
    /\ At(p, "commit")
    /\ FreshInvitations # {}
    /\ LET i == CHOOSE j \in FreshInvitations : TRUE IN
         /\ invitations' = [j \in InvitationIds |->
               IF j = i THEN [state |-> "pending", email |-> task[p].user,
                              role |-> task[p].role, expired |-> FALSE]
               ELSE IF j \in task[p].doomed THEN DeletedInvitation
               ELSE invitations[j]]
         /\ Continue(p, [task[p] EXCEPT !.pc = "mail", !.invitation = i, !.doomed = {}])
    /\ UNCHANGED <<members, mailed, verified>>

\* SendProjectInvite.
Mail(p) ==
    /\ At(p, "mail")
    /\ mailed' = mailed \cup {task[p].invitation}
    /\ Continue(p, NextItem(task[p]))
    /\ UNCHANGED <<members, invitations, verified>>

\* An error in one item is noted, and the loop goes on; mail that is
\* reported as failed may have been sent.
ItemFails(p) ==
    /\ task[p].pc \in {"replace", "commit", "mail"}
    /\ Continue(p, NextItem(task[p]))
    /\ \/ mailed' = mailed
       \/ At(p, "mail") /\ mailed' = mailed \cup {task[p].invitation}
    /\ UNCHANGED <<members, invitations, verified>>

\* The request to delete an invitation, ...
Revoke(p, actor, i) ==
    /\ At(p, "idle")
    /\ IsOwner(actor) /\ invitations[i].state \in {"pending", "accepted"}
    /\ Continue(p, [NoTask EXCEPT !.pc = "revoke", !.invitation = i])
    /\ UNCHANGED tables

\* ... and DeleteProjectInvitationByID, if it is still there.
DeleteInvitation(p) ==
    /\ At(p, "revoke") /\ ~Locked(task[p].invitation)
    /\ invitations' = [invitations EXCEPT ![task[p].invitation] = DeletedInvitation]
    /\ Continue(p, NoTask)
    /\ UNCHANGED <<members, mailed, verified>>

\* Seven days pass.
Expire(i) ==
    /\ Active(i)
    /\ invitations' = [invitations EXCEPT ![i].expired = TRUE]
    /\ UNCHANGED <<members, mailed, verified, task>>

-----------------------------------------------------------------------------

\* A statement fails or the request is cut short; an open transaction is
\* rolled back.
Abort(p) ==
    /\ ~At(p, "idle")
    /\ Continue(p, NoTask)
    /\ UNCHANGED tables

Begin(p) ==
    \/ \E actor \in Users :
          \/ \E u \in Users, role \in Roles : AddMember(p, actor, u, role)
          \/ \E m \in MemberIds, role \in Roles \cup {"gone"} :
                ChangeMember(p, actor, m, role)
          \/ \E batch \in Batches : Invite(p, actor, batch)
          \/ \E i \in InvitationIds : Revoke(p, actor, i)
    \/ \E u \in Users, i \in InvitationIds : Accept(p, u, i)

Work(p) ==
    \/ Find(p) \/ Insert(p) \/ InsertRefused(p) \/ Mark(p) \/ MarkLost(p) \/ Verify(p)
    \/ Load(p) \/ Count(p) \/ Write(p) \/ WriteLost(p)
    \/ TakeItem(p) \/ Replace(p) \/ Commit(p) \/ Mail(p) \/ DeleteInvitation(p)

Break(p) == Abort(p) \/ ItemFails(p)

Expiry == \E i \in InvitationIds : Expire(i)

Next == Expiry \/ \E p \in Handlers : Begin(p) \/ Work(p) \/ Break(p)

Spec == Init /\ [][Next]_vars

Settled == \A p \in Handlers : task[p] = NoTask

\* Requests one after the other.
SerialNext == Expiry \/ \E p \in Handlers : (Settled /\ Begin(p)) \/ Work(p)

SerialSpec == Init /\ [][SerialNext]_vars

-----------------------------------------------------------------------------

\* No user is a member twice, although both ways to become one look first
\* and insert later.
OneMembership ==
    \A m, n \in MemberIds :
        Live(m) /\ Live(n) /\ members[m].user = members[n].user => m = n

\* Accept fails between its statements, is tried again, races with itself
\* and with the owners: an invitation is spent only on one who became a
\* member by it or was one before.
AcceptanceAdmits ==
    \A i \in InvitationIds : invitations[i].state = "accepted" =>
        \E m \in MemberIds : members[m].user = invitations[i].email

\* A membership that was removed does not come back by a request that read
\* it before.
RemovedStayRemoved ==
    [][\A m \in MemberIds : members[m].state = "deleted" => members'[m] = members[m]]_vars

\* An accepted invitation leaves the table only by a request to delete it,
\* never by a new invitation for the address that raced with the acceptance.
AcceptedStay ==
    [][\A i \in InvitationIds :
          invitations[i].state = "accepted" /\ invitations'[i].state # "accepted"
              => \E p \in Handlers : At(p, "revoke") /\ task[p].invitation = i]_vars

\* A project is never left without an owner, whatever owners ask for.
OwnersRemain == Owners # {}

\* A new invitation takes the place of the one it renews.
OnePendingInvitation ==
    \A i, j \in InvitationIds :
        Pending(i) /\ Pending(j) /\ invitations[i].email = invitations[j].email => i = j

\* An invitation makes one membership: whoever is removed does not come back
\* with the token.
AdmittedOnce ==
    \A m, n \in MemberIds :
        members[m].via # None /\ members[m].via = members[n].via => m = n
=============================================================================
