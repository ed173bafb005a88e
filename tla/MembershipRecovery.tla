------------------------- MODULE MembershipRecovery -------------------------
(***************************************************************************)
(* Membership as its users keep at it: the creator invites again whom is   *)
(* not a member yet, and who is invited follows the link again until let   *)
(* in.  Of everything that can go wrong on the way there is a bounded      *)
(* number.                                                                 *)
(***************************************************************************)
EXTENDS Membership

CONSTANT MaxUpsets \* bound on errors, withdrawals, removals and the like

ASSUME UpsetsAssumption == MaxUpsets \in Nat

VARIABLE upsets \* 0 .. MaxUpsets: how many are still to come

recoveryVars == <<vars, upsets>>

RecoveryInit == Init /\ upsets = MaxUpsets

Guests == Users \ {Creator}

Reinvite(u) ==
    /\ ~IsMember(u)
    /\ \E p \in Handlers, role \in InviteRoles : Invite(p, Creator, {<<u, role>>})
    /\ UNCHANGED upsets

Join(u) ==
    /\ ~IsMember(u)
    /\ \E p \in Handlers, i \in InvitationIds : Accept(p, u, i)
    /\ UNCHANGED upsets

Proceed(p) == Work(p) /\ UNCHANGED upsets

\* An invitation nobody was told of runs out.
Lapse(i) ==
    /\ i \notin mailed
    /\ \A p \in Handlers : ~(At(p, "mail") /\ task[p].invitation = i)
    /\ Expire(i)
    /\ UNCHANGED upsets

Trouble ==
    /\ upsets > 0 /\ upsets' = upsets - 1
    /\ \/ \E p \in Handlers : Break(p)
       \/ \E i \in mailed : Expire(i)
       \/ \E p \in Handlers, i \in InvitationIds : Revoke(p, Creator, i)
       \/ \E p \in Handlers, m \in MemberIds, role \in Roles \cup {"gone"} :
             members[m].user \in Guests /\ ChangeMember(p, Creator, m, role)
       \/ \E p \in Handlers, u \in Guests, role \in InviteRoles :
             AddMember(p, Creator, u, role)

RecoveryNext ==
    \/ \E u \in Guests : Reinvite(u) \/ Join(u)
    \/ \E p \in Handlers : Proceed(p)
    \/ \E i \in InvitationIds : Lapse(i)
    \/ Trouble

Fairness ==
    /\ \A p \in Handlers : WF_recoveryVars(Proceed(p))
    /\ \A i \in InvitationIds : WF_recoveryVars(Lapse(i))
    /\ \A u \in Guests : SF_recoveryVars(Reinvite(u)) /\ SF_recoveryVars(Join(u))

RecoverySpec == RecoveryInit /\ [][RecoveryNext]_recoveryVars /\ Fairness

-----------------------------------------------------------------------------

\* Whatever an error leaves half done - an invitation that was never mailed
\* and stands in the way of another, a membership whose invitation was not
\* marked, an invitation replaced while it is accepted - does not keep an
\* invited user out for good, and a user who is in stays.
InviteesGetIn == \A u \in Guests : <>[]IsMember(u)
=============================================================================
