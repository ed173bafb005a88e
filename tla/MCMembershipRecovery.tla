------------------------ MODULE MCMembershipRecovery ------------------------
(* One guest, two requests at a time.  A period without an active          *)
(* invitation sees at most one new one per handler, so that rows last.     *)
EXTENDS MembershipRecovery
CONSTANTS u1, u2, p1, p2, MaxMembers, MaxInvitations
MCUsers == {u1, u2}
MCHandlers == {p1, p2}
MCMemberIds == 1 .. MaxMembers
MCInvitationIds == 1 .. MaxInvitations
MCInviteRoles == {"viewer"}
RowsLast == FreshMembers # {} /\ FreshInvitations # {}
=============================================================================
