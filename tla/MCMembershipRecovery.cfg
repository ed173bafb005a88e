SPECIFICATION RecoverySpec
CONSTANTS
    u1 = u1
    u2 = u2
    p1 = p1
    p2 = p2
    None = None
    Creator = u1
    RowPolicies = TRUE
    MaxUpsets = 2
    MaxMembers = 5
    MaxInvitations = 9
    Users <- MCUsers
    Handlers <- MCHandlers
    InviteRoles <- MCInviteRoles
    MemberIds <- MCMemberIds
    InvitationIds <- MCInvitationIds
INVARIANTS OneMembership AcceptanceAdmits
PROPERTIES InviteesGetIn RemovedStayRemoved AcceptedStay
CHECK_DEADLOCK FALSE
