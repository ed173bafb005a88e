----------------------------- MODULE MCAccounts -----------------------------
EXTENDS AccountsRecovery
CONSTANTS u1, u2, p1, p2, MaxSessions, MaxTokens
MCHandlers == {p1, p2}
MCSessionIds == 1 .. MaxSessions
MCTokenIds == 1 .. MaxTokens
=============================================================================
