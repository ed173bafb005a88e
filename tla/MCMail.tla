------------------------------- MODULE MCMail -------------------------------
EXTENDS MailRecovery
CONSTANTS own, other, desk, p1, p2, MaxRecipients, MaxNotices
MCHandlers == {p1, p2}
MCRecipientIds == 1 .. MaxRecipients
MCNotices == 1 .. MaxNotices
NoEnv == [k \in {"enabled", "api_key", "domain"} |-> None]
=============================================================================
