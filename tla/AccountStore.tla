---------------------------- MODULE AccountStore ----------------------------
(***************************************************************************)
(* The schema auth: users with their password credentials, sessions, and   *)
(* the verification tokens that are mailed as links; the SQL statements on *)
(* them; and the transactions of auth.repository.go that hold several.     *)
(* Every operator is one statement, which says what becomes of one table,  *)
(* or one transaction.                                                     *)
(***************************************************************************)
EXTENDS Naturals, FiniteSets

CONSTANTS
    Users,      \* the e-mail addresses accounts are made for; one is a user's id too
    SessionIds, \* ids of sessions, and the random tokens in the cookies
    TokenIds,   \* ids of verification tokens, and the random tokens in the links
    None

ASSUME AccountStoreAssumption ==
    /\ None \notin Users \cup SessionIds \cup TokenIds
    /\ SessionIds \cup TokenIds \subseteq Nat

VARIABLES
    users,    \* [Users -> UserRow]: auth.users with auth.password_credentials
    sessions, \* [SessionIds -> SessionRow]: auth.sessions
    tokens    \* [TokenIds -> TokenRow]: auth.verification_tokens

tables == <<users, sessions, tokens>>

TokenTypes == {"email_verification", "password_reset"}

\* A password is told by how many times it was changed.
UserRow == [registered : BOOLEAN, password : Nat, verified : BOOLEAN, onboarded : BOOLEAN]

\* since is the row's created_at: how often its user's password had been
\* changed by then; compared is the password that was asked for before, which
\* no action reads.  "gone" rows are kept so that histories can be stated.
SessionRow == [state : {"none", "live", "gone"}, user : Users \cup {None},
               expired : BOOLEAN, since : Nat, compared : Nat]

\* "spent" rows were deleted by the transaction they authorised, "gone" ones
\* by another statement.
TokenRow == [state : {"none", "live", "spent", "gone"}, user : Users \cup {None},
             type : TokenTypes \cup {None}, expired : BOOLEAN]

NoUser == [registered |-> FALSE, password |-> 0, verified |-> FALSE, onboarded |-> FALSE]
NoSession == [state |-> "none", user |-> None, expired |-> FALSE, since |-> 0,
              compared |-> 0]
NoToken == [state |-> "none", user |-> None, type |-> None, expired |-> FALSE]

TablesTypeOK ==
    /\ users \in [Users -> UserRow]
    /\ sessions \in [SessionIds -> SessionRow]
    /\ tokens \in [TokenIds -> TokenRow]

TablesInit ==
    /\ users = [u \in Users |-> NoUser]
    /\ sessions = [s \in SessionIds |-> NoSession]
    /\ tokens = [t \in TokenIds |-> NoToken]

LiveSession(s) == sessions[s].state = "live"
LiveToken(t) == tokens[t].state = "live"

SessionsOf(u) == {s \in SessionIds : LiveSession(s) /\ sessions[s].user = u}

TokensOf(u, type) ==
    {t \in TokenIds : LiveToken(t) /\ tokens[t].user = u /\ tokens[t].type = type}

\* Ids and tokens are drawn at random and never twice; which one a row gets
\* makes no difference, so they are taken in order.
NewSession(s) ==
    /\ sessions[s].state = "none"
    /\ \A x \in SessionIds : x < s => sessions[x].state # "none"

NewToken(t) ==
    /\ tokens[t].state = "none"
    /\ \A x \in TokenIds : x < t => tokens[x].state # "none"

-----------------------------------------------------------------------------
(* Statements. *)

\* The address is unique.
CreateUser(u) ==
    /\ ~users[u].registered
    /\ users' = [users EXCEPT ![u].registered = TRUE]

CreateSession(s, u, compared) ==
    /\ NewSession(s)
    /\ sessions' = [sessions EXCEPT ![s] = [state |-> "live", user |-> u,
                                            expired |-> FALSE,
                                            since |-> users[u].password,
                                            compared |-> compared]]

DeleteSessions(which) ==
    sessions' = [s \in SessionIds |-> IF s \in which
                                      THEN [sessions[s] EXCEPT !.state = "gone"]
                                      ELSE sessions[s]]

DeleteSessionByTokenHash(s) == DeleteSessions({s} \cap {x \in SessionIds : LiveSession(x)})

DeleteOtherSessionsByUser(u, s) == DeleteSessions(SessionsOf(u) \ {s})

\* Without AND user_id.
DeleteSessionByID(s, u) == DeleteSessionByTokenHash(s)

DeleteSessionByIDAndUser(s, u) == DeleteSessions({s} \cap SessionsOf(u))

DeleteSessionsByUserID(u) == DeleteSessions(SessionsOf(u))

MarkUserEmailVerifiedByID(u) == users' = [users EXCEPT ![u].verified = TRUE]

CompleteUserOnboardingByID(u) == users' = [users EXCEPT ![u].onboarded = TRUE]

UpdatePasswordCredentialByUserID(u) == users' = [users EXCEPT ![u].password = @ + 1]

EndTokens(which, how) ==
    [t \in TokenIds |-> IF t \in which /\ LiveToken(t)
                        THEN [tokens[t] EXCEPT !.state = how]
                        ELSE tokens[t]]

DeleteVerificationTokenByID(t, how) == tokens' = EndTokens({t}, how)

-----------------------------------------------------------------------------
(* Transactions. *)

Register(u, s) ==
    /\ CreateUser(u)
    /\ CreateSession(s, u, users[u].password)
    /\ UNCHANGED tokens

\* The rows the transaction's DELETE found, old, go at its commit with the
\* new one.  Rows another transaction committed meanwhile stay: nothing is
\* unique about an identifier and a type.
ReplaceVerificationToken(old, t, u, type) ==
    /\ NewToken(t)
    /\ tokens' = [EndTokens(old, "gone") EXCEPT
                     ![t] = [state |-> "live", user |-> u, type |-> type, expired |-> FALSE]]
    /\ UNCHANGED <<users, sessions>>

\* Whoever deletes the token's row first goes on; the others find no row.
ConfirmEmailVerification(t, u) ==
    /\ LiveToken(t)
    /\ DeleteVerificationTokenByID(t, "spent")
    /\ MarkUserEmailVerifiedByID(u)
    /\ UNCHANGED sessions

\* Without a look at how many rows the first DELETE found.
ResetAnyway(t, u) ==
    /\ DeleteVerificationTokenByID(t, "spent")
    /\ UpdatePasswordCredentialByUserID(u)
    /\ DeleteSessionsByUserID(u)

\* Without the last statement.
ResetPasswordOnly(t, u) ==
    /\ LiveToken(t)
    /\ DeleteVerificationTokenByID(t, "spent")
    /\ UpdatePasswordCredentialByUserID(u)
    /\ UNCHANGED sessions

\* A session inserted between the last DELETE and the commit, which it
\* survives, counts as inserted after the commit.
ResetPasswordWithToken(t, u) ==
    /\ LiveToken(t)
    /\ DeleteVerificationTokenByID(t, "spent")
    /\ UpdatePasswordCredentialByUserID(u)
    /\ DeleteSessionsByUserID(u)
=============================================================================
