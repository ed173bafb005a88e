------------------------------ MODULE Accounts ------------------------------
(***************************************************************************)
(* The requests of auth.controller.go as AuthService carries them out: one *)
(* action per statement or transaction, any number of requests at a time.  *)
(* A request that is refused at its first statement changes nothing and is *)
(* left out.                                                               *)
(***************************************************************************)
EXTENDS AccountStore

CONSTANT Handlers \* the requests that can be handled at a time

VARIABLES
    cookies, \* SUBSET SessionIds: the session cookies browsers hold
    links,   \* SUBSET TokenIds: the links that were mailed
    mailOn,  \* BOOLEAN: the provider resolves to an e-mail service
    task     \* [Handlers -> Task]: the request being handled

vars == <<tables, cookies, links, mailOn, task>>

\* A task names the statement its handler executes next, with the operands
\* it holds: what it read before.
Task == [pc       : {"idle", "drop session", "logout all", "current", "delete session",
                     "onboard", "registered", "mark", "create session", "resolve",
                     "replace", "insert", "mail", "drop token", "confirm", "reset"},
         user     : Users \cup {None},
         compared : Nat,                    \* the password a login was given
         session  : SessionIds \cup {None}, \* of the cookie, or being made
         target   : SessionIds \cup {None}, \* to be deleted
         type     : TokenTypes \cup {None},
         token    : TokenIds \cup {None},
         old      : SUBSET TokenIds]        \* found by an open transaction's DELETE

NoTask == [pc |-> "idle", user |-> None, compared |-> 0, session |-> None,
           target |-> None, type |-> None, token |-> None, old |-> {}]

TypeOK ==
    /\ TablesTypeOK
    /\ cookies \subseteq SessionIds
    /\ links \subseteq TokenIds
    /\ mailOn \in BOOLEAN
    /\ task \in [Handlers -> Task]

Init ==
    /\ TablesInit
    /\ cookies = {} /\ links = {}
    /\ mailOn \in BOOLEAN
    /\ task = [p \in Handlers |-> NoTask]

At(p, pc) == task[p].pc = pc
Continue(p, t) == task' = [task EXCEPT ![p] = t]
Go(p, pc) == Continue(p, [task[p] EXCEPT !.pc = pc])
Finish(p) == Continue(p, NoTask)

SetCookie(s) == cookies' = cookies \cup {s}
ClearCookie(s) == cookies' = cookies \ {s}

-----------------------------------------------------------------------------
(* Registration and login. *)

RegisterUser(p, u, s) ==
    /\ At(p, "idle")
    /\ Register(u, s)
    /\ Continue(p, [NoTask EXCEPT !.pc = "registered", !.user = u, !.session = s])
    /\ UNCHANGED <<cookies, links, mailOn>>

\* No e-mail service: there is nothing to verify the address with.
Registered(p) ==
    /\ At(p, "registered")
    /\ IF mailOn THEN SetCookie(task[p].session) /\ Finish(p)
                 ELSE Go(p, "mark") /\ UNCHANGED cookies
    /\ UNCHANGED <<tables, links, mailOn>>

MarkVerified(p) ==
    /\ At(p, "mark")
    /\ MarkUserEmailVerifiedByID(task[p].user)
    /\ SetCookie(task[p].session)
    /\ Finish(p)
    /\ UNCHANGED <<sessions, tokens, links, mailOn>>

\* The user's row is read, and the password compared with the hash in it.
Login(p, u) ==
    /\ At(p, "idle")
    /\ users[u].registered
    /\ Continue(p, [NoTask EXCEPT !.pc = "create session", !.user = u,
                                  !.compared = users[u].password])
    /\ UNCHANGED <<tables, cookies, links, mailOn>>

LogIn(p, s) ==
    /\ At(p, "create session")
    /\ CreateSession(s, task[p].user, task[p].compared)
    /\ SetCookie(s)
    /\ Finish(p)
    /\ UNCHANGED <<users, tokens, links, mailOn>>

\* Without a look at whether the session is there.
Logout(s) ==
    /\ s \in cookies
    /\ DeleteSessionByTokenHash(s)
    /\ ClearCookie(s)
    /\ UNCHANGED <<users, tokens, links, mailOn, task>>

-----------------------------------------------------------------------------
(* The middleware, and the requests it guards.  The user it puts in the    *)
(* context is the row as it was then.                                      *)

Unauthenticated(s) ==
    /\ s \in cookies
    /\ ~LiveSession(s)
    /\ ClearCookie(s)
    /\ UNCHANGED <<tables, links, mailOn, task>>

\* A verified user's request for a verification link ends here.
Wanted(request, u) == request = "resolve" => ~users[u].verified

Authenticate(p, s, request, target) ==
    /\ At(p, "idle")
    /\ s \in cookies /\ LiveSession(s)
    /\ IF sessions[s].expired
       THEN Continue(p, [NoTask EXCEPT !.pc = "drop session", !.session = s,
                                       !.user = sessions[s].user])
       ELSE /\ Wanted(request, sessions[s].user)
            /\ Continue(p, [NoTask EXCEPT !.pc = request, !.session = s,
                                          !.user = sessions[s].user, !.target = target,
                                          !.type = IF request = "resolve"
                                                   THEN "email_verification" ELSE None])
    /\ UNCHANGED <<tables, cookies, links, mailOn>>

DropSession(p) ==
    /\ At(p, "drop session")
    /\ DeleteSessionByTokenHash(task[p].session)
    /\ ClearCookie(task[p].session)
    /\ Finish(p)
    /\ UNCHANGED <<users, tokens, links, mailOn>>

LogoutAll(p) ==
    /\ At(p, "logout all")
    /\ DeleteOtherSessionsByUser(task[p].user, task[p].session)
    /\ Finish(p)
    /\ UNCHANGED <<users, tokens, cookies, links, mailOn>>

GetCurrentSession(p) ==
    /\ At(p, "current")
    /\ IF LiveSession(task[p].session) THEN Go(p, "delete session") ELSE Finish(p)
    /\ UNCHANGED <<tables, cookies, links, mailOn>>

DeleteSession(p) ==
    /\ At(p, "delete session")
    /\ DeleteSessionByIDAndUser(task[p].target, task[p].user)
    /\ IF task[p].target = task[p].session /\ LiveSession(task[p].target)
       THEN ClearCookie(task[p].session)
       ELSE UNCHANGED cookies
    /\ Finish(p)
    /\ UNCHANGED <<users, tokens, links, mailOn>>

CompleteOnboarding(p) ==
    /\ At(p, "onboard")
    /\ CompleteUserOnboardingByID(task[p].user)
    /\ Finish(p)
    /\ UNCHANGED <<sessions, tokens, cookies, links, mailOn>>

-----------------------------------------------------------------------------
(* Links by mail: asked for by a signed-in user who is not verified, or by *)
(* whoever names an address that has an account.                           *)

ForgotPassword(p, u) ==
    /\ At(p, "idle")
    /\ users[u].registered
    /\ Continue(p, [NoTask EXCEPT !.pc = "resolve", !.user = u, !.type = "password_reset"])
    /\ UNCHANGED <<tables, cookies, links, mailOn>>

ResolveEmailService(p) ==
    /\ At(p, "resolve")
    /\ IF mailOn THEN Go(p, "replace") ELSE Finish(p)
    /\ UNCHANGED <<tables, cookies, links, mailOn>>

\* As if a token that is there had reached its user.
OpenReplaceOnce(p) ==
    /\ At(p, "replace")
    /\ IF TokensOf(task[p].user, task[p].type) = {} THEN Go(p, "insert") ELSE Finish(p)
    /\ UNCHANGED <<tables, cookies, links, mailOn>>

\* The transaction of ReplaceVerificationToken up to its INSERT.
OpenReplace(p) ==
    /\ At(p, "replace")
    /\ Continue(p, [task[p] EXCEPT !.pc = "insert",
                                   !.old = TokensOf(task[p].user, task[p].type)])
    /\ UNCHANGED <<tables, cookies, links, mailOn>>

CommitReplace(p, t) ==
    /\ At(p, "insert")
    /\ ReplaceVerificationToken(task[p].old, t, task[p].user, task[p].type)
    /\ Continue(p, [task[p] EXCEPT !.pc = "mail", !.token = t, !.old = {}])
    /\ UNCHANGED <<cookies, links, mailOn>>

\* With the service that was resolved, whatever became of the settings.
Mail(p) ==
    /\ At(p, "mail")
    /\ links' = links \cup {task[p].token}
    /\ Finish(p)
    /\ UNCHANGED <<tables, cookies, mailOn>>

-----------------------------------------------------------------------------
(* Links that are followed. *)

FindToken(p, t, type) ==
    /\ At(p, "idle")
    /\ t \in links /\ LiveToken(t) /\ tokens[t].type = type
    /\ Continue(p, [NoTask EXCEPT
          !.pc = IF tokens[t].expired THEN "drop token"
                 ELSE IF type = "password_reset" THEN "reset" ELSE "confirm",
          !.user = tokens[t].user, !.type = type, !.token = t])
    /\ UNCHANGED <<tables, cookies, links, mailOn>>

DropToken(p) ==
    /\ At(p, "drop token")
    /\ DeleteVerificationTokenByID(task[p].token, "gone")
    /\ Finish(p)
    /\ UNCHANGED <<users, sessions, cookies, links, mailOn>>

ConfirmVerifyEmail(p) ==
    /\ At(p, "confirm")
    /\ ConfirmEmailVerification(task[p].token, task[p].user)
    /\ Finish(p)
    /\ UNCHANGED <<cookies, links, mailOn>>

ResetPassword(p) ==
    /\ At(p, "reset")
    /\ ResetPasswordWithToken(task[p].token, task[p].user)
    /\ Finish(p)
    /\ UNCHANGED <<cookies, links, mailOn>>

\* The transaction's DELETE finds no row: another request spent the token,
\* or a newer one took its place.
TokenLost(p) ==
    /\ At(p, "confirm") \/ At(p, "reset")
    /\ ~LiveToken(task[p].token)
    /\ Finish(p)
    /\ UNCHANGED <<tables, cookies, links, mailOn>>

-----------------------------------------------------------------------------

\* A statement fails or the request is cut short; an open transaction is
\* rolled back.
Fail(p) ==
    /\ ~At(p, "idle")
    /\ Finish(p)
    /\ UNCHANGED <<tables, cookies, links, mailOn>>

ExpireSession(s) ==
    /\ LiveSession(s) /\ ~sessions[s].expired
    /\ sessions' = [sessions EXCEPT ![s].expired = TRUE]
    /\ UNCHANGED <<users, tokens, cookies, links, mailOn, task>>

ExpireToken(t) ==
    /\ LiveToken(t) /\ ~tokens[t].expired
    /\ tokens' = [tokens EXCEPT ![t].expired = TRUE]
    /\ UNCHANGED <<users, sessions, cookies, links, mailOn, task>>

\* E-mail is configured, or no longer.
SwitchMail ==
    /\ mailOn' = ~mailOn
    /\ UNCHANGED <<tables, cookies, links, task>>

Guarded(p, s) ==
    \/ \E request \in {"logout all", "onboard", "resolve"} : Authenticate(p, s, request, None)
    \/ \E target \in SessionIds : Authenticate(p, s, "current", target)

Work(p) ==
    \/ Registered(p) \/ MarkVerified(p) \/ \E s \in SessionIds : LogIn(p, s)
    \/ DropSession(p) \/ LogoutAll(p) \/ GetCurrentSession(p) \/ DeleteSession(p)
    \/ CompleteOnboarding(p)
    \/ ResolveEmailService(p) \/ OpenReplace(p) \/ \E t \in TokenIds : CommitReplace(p, t)
    \/ Mail(p) \/ DropToken(p) \/ ConfirmVerifyEmail(p) \/ ResetPassword(p) \/ TokenLost(p)

Next ==
    \/ \E p \in Handlers :
          \/ \E u \in Users, s \in SessionIds : RegisterUser(p, u, s)
          \/ \E u \in Users : Login(p, u) \/ ForgotPassword(p, u)
          \/ \E s \in SessionIds : Guarded(p, s)
          \/ \E t \in TokenIds, type \in TokenTypes : FindToken(p, t, type)
          \/ Work(p) \/ Fail(p)
    \/ \E s \in SessionIds : Logout(s) \/ Unauthenticated(s) \/ ExpireSession(s)
    \/ \E t \in TokenIds : ExpireToken(t)
    \/ SwitchMail

Spec == Init /\ [][Next]_vars

-----------------------------------------------------------------------------

\* A reset ends every session there is.  So a live session is of a login that
\* compared its user's password as it is now, or the one exception: of a login
\* that compared an older one and was still to insert the session at the
\* reset.
ResetRevokes ==
    \A s \in SessionIds : LiveSession(s) =>
        LET now == users[sessions[s].user].password
        IN  sessions[s].compared # now => sessions[s].since = now

\* A password changes only by a link for it, mailed to its user and spent by
\* the change; so two requests with one link, or a link and the one that
\* replaced it, change it once.  An address is verified only by such a link
\* or by the registration that had no mail to verify it with.
LinksAreSpentOnce ==
    [][\A u \in Users :
        LET spends(type) == \E t \in links : /\ t \in TokensOf(u, type)
                                             /\ tokens'[t].state = "spent"
        IN  /\ users'[u].password # users[u].password => spends("password_reset")
            /\ users'[u].verified # users[u].verified =>
                  spends("email_verification") \/ \E p \in Handlers : At(p, "mark") /\ task[p].user = u]_vars

\* Sessions end by requests of their own user, by a cookie that is given up,
\* or by age; and a request to log out all others ends its own least of all.
SessionsEndByTheirUser ==
    [][\A s \in SessionIds : LiveSession(s) /\ sessions'[s].state = "gone" =>
          \/ s \in cookies \ cookies'
          \/ \E p \in Handlers : /\ task'[p] # task[p]
                                 /\ task[p].user = sessions[s].user
                                 /\ ~(At(p, "logout all") /\ task[p].session = s)]_vars
=============================================================================
