-------------------------- MODULE AccountsRecovery --------------------------
(***************************************************************************)
(* Accounts as their users go about it: they register, log in, follow the  *)
(* link that verifies their address, ask for another when it did not come, *)
(* and have the password they forgot reset.  Of everything else - errors,  *)
(* links that expire, sessions given up, a second browser, a link followed *)
(* twice, e-mail switched on or off - there is a bounded number.           *)
(***************************************************************************)
EXTENDS Accounts

CONSTANTS
    MaxUpsets, \* bound on what users need not do and on what goes wrong
    Bystander  \* a user who is signed in all along and asks for nothing

ASSUME UpsetsAssumption == MaxUpsets \in Nat /\ Bystander \in Users /\ SessionIds # {}

VARIABLES
    knows, \* SUBSET Users: those who remember their password
    upsets \* 0 .. MaxUpsets: how many are still to come

recoveryVars == <<vars, knows, upsets>>

Others == Users \ {Bystander}

\* After the bystander registered without e-mail and was onboarded.
RecoveryInit ==
    LET first == CHOOSE s \in SessionIds : \A x \in SessionIds : s <= x
    IN  /\ users = [u \in Users |-> IF u # Bystander THEN NoUser ELSE
                      [registered |-> TRUE, password |-> 0, verified |-> TRUE, onboarded |-> TRUE]]
        /\ sessions = [s \in SessionIds |-> IF s # first THEN NoSession ELSE
                         [NoSession EXCEPT !.state = "live", !.user = Bystander]]
        /\ tokens = [t \in TokenIds |-> NoToken]
        /\ cookies = {first} /\ links = {}
        /\ mailOn \in BOOLEAN
        /\ task = [p \in Handlers |-> NoTask]
        /\ knows = Users /\ upsets = MaxUpsets

Asks(u) == \E p \in Handlers : task[p].user = u

UsableLinks(u, type) == {t \in links \cap TokensOf(u, type) : ~tokens[t].expired}

SignedIn(u) == \E s \in SessionsOf(u) \cap cookies : ~sessions[s].expired

Joins(u) ==
    /\ \E p \in Handlers, s \in SessionIds : RegisterUser(p, u, s)
    /\ UNCHANGED <<knows, upsets>>

ComesBack(u) ==
    /\ u \in knows /\ ~SignedIn(u) /\ ~Asks(u)
    /\ \E p \in Handlers : Login(p, u)
    /\ UNCHANGED <<knows, upsets>>

AsksForReset(u) ==
    /\ u \notin knows /\ UsableLinks(u, "password_reset") = {} /\ ~Asks(u)
    /\ mailOn
    /\ \E p \in Handlers : ForgotPassword(p, u)
    /\ UNCHANGED <<knows, upsets>>

Resets(u) ==
    /\ u \notin knows /\ ~Asks(u)
    /\ \E p \in Handlers, t \in UsableLinks(u, "password_reset") :
          FindToken(p, t, "password_reset")
    /\ UNCHANGED <<knows, upsets>>

AsksToVerify(u) ==
    /\ ~users[u].verified /\ UsableLinks(u, "email_verification") = {} /\ ~Asks(u)
    /\ mailOn
    /\ \E p \in Handlers, s \in SessionsOf(u) :
          ~sessions[s].expired /\ Authenticate(p, s, "resolve", None)
    /\ UNCHANGED <<knows, upsets>>

Verifies(u) ==
    /\ ~users[u].verified /\ ~Asks(u)
    /\ \E p \in Handlers, t \in UsableLinks(u, "email_verification") :
          FindToken(p, t, "email_verification")
    /\ UNCHANGED <<knows, upsets>>

\* Whoever resets a password knows it.
Proceed(p) ==
    /\ Work(p)
    /\ knows' = knows \cup {u \in Users : users'[u].password # users[u].password}
    /\ UNCHANGED upsets

Forget(u) ==
    /\ users[u].registered /\ u \in knows
    /\ knows' = knows \ {u}
    /\ cookies' = cookies \ {s \in SessionIds : sessions[s].user = u}
    /\ UNCHANGED <<tables, links, mailOn, task>>

Cookies == {s \in cookies : sessions[s].user # Bystander}

Trouble ==
    /\ upsets > 0 /\ upsets' = upsets - 1
    /\ \/ \E u \in Others : Forget(u)
       \/ /\ UNCHANGED knows
          /\ \/ \E p \in Handlers :
                   \/ Fail(p)
                   \/ \E u \in Others : (u \in knows /\ Login(p, u)) \/ ForgotPassword(p, u)
                   \/ \E s \in Cookies : Guarded(p, s)
                   \/ \E t \in TokenIds, type \in TokenTypes : FindToken(p, t, type)
             \/ \E s \in Cookies : Logout(s) \/ ExpireSession(s)
             \/ \E t \in TokenIds : ExpireToken(t)
             \/ SwitchMail

\* What a user who is not signed in and verified goes on with.
Pursues(u) ==
    \/ Joins(u) \/ ComesBack(u)
    \/ AsksForReset(u) \/ Resets(u) \/ AsksToVerify(u) \/ Verifies(u)

RecoveryNext ==
    \/ \E u \in Others : Pursues(u)
    \/ \E p \in Handlers : Proceed(p)
    \/ \E s \in SessionIds : Unauthenticated(s) /\ UNCHANGED <<knows, upsets>>
    \/ Trouble

Fairness ==
    /\ \A p \in Handlers : WF_recoveryVars(Proceed(p))
    /\ \A u \in Others : WF_recoveryVars(Pursues(u))

RecoverySpec == RecoveryInit /\ [][RecoveryNext]_recoveryVars /\ Fairness

-----------------------------------------------------------------------------

\* As long as e-mail is configured in the end, nobody stays locked out:
\* whatever fails between the token's row, its mail, the link, the change of
\* the password and the login, a user gets in again and verified, and stays.
UsersGetIn ==
    <>[]mailOn => \A u \in Users : <>[](SignedIn(u) /\ users[u].verified)
=============================================================================
