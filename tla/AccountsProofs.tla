--------------------------- MODULE AccountsProofs ---------------------------
(***************************************************************************)
(* Theorems about Accounts, for any number of users, sessions, links and   *)
(* requests at a time: what every interleaving and failure leaves true.    *)
(* They hold as well of the users of AccountsRecovery, who take the same   *)
(* steps or forget.                                                        *)
(***************************************************************************)
EXTENDS AccountsRecovery, WellFoundedInduction, TLAPS

\* Rows are whole from the first: a session has a user, a link was issued.
RowsOK ==
    /\ \A s \in SessionIds : sessions[s].state # "none" => sessions[s].user \in Users
    /\ \A t \in TokenIds : tokens[t].state # "none" =>
          tokens[t].user \in Users /\ tokens[t].type \in TokenTypes
    /\ \A t \in links : tokens[t].state # "none"

\* A request behind the middleware goes by the user of its session.
SessionTaskOK(t) ==
    t.pc \in {"drop session", "logout all", "current", "delete session"} =>
        /\ t.session \in SessionIds
        /\ sessions[t.session].state # "none" /\ sessions[t.session].user = t.user
        /\ t.pc \in {"current", "delete session"} => t.target \in SessionIds

\* A request with a link goes by the user and the type of its token, whether
\* or not the row is there still.
LinkTaskOK(t) ==
    /\ t.pc = "mail" => t.token \in TokenIds /\ tokens[t.token].state # "none"
    /\ t.pc \in {"drop token", "confirm", "reset"} =>
          t.token \in links /\ tokens[t.token].user = t.user
    /\ t.pc = "confirm" => tokens[t.token].type = "email_verification"
    /\ t.pc = "reset" => tokens[t.token].type = "password_reset"

TaskOK(t) ==
    /\ t.pc # "idle" => t.user \in Users
    /\ t.pc \in {"registered", "mark"} => t.session \in SessionIds
    /\ t.pc \in {"resolve", "replace", "insert"} => t.type \in TokenTypes
    /\ SessionTaskOK(t)
    /\ LinkTaskOK(t)

TasksOK == \A p \in Handlers : TaskOK(task[p])

\* A reset leaves no session of its user: what is live was inserted since.
LiveSinceReset ==
    \A s \in SessionIds : LiveSession(s) => sessions[s].since = users[sessions[s].user].password

\* The inductive invariant.
IInv == TypeOK /\ RowsOK /\ LiveSinceReset /\ TasksOK

USE AccountStoreAssumption

\* No request: nothing is held.
LEMMA NoTaskOK == NoTask \in Task /\ TaskOK(NoTask)
BY DEF NoTask, Task, TaskOK, SessionTaskOK, LinkTaskOK

\* What the invariant says of one request.
LEMMA TaskTyped ==
    ASSUME IInv, NEW p \in Handlers
    PROVE  task[p] \in Task /\ TaskOK(task[p])
BY DEF IInv, TypeOK, TasksOK

\* In the initial states there are no sessions and no tokens.
LEMMA InitIInv == Init => IInv
<1> SUFFICES ASSUME Init PROVE IInv
  OBVIOUS
<1>1. TablesTypeOK
  BY DEF Init, TablesInit, TablesTypeOK, UserRow, NoUser, SessionRow, NoSession,
         TokenRow, NoToken
<1>2. task \in [Handlers -> Task] /\ TasksOK
  BY NoTaskOK DEF Init, TasksOK
<1>3. RowsOK /\ LiveSinceReset
  BY DEF Init, TablesInit, RowsOK, LiveSinceReset, LiveSession, NoSession, NoToken
<1> QED BY <1>1, <1>2, <1>3 DEF Init, IInv, TypeOK

-----------------------------------------------------------------------------
(* What a step does to rows that others count on. *)

SessionsKept ==
    \A s \in SessionIds : sessions[s].state # "none" =>
        sessions'[s].state # "none" /\ sessions'[s].user = sessions[s].user

TokensKept ==
    \A t \in TokenIds : tokens[t].state # "none" =>
        /\ tokens'[t].state # "none"
        /\ tokens'[t].user = tokens[t].user /\ tokens'[t].type = tokens[t].type

\* A task is as good as it was when rows are kept.
LEMMA TaskKept ==
    ASSUME IInv, SessionsKept, TokensKept, links \subseteq links',
           NEW t \in Task, TaskOK(t)
    PROVE  TaskOK(t)'
<1>1. SessionTaskOK(t)'
  BY DEF SessionsKept, TaskOK, SessionTaskOK
<1>2. LinkTaskOK(t)'
  <2>1. \A x \in links : x \in links' /\ x \in TokenIds /\ tokens[x].state # "none"
    BY DEF IInv, TypeOK, RowsOK
  <2> QED BY <2>1 DEF TokensKept, TaskOK, LinkTaskOK
<1> QED BY <1>1, <1>2 DEF TaskOK

\* A step of p that keeps rows is judged by the rows and the task it leaves.
LEMMA TableStep ==
    ASSUME IInv, NEW p \in Handlers, NEW t \in Task, Continue(p, t), TaskOK(t)',
           TablesTypeOK', RowsOK', LiveSinceReset', SessionsKept, TokensKept,
           cookies' \subseteq SessionIds, UNCHANGED mailOn,
           links \subseteq links', links' \subseteq TokenIds
    PROVE  IInv'
<1>1. /\ task \in [Handlers -> Task] /\ mailOn \in BOOLEAN
      /\ \A q \in Handlers : TaskOK(task[q])
  BY DEF IInv, TypeOK, TasksOK
<1>2. /\ task' \in [Handlers -> Task]
      /\ \A q \in Handlers : task'[q] = t \/ task'[q] = task[q]
  BY <1>1 DEF Continue
<1>3. \A s \in Task : TaskOK(s) => TaskOK(s)'
  BY TaskKept
<1>4. TasksOK'
  <2> SUFFICES ASSUME NEW q \in Handlers PROVE TaskOK(task[q])'
    BY DEF TasksOK
  <2>1. CASE task'[q] = t
    BY <2>1 DEF TaskOK, SessionTaskOK, LinkTaskOK
  <2>2. CASE task'[q] = task[q]
    <3>1. PICK s \in Task : s = task[q]
      BY <1>1
    <3>2. TaskOK(s)'
      BY <3>1, <1>1, <1>3
    <3> QED BY <3>1, <3>2, <2>2 DEF TaskOK, SessionTaskOK, LinkTaskOK
  <2> QED BY <2>1, <2>2, <1>2
<1>5. TypeOK'
  BY <1>1, <1>2 DEF TypeOK
<1> QED BY <1>4, <1>5 DEF IInv

\* A step that leaves the tables and the links alone.
LEMMA TablesUnchanged ==
    ASSUME IInv, UNCHANGED <<tables, links>>
    PROVE  /\ TablesTypeOK' /\ RowsOK' /\ LiveSinceReset' /\ SessionsKept /\ TokensKept
           /\ links \subseteq links' /\ links' \subseteq TokenIds
BY DEF IInv, TypeOK, TablesTypeOK, tables, RowsOK, LiveSinceReset, LiveSession,
       SessionsKept, TokensKept

\* A request goes to its next statement and leaves the tables as they are.
LEMMA TaskStep ==
    ASSUME IInv, NEW p \in Handlers, NEW t \in Task, Continue(p, t), TaskOK(t),
           UNCHANGED <<tables, links, mailOn>>, cookies' \subseteq SessionIds
    PROVE  IInv'
<1>1. TaskOK(t)'
  BY TablesUnchanged, TaskKept
<1> QED BY <1>1, TablesUnchanged, TableStep

\* A step outside of any request.
LEMMA QuietStep ==
    ASSUME IInv, UNCHANGED <<task, links>>, TablesTypeOK', RowsOK', LiveSinceReset',
           SessionsKept, TokensKept, cookies' \subseteq SessionIds, mailOn' \in BOOLEAN
    PROVE  IInv'
<1>1. /\ task \in [Handlers -> Task]
      /\ \A q \in Handlers : TaskOK(task[q])
  BY DEF IInv, TypeOK, TasksOK
<1>2. \A s \in Task : TaskOK(s) => TaskOK(s)'
  BY TaskKept
<1>3. TasksOK'
  <2> SUFFICES ASSUME NEW q \in Handlers PROVE TaskOK(task[q])'
    BY DEF TasksOK
  <2>1. PICK s \in Task : s = task[q]
    BY <1>1
  <2>2. TaskOK(s)'
    BY <2>1, <1>1, <1>2
  <2> QED BY <2>1, <2>2 DEF TaskOK, SessionTaskOK, LinkTaskOK
<1>4. TypeOK'
  BY DEF IInv, TypeOK
<1> QED BY <1>3, <1>4 DEF IInv

-----------------------------------------------------------------------------
(* The statements that write sessions, tokens and users. *)

\* The DELETEs of auth.sessions: what is live stays as it was created.
LEMMA DeletedSessions ==
    ASSUME IInv, NEW which \in SUBSET SessionIds, DeleteSessions(which),
           \A s \in which : LiveSession(s), UNCHANGED <<users, tokens, links>>
    PROVE  TablesTypeOK' /\ RowsOK' /\ LiveSinceReset' /\ SessionsKept /\ TokensKept
<1>1. /\ sessions \in [SessionIds -> SessionRow]
      /\ \A s \in SessionIds :
            sessions'[s] = IF s \in which THEN [sessions[s] EXCEPT !.state = "gone"]
                                          ELSE sessions[s]
  BY DEF IInv, TypeOK, TablesTypeOK, DeleteSessions
<1>2. \A s \in SessionIds :
          /\ sessions'[s] \in SessionRow
          /\ sessions'[s].user = sessions[s].user /\ sessions'[s].since = sessions[s].since
          /\ sessions'[s].state = IF s \in which THEN "gone" ELSE sessions[s].state
  BY <1>1 DEF SessionRow
<1>3. TablesTypeOK'
  BY <1>2 DEF IInv, TypeOK, TablesTypeOK, DeleteSessions
<1>4. SessionsKept /\ TokensKept
  BY <1>2 DEF SessionsKept, TokensKept
<1>5. RowsOK'
  BY <1>2 DEF IInv, RowsOK, LiveSession
<1>6. LiveSinceReset'
  BY <1>2 DEF IInv, LiveSinceReset, LiveSession
<1> QED BY <1>3, <1>4, <1>5, <1>6

\* A session is created with its user's password of the moment.
LEMMA CreatedSession ==
    ASSUME IInv, NEW s \in SessionIds, NEW u \in Users, NEW given \in Nat,
           CreateSession(s, u, given),
           users' \in [Users -> UserRow],
           \A v \in Users : users'[v].password = users[v].password,
           UNCHANGED <<tokens, links>>
    PROVE  TablesTypeOK' /\ RowsOK' /\ LiveSinceReset' /\ SessionsKept /\ TokensKept
<1> DEFINE row == [state |-> "live", user |-> u, expired |-> FALSE,
                   since |-> users[u].password, compared |-> given]
<1>0. sessions \in [SessionIds -> SessionRow] /\ users[u].password \in Nat
  BY DEF IInv, TypeOK, TablesTypeOK, UserRow
<1>1. /\ sessions[s].state = "none" /\ sessions'[s] = row
      /\ \A x \in SessionIds \ {s} : sessions'[x] = sessions[x]
  BY <1>0 DEF CreateSession, NewSession
<1>2. row \in SessionRow
  BY <1>0 DEF SessionRow
<1>3. TablesTypeOK'
  BY <1>0, <1>2 DEF IInv, TypeOK, TablesTypeOK, CreateSession
<1>4. SessionsKept /\ TokensKept
  BY <1>1 DEF SessionsKept, TokensKept
<1>5. RowsOK'
  <2> SUFFICES ASSUME NEW x \in SessionIds, sessions'[x].state # "none"
               PROVE  sessions'[x].user \in Users
    BY DEF IInv, RowsOK
  <2> QED BY <1>1 DEF IInv, RowsOK
<1>6. LiveSinceReset'
  <2> SUFFICES ASSUME NEW x \in SessionIds, LiveSession(x)'
               PROVE  (sessions[x].since = users[sessions[x].user].password)'
    BY DEF LiveSinceReset
  <2>1. CASE x = s
    BY <2>1, <1>1
  <2>2. CASE x # s
    BY <2>2, <1>1 DEF IInv, RowsOK, LiveSinceReset, LiveSession
  <2> QED BY <2>1, <2>2
<1> QED BY <1>3, <1>4, <1>5, <1>6

\* Of a user's row, only what is not the password changes.
LEMMA ChangedUser ==
    ASSUME IInv, users' \in [Users -> UserRow],
           \A v \in Users : users'[v].password = users[v].password,
           UNCHANGED <<sessions, tokens, links>>
    PROVE  TablesTypeOK' /\ RowsOK' /\ LiveSinceReset' /\ SessionsKept /\ TokensKept
<1>1. TablesTypeOK' /\ RowsOK' /\ SessionsKept /\ TokensKept
  BY DEF IInv, TypeOK, TablesTypeOK, RowsOK, SessionsKept, TokensKept
<1>2. LiveSinceReset'
  BY DEF IInv, RowsOK, LiveSinceReset, LiveSession
<1> QED BY <1>1, <1>2

\* The DELETEs of auth.verification_tokens.
LEMMA EndedTokens ==
    ASSUME IInv, NEW which \in SUBSET TokenIds, NEW how \in {"gone", "spent"},
           tokens' = EndTokens(which, how)
    PROVE  /\ tokens' \in [TokenIds -> TokenRow] /\ TokensKept
           /\ \A t \in which : LiveToken(t) => tokens'[t].state = how
<1>1. /\ tokens \in [TokenIds -> TokenRow]
      /\ \A t \in TokenIds :
            tokens'[t] = IF t \in which /\ LiveToken(t)
                         THEN [tokens[t] EXCEPT !.state = how] ELSE tokens[t]
  BY DEF IInv, TypeOK, TablesTypeOK, EndTokens
<1>2. \A t \in TokenIds :
          /\ tokens'[t] \in TokenRow
          /\ tokens'[t].user = tokens[t].user /\ tokens'[t].type = tokens[t].type
          /\ tokens'[t].state = IF t \in which /\ LiveToken(t) THEN how ELSE tokens[t].state
  <2> TAKE t \in TokenIds
  <2>1. CASE t \in which /\ LiveToken(t)
    <3>1. PICK row : row = [tokens[t] EXCEPT !.state = how]
      OBVIOUS
    <3>2. /\ row \in TokenRow /\ row.state = how
          /\ row.user = tokens[t].user /\ row.type = tokens[t].type
      BY <1>1, <3>1 DEF TokenRow
    <3> QED BY <1>1, <2>1, <3>1, <3>2
  <2>2. CASE ~(t \in which /\ LiveToken(t))
    BY <1>1, <2>2
  <2> QED BY <2>1, <2>2
<1> QED BY <1>2 DEF EndTokens, TokensKept

\* Tokens are spent, replaced or deleted and nothing else changes.
LEMMA KeptTokens ==
    ASSUME IInv, tokens' \in [TokenIds -> TokenRow], TokensKept,
           \A t \in TokenIds : tokens[t].state = "none" => tokens'[t].state = "none",
           UNCHANGED <<users, sessions, links>>
    PROVE  TablesTypeOK' /\ RowsOK' /\ LiveSinceReset' /\ SessionsKept
BY DEF IInv, TypeOK, TablesTypeOK, RowsOK, LiveSinceReset, LiveSession, SessionsKept, TokensKept
-----------------------------------------------------------------------------
(* Every action preserves the invariant. *)

\* The requests that begin.
LEMMA BeginStep ==
    ASSUME IInv, NEW p \in Handlers,
           \/ \E u \in Users : Login(p, u) \/ ForgotPassword(p, u)
           \/ \E s \in SessionIds : Guarded(p, s)
           \/ \E t \in TokenIds, type \in TokenTypes : FindToken(p, t, type)
    PROVE  IInv'
<1>0. cookies \subseteq SessionIds
  BY DEF IInv, TypeOK
<1>1. ASSUME NEW u \in Users, Login(p, u) \/ ForgotPassword(p, u) PROVE IInv'
  <2> DEFINE t1 == [NoTask EXCEPT !.pc = "create session", !.user = u,
                                  !.compared = users[u].password]
             t2 == [NoTask EXCEPT !.pc = "resolve", !.user = u, !.type = "password_reset"]
  <2>1. t1 \in Task /\ TaskOK(t1) /\ t2 \in Task /\ TaskOK(t2)
    <3>1. users[u].password \in Nat
      BY DEF IInv, TypeOK, TablesTypeOK, UserRow
    <3> QED BY <3>1 DEF Task, NoTask, TaskOK, SessionTaskOK, LinkTaskOK, TokenTypes
  <2>2. /\ Continue(p, t1) \/ Continue(p, t2)
        /\ UNCHANGED <<tables, cookies, links, mailOn>>
    BY <1>1 DEF Login, ForgotPassword
  <2> HIDE DEF t1, t2
  <2> QED BY <1>0, <2>1, <2>2, TaskStep
<1>2. ASSUME NEW s \in SessionIds, NEW request, NEW target,
             Authenticate(p, s, request, target),
             \/ request \in {"logout all", "onboard", "resolve"} /\ target = None
             \/ request = "current" /\ target \in SessionIds
      PROVE  IInv'
  <2> DEFINE t1 == [NoTask EXCEPT !.pc = "drop session", !.session = s,
                                  !.user = sessions[s].user]
             t2 == [NoTask EXCEPT !.pc = request, !.session = s,
                                  !.user = sessions[s].user, !.target = target,
                                  !.type = IF request = "resolve"
                                           THEN "email_verification" ELSE None]
  <2>1. sessions[s].state # "none" /\ sessions[s].user \in Users
    BY <1>2 DEF Authenticate, LiveSession, IInv, RowsOK
  <2>2. t1 \in Task /\ TaskOK(t1)
    BY <2>1 DEF Task, NoTask, TaskOK, SessionTaskOK, LinkTaskOK
  <2>3. t2 \in Task /\ TaskOK(t2)
    BY <2>1, <1>2 DEF Task, NoTask, TaskOK, SessionTaskOK, LinkTaskOK, TokenTypes
  <2>4. /\ Continue(p, t1) \/ Continue(p, t2)
        /\ UNCHANGED <<tables, cookies, links, mailOn>>
    BY <1>2 DEF Authenticate
  <2> HIDE DEF t1, t2
  <2> QED BY <1>0, <2>2, <2>3, <2>4, TaskStep
<1>3. ASSUME NEW x \in TokenIds, NEW type \in TokenTypes, FindToken(p, x, type)
      PROVE  IInv'
  <2> DEFINE t == [NoTask EXCEPT
          !.pc = IF tokens[x].expired THEN "drop token"
                 ELSE IF type = "password_reset" THEN "reset" ELSE "confirm",
          !.user = tokens[x].user, !.type = type, !.token = x]
  <2>1. x \in links /\ tokens[x].user \in Users /\ tokens[x].type = type
    BY <1>3 DEF FindToken, LiveToken, IInv, RowsOK
  <2>2. t \in Task /\ TaskOK(t)
    BY <2>1 DEF Task, NoTask, TaskOK, SessionTaskOK, LinkTaskOK, TokenTypes
  <2>3. Continue(p, t) /\ UNCHANGED <<tables, cookies, links, mailOn>>
    BY <1>3 DEF FindToken
  <2> HIDE DEF t
  <2> QED BY <1>0, <2>2, <2>3, TaskStep
<1> QED BY <1>1, <1>2, <1>3 DEF Guarded

\* The statements that read, and those that fail.
LEMMA ReadStep ==
    ASSUME IInv, NEW p \in Handlers,
           \/ Registered(p) \/ GetCurrentSession(p) \/ ResolveEmailService(p)
           \/ OpenReplace(p) \/ TokenLost(p) \/ Fail(p)
    PROVE  IInv'
<1>0. task[p] \in Task /\ TaskOK(task[p]) /\ cookies \subseteq SessionIds
  BY TaskTyped DEF IInv, TypeOK
<1>1. CASE TokenLost(p) \/ Fail(p)
  BY <1>0, <1>1, NoTaskOK, TaskStep DEF TokenLost, Fail, Finish
<1>2. CASE Registered(p)
  <2> DEFINE t == [task[p] EXCEPT !.pc = "mark"]
  <2>1. t \in Task /\ TaskOK(t) /\ task[p].session \in SessionIds
    BY <1>0, <1>2 DEF Registered, At, Task, TaskOK, SessionTaskOK, LinkTaskOK
  <2>2. /\ (Continue(p, t) /\ UNCHANGED cookies)
           \/ (Continue(p, NoTask) /\ cookies' = cookies \cup {task[p].session})
        /\ UNCHANGED <<tables, links, mailOn>>
    BY <1>2 DEF Registered, Go, Finish, SetCookie
  <2> HIDE DEF t
  <2> QED BY <1>0, <2>1, <2>2, NoTaskOK, TaskStep
<1>3. CASE GetCurrentSession(p) \/ ResolveEmailService(p)
  <2> DEFINE t1 == [task[p] EXCEPT !.pc = "delete session"]
             t2 == [task[p] EXCEPT !.pc = "replace"]
  <2>1. At(p, "current") => t1 \in Task /\ TaskOK(t1)
    BY <1>0 DEF At, Task, TaskOK, SessionTaskOK, LinkTaskOK
  <2>2. At(p, "resolve") => t2 \in Task /\ TaskOK(t2)
    BY <1>0 DEF At, Task, TaskOK, SessionTaskOK, LinkTaskOK
  <2>3. /\ \/ Continue(p, NoTask)
           \/ Continue(p, t1) /\ At(p, "current")
           \/ Continue(p, t2) /\ At(p, "resolve")
        /\ UNCHANGED <<tables, cookies, links, mailOn>>
    BY <1>3 DEF GetCurrentSession, ResolveEmailService, Go, Finish
  <2> HIDE DEF t1, t2
  <2> QED BY <1>0, <2>1, <2>2, <2>3, NoTaskOK, TaskStep
<1>4. CASE OpenReplace(p)
  <2> DEFINE t == [task[p] EXCEPT !.pc = "insert",
                                  !.old = TokensOf(task[p].user, task[p].type)]
  <2>1. TokensOf(task[p].user, task[p].type) \subseteq TokenIds
    BY DEF TokensOf
  <2>2. t \in Task /\ TaskOK(t)
    BY <1>0, <1>4, <2>1 DEF OpenReplace, At, Task, TaskOK, SessionTaskOK, LinkTaskOK
  <2>3. Continue(p, t) /\ UNCHANGED <<tables, cookies, links, mailOn>>
    BY <1>4 DEF OpenReplace
  <2> HIDE DEF t
  <2> QED BY <1>0, <2>2, <2>3, TaskStep
<1> QED BY <1>1, <1>2, <1>3, <1>4

\* A request that has written leaves its handler free.
LEMMA FinishStep ==
    ASSUME IInv, NEW p \in Handlers, Finish(p),
           TablesTypeOK', RowsOK', LiveSinceReset', SessionsKept, TokensKept,
           cookies' \subseteq SessionIds, UNCHANGED <<links, mailOn>>
    PROVE  IInv'
<1>1. links' \subseteq TokenIds
  BY DEF IInv, TypeOK
<1>2. TaskOK(NoTask)'
  BY DEF NoTask, TaskOK, SessionTaskOK, LinkTaskOK
<1> QED BY <1>1, <1>2, NoTaskOK, TableStep DEF Finish

\* The statements on users and sessions.
LEMMA AccountStep ==
    ASSUME IInv, NEW p \in Handlers,
           \/ \E u \in Users, s \in SessionIds : RegisterUser(p, u, s)
           \/ MarkVerified(p) \/ \E s \in SessionIds : LogIn(p, s)
           \/ DropSession(p) \/ LogoutAll(p) \/ DeleteSession(p) \/ CompleteOnboarding(p)
    PROVE  IInv'
<1>0. /\ task[p] \in Task /\ TaskOK(task[p]) /\ cookies \subseteq SessionIds
      /\ users \in [Users -> UserRow] /\ links \subseteq TokenIds
  BY TaskTyped DEF IInv, TypeOK, TablesTypeOK
<1>1. ASSUME NEW u \in Users, NEW s \in SessionIds, RegisterUser(p, u, s) PROVE IInv'
  <2> DEFINE t == [NoTask EXCEPT !.pc = "registered", !.user = u, !.session = s]
  <2>1. t \in Task
    BY DEF Task, NoTask
  <2>2. TaskOK(t)'
    BY DEF NoTask, TaskOK, SessionTaskOK, LinkTaskOK
  <2>3. Continue(p, t) /\ UNCHANGED <<tokens, cookies, links, mailOn>>
    BY <1>1 DEF RegisterUser, Register
  <2>4. /\ users' \in [Users -> UserRow]
        /\ \A v \in Users : users'[v].password = users[v].password
    BY <1>0, <1>1 DEF RegisterUser, Register, CreateUser, UserRow
  <2>5. TablesTypeOK' /\ RowsOK' /\ LiveSinceReset' /\ SessionsKept /\ TokensKept
    <3>1. PICK given \in Nat : given = users[u].password
      BY <1>0 DEF UserRow
    <3>2. CreateSession(s, u, given)
      BY <1>1, <3>1 DEF RegisterUser, Register
    <3> QED BY <2>3, <2>4, <3>2, CreatedSession
  <2> HIDE DEF t
  <2> QED BY <1>0, <2>1, <2>2, <2>3, <2>5, TableStep
<1>2. CASE MarkVerified(p) \/ CompleteOnboarding(p)
  <2>1. /\ users' \in [Users -> UserRow]
        /\ \A v \in Users : users'[v].password = users[v].password
    <3>1. \/ users' = [users EXCEPT ![task[p].user].verified = TRUE]
          \/ users' = [users EXCEPT ![task[p].user].onboarded = TRUE]
      BY <1>2 DEF MarkVerified, CompleteOnboarding, MarkUserEmailVerifiedByID,
                  CompleteUserOnboardingByID
    <3>2. CASE users' = [users EXCEPT ![task[p].user].verified = TRUE]
      BY <1>0, <3>2 DEF UserRow
    <3>3. CASE users' = [users EXCEPT ![task[p].user].onboarded = TRUE]
      BY <1>0, <3>3 DEF UserRow
    <3> QED BY <3>1, <3>2, <3>3
  <2>2. Finish(p) /\ UNCHANGED <<sessions, tokens, links, mailOn>>
    BY <1>2 DEF MarkVerified, CompleteOnboarding
  <2>3. cookies' \subseteq SessionIds
    <3>1. CASE MarkVerified(p)
      BY <1>0, <3>1 DEF MarkVerified, SetCookie, At, TaskOK
    <3>2. CASE CompleteOnboarding(p)
      BY <1>0, <3>2 DEF CompleteOnboarding
    <3> QED BY <1>2, <3>1, <3>2
  <2> QED BY <2>1, <2>2, <2>3, ChangedUser, FinishStep
<1>3. ASSUME NEW s \in SessionIds, LogIn(p, s) PROVE IInv'
  <2>1. task[p].user \in Users
    BY <1>0, <1>3 DEF LogIn, At, TaskOK
  <2>2. PICK u \in Users : u = task[p].user
    BY <2>1
  <2> DEFINE given == task[p].compared
  <2>3. /\ CreateSession(s, u, given) /\ Finish(p)
        /\ UNCHANGED <<users, tokens, links, mailOn>>
        /\ cookies' \subseteq SessionIds /\ given \in Nat
    BY <1>0, <1>3, <2>2 DEF LogIn, SetCookie, Task
  <2> HIDE DEF given
  <2>4. TablesTypeOK' /\ RowsOK' /\ LiveSinceReset' /\ SessionsKept /\ TokensKept
    BY <1>0, <2>3, CreatedSession
  <2> QED BY <2>3, <2>4, FinishStep
<1>4. CASE DropSession(p) \/ LogoutAll(p) \/ DeleteSession(p)
  <2>1. PICK which \in SUBSET SessionIds :
           DeleteSessions(which) /\ \A s \in which : LiveSession(s)
    <3> DEFINE one == {task[p].session} \cap {x \in SessionIds : LiveSession(x)}
               others == SessionsOf(task[p].user) \ {task[p].session}
               named == {task[p].target} \cap SessionsOf(task[p].user)
    <3>1. \A s \in one \cup others \cup named : s \in SessionIds /\ LiveSession(s)
      BY DEF SessionsOf
    <3>2. DeleteSessions(one) \/ DeleteSessions(others) \/ DeleteSessions(named)
      BY <1>4 DEF DropSession, DeleteSessionByTokenHash, LogoutAll,
                  DeleteOtherSessionsByUser, DeleteSession, DeleteSessionByIDAndUser
    <3> HIDE DEF one, others, named
    <3>3. one \in SUBSET SessionIds /\ others \in SUBSET SessionIds /\ named \in SUBSET SessionIds
      BY <3>1
    <3> QED BY <3>1, <3>2, <3>3
  <2>2. /\ Finish(p) /\ UNCHANGED <<users, tokens, links, mailOn>>
        /\ cookies' \subseteq SessionIds
    BY <1>0, <1>4 DEF DropSession, LogoutAll, DeleteSession, ClearCookie
  <2> QED BY <2>1, <2>2, DeletedSessions, FinishStep
<1> QED BY <1>1, <1>2, <1>3, <1>4

\* The transaction that makes a link, and its mail.
LEMMA LinkStep ==
    ASSUME IInv, NEW p \in Handlers,
           (\E x \in TokenIds : CommitReplace(p, x)) \/ Mail(p)
    PROVE  IInv'
<1>0. /\ task[p] \in Task /\ TaskOK(task[p]) /\ cookies \subseteq SessionIds
      /\ tokens \in [TokenIds -> TokenRow] /\ links \subseteq TokenIds
  BY TaskTyped DEF IInv, TypeOK, TablesTypeOK
<1>1. ASSUME NEW x \in TokenIds, CommitReplace(p, x) PROVE IInv'
  <2> DEFINE row == [state |-> "live", user |-> task[p].user, type |-> task[p].type,
                     expired |-> FALSE]
             t == [task[p] EXCEPT !.pc = "mail", !.token = x, !.old = {}]
  <2>1. /\ task[p].user \in Users /\ task[p].type \in TokenTypes
        /\ task[p].old \subseteq TokenIds
    BY <1>0, <1>1 DEF CommitReplace, At, TaskOK, Task
  <2>2. /\ tokens[x].state = "none" /\ tokens'[x] = row
        /\ \A y \in TokenIds \ {x} :
              tokens'[y] = IF y \in task[p].old /\ LiveToken(y)
                           THEN [tokens[y] EXCEPT !.state = "gone"] ELSE tokens[y]
    BY <1>1 DEF CommitReplace, ReplaceVerificationToken, NewToken, EndTokens
  <2>3. /\ row \in TokenRow /\ row.state = "live"
        /\ row.user \in Users /\ row.type \in TokenTypes
    BY <2>1 DEF TokenRow
  <2>4. \A y \in TokenIds \ {x} :
          /\ tokens'[y] \in TokenRow
          /\ tokens'[y].user = tokens[y].user /\ tokens'[y].type = tokens[y].type
          /\ tokens'[y].state = "none" <=> tokens[y].state = "none"
    <3> TAKE y \in TokenIds \ {x}
    <3>1. CASE y \in task[p].old /\ LiveToken(y)
      <4>1. PICK old : old = [tokens[y] EXCEPT !.state = "gone"]
        OBVIOUS
      <4>2. /\ old \in TokenRow /\ old.state = "gone"
            /\ old.user = tokens[y].user /\ old.type = tokens[y].type
        BY <1>0, <4>1 DEF TokenRow
      <4>3. tokens'[y] = old /\ tokens[y].state = "live"
        BY <2>2, <3>1, <4>1 DEF LiveToken
      <4> QED BY <4>2, <4>3
    <3>2. CASE ~(y \in task[p].old /\ LiveToken(y))
      BY <1>0, <2>2, <3>2
    <3> QED BY <3>1, <3>2
  <2>5. Continue(p, t) /\ UNCHANGED <<users, sessions, cookies, links, mailOn>>
    BY <1>1 DEF CommitReplace, ReplaceVerificationToken
  <2>6. t \in Task /\ t.pc = "mail" /\ t.user \in Users /\ t.token = x
    BY <1>0, <2>1 DEF Task
  <2> HIDE DEF row, t
  <2>7. DOMAIN tokens' = TokenIds /\ tokens' = [y \in TokenIds |-> tokens'[y]]
    BY <1>1 DEF CommitReplace, ReplaceVerificationToken, EndTokens
  <2>8. tokens' \in [TokenIds -> TokenRow]
    BY <2>2, <2>3, <2>4, <2>7
  <2>9. SessionsKept /\ TokensKept
    BY <2>2, <2>3, <2>4, <2>5 DEF SessionsKept, TokensKept
  <2>10. RowsOK'
    <3>1. \A y \in TokenIds : tokens'[y].state # "none" =>
             tokens'[y].user \in Users /\ tokens'[y].type \in TokenTypes
      BY <2>2, <2>3, <2>4 DEF IInv, RowsOK
    <3>2. \A y \in links : tokens'[y].state # "none"
      BY <1>0, <2>2, <2>3, <2>4 DEF IInv, RowsOK
    <3> QED BY <2>5, <3>1, <3>2 DEF IInv, RowsOK
  <2>11. TablesTypeOK' /\ LiveSinceReset'
    BY <2>5, <2>8 DEF IInv, TypeOK, TablesTypeOK, LiveSinceReset, LiveSession
  <2>12. PICK s \in Task : s = t
    BY <2>6
  <2>13. TaskOK(s)'
    BY <2>2, <2>3, <2>6, <2>12 DEF TaskOK, SessionTaskOK, LinkTaskOK
  <2> QED BY <1>0, <2>5, <2>9, <2>10, <2>11, <2>12, <2>13, TableStep
<1>2. CASE Mail(p)
  <2>1. task[p].token \in TokenIds /\ tokens[task[p].token].state # "none"
    BY <1>0, <1>2 DEF Mail, At, TaskOK, LinkTaskOK
  <2>2. /\ Continue(p, NoTask) /\ UNCHANGED <<tables, cookies, mailOn>>
        /\ links' = links \cup {task[p].token}
    BY <1>2 DEF Mail, Finish
  <2>3. TablesTypeOK' /\ RowsOK' /\ LiveSinceReset' /\ SessionsKept /\ TokensKept
    BY <2>1, <2>2 DEF IInv, TypeOK, TablesTypeOK, tables, RowsOK, LiveSinceReset,
                      LiveSession, SessionsKept, TokensKept
  <2>4. TaskOK(NoTask)'
    BY DEF NoTask, TaskOK, SessionTaskOK, LinkTaskOK
  <2> QED BY <1>0, <2>1, <2>2, <2>3, <2>4, NoTaskOK, TableStep
<1> QED BY <1>1, <1>2

\* The transactions that spend a link.
LEMMA SpendStep ==
    ASSUME IInv, NEW p \in Handlers,
           DropToken(p) \/ ConfirmVerifyEmail(p) \/ ResetPassword(p)
    PROVE  IInv'
<1>0. /\ task[p] \in Task /\ TaskOK(task[p]) /\ cookies \subseteq SessionIds
      /\ users \in [Users -> UserRow] /\ sessions \in [SessionIds -> SessionRow]
  BY TaskTyped DEF IInv, TypeOK, TablesTypeOK
<1>1. task[p].token \in TokenIds /\ task[p].user \in Users
  <2>1. task[p].token \in links /\ task[p].user \in Users
    BY <1>0 DEF DropToken, ConfirmVerifyEmail, ResetPassword, At, TaskOK, LinkTaskOK
  <2> QED BY <2>1 DEF IInv, TypeOK
<1>2. /\ Finish(p) /\ UNCHANGED <<cookies, links, mailOn>>
      /\ \E how \in {"gone", "spent"} : tokens' = EndTokens({task[p].token}, how)
  BY DEF DropToken, ConfirmVerifyEmail, ResetPassword, ConfirmEmailVerification,
         ResetPasswordWithToken, DeleteVerificationTokenByID
<1>3. tokens' \in [TokenIds -> TokenRow] /\ TokensKept
  <2>1. PICK which \in SUBSET TokenIds : which = {task[p].token}
    BY <1>1
  <2> QED BY <1>2, <2>1, EndedTokens
<1>4. /\ users' \in [Users -> UserRow]
      /\ sessions' \in [SessionIds -> SessionRow] /\ SessionsKept /\ LiveSinceReset'
  <2>1. CASE DropToken(p)
    BY <1>0, <2>1 DEF DropToken, SessionsKept, IInv, LiveSinceReset, LiveSession
  <2>2. CASE ConfirmVerifyEmail(p)
    <3>1. /\ users' \in [Users -> UserRow] /\ UNCHANGED sessions
          /\ \A v \in Users : users'[v].password = users[v].password
      BY <1>0, <1>1, <2>2 DEF ConfirmVerifyEmail, ConfirmEmailVerification,
                             MarkUserEmailVerifiedByID, UserRow
    <3> QED BY <1>0, <3>1 DEF SessionsKept, IInv, RowsOK, LiveSinceReset, LiveSession
  <2>3. CASE ResetPassword(p)
    <3> DEFINE u == task[p].user
    <3>1. /\ users' = [users EXCEPT ![u].password = @ + 1]
          /\ DeleteSessions(SessionsOf(u))
      BY <2>3 DEF ResetPassword, ResetPasswordWithToken, UpdatePasswordCredentialByUserID,
                  DeleteSessionsByUserID
    <3>2. /\ users' \in [Users -> UserRow]
          /\ \A v \in Users \ {u} : users'[v].password = users[v].password
      BY <1>0, <1>1, <3>1 DEF UserRow
    <3>3. \A s \in SessionIds :
             /\ sessions'[s] \in SessionRow
             /\ sessions'[s].user = sessions[s].user /\ sessions'[s].since = sessions[s].since
             /\ sessions'[s].state = IF s \in SessionsOf(u) THEN "gone" ELSE sessions[s].state
      BY <1>0, <3>1 DEF DeleteSessions, SessionRow
    <3>4. sessions' \in [SessionIds -> SessionRow]
      BY <3>1, <3>3 DEF DeleteSessions
    <3>5. SessionsKept
      BY <3>3 DEF SessionsKept
    <3>6. LiveSinceReset'
      <4> SUFFICES ASSUME NEW s \in SessionIds, LiveSession(s)'
                   PROVE  (sessions[s].since = users[sessions[s].user].password)'
        BY DEF LiveSinceReset
      <4>1. LiveSession(s) /\ sessions[s].user \in Users \ {u}
        BY <3>3 DEF LiveSession, SessionsOf, IInv, RowsOK
      <4> QED BY <3>2, <3>3, <4>1 DEF IInv, LiveSinceReset
    <3> QED BY <3>2, <3>4, <3>5, <3>6
  <2> QED BY <2>1, <2>2, <2>3
<1>5. \A s \in SessionIds : sessions'[s].state # "none" => sessions[s].state # "none"
  BY <1>0 DEF DropToken, ConfirmVerifyEmail, ConfirmEmailVerification, ResetPassword,
              ResetPasswordWithToken, DeleteSessionsByUserID, DeleteSessions, SessionsOf,
              LiveSession
<1>6. \A t \in TokenIds : tokens'[t].state # "none" => tokens[t].state # "none"
  BY <1>2 DEF EndTokens, LiveToken
<1>7. RowsOK'
  BY <1>2, <1>3, <1>4, <1>5, <1>6 DEF IInv, TypeOK, RowsOK, SessionsKept, TokensKept
<1>8. TablesTypeOK'
  BY <1>3, <1>4 DEF TablesTypeOK
<1> QED BY <1>0, <1>2, <1>3, <1>4, <1>7, <1>8, FinishStep

\* What happens outside of any request.
LEMMA OutsideStep ==
    ASSUME IInv,
           \/ \E s \in SessionIds : Logout(s) \/ Unauthenticated(s) \/ ExpireSession(s)
           \/ \E t \in TokenIds : ExpireToken(t)
           \/ SwitchMail
    PROVE  IInv'
<1>0. /\ cookies \subseteq SessionIds /\ mailOn \in BOOLEAN
      /\ sessions \in [SessionIds -> SessionRow] /\ tokens \in [TokenIds -> TokenRow]
  BY DEF IInv, TypeOK, TablesTypeOK
<1>1. ASSUME NEW s \in SessionIds, Logout(s) PROVE IInv'
  <2>1. PICK which \in SUBSET SessionIds :
           DeleteSessions(which) /\ \A x \in which : LiveSession(x)
    BY <1>1 DEF Logout, DeleteSessionByTokenHash
  <2> QED BY <1>0, <1>1, <2>1, DeletedSessions, QuietStep DEF Logout, ClearCookie
<1>2. CASE SwitchMail \/ \E s \in SessionIds : Unauthenticated(s)
  <2>1. UNCHANGED <<tables, links, task>> /\ cookies' \subseteq SessionIds /\ mailOn' \in BOOLEAN
    BY <1>0, <1>2 DEF SwitchMail, Unauthenticated, ClearCookie
  <2> QED BY <2>1, TablesUnchanged, QuietStep
<1>3. ASSUME NEW s \in SessionIds, ExpireSession(s) PROVE IInv'
  <2>1. \A x \in SessionIds :
          /\ sessions'[x] \in SessionRow /\ sessions'[x].state = sessions[x].state
          /\ sessions'[x].user = sessions[x].user /\ sessions'[x].since = sessions[x].since
    BY <1>0, <1>3 DEF ExpireSession, SessionRow
  <2>2. sessions' \in [SessionIds -> SessionRow]
    BY <1>0, <1>3, <2>1 DEF ExpireSession
  <2>3. UNCHANGED <<users, tokens, cookies, links, mailOn, task>>
    BY <1>3 DEF ExpireSession
  <2>4. TablesTypeOK' /\ RowsOK' /\ LiveSinceReset' /\ SessionsKept /\ TokensKept
    BY <2>1, <2>2, <2>3 DEF IInv, TypeOK, TablesTypeOK, RowsOK, LiveSinceReset, LiveSession,
                            SessionsKept, TokensKept
  <2> QED BY <1>0, <2>3, <2>4, QuietStep
<1>4. ASSUME NEW t \in TokenIds, ExpireToken(t) PROVE IInv'
  <2>1. \A x \in TokenIds :
          /\ tokens'[x] \in TokenRow /\ tokens'[x].state = tokens[x].state
          /\ tokens'[x].user = tokens[x].user /\ tokens'[x].type = tokens[x].type
    BY <1>0, <1>4 DEF ExpireToken, TokenRow
  <2>2. tokens' \in [TokenIds -> TokenRow]
    BY <1>0, <1>4, <2>1 DEF ExpireToken
  <2>3. UNCHANGED <<users, sessions, cookies, links, mailOn, task>>
    BY <1>4 DEF ExpireToken
  <2>4. TokensKept /\ \A x \in TokenIds : tokens[x].state = "none" => tokens'[x].state = "none"
    BY <2>1 DEF TokensKept
  <2> QED BY <1>0, <2>2, <2>3, <2>4, KeptTokens, QuietStep
<1> QED BY <1>1, <1>2, <1>3, <1>4

\* Every step preserves the invariant.
LEMMA NextIInv == IInv /\ [Next]_vars => IInv'
<1> SUFFICES ASSUME IInv, [Next]_vars PROVE IInv'
  OBVIOUS
<1>1. CASE UNCHANGED vars
  <2>1. /\ UNCHANGED <<tables, links, task>> /\ cookies' \subseteq SessionIds
        /\ mailOn' \in BOOLEAN
    BY <1>1 DEF vars, IInv, TypeOK
  <2> QED BY <2>1, TablesUnchanged, QuietStep
<1>2. CASE Next
  BY <1>2, BeginStep, ReadStep, AccountStep, LinkStep, SpendStep, OutsideStep DEF Next, Work
<1> QED BY <1>1, <1>2

-----------------------------------------------------------------------------
(* The users of AccountsRecovery. *)

\* Every nonempty set of numbers has a least one.
LEMMA LeastNumber ==
    ASSUME NEW S \in SUBSET Nat, S # {}
    PROVE  \E m \in S : \A x \in S : m <= x
<1> DEFINE below == OpToRel(<, Nat)
<1>1. IsWellFoundedOn(below, Nat)
  BY NatLessThanWellFounded
<1>2. \A x, y : <<x, y>> \in below <=> x \in Nat /\ y \in Nat /\ x < y
  BY DEF OpToRel
<1> HIDE DEF below
<1>3. PICK m \in S : \A x \in S : ~(<<x, m>> \in below)
  BY <1>1, WFMin
<1>4. \A x \in S : x \in Nat /\ m \in Nat
  OBVIOUS
<1>5. \A x \in S : ~(x < m)
  BY <1>2, <1>3, <1>4
<1> QED BY <1>4, <1>5

\* So it holds where those begin who want to be signed in.
LEMMA RecoveryInitIInv == RecoveryInit => IInv
<1> SUFFICES ASSUME RecoveryInit PROVE IInv
  OBVIOUS
<1> DEFINE first == CHOOSE s \in SessionIds : \A x \in SessionIds : s <= x
<1>1. first \in SessionIds
  BY UpsetsAssumption, LeastNumber
<1>2. /\ users = [u \in Users |-> IF u # Bystander THEN NoUser ELSE
                    [registered |-> TRUE, password |-> 0, verified |-> TRUE, onboarded |-> TRUE]]
      /\ sessions = [s \in SessionIds |-> IF s # first THEN NoSession ELSE
                       [NoSession EXCEPT !.state = "live", !.user = Bystander]]
      /\ tokens = [t \in TokenIds |-> NoToken]
      /\ cookies = {first} /\ links = {} /\ mailOn \in BOOLEAN
      /\ task = [p \in Handlers |-> NoTask]
  BY DEF RecoveryInit
<1> HIDE DEF first
<1>3. TablesTypeOK
  BY <1>2, UpsetsAssumption DEF TablesTypeOK, UserRow, NoUser, SessionRow, NoSession,
                                TokenRow, NoToken
<1>4. task \in [Handlers -> Task] /\ TasksOK
  BY <1>2, NoTaskOK DEF TasksOK
<1>5. RowsOK /\ LiveSinceReset
  BY <1>2, UpsetsAssumption DEF RowsOK, LiveSinceReset, LiveSession, NoSession, NoToken, NoUser
<1> QED BY <1>1, <1>2, <1>3, <1>4, <1>5 DEF IInv, TypeOK

\* What users do is what requests do; one who forgets touches no table.
LEMMA RecoverySteps ==
    ASSUME TypeOK, RecoveryNext
    PROVE  Next \/ \E u \in Users : Forget(u)
<1>1. Others \subseteq Users /\ Cookies \subseteq SessionIds
  BY DEF TypeOK, Others, Cookies
<1>2. ASSUME NEW u \in Others, Pursues(u) PROVE Next
  <2>0. u \in Users
    BY <1>1
  <2>1. CASE Joins(u)
    BY <2>0, <2>1 DEF Joins, Next
  <2>2. CASE ComesBack(u) \/ AsksForReset(u)
    BY <2>0, <2>2 DEF ComesBack, AsksForReset, Next
  <2>3. CASE Resets(u) \/ Verifies(u)
    <3>1. \E p \in Handlers, t \in TokenIds, type \in TokenTypes : FindToken(p, t, type)
      BY <2>3 DEF Resets, Verifies, UsableLinks, TokensOf, TokenTypes
    <3> QED BY <3>1 DEF Next
  <2>4. CASE AsksToVerify(u)
    <3>1. \E p \in Handlers, s \in SessionIds : Guarded(p, s)
      BY <2>4 DEF AsksToVerify, SessionsOf, Guarded
    <3> QED BY <3>1 DEF Next
  <2> QED BY <1>2, <2>1, <2>2, <2>3, <2>4 DEF Pursues
<1>3. CASE \E p \in Handlers : Proceed(p)
  BY <1>3 DEF Proceed, Next
<1>4. CASE \E s \in SessionIds : Unauthenticated(s) /\ UNCHANGED <<knows, upsets>>
  BY <1>4 DEF Next
<1>5. CASE Trouble
  <2>1. CASE \E u \in Others : Forget(u)
    BY <1>1, <2>1
  <2>2. CASE \E p \in Handlers : \/ Fail(p)
                                 \/ \E u \in Others : Login(p, u) \/ ForgotPassword(p, u)
                                 \/ \E t \in TokenIds, type \in TokenTypes : FindToken(p, t, type)
    BY <1>1, <2>2 DEF Next
  <2>3. CASE \/ \E p \in Handlers, s \in Cookies : Guarded(p, s)
             \/ \E s \in Cookies : Logout(s) \/ ExpireSession(s)
    BY <1>1, <2>3 DEF Next
  <2>4. CASE SwitchMail \/ \E t \in TokenIds : ExpireToken(t)
    BY <2>4 DEF Next
  <2> QED BY <1>5, <2>1, <2>2, <2>3, <2>4 DEF Trouble
<1> QED BY <1>2, <1>3, <1>4, <1>5 DEF RecoveryNext

\* Their steps, and the steps of trouble, preserve it.
LEMMA RecoveryNextIInv == IInv /\ [RecoveryNext]_recoveryVars => IInv'
<1> SUFFICES ASSUME IInv, [RecoveryNext]_recoveryVars PROVE IInv'
  OBVIOUS
<1>1. ASSUME NEW u \in Users, Forget(u) PROVE IInv'
  <2>1. /\ UNCHANGED <<tables, links, mailOn, task>>
        /\ cookies' \subseteq SessionIds /\ mailOn' \in BOOLEAN
    BY <1>1 DEF Forget, IInv, TypeOK
  <2> QED BY <2>1, TablesUnchanged, QuietStep
<1>2. CASE UNCHANGED vars
  BY <1>2, NextIInv
<1>3. TypeOK
  BY DEF IInv
<1> QED BY <1>1, <1>2, <1>3, NextIInv, RecoverySteps DEF recoveryVars

-----------------------------------------------------------------------------
(* What the steps of any reachable state may do. *)

\* Of the tables' writers, one resets passwords and two verify addresses.
LEMMA UserWriters ==
    ASSUME IInv, Next, users' # users
    PROVE  \E p \in Handlers :
              \/ \E u \in Users, s \in SessionIds : RegisterUser(p, u, s)
              \/ MarkVerified(p) \/ CompleteOnboarding(p)
              \/ ConfirmVerifyEmail(p) \/ ResetPassword(p)
<1>1. ASSUME NEW s \in SessionIds, Logout(s) \/ Unauthenticated(s) \/ ExpireSession(s)
      PROVE  UNCHANGED users
  BY <1>1 DEF Logout, Unauthenticated, ExpireSession, tables
<1>2. ASSUME NEW p \in Handlers, NEW s \in SessionIds, Guarded(p, s)
      PROVE  UNCHANGED users
  BY <1>2 DEF Guarded, Authenticate, tables
<1>3. ASSUME NEW p \in Handlers, NEW u \in Users, Login(p, u) \/ ForgotPassword(p, u)
      PROVE  UNCHANGED users
  BY <1>3 DEF Login, ForgotPassword, tables
<1>4. ASSUME NEW p \in Handlers,
             \/ Registered(p) \/ (\E s \in SessionIds : LogIn(p, s)) \/ DropSession(p)
             \/ LogoutAll(p) \/ GetCurrentSession(p) \/ DeleteSession(p)
             \/ ResolveEmailService(p) \/ OpenReplace(p)
             \/ (\E t \in TokenIds : CommitReplace(p, t))
             \/ Mail(p) \/ DropToken(p) \/ TokenLost(p) \/ Fail(p)
             \/ \E t \in TokenIds, type \in TokenTypes : FindToken(p, t, type)
      PROVE  UNCHANGED users
  BY <1>4 DEF Registered, LogIn, DropSession, LogoutAll, GetCurrentSession, DeleteSession,
              ResolveEmailService, OpenReplace, CommitReplace, ReplaceVerificationToken,
              Mail, DropToken, TokenLost, Fail, FindToken, tables
<1>5. ASSUME (\E t \in TokenIds : ExpireToken(t)) \/ SwitchMail
      PROVE  UNCHANGED users
  BY <1>5 DEF ExpireToken, SwitchMail, tables
<1> QED BY <1>1, <1>2, <1>3, <1>4, <1>5 DEF Next, Work

\* A link that authorises a change is its user's and of the right type, and
\* is spent by the change.
LEMMA Spends ==
    ASSUME IInv, NEW p \in Handlers, NEW type \in TokenTypes,
           \/ ConfirmVerifyEmail(p) /\ type = "email_verification"
           \/ ResetPassword(p) /\ type = "password_reset"
    PROVE  \E t \in links : t \in TokensOf(task[p].user, type) /\ tokens'[t].state = "spent"
<1>1. task[p].token \in TokenIds /\ LiveToken(task[p].token)
      /\ tokens' = EndTokens({task[p].token}, "spent")
  <2>1. task[p].token \in links /\ links \subseteq TokenIds
    BY TaskTyped DEF ConfirmVerifyEmail, ResetPassword, At, TaskOK, LinkTaskOK, IInv, TypeOK
  <2> QED BY <2>1 DEF ConfirmVerifyEmail, ConfirmEmailVerification, ResetPassword,
                     ResetPasswordWithToken, DeleteVerificationTokenByID
<1>2. tokens'[task[p].token].state = "spent"
  <2>1. PICK which \in SUBSET TokenIds : which = {task[p].token}
    BY <1>1
  <2> QED BY <1>1, <2>1, EndedTokens
<1>3. /\ task[p].token \in links /\ tokens[task[p].token].user = task[p].user
      /\ tokens[task[p].token].type = type
  BY TaskTyped DEF ConfirmVerifyEmail, ResetPassword, At, TaskOK, LinkTaskOK
<1> QED BY <1>1, <1>2, <1>3 DEF TokensOf

SpentOnce ==
    \A u \in Users :
        LET spends(type) == \E t \in links : /\ t \in TokensOf(u, type)
                                             /\ tokens'[t].state = "spent"
        IN  /\ users'[u].password # users[u].password => spends("password_reset")
            /\ users'[u].verified # users[u].verified =>
                  spends("email_verification") \/ \E p \in Handlers : At(p, "mark") /\ task[p].user = u

\* Where no user changes, no link takes effect.
LEMMA SpentOnceUnchanged == UNCHANGED users => SpentOnce
BY DEF SpentOnce

\* What changes a password or verifies an address spends a link that was good.
LEMMA NextSpentOnce == IInv /\ [Next]_vars => SpentOnce
<1> SUFFICES ASSUME IInv, [Next]_vars PROVE SpentOnce
  OBVIOUS
<1>0. users \in [Users -> UserRow]
  BY DEF IInv, TypeOK, TablesTypeOK
<1>1. CASE UNCHANGED users
  BY <1>1, SpentOnceUnchanged
<1>2. ASSUME NEW p \in Handlers,
             \/ \E u \in Users, s \in SessionIds : RegisterUser(p, u, s)
             \/ CompleteOnboarding(p)
      PROVE  SpentOnce
  <2>1. \E u \in Users : \/ users' = [users EXCEPT ![u].registered = TRUE]
                         \/ users' = [users EXCEPT ![u].onboarded = TRUE]
    <3>1. CASE CompleteOnboarding(p)
      <4>1. task[p].user \in Users
        BY <3>1, TaskTyped DEF CompleteOnboarding, At, TaskOK
      <4> QED BY <3>1, <4>1 DEF CompleteOnboarding, CompleteUserOnboardingByID
    <3> QED BY <1>2, <3>1 DEF RegisterUser, Register, CreateUser
  <2>2. PICK u \in Users : \/ users' = [users EXCEPT ![u].registered = TRUE]
                           \/ users' = [users EXCEPT ![u].onboarded = TRUE]
    BY <2>1
  <2>3. \A v \in Users : /\ users'[v].password = users[v].password
                         /\ users'[v].verified = users[v].verified
    BY <1>0, <2>2 DEF UserRow
  <2> QED BY <2>3 DEF SpentOnce
<1>3. ASSUME NEW p \in Handlers, MarkVerified(p) \/ ConfirmVerifyEmail(p)
      PROVE  SpentOnce
  <2>1. users' = [users EXCEPT ![task[p].user].verified = TRUE]
    BY <1>3 DEF MarkVerified, ConfirmVerifyEmail, ConfirmEmailVerification,
                MarkUserEmailVerifiedByID
  <2>2. \A v \in Users : /\ users'[v].password = users[v].password
                         /\ v # task[p].user => users'[v].verified = users[v].verified
    BY <1>0, <2>1 DEF UserRow
  <2>3. \/ At(p, "mark")
        \/ \E t \in links : /\ t \in TokensOf(task[p].user, "email_verification")
                            /\ tokens'[t].state = "spent"
    BY <1>3, Spends DEF MarkVerified, TokenTypes
  <2> QED BY <2>2, <2>3 DEF SpentOnce
<1>4. ASSUME NEW p \in Handlers, ResetPassword(p)
      PROVE  SpentOnce
  <2>1. users' = [users EXCEPT ![task[p].user].password = @ + 1]
    BY <1>4 DEF ResetPassword, ResetPasswordWithToken, UpdatePasswordCredentialByUserID
  <2>2. \A v \in Users : /\ users'[v].verified = users[v].verified
                         /\ v # task[p].user => users'[v].password = users[v].password
    BY <1>0, <2>1 DEF UserRow
  <2>3. \E t \in links : /\ t \in TokensOf(task[p].user, "password_reset")
                         /\ tokens'[t].state = "spent"
    BY <1>4, Spends DEF TokenTypes
  <2> QED BY <2>2, <2>3 DEF SpentOnce
<1> QED BY <1>1, <1>2, <1>3, <1>4, UserWriters DEF vars, tables

EndedByTheirUser ==
    \A s \in SessionIds : LiveSession(s) /\ sessions'[s].state = "gone" =>
        \/ s \in cookies \ cookies'
        \/ \E p \in Handlers : /\ task'[p] # task[p]
                               /\ task[p].user = sessions[s].user
                               /\ ~(At(p, "logout all") /\ task[p].session = s)

\* A request that deletes sessions deletes some of its user's.
LEMMA RequestEnds ==
    ASSUME IInv, NEW p \in Handlers,
           DropSession(p) \/ LogoutAll(p) \/ DeleteSession(p) \/ ResetPassword(p)
    PROVE  EndedByTheirUser
<1>0. /\ sessions \in [SessionIds -> SessionRow] /\ task \in [Handlers -> Task]
      /\ TaskOK(task[p])
  BY TaskTyped DEF IInv, TypeOK, TablesTypeOK
<1>1. Finish(p) /\ task[p].pc # "idle"
  BY DEF DropSession, LogoutAll, DeleteSession, ResetPassword, At
<1>2. task'[p] # task[p]
  BY <1>0, <1>1 DEF Finish, Continue, NoTask
<1>3. SUFFICES ASSUME NEW s \in SessionIds, LiveSession(s), sessions'[s].state = "gone"
               PROVE  /\ task[p].user = sessions[s].user
                      /\ ~(At(p, "logout all") /\ task[p].session = s)
  BY <1>2 DEF EndedByTheirUser
<1>4. CASE DropSession(p)
  BY <1>0, <1>3, <1>4 DEF DropSession, DeleteSessionByTokenHash, DeleteSessions, At,
                          LiveSession, TaskOK, SessionTaskOK
<1>5. CASE LogoutAll(p) \/ DeleteSession(p) \/ ResetPassword(p)
  <2> DEFINE others == SessionsOf(task[p].user) \ {task[p].session}
             named == {task[p].target} \cap SessionsOf(task[p].user)
  <2>1. \/ DeleteSessions(others)
        \/ ~At(p, "logout all") /\ DeleteSessions(named)
        \/ ~At(p, "logout all") /\ DeleteSessions(SessionsOf(task[p].user))
    BY <1>5 DEF LogoutAll, DeleteOtherSessionsByUser, DeleteSession, DeleteSessionByIDAndUser,
                ResetPassword, ResetPasswordWithToken, DeleteSessionsByUserID, At
  <2>2. \A which : DeleteSessions(which) => s \in which
    BY <1>0, <1>3 DEF DeleteSessions, LiveSession
  <2>3. \/ s \in others
        \/ ~At(p, "logout all") /\ s \in SessionsOf(task[p].user)
    BY <2>1, <2>2
  <2> QED BY <2>3 DEF SessionsOf
<1> QED BY <1>4, <1>5

\* Every other step leaves live sessions live.
LEMMA OtherStepsEndNone ==
    ASSUME IInv, Next, sessions' # sessions
    PROVE  \/ \E p \in Handlers :
                 DropSession(p) \/ LogoutAll(p) \/ DeleteSession(p) \/ ResetPassword(p)
           \/ \E s \in SessionIds : Logout(s)
           \/ \A s \in SessionIds : LiveSession(s) => sessions'[s].state = "live"
<1>0. sessions \in [SessionIds -> SessionRow]
  BY DEF IInv, TypeOK, TablesTypeOK
<1>1. ASSUME NEW s \in SessionIds, Unauthenticated(s) PROVE UNCHANGED sessions
  BY <1>1 DEF Unauthenticated, tables
<1>2. ASSUME NEW p \in Handlers, NEW s \in SessionIds, Guarded(p, s)
      PROVE  UNCHANGED sessions
  BY <1>2 DEF Guarded, Authenticate, tables
<1>3. ASSUME NEW p \in Handlers, NEW u \in Users, Login(p, u) \/ ForgotPassword(p, u)
      PROVE  UNCHANGED sessions
  BY <1>3 DEF Login, ForgotPassword, tables
<1>4. ASSUME NEW p \in Handlers,
             \/ Registered(p) \/ MarkVerified(p) \/ GetCurrentSession(p)
             \/ CompleteOnboarding(p) \/ ResolveEmailService(p) \/ OpenReplace(p)
             \/ (\E t \in TokenIds : CommitReplace(p, t))
             \/ Mail(p) \/ DropToken(p) \/ ConfirmVerifyEmail(p) \/ TokenLost(p) \/ Fail(p)
             \/ \E t \in TokenIds, type \in TokenTypes : FindToken(p, t, type)
      PROVE  UNCHANGED sessions
  BY <1>4 DEF Registered, MarkVerified, GetCurrentSession, CompleteOnboarding,
              ResolveEmailService, OpenReplace, CommitReplace, ReplaceVerificationToken,
              Mail, DropToken, ConfirmVerifyEmail, ConfirmEmailVerification, TokenLost, Fail,
              FindToken, tables
<1>5. ASSUME (\E t \in TokenIds : ExpireToken(t)) \/ SwitchMail
      PROVE  UNCHANGED sessions
  BY <1>5 DEF ExpireToken, SwitchMail, tables
<1>6. ASSUME NEW x \in SessionIds, NEW u, NEW given, CreateSession(x, u, given)
      PROVE  \A s \in SessionIds : LiveSession(s) => sessions'[s].state = "live"
  BY <1>0, <1>6 DEF CreateSession, NewSession, LiveSession
<1>7. ASSUME NEW x \in SessionIds, ExpireSession(x)
      PROVE  \A s \in SessionIds : LiveSession(s) => sessions'[s].state = "live"
  BY <1>0, <1>7 DEF ExpireSession, LiveSession, SessionRow
<1>8. ASSUME NEW p \in Handlers,
             \/ \E u \in Users, s \in SessionIds : RegisterUser(p, u, s)
             \/ \E s \in SessionIds : LogIn(p, s)
      PROVE  \A s \in SessionIds : LiveSession(s) => sessions'[s].state = "live"
  BY <1>6, <1>8 DEF RegisterUser, Register, LogIn
<1> QED BY <1>1, <1>2, <1>3, <1>4, <1>5, <1>7, <1>8 DEF Next, Work

\* What ends a session is done by, or for, its own user.
LEMMA NextEndedByTheirUser == IInv /\ [Next]_vars => EndedByTheirUser
<1> SUFFICES ASSUME IInv, [Next]_vars PROVE EndedByTheirUser
  OBVIOUS
<1>1. CASE UNCHANGED sessions
  BY <1>1 DEF EndedByTheirUser, LiveSession
<1>2. ASSUME NEW x \in SessionIds, Logout(x) PROVE EndedByTheirUser
  <2>1. \A s \in SessionIds : LiveSession(s) /\ sessions'[s].state = "gone" => s = x
    BY <1>2 DEF Logout, DeleteSessionByTokenHash, DeleteSessions, LiveSession
  <2>2. x \in cookies \ cookies'
    BY <1>2 DEF Logout, ClearCookie
  <2> QED BY <2>1, <2>2 DEF EndedByTheirUser
<1>3. CASE \A s \in SessionIds : LiveSession(s) => sessions'[s].state = "live"
  BY <1>3 DEF EndedByTheirUser
<1> QED BY <1>1, <1>2, <1>3, RequestEnds, OtherStepsEndNone DEF vars, tables

-----------------------------------------------------------------------------

\* Every value has its type, whatever requests overlap and fail.
THEOREM TypeCorrect == Spec => []TypeOK
<1>1. IInv => TypeOK
  BY DEF IInv
<1> QED BY <1>1, InitIInv, NextIInv, PTL DEF Spec

\* However requests overlap and fail, a session that is live although its user's
\* password is no longer the one its login compared was inserted after the
\* last reset.  (What was inserted before that is gone.)
THEOREM ResetsRevoke == Spec => []ResetRevokes
<1>1. IInv => ResetRevokes
  BY DEF IInv, LiveSinceReset, ResetRevokes
<1> QED BY <1>1, InitIInv, NextIInv, PTL DEF Spec

\* Passwords change, and addresses are verified, by links that were mailed to
\* their user, each spent by the one change it authorises.
THEOREM LinksSpentOnce == Spec => LinksAreSpentOnce
<1>1. IInv /\ [Next]_vars => [SpentOnce]_vars
  BY NextSpentOnce
<1>2. Spec => [][SpentOnce]_vars
  BY <1>1, InitIInv, NextIInv, PTL DEF Spec
<1>3. [][SpentOnce]_vars => LinksAreSpentOnce
  BY DEF LinksAreSpentOnce, SpentOnce
<1> QED BY <1>2, <1>3

\* Only its user's requests, its own cookie or its age end a session.
THEOREM SessionsEnd == Spec => SessionsEndByTheirUser
<1>1. IInv /\ [Next]_vars => [EndedByTheirUser]_vars
  BY NextEndedByTheirUser
<1>2. Spec => [][EndedByTheirUser]_vars
  BY <1>1, InitIInv, NextIInv, PTL DEF Spec
<1>3. [][EndedByTheirUser]_vars => SessionsEndByTheirUser
  BY DEF SessionsEndByTheirUser, EndedByTheirUser
<1> QED BY <1>2, <1>3

\* The same of the users of AccountsRecovery, one of whom is signed in
\* before anything begins, and who forget their passwords and cookies.
THEOREM RecoveryIsSafe ==
    RecoverySpec => /\ []TypeOK /\ []ResetRevokes
                    /\ LinksAreSpentOnce /\ SessionsEndByTheirUser
<1>1. IInv => TypeOK /\ ResetRevokes
  BY DEF IInv, LiveSinceReset, ResetRevokes
<1>2. IInv /\ [RecoveryNext]_recoveryVars => [SpentOnce]_vars /\ [EndedByTheirUser]_vars
  <2> SUFFICES ASSUME IInv, [RecoveryNext]_recoveryVars
               PROVE  SpentOnce /\ EndedByTheirUser
    OBVIOUS
  <2>1. TypeOK
    BY DEF IInv
  <2>2. CASE [Next]_vars
    BY <2>2, NextSpentOnce, NextEndedByTheirUser
  <2>3. CASE \E u \in Users : Forget(u)
    BY <2>3 DEF Forget, tables, SpentOnce, EndedByTheirUser, LiveSession
  <2> QED BY <2>1, <2>2, <2>3, RecoverySteps DEF recoveryVars
<1>3. RecoverySpec => [][SpentOnce]_vars /\ [][EndedByTheirUser]_vars
  BY <1>2, RecoveryInitIInv, RecoveryNextIInv, PTL DEF RecoverySpec
<1>4. [][SpentOnce]_vars => LinksAreSpentOnce
  BY DEF LinksAreSpentOnce, SpentOnce
<1>5. [][EndedByTheirUser]_vars => SessionsEndByTheirUser
  BY DEF SessionsEndByTheirUser, EndedByTheirUser
<1> QED BY <1>1, <1>3, <1>4, <1>5, RecoveryInitIInv, RecoveryNextIInv, PTL DEF RecoverySpec
=============================================================================
