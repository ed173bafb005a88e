----------------------------- MODULE MailProofs -----------------------------
(***************************************************************************)
(* Theorems about Mail: nobody is told twice and the deliveries on record  *)
(* are true, for any number of requests, recipients and notices, whatever  *)
(* is added, deleted and reconfigured while a notice is being mailed; and  *)
(* the same of MailRecovery, whose steps are steps of Mail.                *)
(***************************************************************************)
EXTENDS MailRecovery, WellFoundedInduction, TLAPS

\* The requests that tell of a notice, before they have listed whom.
Early == {"enabled", "api_key", "domain", "list"}

\* What the statement a request is at needs of it.
TaskOK(t) ==
    /\ t.notice # None => t.pc \in Early \cup {"send", "record"}
    /\ t.pc \in {"list", "send", "record"} => t.notice # None
    /\ t.pc \in Early /\ t.notice = None => t.target \in Targets
    /\ t.pc \in {"find", "test"} => t.notice = None /\ t.target \in Targets
    /\ t.pc = "record" => t.row \in t.todo

TasksOK == \A p \in Handlers : TaskOK(task[p])

\* A row keeps its target for good, and shares it only with deleted ones.
Known(r) == recipients[r].state # "none"
RowsOK ==
    /\ \A r \in RecipientIds : Known(r) => recipients[r].target \in Targets
    /\ \A r, q \in RecipientIds :
          Present(r) /\ Present(q) /\ recipients[r].target = recipients[q].target => r = q

\* Mail names the row it was sent for.
MailOK(m) ==
    IF m.notice = None THEN m.recipient = None
    ELSE /\ m.notice \in told
         /\ m.recipient \in RecipientIds /\ Known(m.recipient)
         /\ m.target = recipients[m.recipient].target

MailsOK == \A m \in inbox : MailOK(m)

Untold(n) ==
    /\ n \notin unserved
    /\ \A m \in inbox : m.notice # n
    /\ \A d \in deliveries : d.notice # n

Reached(n, target) == \E m \in inbox : m.notice = n /\ m.target = target

\* A request has a notice to itself.  The rows it has yet to mail had
\* different targets when they were listed, have them still, and none of
\* them has got mail but by the row that is being recorded.
Distinct(t) ==
    /\ \A r \in t.todo : Known(r)
    /\ \A r, q \in t.todo : recipients[r].target = recipients[q].target => r = q

Unmailed(t) ==
    \A m \in inbox, r \in t.todo :
        m.notice = t.notice /\ m.target = recipients[r].target =>
            t.pc = "record" /\ m.recipient = t.row

ToRecord(t) ==
    IF t.status = "failed" THEN t.notice \notin unserved
    ELSE t.notice \in unserved \/ Reached(t.notice, recipients[t.row].target)

Telling(t) ==
    /\ t.notice \in told
    /\ t.pc \in Early => Untold(t.notice)
    /\ t.pc \in {"send", "record"} =>
          /\ Distinct(t) /\ Unmailed(t)
          /\ t.notice \in unserved <=> ~IsAvailable(t.config)
    /\ t.pc = "record" => ToRecord(t)

TellersOK ==
    /\ \A p \in Handlers : task[p].notice # None => Telling(task[p])
    /\ \A p, q \in Handlers :
          task[p].notice # None /\ task[p].notice = task[q].notice => p = q

RecordsOK == \A d \in deliveries : d.notice \in told

\* The inductive invariant.
IInv ==
    /\ TypeOK /\ TasksOK /\ RowsOK /\ MailsOK /\ TellersOK /\ RecordsOK
    /\ ToldOnce /\ RecordsAreTrue

USE MailAssumption

-----------------------------------------------------------------------------

\* A request that has not begun.
LEMMA NoTaskOK == NoTask \in Task /\ TaskOK(NoTask) /\ NoTask.notice = None /\ NoTask.pc = "idle"
<1>1. NoConfig \in [Keys -> Values]
  BY DEF NoConfig, Values
<1> QED BY <1>1 DEF NoTask, Task, TaskOK, Early

\* The invariant of one request.
LEMMA TaskTyped ==
    ASSUME IInv, NEW p \in Handlers
    PROVE  /\ task[p] \in Task /\ TaskOK(task[p])
           /\ task[p].notice # None => Telling(task[p])
BY DEF IInv, TypeOK, TasksOK, TellersOK

\* The fields of a request.
LEMMA TaskFields ==
    ASSUME NEW t \in Task
    PROVE  /\ t.pc \in {"idle", "upsert", "add", "enabled", "api_key", "domain",
                        "list", "send", "record", "find", "test"}
           /\ t.batch \in SUBSET (Keys \X Values)
           /\ t.adds \in SUBSET (Targets \X Severities)
           /\ t.notice \in Notices \cup {None}
           /\ t.rank \in Severities \cup {0}
           /\ t.target \in Targets \cup {None}
           /\ t.todo \in SUBSET RecipientIds
           /\ t.row \in RecipientIds \cup {None}
           /\ t.status \in {"sent", "failed"}
           /\ t.config \in [Keys -> Values]
BY DEF Task

\* Nothing is configured, added or mailed at first.
LEMMA InitIInv == Init => IInv
<1> SUFFICES ASSUME Init PROVE IInv
  OBVIOUS
<1>1. settings \in [Keys -> Values]
  BY DEF Init, NoConfig, Values
<1>2. recipients \in [RecipientIds -> Recipient]
  BY DEF Init, Recipient, NoRecipient
<1>3. task \in [Handlers -> Task] /\ TasksOK
  BY NoTaskOK DEF Init, TasksOK
<1>4. TypeOK
  BY <1>1, <1>2, <1>3 DEF Init, TypeOK
<1>5. RowsOK
  BY DEF Init, RowsOK, Known, Present, NoRecipient
<1>6. TellersOK
  BY NoTaskOK DEF Init, TellersOK
<1>7. MailsOK /\ RecordsOK /\ ToldOnce /\ RecordsAreTrue
  BY DEF Init, MailsOK, RecordsOK, ToldOnce, RecordsAreTrue
<1> QED BY <1>3, <1>4, <1>5, <1>6, <1>7 DEF IInv

-----------------------------------------------------------------------------
(* Steps that tell nobody anything.                                        *)

\* What has a row stays a row with the same target.
TargetsStay ==
    \A r \in RecipientIds : Known(r) =>
        Known(r)' /\ recipients'[r].target = recipients[r].target

\* A request goes on without a notice, or has it still and has not listed.
Quiet(t, u) ==
    \/ u = t
    \/ u.notice = None
    \/ t.notice = u.notice /\ t.pc \in Early /\ u.pc \in Early

\* Settings, recipients and test mails may change, and requests begin, go on
\* or end: as long as no target changes and no notice is mailed, what was
\* true of the notices is true still.
LEMMA QuietStep ==
    ASSUME IInv, TypeOK', TasksOK', RowsOK', TargetsStay,
           told' = told, unserved' = unserved, deliveries' = deliveries,
           inbox \subseteq inbox',
           \A m \in inbox' \ inbox : m.notice = None /\ m.recipient = None,
           \A p \in Handlers : Quiet(task[p], task'[p])
    PROVE  IInv'
<1>1. \A n \in Notices : \A m \in inbox' : m.notice = n => m \in inbox
  OBVIOUS
<1>2. MailsOK'
  <2> SUFFICES ASSUME NEW m \in inbox' PROVE MailOK(m)'
    BY DEF MailsOK
  <2>1. CASE m \in inbox
    BY <2>1 DEF IInv, MailsOK, MailOK, TargetsStay
  <2>2. CASE m \notin inbox
    BY <2>2 DEF MailOK
  <2> QED BY <2>1, <2>2
<1>3. ASSUME NEW p \in Handlers, task'[p].notice # None PROVE Telling(task[p])'
  <2>1. PICK t \in Task : t = task[p]
    BY TaskTyped
  <2>2. PICK u \in Task : u = task'[p]
    BY DEF TypeOK
  <2>3. /\ u.notice \in Notices /\ u.notice # None
        /\ Quiet(t, u)
    BY <1>3, <2>1, <2>2, TaskFields
  <2>4. CASE u = t
    <3>0. /\ t.notice \in Notices /\ t.todo \subseteq RecipientIds
          /\ t.pc = "record" => t.row \in t.todo
          /\ Telling(t)
      BY <2>1, <2>3, <2>4, TaskTyped, TaskFields DEF TaskOK
    <3>1. t.notice \in told'
      BY <3>0 DEF Telling
    <3>2. t.pc \in Early => Untold(t.notice)'
      BY <3>0, <1>1 DEF Telling, Untold
    <3>3. t.pc \in {"send", "record"} =>
             /\ \A r \in t.todo : Known(r) /\ Known(r)'
                                  /\ recipients'[r].target = recipients[r].target
             /\ Distinct(t) /\ Unmailed(t)
             /\ t.notice \in unserved <=> ~IsAvailable(t.config)
      BY <3>0 DEF Telling, Distinct, TargetsStay
    <3>4. t.pc \in {"send", "record"} => Distinct(t)'
      BY <3>3 DEF Distinct
    <3>5. t.pc \in {"send", "record"} => Unmailed(t)'
      BY <3>0, <3>3, <1>1 DEF Unmailed
    <3>6. t.pc = "record" => ToRecord(t)'
      BY <3>0, <3>3 DEF Telling, ToRecord, Reached
    <3> QED BY <3>0, <3>1, <3>2, <3>3, <3>4, <3>5, <3>6, <2>2, <2>4 DEF Telling, IsAvailable
  <2>5. CASE t.notice = u.notice /\ t.pc \in Early /\ u.pc \in Early
    <3>1. Telling(t)
      BY <2>1, <2>3, <2>5, TaskTyped
    <3>2. Untold(u.notice)'
      BY <3>1, <2>3, <2>5, <1>1 DEF Telling, Untold
    <3> QED BY <3>1, <3>2, <2>2, <2>5 DEF Telling, Early
  <2> QED BY <2>3, <2>4, <2>5 DEF Quiet
<1>4. TellersOK'
  <2>1. ASSUME NEW p \in Handlers, NEW q \in Handlers,
               task'[p].notice # None, task'[p].notice = task'[q].notice
        PROVE  p = q
    <3>1. Quiet(task[p], task'[p]) /\ Quiet(task[q], task'[q])
      BY <2>1
    <3>2. \A t, u : Quiet(t, u) /\ u.notice # None => t.notice = u.notice
      BY DEF Quiet
    <3>3. task'[p].notice = task[p].notice /\ task'[q].notice = task[q].notice
      BY <2>1, <3>1, <3>2
    <3> QED BY <2>1, <3>3 DEF IInv, TellersOK
  <2> QED BY <1>3, <2>1 DEF TellersOK
<1>5. RecordsOK'
  BY DEF IInv, RecordsOK
<1>6. ToldOnce'
  <2> SUFFICES ASSUME NEW m \in inbox', NEW n \in inbox',
                      m.notice = n.notice, m.target = n.target
               PROVE  m.recipient = n.recipient
    BY DEF ToldOnce
  <2>1. CASE m.notice = None
    BY <2>1, <1>2 DEF MailsOK, MailOK
  <2>2. CASE m.notice # None
    BY <2>2 DEF IInv, ToldOnce
  <2> QED BY <2>1, <2>2
<1>7. RecordsAreTrue'
  BY DEF IInv, RecordsAreTrue
<1> QED BY <1>2, <1>4, <1>5, <1>6, <1>7 DEF IInv
\* One request goes on, the others wait.
LEMMA TaskChange ==
    ASSUME IInv, NEW p \in Handlers, NEW t \in Task, TaskOK(t), Continue(p, t)
    PROVE  /\ task' \in [Handlers -> Task] /\ TasksOK'
           /\ task'[p] = t
           /\ \A q \in Handlers : q # p => task'[q] = task[q]
<1>1. task \in [Handlers -> Task] /\ TasksOK
  BY DEF IInv, TypeOK
<1>2. /\ task' \in [Handlers -> Task] /\ task'[p] = t
      /\ \A q \in Handlers : q # p => task'[q] = task[q]
  BY <1>1 DEF Continue
<1>3. TasksOK'
  BY <1>1, <1>2 DEF TasksOK, TaskOK
<1> QED BY <1>2, <1>3

\* A request goes on without having mailed anybody.
LEMMA QuietRequest ==
    ASSUME IInv, NEW p \in Handlers, NEW t \in Task, TaskOK(t), Continue(p, t),
           Quiet(task[p], t), settings' \in [Keys -> Values],
           UNCHANGED <<recipients, deliveries, inbox, told, unserved>>
    PROVE  IInv'
<1>1. TypeOK /\ RowsOK
  BY DEF IInv
<1>2. TypeOK' /\ TasksOK'
  BY <1>1, TaskChange DEF TypeOK
<1>3. RowsOK' /\ TargetsStay
  BY <1>1 DEF RowsOK, Known, Present, TargetsStay
<1>4. \A q \in Handlers : Quiet(task[q], task'[q])
  <2> SUFFICES ASSUME NEW q \in Handlers PROVE Quiet(task[q], task'[q])
    OBVIOUS
  <2>1. CASE q = p
    BY <2>1, TaskChange
  <2>2. CASE q # p
    <3>1. task'[q] = task[q]
      BY <2>2, TaskChange
    <3> QED BY <3>1 DEF Quiet
  <2> QED BY <2>1, <2>2
<1> QED BY <1>2, <1>3, <1>4, QuietStep

\* A request ends, whatever it was at.
LEMMA QuietEnd ==
    ASSUME IInv, NEW p \in Handlers, Finish(p), settings' \in [Keys -> Values],
           UNCHANGED <<recipients, deliveries, inbox, told, unserved>>
    PROVE  IInv'
<1>1. Quiet(task[p], NoTask) /\ Continue(p, NoTask)
  BY NoTaskOK DEF Quiet, Finish
<1> QED BY <1>1, NoTaskOK, QuietRequest

\* Requests begin: of any settings, recipients or target.
LEMMA BeginsStep ==
    ASSUME IInv, NEW p \in Handlers,
           \/ \E batch \in SUBSET (Keys \X Values) : UpdateBatchForUI(p, batch)
           \/ \E adds \in SUBSET (Targets \X Severities) : CreateRecipients(p, adds)
           \/ \E target \in Targets : SendTestEmail(p, target)
    PROVE  IInv'
<1>0. settings \in [Keys -> Values]
  BY DEF IInv, TypeOK
<1>1. ASSUME NEW batch \in SUBSET (Keys \X Values), UpdateBatchForUI(p, batch) PROVE IInv'
  <2> DEFINE t == [NoTask EXCEPT !.pc = "upsert", !.batch = batch]
  <2>1. t \in Task /\ TaskOK(t) /\ Quiet(task[p], t)
    BY NoTaskOK DEF Task, TaskOK, Quiet, Early
  <2>2. Continue(p, t) /\ UNCHANGED <<stores, inbox, told, unserved>>
    BY <1>1 DEF UpdateBatchForUI
  <2> HIDE DEF t
  <2> QED BY <1>0, <2>1, <2>2, QuietRequest DEF stores
<1>2. ASSUME NEW adds \in SUBSET (Targets \X Severities), CreateRecipients(p, adds) PROVE IInv'
  <2> DEFINE t == [NoTask EXCEPT !.pc = "add", !.adds = adds]
  <2>1. t \in Task /\ TaskOK(t) /\ Quiet(task[p], t)
    BY NoTaskOK DEF Task, TaskOK, Quiet, Early
  <2>2. Continue(p, t) /\ UNCHANGED <<stores, inbox, told, unserved>>
    BY <1>2 DEF CreateRecipients
  <2> HIDE DEF t
  <2> QED BY <1>0, <2>1, <2>2, QuietRequest DEF stores
<1>3. ASSUME NEW target \in Targets, SendTestEmail(p, target) PROVE IInv'
  <2> DEFINE t == [NoTask EXCEPT !.pc = "enabled", !.target = target]
  <2>1. t \in Task /\ TaskOK(t) /\ Quiet(task[p], t)
    BY NoTaskOK DEF Task, TaskOK, Quiet, Early
  <2>2. Continue(p, t) /\ UNCHANGED <<stores, inbox, told, unserved>>
    BY <1>3 DEF SendTestEmail
  <2> HIDE DEF t
  <2> QED BY <1>0, <2>1, <2>2, QuietRequest DEF stores
<1> QED BY <1>1, <1>2, <1>3

\* One setting is written.
LEMMA UpsertStep ==
    ASSUME IInv, NEW p \in Handlers, Upsert(p)
    PROVE  IInv'
<1>1. settings \in [Keys -> Values]
  BY DEF IInv, TypeOK
<1>2. PICK item \in task[p].batch :
         /\ settings' = [settings EXCEPT ![item[1]] = item[2]]
         /\ IF task[p].batch = {item} THEN Finish(p)
            ELSE Continue(p, [task[p] EXCEPT !.batch = @ \ {item}])
  BY DEF Upsert
<1>3. task[p] \in Task /\ TaskOK(task[p]) /\ task[p].pc = "upsert" /\ task[p].notice = None
  BY TaskTyped DEF Upsert, At, TaskOK, Early
<1>4. task[p].batch \subseteq Keys \X Values
  BY <1>3, TaskFields
<1>5. settings' \in [Keys -> Values]
  BY <1>1, <1>2, <1>4
<1>6. UNCHANGED <<recipients, deliveries, inbox, told, unserved>>
  BY DEF Upsert
<1>7. CASE Finish(p)
  BY <1>5, <1>6, <1>7, QuietEnd
<1>8. CASE Continue(p, [task[p] EXCEPT !.batch = @ \ {item}])
  <2> DEFINE t == [task[p] EXCEPT !.batch = @ \ {item}]
  <2>1. t \in Task /\ TaskOK(t) /\ Quiet(task[p], t)
    BY <1>3, <1>4 DEF Task, TaskOK, Quiet, Early
  <2>2. Continue(p, t)
    BY <1>8
  <2> HIDE DEF t
  <2> QED BY <1>5, <1>6, <2>1, <2>2, QuietRequest
<1> QED BY <1>2, <1>7, <1>8

\* The provider reads a setting, and the service is made for a notice or a test.
LEMMA ResolveStep ==
    ASSUME IInv, NEW p \in Handlers, ResolveEmailConfig(p)
    PROVE  IInv'
<1>1. settings \in [Keys -> Values] /\ task[p] \in Task /\ TaskOK(task[p])
  BY TaskTyped DEF IInv, TypeOK
<1>2. \A k \in Keys : Resolved(k) \in Values
  BY <1>1 DEF Resolved, Default, Values
<1>3. ASSUME NEW k \in {"enabled", "api_key", "domain"}, NEW next, ReadSetting(p, k, next),
             next = "list" => task[p].notice # None,
             next = "find" => task[p].notice = None,
             next \in {"api_key", "domain", "list", "find"}
      PROVE  IInv'
  <2> DEFINE t == [task[p] EXCEPT !.config[k] = Resolved(k), !.pc = next]
  <2>0. k \in Keys /\ task[p].pc = k
    BY <1>3 DEF ReadSetting, At, Keys
  <2>1. /\ t \in Task
        /\ t.pc = next /\ t.notice = task[p].notice /\ t.target = task[p].target
    <3>1. PICK v \in Values : v = Resolved(k)
      BY <1>2, <2>0
    <3>2. PICK u \in Task : u = task[p]
      BY <1>1
    <3>3. u.config \in [Keys -> Values]
      BY TaskFields
    <3>4. PICK c \in [Keys -> Values] : c = [u.config EXCEPT ![k] = v]
      BY <2>0, <3>3
    <3>5. t = [u EXCEPT !.config = c, !.pc = next]
      BY <3>1, <3>2, <3>4, Zenon
    <3> HIDE DEF t
    <3>6. /\ t \in Task
          /\ t.pc = next /\ t.notice = u.notice /\ t.target = u.target
      BY <1>3, <3>5 DEF Task
    <3> QED BY <3>2, <3>6
  <2>2. Continue(p, t) /\ UNCHANGED <<stores, inbox, told, unserved>>
    BY <1>3 DEF ReadSetting
  <2> HIDE DEF t
  <2>3. TaskOK(t)
    BY <1>1, <1>3, <2>0, <2>1 DEF TaskOK, Early
  <2>4. Quiet(task[p], t)
    BY <1>3, <2>0, <2>1 DEF Quiet, Early
  <2> QED BY <1>1, <2>1, <2>2, <2>3, <2>4, QuietRequest DEF stores
<1>4. CASE ReadSetting(p, "enabled", "api_key")
  BY <1>3, <1>4
<1>5. CASE ReadSetting(p, "api_key", "domain")
  BY <1>3, <1>5
<1>6. CASE ReadSetting(p, "domain", IF task[p].notice # None THEN "list" ELSE "find")
  <2>1. CASE task[p].notice # None
    BY <1>3, <1>6, <2>1
  <2>2. CASE task[p].notice = None
    BY <1>3, <1>6, <2>2
  <2> QED BY <2>1, <2>2
<1> QED BY <1>4, <1>5, <1>6 DEF ResolveEmailConfig

\* A request fails, finds nobody to test with, or has somebody.
LEMMA EndsStep ==
    ASSUME IInv, NEW p \in Handlers, Fail(p) \/ FindRecipient(p)
    PROVE  IInv'
<1>1. /\ settings \in [Keys -> Values] /\ task[p] \in Task /\ TaskOK(task[p])
      /\ UNCHANGED <<stores, inbox, told, unserved>>
  BY TaskTyped DEF IInv, TypeOK, Fail, FindRecipient
<1>2. CASE Finish(p)
  BY <1>1, <1>2, QuietEnd DEF stores
<1>3. CASE At(p, "find") /\ Continue(p, [task[p] EXCEPT !.pc = "test"])
  <2> DEFINE t == [task[p] EXCEPT !.pc = "test"]
  <2>1. t \in Task /\ TaskOK(t) /\ Quiet(task[p], t)
    BY <1>1, <1>3 DEF At, Task, TaskOK, Quiet, Early
  <2>2. Continue(p, t)
    BY <1>3
  <2> HIDE DEF t
  <2> QED BY <1>1, <2>1, <2>2, QuietRequest DEF stores
<1> QED BY <1>2, <1>3 DEF Fail, FindRecipient

\* A test mail is sent.
LEMMA SendTestStep ==
    ASSUME IInv, NEW p \in Handlers, NEW arrives \in BOOLEAN, SendTest(p, arrives)
    PROVE  IInv'
<1> DEFINE mail == [notice |-> None, target |-> task[p].target, recipient |-> None]
<1>1. task[p].target \in Targets
  BY TaskTyped DEF SendTest, At, TaskOK
<1>2. mail \in Sent /\ mail.notice = None /\ mail.recipient = None
  BY <1>1 DEF Sent
<1>3. (inbox' = inbox \/ inbox' = inbox \cup {mail}) /\ Finish(p)
      /\ UNCHANGED <<stores, told, unserved>>
  BY DEF SendTest
<1> HIDE DEF mail
<1>4. TypeOK /\ RowsOK
  BY DEF IInv
<1>5. /\ task' \in [Handlers -> Task] /\ TasksOK' /\ task'[p] = NoTask
      /\ \A q \in Handlers : q # p => task'[q] = task[q]
  BY <1>3, NoTaskOK, TaskChange DEF Finish
<1>6. TypeOK'
  BY <1>2, <1>3, <1>4, <1>5 DEF TypeOK, stores
<1>7. RowsOK' /\ TargetsStay
  BY <1>3, <1>4 DEF RowsOK, Known, Present, TargetsStay, stores
<1>8. \A q \in Handlers : Quiet(task[q], task'[q])
  BY <1>5, NoTaskOK DEF Quiet
<1>9. inbox \subseteq inbox' /\ \A m \in inbox' \ inbox : m.notice = None /\ m.recipient = None
  BY <1>2, <1>3
<1> QED BY <1>3, <1>5, <1>6, <1>7, <1>8, <1>9, QuietStep DEF stores

\* A row is deleted, or enabled or disabled.
LEMMA RowStep ==
    ASSUME IInv, NEW r \in RecipientIds,
           DeleteRecipient(r) \/ \E enabled \in BOOLEAN : SetEnabled(r, enabled)
    PROVE  IInv'
<1>1. TypeOK /\ RowsOK /\ TasksOK /\ Present(r) /\ recipients \in [RecipientIds -> Recipient]
      /\ UNCHANGED <<settings, deliveries, inbox, told, unserved, task>>
  BY DEF IInv, TypeOK, DeleteRecipient, SetEnabled
<1>2. /\ recipients' \in [RecipientIds -> Recipient]
      /\ \A q \in RecipientIds : /\ recipients'[q].target = recipients[q].target
                                 /\ Known(q)' <=> Known(q)
                                 /\ Present(q)' => Present(q)
  <2>1. CASE DeleteRecipient(r)
    BY <1>1, <2>1 DEF DeleteRecipient, Recipient, Known, Present
  <2>2. ASSUME NEW enabled \in BOOLEAN, SetEnabled(r, enabled) PROVE <1>2
    BY <1>1, <2>2 DEF SetEnabled, Recipient, Known, Present
  <2> QED BY <2>1, <2>2
<1>3. TypeOK' /\ TasksOK'
  BY <1>1, <1>2 DEF TypeOK, TasksOK
<1>4. RowsOK' /\ TargetsStay
  BY <1>1, <1>2 DEF RowsOK, TargetsStay
<1>5. \A q \in Handlers : Quiet(task[q], task'[q])
  BY <1>1 DEF Quiet
<1> QED BY <1>1, <1>3, <1>4, <1>5, QuietStep

\* A row is added, for a target that has none, or updated in place.
LEMMA AddRecipientStep ==
    ASSUME IInv, NEW p \in Handlers, AddRecipient(p)
    PROVE  IInv'
<1>1. /\ TypeOK /\ RowsOK /\ recipients \in [RecipientIds -> Recipient]
      /\ task[p] \in Task /\ TaskOK(task[p]) /\ task[p].pc = "add"
      /\ UNCHANGED <<settings, deliveries, inbox, told, unserved>>
  BY TaskTyped DEF IInv, TypeOK, AddRecipient, At
<1>2. PICK item \in task[p].adds :
         /\ UpsertRecipient(item)
         /\ IF task[p].adds = {item} THEN Finish(p)
            ELSE Continue(p, [task[p] EXCEPT !.adds = @ \ {item}])
  BY DEF AddRecipient
<1>3. task[p].adds \subseteq Targets \X Severities
  BY <1>1, TaskFields
<1>4. PICK r \in RecipientIds :
         /\ IF RowOf(item[1]) = {} THEN NewRecipient(r) ELSE r \in RowOf(item[1])
         /\ recipients' = [recipients EXCEPT ![r] = Row(item)]
  BY <1>2 DEF UpsertRecipient
<1>5. Row(item) \in Recipient /\ Row(item).state = "present" /\ Row(item).target = item[1]
      /\ item[1] \in Targets
  BY <1>2, <1>3 DEF Row, Recipient
<1>6. /\ recipients' \in [RecipientIds -> Recipient]
      /\ recipients'[r] = Row(item)
      /\ \A q \in RecipientIds : q # r => recipients'[q] = recipients[q]
  BY <1>1, <1>4, <1>5
<1>7. \A q \in RecipientIds : Present(q) /\ recipients[q].target = item[1] => q = r
  BY <1>1, <1>4 DEF RowOf, RowsOK
<1>8. Known(r) => recipients[r].target = item[1]
  BY <1>4, <1>7 DEF RowOf, NewRecipient, Known
<1>9. RowsOK' /\ TargetsStay
  BY <1>1, <1>5, <1>6, <1>7, <1>8 DEF RowsOK, Known, Present, TargetsStay
<1>10. PICK t \in Task : TaskOK(t) /\ t.notice = None /\ Continue(p, t)
  <2>1. CASE Finish(p)
    BY <2>1, NoTaskOK DEF Finish
  <2>2. CASE Continue(p, [task[p] EXCEPT !.adds = @ \ {item}])
    <3> DEFINE t == [task[p] EXCEPT !.adds = @ \ {item}]
    <3>1. t \in Task /\ TaskOK(t) /\ t.notice = None
      BY <1>1, <1>3 DEF Task, TaskOK, Early
    <3> QED BY <2>2, <3>1
  <2> QED BY <1>2, <2>1, <2>2
<1>11. /\ task' \in [Handlers -> Task] /\ TasksOK' /\ task'[p] = t
       /\ \A q \in Handlers : q # p => task'[q] = task[q]
  BY <1>10, TaskChange
<1>12. TypeOK'
  BY <1>1, <1>6, <1>11 DEF TypeOK
<1>13. \A q \in Handlers : Quiet(task[q], task'[q])
  BY <1>10, <1>11 DEF Quiet
<1> QED BY <1>1, <1>9, <1>11, <1>12, <1>13, QuietStep

-----------------------------------------------------------------------------
(* Steps of the requests that tell.                                        *)

\* What is true of the notices of the requests that wait stays true, whatever
\* is mailed and recorded of another notice.
LEMMA OthersTell ==
    ASSUME IInv, NEW p \in Handlers, NEW n \in Notices,
           \A q \in Handlers : q # p => task'[q] = task[q] /\ task[q].notice # n,
           recipients' = recipients, told \subseteq told',
           \A x \in Notices \ {n} : x \in unserved' <=> x \in unserved,
           inbox \subseteq inbox', \A m \in inbox' \ inbox : m.notice = n,
           \A d \in deliveries' \ deliveries : d.notice = n
    PROVE  \A q \in Handlers : q # p /\ task[q].notice # None => Telling(task[q])'
<1> SUFFICES ASSUME NEW q \in Handlers, q # p, task[q].notice # None
             PROVE  Telling(task[q])'
  OBVIOUS
<1>1. PICK t \in Task : t = task[q] /\ t = task'[q]
  BY TaskTyped
<1>2. /\ t.notice \in Notices \ {n} /\ t.todo \subseteq RecipientIds
      /\ Telling(t)
      /\ t.pc = "record" => t.row \in t.todo
  BY <1>1, TaskTyped, TaskFields DEF TaskOK
<1>3. t.notice \in told'
  BY <1>2 DEF Telling
<1>4. t.pc \in Early => Untold(t.notice)'
  BY <1>2 DEF Telling, Untold
<1>5. t.pc \in {"send", "record"} => Distinct(t)'
  BY <1>2 DEF Telling, Distinct, Known
<1>6. t.pc \in {"send", "record"} => Unmailed(t)'
  BY <1>2 DEF Telling, Unmailed
<1>7. t.pc \in {"send", "record"} => (t.notice \in unserved' <=> ~IsAvailable(t.config))
  BY <1>2 DEF Telling
<1>8. t.pc = "record" => ToRecord(t)'
  BY <1>2 DEF Telling, ToRecord, Reached
<1> QED BY <1>1, <1>3, <1>4, <1>5, <1>6, <1>7, <1>8 DEF Telling, IsAvailable

\* A request tells of its notice, and of no other: what is left to show.
LEMMA TellStep ==
    ASSUME IInv, NEW p \in Handlers, NEW n \in Notices, NEW t \in Task,
           TaskOK(t), Continue(p, t), t.notice \in {n, None}, t.notice = n => Telling(t)',
           UNCHANGED <<settings, recipients>>,
           \A q \in Handlers : q # p => task[q].notice # n,
           told \subseteq told', told' \subseteq Notices, n \in told', unserved' \subseteq told',
           \A x \in Notices \ {n} : x \in unserved' <=> x \in unserved,
           inbox \subseteq inbox', inbox' \subseteq Sent,
           \A m \in inbox' \ inbox : m.notice = n /\ MailOK(m)',
           deliveries \subseteq deliveries', deliveries' \subseteq Delivery,
           \A d \in deliveries' \ deliveries : d.notice = n,
           ToldOnce', RecordsAreTrue'
    PROVE  IInv'
<1>1. /\ task' \in [Handlers -> Task] /\ TasksOK'
      /\ task'[p] = t
      /\ \A q \in Handlers : q # p => task'[q] = task[q]
  BY TaskChange
<1>2. TypeOK /\ RowsOK /\ MailsOK /\ TellersOK /\ RecordsOK
  BY DEF IInv
<1>3. TypeOK'
  BY <1>1, <1>2 DEF TypeOK
<1>4. RowsOK'
  BY <1>2 DEF RowsOK, Known, Present
<1>5. MailsOK'
  <2> SUFFICES ASSUME NEW m \in inbox' PROVE MailOK(m)'
    BY DEF MailsOK
  <2>1. CASE m \in inbox
    BY <1>2, <2>1 DEF MailsOK, MailOK, Known
  <2> QED BY <2>1
<1>6. RecordsOK'
  BY <1>2 DEF RecordsOK
<1>7. \A q \in Handlers : q # p /\ task[q].notice # None => Telling(task[q])'
  BY <1>1, OthersTell
<1>8. t.notice # None => Telling(task[p])'
  BY <1>1 DEF Telling, Untold, Distinct, Unmailed, ToRecord, Reached, Known
<1>9. TellersOK'
  BY <1>1, <1>2, <1>7, <1>8 DEF TellersOK
<1> QED BY <1>1, <1>3, <1>4, <1>5, <1>6, <1>9 DEF IInv

\* Of a request that tells, and of its notice in the hands of no other.
LEMMA TellerFacts ==
    ASSUME IInv, NEW p \in Handlers, task[p].notice # None
    PROVE  /\ task[p].notice \in Notices
           /\ \A q \in Handlers : q # p => task[q].notice # task[p].notice
           /\ Telling(task[p])
           /\ told \subseteq Notices /\ unserved \subseteq told
           /\ inbox \subseteq Sent /\ deliveries \subseteq Delivery
           /\ ToldOnce /\ RecordsAreTrue
BY TaskTyped, TaskFields DEF IInv, TypeOK, TellersOK

\* A turn of an alert is taken up once.
LEMMA NotifyStep ==
    ASSUME IInv, NEW p \in Handlers, NEW n \in Notices, NEW rank \in Severities,
           NotifyAlert(p, n, rank)
    PROVE  IInv'
<1>1. /\ n \notin told /\ told' = told \cup {n}
      /\ UNCHANGED <<stores, inbox, unserved>>
      /\ Continue(p, [NoTask EXCEPT !.pc = "enabled", !.notice = n, !.rank = rank])
  BY DEF NotifyAlert
<1>2. TypeOK /\ MailsOK /\ TellersOK /\ RecordsOK /\ ToldOnce /\ RecordsAreTrue
  BY DEF IInv
<1>3. PICK t : t = [NoTask EXCEPT !.pc = "enabled", !.notice = n, !.rank = rank]
  OBVIOUS
<1>4. t \in Task /\ TaskOK(t) /\ t.notice = n /\ t.pc = "enabled"
  BY <1>3, NoTaskOK DEF Task, TaskOK, Early
<1>5. \A q \in Handlers : task[q].notice # n
  BY <1>1, <1>2 DEF TellersOK, Telling
<1>6. Untold(n)'
  BY <1>1, <1>2 DEF TypeOK, MailsOK, MailOK, RecordsOK, Untold, stores
<1>7. Telling(t)'
  BY <1>1, <1>4, <1>6 DEF Telling
<1>8. ToldOnce' /\ RecordsAreTrue'
  BY <1>1, <1>2 DEF ToldOnce, RecordsAreTrue, stores
<1>9. /\ told \subseteq Notices /\ unserved \subseteq told
      /\ inbox \subseteq Sent /\ deliveries \subseteq Delivery
  BY <1>2 DEF TypeOK
<1>10. Continue(p, t)
  BY <1>1, <1>3
<1> QED BY <1>1, <1>4, <1>5, <1>7, <1>8, <1>9, <1>10, TellStep DEF stores

\* The recipients are listed: the rows there are, with a target each.
LEMMA ListStep ==
    ASSUME IInv, NEW p \in Handlers, ListRecipients(p)
    PROVE  IInv'
<1>1. PICK t \in Task : t = task[p]
  BY TaskTyped
<1>2. /\ TaskOK(t) /\ t.pc = "list" /\ t.notice # None
      /\ t.config \in [Keys -> Values] /\ RowsOK
  BY <1>1, TaskTyped, TaskFields DEF ListRecipients, At, TaskOK, IInv
<1>3. PICK n \in Notices : n = t.notice /\ n # None
  BY <1>1, <1>2, TellerFacts
<1>4. /\ Untold(n) /\ n \in told
      /\ \A q \in Handlers : q # p => task[q].notice # n
      /\ told \subseteq Notices /\ unserved \subseteq told
      /\ inbox \subseteq Sent /\ deliveries \subseteq Delivery
      /\ ToldOnce /\ RecordsAreTrue
  BY <1>1, <1>2, <1>3, TellerFacts DEF Telling, Early
<1>5. PICK rows \in SUBSET RecipientIds : rows = {r \in RecipientIds : ShouldNotify(p, r)}
  OBVIOUS
<1>6. PICK u : u = IF rows = {} THEN NoTask ELSE [t EXCEPT !.pc = "send", !.todo = rows]
  OBVIOUS
<1>7. /\ unserved' = IF IsAvailable(t.config) THEN unserved ELSE unserved \cup {n}
      /\ Continue(p, u)
      /\ UNCHANGED <<stores, inbox, told>>
  BY <1>1, <1>3, <1>5, <1>6 DEF ListRecipients, HasService, Finish
<1>8. /\ u \in Task /\ TaskOK(u) /\ u.notice \in {n, None}
      /\ u.notice = n => u.pc = "send" /\ u.todo = rows /\ u.config = t.config
  <2>1. CASE rows = {}
    BY <1>3, <1>6, <2>1, NoTaskOK
  <2>2. CASE rows # {}
    <3>1. u = [t EXCEPT !.pc = "send", !.todo = rows]
      BY <1>6, <2>2
    <3>2. /\ u \in Task /\ u.pc = "send" /\ u.notice = t.notice
          /\ u.todo = rows /\ u.config = t.config
      BY <1>5, <3>1, TaskTyped DEF Task
    <3>3. TaskOK(u)
      BY <1>2, <3>2 DEF TaskOK, Early
    <3> QED BY <1>3, <3>2, <3>3
  <2> QED BY <2>1, <2>2
<1>9. n \in unserved' <=> ~IsAvailable(t.config)
  BY <1>4, <1>7 DEF Untold
<1>10. \A r \in rows : Present(r)
  BY <1>5 DEF ShouldNotify
<1>11. u.notice = n => Telling(u)'
  <2> SUFFICES ASSUME u.notice = n PROVE Telling(u)'
    OBVIOUS
  <2>1. Distinct(u)'
    BY <1>2, <1>7, <1>8, <1>10 DEF Distinct, Known, Present, RowsOK, stores
  <2>2. Unmailed(u)'
    BY <1>4, <1>7 DEF Unmailed, Untold
  <2> QED BY <1>4, <1>7, <1>8, <1>9, <2>1, <2>2 DEF Telling, Early, IsAvailable
<1>12. ToldOnce'
  BY <1>4, <1>7 DEF ToldOnce
<1>13. RecordsAreTrue'
  <2> SUFFICES ASSUME NEW d \in deliveries
               PROVE  IF d.status = "failed" THEN d.notice \notin unserved'
                      ELSE \/ d.notice \in unserved'
                           \/ \E m \in inbox : m.notice = d.notice /\ m.target = d.target
    BY <1>7 DEF RecordsAreTrue, stores
  <2> QED BY <1>4, <1>7 DEF RecordsAreTrue, Untold
<1> QED BY <1>3, <1>4, <1>7, <1>8, <1>11, <1>12, <1>13, TellStep DEF stores

\* A row is mailed, with the mail taken or not: nobody else of the list has its
\* target, and nobody with it was mailed before.
LEMMA SendStep ==
    ASSUME IInv, NEW p \in Handlers, Send(p) \/ SendFails(p)
    PROVE  IInv'
<1>1. PICK t \in Task : t = task[p]
  BY TaskTyped
<1>2. /\ TaskOK(t) /\ t.pc = "send" /\ t.notice # None
      /\ t.todo \subseteq RecipientIds /\ RowsOK
      /\ UNCHANGED <<stores, told, unserved>>
  BY <1>1, TaskTyped, TaskFields DEF Send, SendFails, At, TaskOK, IInv
<1>3. PICK n \in Notices : n = t.notice /\ n # None
  BY <1>1, <1>2, TellerFacts
<1>4. /\ Telling(t)
      /\ \A q \in Handlers : q # p => task[q].notice # n
      /\ told \subseteq Notices /\ unserved \subseteq told
      /\ inbox \subseteq Sent /\ deliveries \subseteq Delivery
      /\ ToldOnce /\ RecordsAreTrue /\ MailsOK
  BY <1>1, <1>2, <1>3, TellerFacts DEF IInv
<1>5. PICK r \in t.todo, status \in {"sent", "failed"} :
         /\ Continue(p, [t EXCEPT !.pc = "record", !.row = r, !.status = status])
         /\ \/ inbox' = inbox
            \/ inbox' = inbox \cup {[notice |-> n, target |-> recipients[r].target,
                                     recipient |-> r]}
         /\ status = "failed" => IsAvailable(t.config)
         /\ status = "sent" /\ IsAvailable(t.config) =>
               [notice |-> n, target |-> recipients[r].target, recipient |-> r] \in inbox'
  <2>1. CASE Send(p)
    BY <1>1, <1>3, <2>1 DEF Send, Sending, HasService
  <2>2. CASE SendFails(p)
    BY <1>1, <1>3, <2>2 DEF SendFails, Sending, HasService
  <2> QED BY <2>1, <2>2
<1>6. PICK mail : mail = [notice |-> n, target |-> recipients[r].target, recipient |-> r]
  OBVIOUS
<1>7. /\ r \in RecipientIds /\ Known(r) /\ recipients[r].target \in Targets
      /\ mail \in Sent /\ mail.notice = n /\ mail.recipient = r
      /\ mail.target = recipients[r].target
  BY <1>2, <1>4, <1>6 DEF Telling, Distinct, RowsOK, Sent
<1>8. PICK u : u = [t EXCEPT !.pc = "record", !.row = r, !.status = status]
  OBVIOUS
<1>9. /\ u \in Task /\ TaskOK(u) /\ Continue(p, u)
      /\ u.notice = n /\ u.pc = "record" /\ u.row = r /\ u.status = status
      /\ u.todo = t.todo /\ u.config = t.config
  BY <1>2, <1>3, <1>5, <1>7, <1>8 DEF Task, TaskOK, Early
<1>10. /\ inbox' = inbox \/ inbox' = inbox \cup {mail}
       /\ status = "sent" /\ IsAvailable(t.config) => mail \in inbox'
  BY <1>5, <1>6
<1>11. /\ n \in told /\ Distinct(t) /\ (n \in unserved <=> ~IsAvailable(t.config))
       /\ \A m \in inbox, q \in t.todo :
             m.notice = n => m.target # recipients[q].target
  BY <1>2, <1>3, <1>4 DEF Telling, Unmailed
<1>12. Telling(u)'
  <2>1. Distinct(u)'
    BY <1>2, <1>9, <1>11 DEF Distinct, Known, stores
  <2>2. Unmailed(u)'
    BY <1>2, <1>7, <1>9, <1>10, <1>11 DEF Unmailed, stores
  <2>3. ToRecord(u)'
    <3>1. CASE status = "failed"
      BY <1>2, <1>5, <1>9, <1>11, <3>1 DEF ToRecord
    <3>2. CASE status = "sent" /\ n \in unserved
      BY <1>2, <1>9, <3>2 DEF ToRecord
    <3>3. CASE status = "sent" /\ n \notin unserved
      BY <1>2, <1>7, <1>9, <1>10, <1>11, <3>3 DEF ToRecord, Reached, stores
    <3> QED BY <3>1, <3>2, <3>3
  <2> QED BY <1>2, <1>9, <1>11, <2>1, <2>2, <2>3 DEF Telling, Early, IsAvailable
<1>13. ToldOnce'
  <2> SUFFICES ASSUME NEW a \in inbox', NEW b \in inbox',
                      a.notice = b.notice, a.target = b.target
               PROVE  a.recipient = b.recipient
    BY DEF ToldOnce
  <2>1. CASE a \in inbox /\ b \in inbox
    BY <1>4, <2>1 DEF ToldOnce
  <2>2. CASE a = mail \/ b = mail
    BY <1>7, <1>10, <1>11, <2>2
  <2> QED BY <1>10, <2>1, <2>2
<1>14. RecordsAreTrue'
  BY <1>2, <1>4, <1>10 DEF RecordsAreTrue, stores
<1>15. MailOK(mail)'
  BY <1>2, <1>3, <1>7, <1>11 DEF MailOK, Known, stores
<1>16. /\ inbox \subseteq inbox' /\ inbox' \subseteq Sent
       /\ \A m \in inbox' \ inbox : m.notice = n /\ MailOK(m)'
  BY <1>4, <1>7, <1>10, <1>15
<1> QED BY <1>2, <1>4, <1>9, <1>11, <1>12, <1>13, <1>14, <1>16, TellStep DEF stores

\* The delivery is recorded or is not, and the next row is up.
LEMMA RecordStep ==
    ASSUME IInv, NEW p \in Handlers, Record(p) \/ RecordFails(p)
    PROVE  IInv'
<1>1. PICK t \in Task : t = task[p]
  BY TaskTyped
<1>2. /\ TaskOK(t) /\ t.pc = "record" /\ t.notice # None /\ t.row \in t.todo
      /\ t.todo \subseteq RecipientIds /\ t.status \in {"sent", "failed"} /\ RowsOK
      /\ NextRecipient(p) /\ UNCHANGED <<settings, recipients, inbox, told, unserved>>
  BY <1>1, TaskTyped, TaskFields DEF Record, RecordFails, At, TaskOK, IInv, stores
<1>3. PICK n \in Notices : n = t.notice /\ n # None
  BY <1>1, <1>2, TellerFacts
<1>4. /\ Telling(t)
      /\ \A q \in Handlers : q # p => task[q].notice # n
      /\ told \subseteq Notices /\ unserved \subseteq told
      /\ inbox \subseteq Sent /\ deliveries \subseteq Delivery
      /\ ToldOnce /\ RecordsAreTrue
  BY <1>1, <1>2, <1>3, TellerFacts
<1>5. PICK d : d = [notice |-> n, status |-> t.status, target |-> recipients[t.row].target]
  OBVIOUS
<1>6. deliveries' = deliveries \/ (Present(t.row) /\ deliveries' = deliveries \cup {d})
  BY <1>1, <1>3, <1>5 DEF Record, RecordFails, stores
<1>7. /\ Present(t.row) => d \in Delivery
      /\ d.notice = n /\ d.status = t.status /\ d.target = recipients[t.row].target
  <2>1. Present(t.row) => recipients[t.row].target \in Targets
    BY <1>2 DEF RowsOK, Present, Known
  <2> QED BY <1>2, <1>5, <2>1 DEF Delivery
<1>8. PICK u : u = IF t.todo = {t.row} THEN NoTask
                   ELSE [t EXCEPT !.pc = "send", !.todo = @ \ {t.row},
                                  !.row = None, !.status = "sent"]
  OBVIOUS
<1>9. /\ u \in Task /\ TaskOK(u) /\ Continue(p, u) /\ u.notice \in {n, None}
      /\ u.notice = n => u.pc = "send" /\ u.todo = t.todo \ {t.row} /\ u.config = t.config
  <2>1. Continue(p, u)
    BY <1>1, <1>2, <1>8 DEF NextRecipient, Finish
  <2>2. CASE t.todo = {t.row}
    BY <1>8, <2>1, <2>2, NoTaskOK, <1>3
  <2>3. CASE t.todo # {t.row}
    <3>1. u = [t EXCEPT !.pc = "send", !.todo = @ \ {t.row}, !.row = None, !.status = "sent"]
      BY <1>8, <2>3
    <3>2. /\ u \in Task /\ u.pc = "send" /\ u.notice = t.notice
          /\ u.todo = t.todo \ {t.row} /\ u.config = t.config
      BY <1>2, <3>1 DEF Task
    <3>3. TaskOK(u)
      BY <1>2, <1>3, <3>2 DEF TaskOK, Early
    <3> QED BY <1>3, <2>1, <3>2, <3>3
  <2> QED BY <2>2, <2>3
<1>10. /\ n \in told /\ Distinct(t) /\ (n \in unserved <=> ~IsAvailable(t.config))
       /\ Unmailed(t) /\ ToRecord(t)
  BY <1>2, <1>3, <1>4 DEF Telling
<1>11. \A m \in inbox, q \in t.todo \ {t.row} :
          m.notice = n => m.target # recipients[q].target
  <2> SUFFICES ASSUME NEW m \in inbox, NEW q \in t.todo \ {t.row},
                      m.notice = n, m.target = recipients[q].target
               PROVE  FALSE
    OBVIOUS
  <2>1. m.recipient = t.row
    BY <1>3, <1>10 DEF Unmailed
  <2>2. m.target = recipients[t.row].target
    BY <1>3, <2>1 DEF IInv, MailsOK, MailOK
  <2> QED BY <1>2, <1>10, <2>2 DEF Distinct
<1>12. u.notice = n => Telling(u)'
  <2> SUFFICES ASSUME u.notice = n PROVE Telling(u)'
    OBVIOUS
  <2>1. Distinct(u)'
    BY <1>2, <1>9, <1>10 DEF Distinct, Known
  <2>2. Unmailed(u)'
    BY <1>2, <1>9, <1>11 DEF Unmailed
  <2> QED BY <1>2, <1>9, <1>10, <2>1, <2>2 DEF Telling, Early, IsAvailable
<1>13. RecordsAreTrue'
  <2> SUFFICES ASSUME NEW e \in deliveries'
               PROVE  IF e.status = "failed" THEN e.notice \notin unserved
                      ELSE e.notice \in unserved \/ Reached(e.notice, e.target)
    BY <1>2 DEF RecordsAreTrue, Reached
  <2>1. CASE e \in deliveries
    BY <1>4, <2>1 DEF RecordsAreTrue, Reached
  <2>2. CASE e = d
    BY <1>3, <1>7, <1>10, <2>2 DEF ToRecord
  <2> QED BY <1>6, <2>1, <2>2
<1>14. ToldOnce'
  BY <1>2, <1>4 DEF ToldOnce
<1>15. /\ deliveries \subseteq deliveries' /\ deliveries' \subseteq Delivery
       /\ \A e \in deliveries' \ deliveries : e.notice = n
  BY <1>4, <1>6, <1>7
<1> QED BY <1>2, <1>4, <1>9, <1>10, <1>12, <1>13, <1>14, <1>15, TellStep

-----------------------------------------------------------------------------
(* The theorems.                                                           *)

\* No step leaves the invariant.
LEMMA NextIInv == IInv /\ [Next]_vars => IInv'
<1> SUFFICES ASSUME IInv, [Next]_vars PROVE IInv'
  OBVIOUS
<1>1. ASSUME NEW p \in Handlers, Begin(p) PROVE IInv'
  <2>1. CASE \E batch \in Batches : UpdateBatchForUI(p, batch)
    <3>1. Batches \subseteq SUBSET (Keys \X Values)
      BY DEF Batches, Keys, Values
    <3> QED BY <2>1, <3>1, BeginsStep
  <2>2. CASE \E t \in Targets, min \in Severities : CreateRecipients(p, {<<t, min>>})
    <3>1. \A t \in Targets, min \in Severities : {<<t, min>>} \in SUBSET (Targets \X Severities)
      OBVIOUS
    <3> QED BY <2>2, <3>1, BeginsStep
  <2>3. CASE \E n \in Notices, rank \in Severities : NotifyAlert(p, n, rank)
    BY <2>3, NotifyStep
  <2>4. CASE \E t \in Targets : SendTestEmail(p, t)
    BY <2>4, BeginsStep
  <2> QED BY <1>1, <2>1, <2>2, <2>3, <2>4 DEF Begin
<1>2. ASSUME NEW p \in Handlers, Work(p) PROVE IInv'
  <2>1. IsWhole(task[p].config) \in BOOLEAN
    BY DEF IsWhole, IsAvailable
  <2> QED BY <1>2, <2>1, UpsertStep, AddRecipientStep, ResolveStep, ListStep, SendStep,
             RecordStep, EndsStep, SendTestStep DEF Work
<1>3. ASSUME NEW p \in Handlers, Trouble(p) PROVE IInv'
  BY <1>3, EndsStep, SendStep, RecordStep, SendTestStep DEF Trouble
<1>4. ASSUME NEW r \in RecipientIds,
             DeleteRecipient(r) \/ \E enabled \in BOOLEAN : SetEnabled(r, enabled)
      PROVE  IInv'
  BY <1>4, RowStep
<1>5. CASE UNCHANGED vars
  BY <1>5 DEF vars, stores, IInv, TypeOK, TasksOK, RowsOK, Present, Known, MailsOK, MailOK,
              TellersOK, Telling, Untold, Distinct, Unmailed, ToRecord, Reached, IsAvailable,
              RecordsOK, ToldOnce, RecordsAreTrue
<1> QED BY <1>1, <1>2, <1>3, <1>4, <1>5 DEF Next

\* The inductive invariant holds of every run.
LEMMA SpecIInv == Spec => []IInv
<1> QED BY InitIInv, NextIInv, PTL DEF Spec

\* Tables, mail and requests stay typed, for any number of requests.
THEOREM TypeCorrect == Spec => []TypeOK
<1>1. IInv => TypeOK
  BY DEF IInv
<1> QED BY <1>1, SpecIInv, PTL

\* Nobody is told twice of one turn of an alert: not by two rows for one
\* address, whatever is deleted, added again and enabled between the listing
\* of the recipients and the last mail (NotificationService.notify, and the
\* unique index of notification_recipients).
THEOREM NobodyIsToldTwice == Spec => []ToldOnce
<1>1. IInv => ToldOnce
  BY DEF IInv
<1> QED BY <1>1, SpecIInv, PTL

\* What is on record as sent was sent to that target, unless there was no
\* service; what is on record as failed was tried (notifyRecipient).
THEOREM DeliveriesAreTrue == Spec => []RecordsAreTrue
<1>1. IInv => RecordsAreTrue
  BY DEF IInv
<1> QED BY <1>1, SpecIInv, PTL

\* There is a lowest severity.
LEMMA LowestRankTyped == LowestRank \in Severities
<1> DEFINE below == OpToRel(<, Nat)
<1>1. IsWellFoundedOn(below, Nat)
  BY NatLessThanWellFounded
<1>2. \A x, y : <<x, y>> \in below <=> x \in Nat /\ y \in Nat /\ x < y
  BY DEF OpToRel
<1> HIDE DEF below
<1>3. PICK m \in Severities : \A x \in Severities : ~(<<x, m>> \in below)
  BY <1>1, WFMin, UpsetsAssumption
<1>4. \A x \in Severities : x \in Nat /\ m \in Nat
  OBVIOUS
<1>5. \A x \in Severities : ~(x < m)
  BY <1>2, <1>3, <1>4
<1>6. \A x \in Severities : m <= x
  BY <1>4, <1>5
<1> QED BY <1>6 DEF LowestRank

\* What the administrator of MailRecovery stores can be stored.
LEMMA RecoveryBatches ==
    /\ OwnBatch \in Batches
    /\ \A sender \in Senders : {<<"api_key", sender>>, <<"domain", sender>>} \in Batches
    /\ \A v \in {"false", None} : {<<"enabled", v>>} \in Batches
<1> DEFINE items == {"enabled"} \X {"true", "false", None}
                    \cup {"api_key", "domain"} \X (Senders \cup {None})
<1>1. OwnBatch \in SUBSET items /\ OwnBatch # {}
  BY UpsetsAssumption DEF OwnBatch
<1>2. \A x, y \in OwnBatch : x[1] = y[1] => x = y
  BY DEF OwnBatch
<1>3. ASSUME NEW sender \in Senders
      PROVE  {<<"api_key", sender>>, <<"domain", sender>>} \in Batches
  <2> DEFINE b == {<<"api_key", sender>>, <<"domain", sender>>}
  <2>1. b \in SUBSET items /\ b # {} /\ \A x, y \in b : x[1] = y[1] => x = y
    OBVIOUS
  <2> QED BY <2>1 DEF Batches
<1>4. ASSUME NEW v \in {"false", None} PROVE {<<"enabled", v>>} \in Batches
  <2> DEFINE b == {<<"enabled", v>>}
  <2>1. b \in SUBSET items /\ b # {} /\ \A x, y \in b : x[1] = y[1] => x = y
    OBVIOUS
  <2> QED BY <2>1 DEF Batches
<1> QED BY <1>1, <1>2, <1>3, <1>4 DEF Batches

\* What happens in MailRecovery can happen in Mail.
LEMMA RecoverySteps == IInv /\ [RecoveryNext]_recoveryVars => [Next]_vars
<1> SUFFICES ASSUME IInv, RecoveryNext PROVE Next
  BY DEF recoveryVars, vars, stores
<1>1. CASE Configures \/ AddsDesk \/ Tests \/ \E n \in Notices : Tells(n)
  BY <1>1, UpsetsAssumption, LowestRankTyped, RecoveryBatches
     DEF Configures, AddsDesk, Tests, Tells, Next, Begin
<1>2. CASE \E p \in Handlers : Proceed(p)
  BY <1>2 DEF Proceed, Next
<1>3. CASE Upset
  <2>1. CASE \E p \in Handlers : Trouble(p)
    BY <2>1 DEF Next
  <2>2. ASSUME NEW p \in Handlers,
               \/ \E sender \in Senders \ {Own} :
                    UpdateBatchForUI(p, {<<"api_key", sender>>, <<"domain", sender>>})
               \/ \E v \in {"false", None} : UpdateBatchForUI(p, {<<"enabled", v>>})
               \/ \E t \in Targets, min \in Severities : CreateRecipients(p, {<<t, min>>})
        PROVE  Begin(p)
    BY <2>2, RecoveryBatches DEF Begin
  <2>3. ASSUME NEW r \in RecipientIds,
               DeleteRecipient(r) \/ SetEnabled(r, ~recipients[r].enabled)
        PROVE  Next
    BY <2>3 DEF Next
  <2> QED BY <1>3, <2>1, <2>2, <2>3 DEF Upset, Next
<1> QED BY <1>1, <1>2, <1>3 DEF RecoveryNext

\* Of Mail as an administrator sees to it (MailRecovery) all of this holds too,
\* and it is Mail: to configure, test and repair adds no step of its own.
THEOREM RecoveryIsMail == RecoverySpec => Spec /\ []ToldOnce /\ []RecordsAreTrue
<1>1. RecoveryInit => Init
  BY DEF RecoveryInit
<1>2. IInv => ToldOnce /\ RecordsAreTrue
  BY DEF IInv
<1> QED BY <1>1, <1>2, InitIInv, NextIInv, RecoverySteps, PTL DEF RecoverySpec, Spec
=============================================================================
