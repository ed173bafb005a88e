-------------------------------- MODULE Mail --------------------------------
(***************************************************************************)
(* Outbound e-mail: the settings it is configured by, the provider that    *)
(* reads them anew for every purpose, the recipients of a project, and     *)
(* what is mailed to them: notices of alerts, each with a delivery on      *)
(* record, and test mails.  One action per statement or call; any number   *)
(* of requests at a time.                                                  *)
(***************************************************************************)
EXTENDS Naturals, FiniteSets

CONSTANTS
    Senders,      \* accounts with the mail service, each with a key and a domain
    Env,          \* [Keys -> Values]: what the environment overrides, or None
    Targets,      \* addresses
    RecipientIds, \* the bigserial ids of app.notification_recipients
    Severities,   \* ranks of severities
    Notices,      \* turns of alerts to tell of: NotifyAlertTriggered, ...Resolved
    Handlers,     \* the requests that can be handled at a time
    None          \* no row, NULL, or blank

Keys == {"enabled", "api_key", "domain"}
Values == {"true", "false", None} \cup Senders

ASSUME MailAssumption ==
    /\ RecipientIds \subseteq Nat /\ Severities \subseteq Nat
    /\ Env \in [Keys -> Values]
    /\ None \notin {"true", "false"} \cup Senders
    /\ None \notin Targets /\ None \notin RecipientIds /\ None \notin Notices
    /\ Senders \cap {"true", "false"} = {}

VARIABLES
    settings,   \* [Keys -> Values]: app.instance_settings
    recipients, \* [RecipientIds -> Recipient]: app.notification_recipients
    deliveries, \* SUBSET Delivery: app.notification_deliveries
    inbox,      \* SUBSET Sent: the mail that reached its target
    told,       \* SUBSET Notices: those dispatched, at most once (AlertEvaluator)
    unserved,   \* SUBSET Notices: those of them for which there was no service
    task        \* [Handlers -> Task]: the request being handled

stores == <<settings, recipients, deliveries>>
vars == <<stores, inbox, told, unserved, task>>

Recipient == [state : {"none", "present", "deleted"}, target : Targets \cup {None},
              enabled : BOOLEAN, min : Severities \cup {0}]

Delivery == [notice : Notices, target : Targets, status : {"sent", "failed"}]

Sent == [notice : Notices \cup {None}, target : Targets, recipient : RecipientIds \cup {None}]

NoRecipient == [state |-> "none", target |-> None, enabled |-> FALSE, min |-> 0]

\* config is what the provider has read so far, of the service it makes.
Task == [pc     : {"idle", "upsert", "add", "enabled", "api_key", "domain",
                   "list", "send", "record", "find", "test"},
         batch  : SUBSET (Keys \X Values),           \* settings still to write
         adds   : SUBSET (Targets \X Severities),    \* recipients still to add
         notice : Notices \cup {None},
         rank   : Severities \cup {0},               \* of the notice's alert
         target : Targets \cup {None},               \* of a test mail
         todo   : SUBSET RecipientIds,               \* listed and not yet mailed
         row    : RecipientIds \cup {None},          \* mailed, to be recorded
         status : {"sent", "failed"},
         config : [Keys -> Values]]

NoConfig == [k \in Keys |-> None]

NoTask == [pc |-> "idle", batch |-> {}, adds |-> {}, notice |-> None, rank |-> 0,
           target |-> None, todo |-> {}, row |-> None, status |-> "sent",
           config |-> NoConfig]

TypeOK ==
    /\ settings \in [Keys -> Values]
    /\ recipients \in [RecipientIds -> Recipient]
    /\ deliveries \subseteq Delivery
    /\ inbox \subseteq Sent
    /\ told \subseteq Notices /\ unserved \subseteq told
    /\ task \in [Handlers -> Task]

Init ==
    /\ settings = NoConfig
    /\ recipients = [r \in RecipientIds |-> NoRecipient]
    /\ deliveries = {} /\ inbox = {} /\ told = {} /\ unserved = {}
    /\ task = [p \in Handlers |-> NoTask]

At(p, pc) == task[p].pc = pc
Continue(p, t) == task' = [task EXCEPT ![p] = t]
Finish(p) == Continue(p, NoTask)

-----------------------------------------------------------------------------
(* Settings. *)

Default(k) == IF k = "enabled" THEN "false" ELSE None

\* The environment comes before the table, and the table before the default.
Resolved(k) ==
    IF Env[k] # None THEN Env[k] ELSE IF settings[k] # None THEN settings[k] ELSE Default(k)

\* The provider has one supported value and it is the default.
IsAvailable(config) ==
    config["enabled"] = "true" /\ config["api_key"] # None /\ config["domain"] # None

\* The service takes mail from a domain with the key of the same account.
IsWhole(config) == IsAvailable(config) /\ config["api_key"] = config["domain"]

\* A value for some of the settings, each a legal one.
Batches ==
    {b \in SUBSET ({"enabled"} \X {"true", "false", None}
                   \cup {"api_key", "domain"} \X (Senders \cup {None})) :
        b # {} /\ \A x, y \in b : x[1] = y[1] => x = y}

\* The whole batch is validated before the first item is written.
UpdateBatchForUI(p, batch) ==
    /\ At(p, "idle")
    /\ Continue(p, [NoTask EXCEPT !.pc = "upsert", !.batch = batch])
    /\ UNCHANGED <<stores, inbox, told, unserved>>

\* Returning from within the loop.
UpsertOne(p) ==
    /\ At(p, "upsert")
    /\ \E item \in task[p].batch : settings' = [settings EXCEPT ![item[1]] = item[2]]
    /\ Finish(p)
    /\ UNCHANGED <<recipients, deliveries, inbox, told, unserved>>

\* One item, in a transaction of its own.
Upsert(p) ==
    /\ At(p, "upsert")
    /\ \E item \in task[p].batch :
          /\ settings' = [settings EXCEPT ![item[1]] = item[2]]
          /\ IF task[p].batch = {item} THEN Finish(p)
             ELSE Continue(p, [task[p] EXCEPT !.batch = @ \ {item}])
    /\ UNCHANGED <<recipients, deliveries, inbox, told, unserved>>

-----------------------------------------------------------------------------
(* Recipients. *)

Present(r) == recipients[r].state = "present"
RowOf(target) == {r \in RecipientIds : Present(r) /\ recipients[r].target = target}

NewRecipient(r) ==
    /\ recipients[r].state = "none"
    /\ \A x \in RecipientIds : x < r => recipients[x].state # "none"

\* Of two items for one address the last stays.
CreateRecipients(p, items) ==
    /\ At(p, "idle")
    /\ Continue(p, [NoTask EXCEPT !.pc = "add", !.adds = items])
    /\ UNCHANGED <<stores, inbox, told, unserved>>

Row(item) == [state |-> "present", target |-> item[1], enabled |-> TRUE, min |-> item[2]]

\* Without the unique index there is no conflict.
InsertRecipient(item) ==
    \E r \in RecipientIds :
        /\ NewRecipient(r)
        /\ recipients' = [recipients EXCEPT ![r] = Row(item)]

\* INSERT ... ON CONFLICT (project_id, channel_type, target) DO UPDATE.
UpsertRecipient(item) ==
    \E r \in RecipientIds :
        /\ IF RowOf(item[1]) = {} THEN NewRecipient(r) ELSE r \in RowOf(item[1])
        /\ recipients' = [recipients EXCEPT ![r] = Row(item)]

AddRecipient(p) ==
    /\ At(p, "add")
    /\ \E item \in task[p].adds :
          /\ UpsertRecipient(item)
          /\ IF task[p].adds = {item} THEN Finish(p)
             ELSE Continue(p, [task[p] EXCEPT !.adds = @ \ {item}])
    /\ UNCHANGED <<settings, deliveries, inbox, told, unserved>>

SetEnabled(r, enabled) ==
    /\ Present(r)
    /\ recipients' = [recipients EXCEPT ![r].enabled = enabled]
    /\ UNCHANGED <<settings, deliveries, inbox, told, unserved, task>>

\* Deliveries keep the target; their reference to the row becomes NULL.
DeleteRecipient(r) ==
    /\ Present(r)
    /\ recipients' = [recipients EXCEPT ![r].state = "deleted"]
    /\ UNCHANGED <<settings, deliveries, inbox, told, unserved, task>>

-----------------------------------------------------------------------------
(* The provider: three reads of the table, and a service or none. *)

ReadSetting(p, k, next) ==
    /\ At(p, k)
    /\ Continue(p, [task[p] EXCEPT !.config[k] = Resolved(k), !.pc = next])
    /\ UNCHANGED <<stores, inbox, told, unserved>>

ResolveEmailConfig(p) ==
    \/ ReadSetting(p, "enabled", "api_key")
    \/ ReadSetting(p, "api_key", "domain")
    \/ ReadSetting(p, "domain", IF task[p].notice # None THEN "list" ELSE "find")

HasService(p) == IsAvailable(task[p].config)

-----------------------------------------------------------------------------
(* Notices.  The service is nil when e-mail is not available, but the      *)
(* interface that holds it is not, and the dispatch goes on.               *)

NotifyAlert(p, n, rank) ==
    /\ At(p, "idle")
    /\ n \notin told
    /\ told' = told \cup {n}
    /\ Continue(p, [NoTask EXCEPT !.pc = "enabled", !.notice = n, !.rank = rank])
    /\ UNCHANGED <<stores, inbox, unserved>>

ShouldNotify(p, r) ==
    Present(r) /\ recipients[r].enabled /\ task[p].rank >= recipients[r].min

ListRecipients(p) ==
    /\ At(p, "list")
    /\ unserved' = IF HasService(p) THEN unserved ELSE unserved \cup {task[p].notice}
    /\ LET rows == {r \in RecipientIds : ShouldNotify(p, r)}
       IN  IF rows = {} THEN Finish(p)
           ELSE Continue(p, [task[p] EXCEPT !.pc = "send", !.todo = rows])
    /\ UNCHANGED <<stores, inbox, told>>

\* Without a look at sendErr.
SendingUnchecked(p, r, status) ==
    Continue(p, [task[p] EXCEPT !.pc = "record", !.row = r, !.status = "sent"])

Sending(p, r, status) ==
    Continue(p, [task[p] EXCEPT !.pc = "record", !.row = r, !.status = status])

\* No service: nothing is sent and no error returned.  With one the mail is
\* taken, or taken and the answer lost, or refused.
Send(p) ==
    /\ At(p, "send")
    /\ \E r \in task[p].todo :
          \/ /\ HasService(p) => IsWhole(task[p].config)
             /\ Sending(p, r, "sent")
             /\ inbox' = IF ~HasService(p) THEN inbox ELSE
                  inbox \cup {[notice |-> task[p].notice, target |-> recipients[r].target,
                               recipient |-> r]}
          \/ /\ HasService(p) /\ ~IsWhole(task[p].config)
             /\ Sending(p, r, "failed")
             /\ UNCHANGED inbox
    /\ UNCHANGED <<stores, told, unserved>>

SendFails(p) ==
    /\ At(p, "send")
    /\ HasService(p) /\ IsWhole(task[p].config)
    /\ \E r \in task[p].todo :
          /\ Sending(p, r, "failed")
          /\ \/ UNCHANGED inbox
             \/ inbox' = inbox \cup {[notice |-> task[p].notice,
                                      target |-> recipients[r].target, recipient |-> r]}
    /\ UNCHANGED <<stores, told, unserved>>

NextRecipient(p) ==
    IF task[p].todo = {task[p].row} THEN Finish(p)
    ELSE Continue(p, [task[p] EXCEPT !.pc = "send", !.todo = @ \ {task[p].row},
                                     !.row = None, !.status = "sent"])

\* The foreign key refuses a delivery to a row that is no longer there; that
\* is logged, and the loop goes on.
Record(p) ==
    /\ At(p, "record")
    /\ deliveries' = IF ~Present(task[p].row) THEN deliveries ELSE
         deliveries \cup {[notice |-> task[p].notice, status |-> task[p].status,
                           target |-> recipients[task[p].row].target]}
    /\ NextRecipient(p)
    /\ UNCHANGED <<settings, recipients, inbox, told, unserved>>

RecordFails(p) ==
    /\ At(p, "record")
    /\ NextRecipient(p)
    /\ UNCHANGED <<stores, inbox, told, unserved>>

-----------------------------------------------------------------------------
(* Test mails. *)

SendTestEmail(p, target) ==
    /\ At(p, "idle")
    /\ Continue(p, [NoTask EXCEPT !.pc = "enabled", !.target = target])
    /\ UNCHANGED <<stores, inbox, told, unserved>>

FindRecipient(p) ==
    /\ At(p, "find")
    /\ IF RowOf(task[p].target) = {} THEN Finish(p)
       ELSE Continue(p, [task[p] EXCEPT !.pc = "test"])
    /\ UNCHANGED <<stores, inbox, told, unserved>>

\* Arrives or is answered with an error: that of the renderer when there is
\* no service.
SendTest(p, arrives) ==
    /\ At(p, "test")
    /\ arrives => IsWhole(task[p].config)
    /\ inbox' = IF ~arrives THEN inbox ELSE
         inbox \cup {[notice |-> None, target |-> task[p].target, recipient |-> None]}
    /\ Finish(p)
    /\ UNCHANGED <<stores, told, unserved>>

-----------------------------------------------------------------------------

\* A statement fails or the request is cut short.
Fail(p) ==
    /\ ~At(p, "idle")
    /\ Finish(p)
    /\ UNCHANGED <<stores, inbox, told, unserved>>

Begin(p) ==
    \/ \E batch \in Batches : UpdateBatchForUI(p, batch)
    \/ \E t \in Targets, min \in Severities : CreateRecipients(p, {<<t, min>>})
    \/ \E n \in Notices, rank \in Severities : NotifyAlert(p, n, rank)
    \/ \E t \in Targets : SendTestEmail(p, t)

Work(p) ==
    \/ Upsert(p) \/ AddRecipient(p) \/ ResolveEmailConfig(p)
    \/ ListRecipients(p) \/ Send(p) \/ Record(p)
    \/ FindRecipient(p) \/ SendTest(p, IsWhole(task[p].config))

Trouble(p) == Fail(p) \/ SendFails(p) \/ RecordFails(p) \/ SendTest(p, FALSE)

Next ==
    \/ \E p \in Handlers : Begin(p) \/ Work(p) \/ Trouble(p)
    \/ \E r \in RecipientIds :
          DeleteRecipient(r) \/ \E enabled \in BOOLEAN : SetEnabled(r, enabled)

Spec == Init /\ [][Next]_vars

-----------------------------------------------------------------------------

\* Nobody is told twice, by two rows for one address, of one turn of an
\* alert, as recipients are deleted, added again and enabled meanwhile.
ToldOnce ==
    \A m, n \in inbox :
        m.notice = n.notice /\ m.target = n.target => m.recipient = n.recipient

\* A delivery on record as sent was sent; unless there was no service, which
\* is on record in no other way.  One on record as failed was tried.
RecordsAreTrue ==
    \A d \in deliveries :
        IF d.status = "failed" THEN d.notice \notin unserved
        ELSE \/ d.notice \in unserved
             \/ \E m \in inbox : m.notice = d.notice /\ m.target = d.target

\* A delivery on record as sent was sent.  Does not hold.
SentWasSent ==
    \A d \in deliveries : d.status = "sent" =>
        \E m \in inbox : m.notice = d.notice /\ m.target = d.target
=============================================================================
