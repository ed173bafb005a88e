# A verification of Agrafa

Agrafa watches nodes and services: agents report heartbeats, metrics and
health checks to a Go backend on PostgreSQL, the backend keeps the current
state, evaluates alert rules, and writes events and e-mail. This directory
holds TLA+ models of that backend (`src/backend/src`, below just a file name)
and of the agent (`src/agent`), configurations that model-check them with TLC,
and theorems about them checked by TLAPS. `PROJECT.json` maps every definition
to the lines it models.

## 1. The system

The backend has no locks and no queues, and few transactions that span
statements: `repositories/rls_exec.go` runs **each repository call in a
transaction of its own**, and only a few calls (the replacement of an
invitation, the creation of a project, some of the accounts') hold two
statements. Every request handler and job is therefore a sequence of atomic
statements, interleaved with all other handlers, that can be cut short after
any of them (a database error, a cancelled request, a killed process) with
what it has written left in place. Nothing resumes it. That is the source of
almost every hazard, and the grain of every model here.

| component | state it keeps | operations | talks to | correct when |
|---|---|---|---|---|
| Alert evaluator (`services/alert-evaluator.service.go`) | none; `alert_instances` | apply a rule to a target, reconcile a rule, close for a target | store, events, notifications | one active alert per rule and target; each ends once; one event and at most one mail per turn |
| Alert store (`alert_instances.sql`, migrations 2 and 17; the lists in `alert.service.go`) | rows active / resolved / closed, partial unique indexes | insert, resolve, close, cascade; the active list, pages of the ended ones | | ended rows never change; lists and pages together show every alert |
| Alert rules (`services/alert-rule.service.go`) | `alert_rules`: enabled, scope, type, threshold | create, update, delete, each followed by an evaluation of current state | evaluator, nodes, services, metrics | alerts follow the rule as it is edited |
| Node state and expiry (`node-state.service.go`, `heartbeat.service.go`, `jobs/node-expiry.job.go`) | `nodes.current_state`, `last_heartbeat_at` | heartbeat, shutdown, expiry | evaluator, events | online while it beats, offline when silent |
| Service state (`service-state.service.go`, `health-ingestion.service.go`) | `services.current_state`, two counters | apply a health result | evaluator, events | three failures make unhealthy, two successes healthy |
| Metric ingestion (`metric-ingestion.service.go`) | `metric_samples` | ingest a batch, sample by sample | evaluator | alerts follow the latest sample, however late a batch comes |
| Managed checks (`jobs/managed-service-check.job.go`) | none | beat for the hidden node, check its services | node state, health ingestion | |
| Events (`event.service.go`) | `events` | append | | tell what happened, once |
| Notifications (`notification.service.go`, `notification-recipient.service.go`) | recipients, `notification_deliveries` | dispatch to recipients; add, enable, delete one; test mail | e-mail provider | nobody is told twice, records are true |
| Agent (`src/agent/src/runner`, `client`) | configuration, token | loops for heartbeats, metrics, checks, refresh; retries; shutdown notice | HTTP to the backend | it runs the checks assigned, and nothing for a token that was replaced |
| Members, invitations (`project-member.service.go`, `project-invitation.service.go`) | memberships, invitations | create, change role, delete, accept | | a project keeps an owner; an invitation is used once |
| Accounts (`auth.service.go`, `session.service.go`, `verification-token.service.go`) | users, sessions, tokens | register, log in and out, verify, reset | e-mail | a link works once; a reset ends sessions; nobody stays locked out |
| Settings (`instance-setting.service.go`, `email-runtime.provider.go`) | `instance_settings` | batch update, row by row; read anew for every use | | settings of two accounts do not stay mixed |
| Nodes, services, projects (`node.service.go`, `service.service.go`, `project.service.go`, `agent-config.service.go`) | rows, agent tokens | create, update, delete, replace a token; the agent's configuration | agent | a deletion spares what it was not asked to delete; what refers to each other is in one project |
| Observations (`service-read.service.go`, `controllers/sse.go`) | `health_check_results`; last id sent | stream by id, history by time | agent | each stored observation is shown, once |
| Authorization (`rbac.go`, `project_authorization.go`, `router.go`, migrations 13 ff.) | memberships | role tables, the middleware of every route, row policies | every handler | rows are touched only under a role in their own project |
| Front end, docs, install scripts, generated code | | | | not modelled |

The hard behaviours, each listed with its line under `hazards` in
`PROJECT.json`: evaluations of one rule that overlap (a request, the expiry
and an edit at once); rows that are read, and judged after they changed; a
write followed by an evaluation, an event or a mail that fails; heartbeats,
samples and results that are late, reordered, repeated or in flight while the
world goes on; ids that become visible in another order than they were drawn;
cursors over rows that move; counts checked before a write; links followed
twice; settings and permissions written in several places; and what must
happen in the end.

## 2. The modules

```
AlertConstants            what all alerting is parameterised by
AlertStore                the table and its SQL statements
  +- AlertLifecycle       ABSTRACT: what alerting promises, without processes
  +- AlertEvaluator       the evaluator's calls, statement by statement
  |    |   implements AlertLifecycle
  |    +- AlertEvaluatorProofs   both of the above
  |    +- NodeMonitor     heartbeats, expiry, rule edits; calls the evaluator
  |    |    |   implements AlertEvaluator (Targets <- Nodes)
  |    |    +- NodeMonitorProofs
  |    |    +- NodeRecovery   agents that live and die, bounded trouble, fairness
  |    +- ServiceMonitor  health results, counters, rule edits; calls the evaluator
  |    |    |   implements AlertEvaluator (Targets <- Services)
  |    |    +- ServiceRecovery   services that go down and come back, fairness
  |    +- MetricMonitor   batches of samples, thresholds; calls the evaluator
  |         |   implements AlertEvaluator (Targets <- Nodes)
  +- AlertPages           the lists and pages alerts are read on
Alerting                  ServiceMonitor, MetricMonitor and AlertPages side by side
  +- AlertingProofs       the modules it is made of, and ServiceRecovery

Observations              a check's way to the table, the stream and the history
  +- ObservationsProofs
Fleet                     nodes, services, tokens, and the agents that run their checks

Membership                the members of a project and its invitations
  +- MembershipProofs
  +- MembershipRecovery   inviting and accepting again after trouble, fairness
Access                    routes, roles, the middleware and the row policies
  +- AccessProofs

AccountStore              users, sessions and tokens, and their transactions
  +- Accounts             the requests, statement by statement
       +- AccountsRecovery     users who want in, bounded trouble, fairness
            +- AccountsProofs
Mail                      settings, provider, recipients, notices and deliveries
  +- MailRecovery         an administrator who tests, bounded trouble, fairness
       +- MailProofs
```

**AlertStore** is `app.alert_instances`. `alerts` maps every id a bigserial
can hand out to its row; `"none"` is a row not yet inserted and `"deleted"`
one removed by the cascade (kept so that histories can be stated; its id is
never reused). `InsertActive` carries the partial unique index, `MarkResolved`
and `MarkClosed` the `AND status = 'active'` of their `UPDATE`s.

**AlertLifecycle** is the abstract specification. It has no callers: an alert
opens, is resolved or closed, is purged; each turn is recorded at most once,
after it happened, and mailed at most once, after it was recorded.

**AlertEvaluator** is the evaluator. `call[p]` is the frame of goroutine `p`:
which statement is next and the operands it holds. `Apply` is
`applyRuleCondition` up to its first write, `Reconcile` is `ReconcileRule` up to
its list, `CloseForTarget` is `closeActiveAlertForTarget`; then `Create`,
`LogTriggered`, `SendTriggered`, and so on, one action per statement. The
outcomes the code handles are actions: `CreateLost` is the unique violation it
swallows, `ResolveLost` and `CloseLost` the `UPDATE` that matches no row,
`CreateRefused` the foreign key of a deleted rule. `Fail` abandons a call
between any two statements. Which rule, target and condition a caller asks
for is left open here, so what is shown holds for every caller: services and
metrics as well as nodes.

**NodeMonitor** puts the callers around it. `task[p]` is the request or job run
of `p`: the statement it is at, the row it evaluates, the rows and rules
it has listed but not reached. `silence[n]` is the age of
`last_heartbeat_at`; `Tick` ages it and the timestamps of requests in flight.
Heartbeats carry their `observed_at`, so an old one may be handled late;
`TouchHeartbeat` stores it even if it is older than the one stored. A loop
over rows that SQL returns in id order is a loop over a set, in any order,
which includes the code's. Node events are the variable `logged`, the state
the last one tells. Rules are `node_offline` rules; name, severity, and the
fields of other types change nothing here.

**NodeRecovery** restricts NodeMonitor to what lets liveness be stated: agents that
run beat in time, and at most `MaxUpsets` agent starts, stops, edits and errors
occur, anywhere.

**ServiceMonitor** puts other callers around it. `Store` is the insertion of a
result by `HealthIngestionService.Ingest`, on behalf of an agent's request, of
the managed check job, or of `CheckNow`; two of these for one service overlap
when a client times out and sends the next result while the server goes on with
the first, or when `CheckNow` is called beside the job. `Read` and `Update` are
`ApplyHealthResult`'s `GetByID` and its unconditional `UpdateState`, with
`NextRow` (`calculateServiceState`) in between; so two results that cross lose a
count. The row that was written is then judged by the rules (`ListRules`,
`EvaluateRule`, `EndCall`), and a change of state is logged. `row` and `was` are
the operands the handler holds. Failures are counted up to 3, which stands for all
larger numbers: the code compares with 3 only. `recent` (the last three rows of
`health_check_results`) and `failed` (how many rows are failures, up to 3) are
read by no action; they are what properties compare the counters with.
`Verdict` is the reference definition of a service's state over them.

**ServiceRecovery** restricts it like NodeRecovery: services flip at most
`MaxUpsets` times, updates and errors included, and checks see the service as it
is when the result is stored. A result of a check that the service has since
belied is the same behaviour with the flip a little later.

**MetricMonitor** puts a third set of callers around it. An agent takes a reading of all
metrics (`Collect`) and posts it as a batch; `Deliver` is the arrival of any batch it
ever sent, for the first time or again, at any time. `StoreSample`, `ReadLatest`, `ListRules`,
`EvaluateRule` and `EndCall` are the loop of `MetricIngestionService.Ingest`, which stores
a sample, reads the latest one back (by `observed_at` and id) and evaluates the
rules of that metric; an error ends the request and leaves the rest of the batch
unstored. Edits of rules carry a metric and a threshold and re-evaluate the nodes they are
for. `sound`, read by no action, holds the nodes for which a request ran alone
and whole since something last overlapped or failed. The deletion of a rule beside a
request counts as overlap too: the request may hold the rule still, and its insertion of an alert be refused. Agents only report for nodes that have
one, so the hidden node is not here.

**AlertPages** reads the table of AlertStore while anything its statements allow goes on:
`ReadActive` is the list of active alerts, `ReadHistory` and `NextPage` the pages of the
ended ones by the cursor (time, id), `ReadRecent` the combined list of older clients.
An alert is raised with the time of what raised it, so a new row may sort behind
one the reader has seen.

**Alerting** holds these three side by side: `topic`, chosen at the beginning, says which of
them a behaviour is about. That loses nothing: rules are listed by their type
(`EvaluateServiceRules`, `EvaluateMetricRules`), alerts are found by their rule, so requests about
rules of different types touch different rows, and the pages only read.

**Observations** follows one check: the agent's health loop runs it and sends it (`RunCheck`,
`Send`, `Retry` for what `doJSON` repeats, `LoseTouch` for what it never hears of), the backend reads the
service, inserts a row and applies it (`ReadService`, `Insert`, `Commit`, `Apply`). `Insert` draws
the id, `Commit` makes the row visible; between them others may draw and commit
theirs, which is what the stream (`FirstSnapshot`, `PollStream`) can be overtaken by.
The viewer is a page's `EventSource`: an opening that fails at a statement leaves it `"refused"` until the page is
loaded again (`ReloadPage`); a stream that ends in any other way (`CloseStream`) it opens again.
The history (`OpenHistory`, `NextPage`) goes by time and id within a range.
`count`, `overtaken`, `first`, `began` are history variables.

**Fleet** is who runs which checks. Users create, edit and delete nodes and services
and replace tokens, each request in the statements of its service (`CountServices` and
`DropNode` are one request); an agent's configuration loop is `FetchConfig` (the middleware:
whose token is it?), `ListConfig`, `Decode`; its health loop `BeginRound`, `SendResult`,
`ReadService`, `StoreResult`. `Capacity` is how many checks fit into the 4096 bytes that
`doJSON` reads of an answer; `Supported` are the check types the agent accepts. Restarts,
edits and errors number at most `MaxUpsets`.

**Access** is authorization. `Routes` are all the routes of `router.go` that need a
permission, with it, the table and operation of their handler, and where the middleware takes
the project from (the row in the path, the query, the body). A request is `Resolve`, `Authorize`, `Load`
and a statement (`Get`, `List`, `OpenStream`, `InsertRow`, ...), or is refused by a row policy
(`Refuse`, if `restricted`). Roles change between any two of these. `Allowed` are the
policies of the migrations. The compose files make `POSTGRES_USER` the database's superuser, whom
policies do not bind, and another deployment may use a role they do bind: `restricted` is either.
`permitted` and `changed` record what the user's role has been during the request. A body names
its project once (the middleware and the handler decode the same bytes).

**AccountStore** is the schema `auth`: each operator is one SQL statement or one transaction of
`auth.repository.go`. A password is told by how many times it was changed, a token in a
link or cookie by its id. **Accounts** has the requests: registration (with a session at
once when there is no mail to verify with), login, the middleware's look-up of a cookie
(`Authenticate`) and what it guards, the links that are asked for (`OpenReplace`,
`CommitReplace`, `Mail`) and followed (`FindToken`, then `ConfirmVerifyEmail` or
`ResetPassword`, which are transactions). `ReplaceVerificationToken` is two steps, since what
its `DELETE` found is fixed before its `INSERT` commits. **AccountsRecovery** adds users who want to be signed in and verified and
do what is next for that, one who is signed in all along, and `MaxUpsets` of everything else.

**Mail** is e-mail. A batch of settings is written row by row in any order (`Upsert`; the code
ranges over a slice the user sends). The provider reads its rows one by one for every use
(`enabled`, `api_key`, `domain`); one sender stands for an account, with its key and its domain.
A notice (`NotifyAlert`) lists the recipients, and for each that is enabled and for
that severity (`Sending`) sends, then records. `Send` with a configuration that is torn
fails at the service. `unserved` are notices for which there was no e-mail service,
which the code does not notice (see the findings). **MailRecovery** adds an administrator
who sends test mails, and stores the settings again when one does not arrive.

**Membership** is one project: `members` and `invitations` are its rows of the two
tables, `task[p]` the request of goroutine `p` and the statement it is at. A request
begins with the owner's permission, checked by the middleware in a statement of its
own, and its target loaded; what both read may be false when it is used. Adding a
member and accepting an invitation share `Find` (is the user a member?) and `Insert`;
`Accept` goes on to `Mark` and `Verify`. `Load`, `Count` and `Write` are
`UpdateRole` and, for the role `"gone"`, `Delete`. `Invite` is a batch: `TakeItem` looks
for an active invitation, `Replace` and `Commit` are the transaction of
`CreateReplacingPending`, and `ItemFails` is the error that the batch notes before it
goes on. Between its two statements that transaction holds the locks of the rows
it has deleted (`doomed`), at the isolation level PostgreSQL has by default: others read
the rows still, who would write them waits (`Locked`). `Abort` ends a request anywhere.
`RowPolicies` says whether row policies bind the database role, as in Access; with it a
statement also fails or matches nothing if the caller has lost the role it takes. A
policy's sub-select is read together with the row it is for. A user stands for its
normalised address; mail goes to its owner only.

**MembershipRecovery** has the creator invite again whoever is not a member, and the
invited user try again; errors, withdrawals, removals and links left to expire
number at most `MaxUpsets`.

## 3. The runs

| run | specification | bounds | shows |
|---|---|---|---|
| `node_serial` | NodeMonitor `SerialSpec` | 1 rule, 2 nodes of which 1 hidden, 2 alerts | without overlap: `AlertsTrackNodes`, `NoStrayAlerts`, `LogTracksNodes`, `NoFalseRecovery` after any sequence of requests |
| `node_recovery` | NodeRecovery `RecoverySpec` | 1 rule, 1 node, 2 handlers and the job, 4 alerts, 2 upsets | with overlap and failures: `TypeOK`, `LedgersAgree`, `EndedForGood`, `LiveNodesRecover`, `DeadNodesExpire` |
| `alerting` | `AlertingSpec` | services: 2, 1 rule, 1 handler; metrics: 2 of 1 node, 1 rule, 2 requests, 2 batches, 1 upset; 2 alerts; pages: 3 alerts, 2 rules, 2 times, pages of 1 | `ServicesTellResults`, `ServiceAlertsTrack` (in turn), `MetricAlertsTrack` (with late, repeated, overlapping and broken batches), `PagesShowAll` (whatever happens between pages) |
| `service_recovery` | ServiceRecovery `RecoverySpec` | 2 handlers, 1 rule, 1 service, 15 alerts, 2 upsets | `AlertsAreEarned`, `OutagesAlert`, `RecoveriesResolve`, with results that cross |
| `membership_recovery` | MembershipRecovery `RecoverySpec` | 2 users, 2 handlers, 5 members, 9 invitations, 2 upsets, row policies | `OneMembership`, `AcceptanceAdmits`, `RemovedStayRemoved`, `AcceptedStay`, `InviteesGetIn`: links followed twice at once, renewals, errors, expiry |
| `accounts` | AccountsRecovery `RecoverySpec` | 2 users, 2 handlers, 6 sessions, 5 tokens, 3 upsets | `ResetRevokes`, `LinksAreSpentOnce`, `SessionsEndByTheirUser`, `UsersGetIn` |
| `mail` | MailRecovery `RecoverySpec` | 2 accounts with the service, 1 address, 4 recipients, 1 notice, 2 handlers, 2 upsets | `ToldOnce`, `RecordsAreTrue`, `MailIsRepaired` |
| `sent_was_sent` | the same | the same | **violated**: `SentWasSent`, a notice that found no service is recorded as sent |
| `observations` | Observations `Spec` | 2 checks, 1 retry, 3 ids, 2 handlers, pages of 1 | `StreamMissesOnlyOvertaken`, `HistoryIsExact`, `ChecksAreCountedByAttempt`, `ViewersSeeLatest` |
| `fleet` | Fleet `Spec` | 1 node, 1 agent, 2 services of which 1 fits, 3 checks of which 2 are supported, 2 handlers, 5 upsets | `DeletionSparesWhatWasThere`, `AgentsCatchUp`, `RetiredAgentsFallSilent` |
| `agents_run_what_is_assigned` | the same | the same, without the unsupported check | **violated**: `AgentsRunWhatIsAssigned`, an agent with more checks than it can read keeps its old ones |
| `access` | Access `Spec` | all routes; 1 user, 2 projects, 2 rows, 1 handler | `AccessIsAuthorized`, `RowsShareProject`, `LayersAgree`, `RemovedStopWatching` |

*In turn.* The properties of `node_serial` and those of services in `alerting` are what the code
is written (and tested) to achieve; under overlap or failure they do not hold, because nothing retries an
interrupted evaluation, until a later request repairs it, which is what the recovery runs
show. `AlertsTrackMetrics` says this repair in one property: whatever overlapped or failed,
after one batch that is served alone the alerts of its node are right.

*What the properties leave room for.* An edit that loaded a node as online resolves the alert
the expiry has just created, and the node stays offline without one. A rule disabled while
`EvaluateNodeRules` holds it as enabled is left with an active alert. A rule of the hidden
node that is changed to all nodes keeps the hidden node's alert (`ruleAppliesToAlert`
keeps every node's). Two owners who leave at once leave none; two invitations, or two
reset links, of one address made at once are both good. A login that compared
the old password before a reset may create its session after it, and that session lives on (`ResetRevokes` says that it is the only kind). The history of alerts, read
before the active list, can miss an alert that ends in between. A service created
while its node is being deleted goes with it. One service with a check type the agent does not
support (`tcp`, which the API accepts) stops every refresh of its node's agent. Two edits
of one service at once keep the later one whole. No text of the repository contradicts these; two
further cases, which one does, are the `findings` in `PROJECT.json`.

*Why the bounds are enough.* Two handlers make every race between two requests: in `node_recovery`
a heartbeat that resolves an alert, or two, and an edit that closes it, or the rule's deletion
(two upsets are its creation and that), each finding the alert active before either writes. The job, which only opens alerts, is
the goroutine that treats an error differently. Two nodes, one hidden,
are needed for edits that move a rule; a third adds no kind of move. TTL 1 gives three
ages: fresh, exactly as old as the TTL, older; ages above TTL + 1 are one age. In
`node_recovery`, `service_recovery`, `membership_recovery`, `accounts` and `mail` there are more ids than
any behaviour with that many upsets uses, so no step is held up for want of one. Results that cross
end an alert and raise it again several times per upset, hence fifteen. In the other runs the ids
that run out end what can be created, which is harmless to safety. Two metrics in one
batch, never high together, tell apart a rule judged by the wrong metric or the wrong reading;
two batches are a late one and a newer one. Three alerts and pages of one give a first, a middle and a last page
with ties among two times. Three ids in `observations` are a check, its retry and the next
check. Two services of which one fits are within and beyond what an agent can read;
five upsets are a token, the start of an agent, two services created and an edit, a replaced token or an error. One user in `access` is
enough since no request reads the role of another; of two projects one is always the wrong one; two rows
are one and the one it refers to.

*Views.* `alerting` and `service_recovery` take states as one that differ only in variables no
action reads and no property of that run depends on beyond a step's own change, as their MC
modules say. The quotient has the same behaviours in all other variables, so safety and
liveness are judged as without it.

*Deadlock* is checked in the runs of nodes, `service_recovery` and `access`. The others may stop: ids or upsets
run out, or everyone is in and nobody asks for anything more.

*Fairness* is stated for the recovery modules, Observations, Fleet and Access. A goroutine that has
begun goes on (`WF` of `Proceed`, `Serve`, `Work`): Go's scheduler and the database do not stall one for ever, and
failures are upsets, hence finitely many (in Observations and Access they are not bounded; liveness does not need it, with the exception stated below). Tickers tick:
heartbeats (`runner.go:115`), the expiry (`node-expiry.job.go:47`), checks, configuration
refreshes, the stream's polls and its deadline. Time passes. `Timely` is the
assumption that a running agent's heartbeat is stored within the TTL; it is the
deployment's configuration (interval below TTL), not something the code
enforces. Users and administrators who are not yet where they want to be try again, which
is an assumption about them: guests accept and are invited again, users pursue their login, an administrator
tests mail; where the two handlers of the instance may both be busy now and then it is `SF`, whereas the backend starts a
goroutine for every request. A viewer's `EventSource` connects again when a stream
ends or a connection is lost (`retry:` in `sse.go`), and not all connections are lost before they are answered (`SF` of `FirstSnapshot`).
It does not when an opening is answered with an error (`sse.go:122-130`): it is closed then (`"refused"`), and `useSSE`
makes another only when the page is opened again (`ReloadPage`), which nobody need do. So `ViewersSeeLatest`
has a premise: in the end, openings are not refused. `Lapse` is time: an invitation that was never mailed expires.

Each property of a passing run has a mutant of the code in `PROJECT.json` that
violates it: a dropped index, a dropped `AND status = 'active'`, an early
return that skips the event, a cursor without its id, a permission too many, and so on.

## 4. The theorems

All hold for every value of the constants under the assumptions the modules name, which
the runs evaluate on their instances. Ids are naturals, and `None` and `All` are nobody's id
(`AlertStoreAssumption`, `ScopeAssumption`, `ServiceAssumption`, `AlertingAssumption`, `AccountStoreAssumption`,
`AccessAssumption`, `NoRoleAssumption`, `MailAssumption`, `ObservationsAssumption`); visible nodes are nodes, the job is
not a handler, the TTL is positive (`MonitorAssumption`); somebody handles requests; a batch has
samples and a threshold is not zero (`AlertingAssumption`); page sizes are positive; the creator of a
project is a user and there is an id for the first member (`MembershipAssumption`); there
is a severity, a bystander and a session id (`UpsetsAssumption` of MailRecovery and AccountsRecovery). Nothing else is assumed, and no
bound of a run is.

**Alerts.**

* `AlertEvaluatorProofs!Invariance`: `Spec => []IInv`. `AtMostOneActive` and the
  type invariant are not inductive by themselves for the refinement: one must
  know what a goroutine may rely on between two of its statements although
  the others run. `IInv` says that the operands of a frame exist
  (`FrameOK`), what the ledgers hold of an alert while a goroutine is about to
  record it (`TellerOK`), that no two goroutines tell the same turn of the same
  alert (`OneTeller`), and that nothing is on record of what has not
  happened (`NothingEarly`). `OneTeller` is the heart: it is re-established by
  the guards of the two `UPDATE`s, and it is what keeps events single.
* `TypeCorrect`, `OneActiveAlert` follow from it. `Refinement`: every step of
  the evaluator is a step of AlertLifecycle or a stutter.
* `LifeTypeCorrect`, `LifeLedgersCorrect`, `LifeEndsForGood`: the promises of the
  abstract specification, proved there once; with `Refinement` they hold of
  the evaluator (`LedgersCorrect`, `NoReopening`).

**Nodes** (`NodeMonitorProofs`).

* `MonitorImplementsEvaluator`: each action of NodeMonitor is a step of AlertEvaluator or a stutter, by
  one lemma per action. This refinement is proved only, no run checks it. `TypeCorrect` (with
  `TaskOK`: no task is at a statement whose operands it lacks), `OneActiveAlert`, `LedgersStayTrue` and `NoReopening` follow with the evaluator's theorems.
* `AlertsFollowNodes`, `NoStraysRemain`, `LogFollowsNodes`, `ResolvedMeansRecovered`, for `SerialSpec`. In the
  middle of a request alerts and nodes disagree, so the invariant (`SerialInv`)
  says of each rule and node that they agree *or that the request under way
  owes the repair*: it has still to list the rule, or holds it, or its call into the evaluator is
  about to write the row (`TaskOwes`, `CallOwes`); what it holds is what the tables say
  (`TaskCurrent`, `CallCurrent`), which is exactly what an overlap would destroy.

**Services** (`AlertingProofs`).

* `MonitorImplementsEvaluator`, `TypeCorrect`, `OneActiveAlert`, `LedgersStayTrue`, `NoReopening`, as for nodes and
  with any overlap and failure. So both chains, NodeMonitor => AlertEvaluator => AlertLifecycle and
  ServiceMonitor => AlertEvaluator => AlertLifecycle, are proved link by link.
* `AlertsHaveCause`: `AlertsAreEarned` for `Spec`, with results that cross. The
  counter of failures by itself says nothing, as two requests may have read the same row. The
  invariant counts what is in flight: a row, and every copy of it a request holds, tells of no
  more failures than there are results, *less those stored and not yet applied* (`Backed`,
  `Pending`); whoever then has a frame that will open an alert has cause (`Earned`).
  `RecoveryIsMonitor` carries it over to ServiceRecovery.
* `StatesFollowResults`, `AlertsFollowServices`, for one request at a time: the row is the
  verdict over the last three results or one request is about to make it so (`Reflected`, `Window`), and
  what does not agree of alerts is owed by that request (`Tracked`). `ServiceStatesFollowResults`
  and `ServiceAlertsFollow` state the same of Alerting, where the other topics leave the services alone.

**Metrics** (`AlertingProofs`), for `Metrics!Spec`, so with late, repeated and overlapping batches, errors and all.

* `MetricsImplementEvaluator`, `MetricsTypeCorrect`, `OneActiveMetricAlert`, as for nodes and services: the third
  caller of the evaluator. What a request carries is still so when it uses it: its sample is stored, its
  rules exist and are of its metric (`ErrandOK`), as rules and samples only become more (`Grows`).
* `AlertsFollowMetrics`. No alert is open, or about to be opened, for a metric without a sample (`Sampled`); this is
  needed because a rule is not evaluated at all when there is none. Then, as long as some node is in `sound`, one
  request at most is under way (`Alone`), and each rule and node in `sound` agree or that request owes the repair: the sample
  is still to come in its batch, or is in hand, or the rule is among those listed, or its call is about to write
  the row (`Fits`, `ErrandOwes`, `CallOwes`). What it has read is still the latest (`ErrandCurrent`), although the agent
  takes readings meanwhile, as a reading counts only once it is stored; and what its call is about to do is right
  (`FrameCurrent`). An overlap or an error empties `sound`, and the next batch served alone restores its node
  (`Heard`). `MetricAlertsFollow` states it of Alerting.

**Pages** (`AlertingProofs`). `NoAlertsAreLost` and `ListsShowAll`: `ReaderOK` says of each alert there was when the
reader began that, unless its rule was deleted, it was listed as active, or has been shown on a page, or has ended
and sorts behind the cursor. What a page is (the first rows of an order, with a limit) needs that a
finite set of numbers has a greatest, which is proved from well-foundedness.

**Observations** (`ObservationsProofs`), for `Spec`.

* `NoCheckIsOvercounted`: the rows of a check and the requests that have still to insert one are
  together no more than the attempts that were sent (`AttemptsOK`).
* `StreamsMissLittle`: of the rows up to the last id sent, each that is stored was sent, or was there when the
  stream was opened, or was pending when the stream passed it (`ViewerOK`); ids are handed out in order (`IdsOK`).
* `HistoriesAreExact`: of the rows of its range, the cursor has passed those that were shown, and no other that was there from
  the start (`ReaderOK`), by lemmas about what `ORDER BY ... LIMIT` selects (`AllAhead`, `Left`).

**Members** (`MembershipProofs`).

* `Invariance`: `Spec => []IInv`. `OneMembership` follows from
  the unique constraint, but `AcceptanceAdmits` needs to know what a request that is about
  to mark an invitation may rely on: that the row, unless deleted, still bears its user's
  address (`AcceptOK`), and that this user was let in, which no removal undoes.
  `AcceptedStay` needs that rows a transaction is about to delete remain pending until
  it ends (`DoomedOK`), which the lock gives. `TypeCorrect`, `NobodyJoinsTwice`,
  `SpentInvitationsAdmit`, `RemovedMembersStayRemoved` and
  `AcceptedInvitationsStay` follow, for `Spec`, hence with all overlaps and failures.
* `OwnersRemainInTurn`, for `SerialSpec`: at most one request is under
  way, and the owner it is about to change is not the last (`SafeWrite`), as nobody has
  written since it counted. Under `Spec` this is false: two owners may leave at once.

**Accounts** (`AccountsProofs`), for `Spec`, so with all overlaps and failures. `ResetsRevoke`: the reset changes the
password and removes the sessions of its user in one transaction, so what is live was inserted after it (`LiveSinceReset`), and a
session whose login compared an older password (`compared`) can only be one of those: of a login under way at
the reset. This needs that
sessions and tokens keep their user for good (`RowsOK`), and that a request about to reset names a token of its own
user and of that type (`LinkTaskOK`). `LinksSpentOnce` and `SessionsEnd` are action properties: a password changes by a mailed
link that the change spends, since the transaction finds it unused or changes nothing; a session ends by what its own user
asked for, or by time. They rest on the operands of requests and on what the other statements leave
alone (`SessionsKept`, `TokensKept`). `RecoveryIsSafe` is for AccountsRecovery.

**Access** (`AccessProofs`), for `Spec`. `AccessAuthorized`: whoever's statement runs had, at some moment of the
request, a role that may; a task carries what it had resolved, authorised and loaded (`PermittedOK`,
`TargetOK`, `RefersOK`), though role and rows may have changed since. `ReferencesStay`: the rows a row refers to
are of its project, as a row never changes project and the cascade takes what refers to it along (`RowsOK`,
`NamesOK`). `NoFalseRefusal`: no policy refuses who was let pass and has kept the role, route by route.

**Mail** (`MailProofs`), for `Spec`. `NobodyIsToldTwice`: a notice belongs to one request, which removes whom
it has told from whom it has still to tell, and no two rows it has listed have one address (`TellersOK`,
`Distinct`, `Unmailed`); a recipient who is deleted and added again is not listed again. `DeliveriesAreTrue`: what is recorded
is what the mail came to (`ToRecord`). `RecoveryIsMail` is for MailRecovery.

*Only model-checked*: `DeletionSparesWhatWasThere` of Fleet, and all liveness: `LiveNodesRecover`, `DeadNodesExpire`,
`OutagesAlert`, `RecoveriesResolve`, `InviteesGetIn`, `UsersGetIn`, `MailIsRepaired`, `ViewersSeeLatest`, `AgentsCatchUp`,
`RetiredAgentsFallSilent`, `RemovedStopWatching`. This prover does not handle
liveness under fairness, nor `ENABLED`, nor RECURSIVE operators (none are used). The library's
induction theorems take an operator, which no installed prover can instantiate; where a proof
needs induction (a set of ids has a first or a last one) it uses that `<` is well-founded on the
naturals, about sets (`LeastNumber`, `GreatestNumber`). `OnePendingInvitation` and `AdmittedOnce` of Membership are stated for
requests in turn (`SerialSpec`); no run checks them and they are to be proved.

## 5. What is not modelled, and the plan

Left out for good: the front end, scripts, generated code and API documentation, the wiring
in `main.go`, the parsing of requests and of the environment, wording and rendering of mails, the fields of
profiles and avatars, and the overview and other read models that are one query and a mapping: they
hold no state that interleaves, or are not this project's code.

Left out of the modelled parts: names, severities of rules and snapshot columns; the
agent's tracker of authorization failures, which decides when the process exits and what it
logs (a restart, in Fleet, is possible at any time); the bootstrap checker of managed services,
which is one more source of results; the keys of settings that are not about e-mail; the
cascades from nodes and services to their alerts (Fleet and Access have those to
services and rules, AlertPages that of a rule's alerts).

Theorems worth proving next, in this order:

1. `Membership`: `OnePendingInvitation` and `AdmittedOnce` for `SerialSpec`.
2. `Fleet`: `DeletionSparesWhatWasThere`, from what a request knows of the services it has counted and
   listed, and whom its node was handed to since.
