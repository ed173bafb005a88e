------------------------------- MODULE Fleet -------------------------------
(***************************************************************************)
(* Which checks the agents run: users create, edit and delete services and *)
(* nodes and replace agent tokens, each in a few statements; an agent asks *)
(* for the configuration of the node its token belongs to, keeps the last  *)
(* one it could use, and runs through its checks one by one, each result   *)
(* under that token.  What a result or a heartbeat does to the state of a  *)
(* service or node is the subject of ServiceMonitor and NodeMonitor, lost  *)
(* answers that of Observations; managed services have no agent.           *)
(***************************************************************************)
EXTENDS Naturals, FiniteSets

CONSTANTS
    Nodes, Services, Agents,
    Checks,    \* what a service can have as check_type and check_target
    Supported, \* those validateFetchedHealthCheck accepts: http, to a URL
    Capacity,  \* how many checks fit into the 4096 bytes doJSON reads
    MaxUpsets, \* bound on requests of users, restarts of agents and errors
    Handlers,  \* goroutines that serve users
    None

ASSUME FleetAssumption ==
    /\ Supported \subseteq Checks
    /\ Capacity \in Nat /\ MaxUpsets \in Nat
    /\ None \notin Nodes \cup Services \cup Checks

VARIABLES
    nodes,    \* [Nodes -> NodeRow]: app.nodes
    services, \* [Services -> ServiceRow]: app.services
    latest,   \* [Services -> Checks or None]: what the last result stored is of
    issued,   \* how many agent tokens were made: the last is issued itself
    task,     \* [Handlers -> Task]: the requests of users
    agent,    \* [Agents -> Agent]: processes, and what they hold in memory
    refresh,  \* [Agents -> Refresh]: their configuration loops
    health,   \* [Agents -> Health]: their health loops
    upsets    \* how many upsets are still to come

tables == <<nodes, services, latest, issued>>
loops == <<agent, refresh, health>>
vars == <<tables, task, loops, upsets>>

States == {"unborn", "live", "gone"}
Tokens == 0 .. MaxUpsets \* 0 is SQL's NULL
NodeRow == [state : States, token : Tokens]
ServiceRow == [state : States, node : Nodes \cup {None}, check : Checks \cup {None}]

\* found is read by no action: the services of the node when it was asked
\* to delete it.
Task == [pc : {"idle", "count", "delete", "insert", "write", "token"},
         node : Nodes \cup {None}, service : Services \cup {None},
         check : Checks \cup {None}, found : SUBSET Services]

Agent == [up : BOOLEAN, token : Tokens, checks : SUBSET (Services \X Checks)]
Refresh == [pc : {"idle", "list", "decode"}, node : Nodes \cup {None},
            list : SUBSET (Services \X Checks)]
Health == [pc : {"idle", "send", "read", "insert"}, node : Nodes \cup {None},
           todo : SUBSET (Services \X Checks), service : Services \cup {None},
           check : Checks \cup {None}]

NoTask == [pc |-> "idle", node |-> None, service |-> None, check |-> None, found |-> {}]
NoRefresh == [pc |-> "idle", node |-> None, list |-> {}]
NoHealth == [pc |-> "idle", node |-> None, todo |-> {}, service |-> None, check |-> None]

TypeOK ==
    /\ nodes \in [Nodes -> NodeRow]
    /\ services \in [Services -> ServiceRow]
    /\ latest \in [Services -> Checks \cup {None}]
    /\ issued \in Tokens
    /\ task \in [Handlers -> Task]
    /\ agent \in [Agents -> Agent]
    /\ refresh \in [Agents -> Refresh]
    /\ health \in [Agents -> Health]
    /\ upsets \in 0 .. MaxUpsets

\* Some nodes are there, with no token yet.
Init ==
    /\ nodes \in [Nodes -> {row \in NodeRow : row.state # "gone" /\ row.token = 0}]
    /\ services = [s \in Services |-> [state |-> "unborn", node |-> None, check |-> None]]
    /\ latest = [s \in Services |-> None]
    /\ issued = 0
    /\ task = [p \in Handlers |-> NoTask]
    /\ agent = [a \in Agents |-> [up |-> FALSE, token |-> 0, checks |-> {}]]
    /\ refresh = [a \in Agents |-> NoRefresh]
    /\ health = [a \in Agents |-> NoHealth]
    /\ upsets = MaxUpsets

Upset == upsets > 0 /\ upsets' = upsets - 1

-----------------------------------------------------------------------------
(* The tables.                                                             *)

Live(n) == nodes[n].state = "live"

ServicesOf(n) == {s \in Services : services[s].state = "live" /\ services[s].node = n}

\* ListAgentConfigChecksByNodeID
Config(n) == {<<s, services[s].check>> : s \in ServicesOf(n)}

\* Every token stays good.
OwnersOfIssued(token) ==
    {n \in Nodes : Live(n) /\ token \in 1 .. nodes[n].token}

\* GetNodeByAgentTokenHash: no node or one.
Owners(token) ==
    {n \in Nodes : Live(n) /\ token # 0 /\ nodes[n].token = token}

(* Users.                                                                  *)

Begin(p, t) ==
    /\ Upset
    /\ task[p].pc = "idle"
    /\ task' = [task EXCEPT ![p] = t]
    /\ UNCHANGED <<tables, loops>>

Goto(p, pc) == task' = [task EXCEPT ![p].pc = pc]
End(p) == task' = [task EXCEPT ![p] = NoTask]

\* NodeService.Create
CreateNode(n) ==
    /\ Upset
    /\ nodes[n].state = "unborn"
    /\ nodes' = [nodes EXCEPT ![n] = [state |-> "live", token |-> 0]]
    /\ UNCHANGED <<services, latest, issued, task, loops>>

\* NodeService.Delete reads the node ...
DeleteNode(p, n) ==
    /\ Live(n)
    /\ Begin(p, [NoTask EXCEPT !.pc = "count", !.node = n, !.found = ServicesOf(n)])

\* Trusting that the page offered it.
DeleteUncounted(p) ==
    /\ task[p].pc = "count"
    /\ Goto(p, "delete")
    /\ UNCHANGED <<tables, loops, upsets>>

\* ... counts its services ...
CountServices(p) ==
    /\ task[p].pc = "count"
    /\ IF ServicesOf(task[p].node) = {} THEN Goto(p, "delete") ELSE End(p)
    /\ UNCHANGED <<tables, loops, upsets>>

\* ... and deletes it; a service inserted meanwhile goes with it, and its
\* results (ON DELETE CASCADE).
DropNode(p) ==
    /\ task[p].pc = "delete"
    /\ LET n == task[p].node
           lost == ServicesOf(n)
       IN  /\ nodes' = [nodes EXCEPT ![n] = [state |-> "gone", token |-> 0]]
           /\ services' = [s \in Services |-> IF s \in lost
                             THEN [services[s] EXCEPT !.state = "gone"] ELSE services[s]]
           /\ latest' = [s \in Services |-> IF s \in lost THEN None ELSE latest[s]]
    /\ End(p)
    /\ UNCHANGED <<issued, loops, upsets>>

\* ServiceService.Create reads the project and the node ...
CreateService(p, n, s, check) ==
    /\ Live(n)
    /\ services[s].state = "unborn"
    /\ \A q \in Handlers : task[q].pc = "insert" => task[q].service # s
    /\ Begin(p, [NoTask EXCEPT !.pc = "insert", !.node = n, !.service = s, !.check = check])

\* ... and inserts; the foreign key refuses a node deleted meanwhile.
InsertService(p) ==
    /\ task[p].pc = "insert"
    /\ services' = IF Live(task[p].node)
                   THEN [services EXCEPT ![task[p].service] =
                           [state |-> "live", node |-> task[p].node, check |-> task[p].check]]
                   ELSE services
    /\ End(p)
    /\ UNCHANGED <<nodes, latest, issued, loops, upsets>>

\* ServiceService.Update reads the row: fields not given keep the value read,
\* which is one of the choices ...
UpdateService(p, s, check) ==
    /\ services[s].state = "live"
    /\ Begin(p, [NoTask EXCEPT !.pc = "write", !.service = s, !.check = check])

\* ... and writes all of them back.
WriteService(p) ==
    /\ task[p].pc = "write"
    /\ LET s == task[p].service IN
          services' = IF services[s].state = "live"
                      THEN [services EXCEPT ![s].check = task[p].check] ELSE services
    /\ End(p)
    /\ UNCHANGED <<nodes, latest, issued, loops, upsets>>

\* ServiceService.Delete is one statement.
DeleteService(s) ==
    /\ Upset
    /\ services[s].state = "live"
    /\ services' = [services EXCEPT ![s].state = "gone"]
    /\ latest' = [latest EXCEPT ![s] = None]
    /\ UNCHANGED <<nodes, issued, task, loops>>

\* RegenerateAgentToken reads the node ...
RegenerateAgentToken(p, n) ==
    /\ Live(n)
    /\ Begin(p, [NoTask EXCEPT !.pc = "token", !.node = n])

\* ... and writes the hash of a random token, which it answers.
WriteToken(p) ==
    /\ task[p].pc = "token"
    /\ IF Live(task[p].node)
       THEN /\ issued' = issued + 1
            /\ nodes' = [nodes EXCEPT ![task[p].node].token = issued + 1]
       ELSE UNCHANGED <<nodes, issued>>
    /\ End(p)
    /\ UNCHANGED <<services, latest, loops, upsets>>

Work(p) ==
    CountServices(p) \/ DropNode(p) \/ InsertService(p) \/ WriteService(p) \/ WriteToken(p)

\* A statement fails, which ends the request.
Fail(p) ==
    /\ task[p].pc # "idle"
    /\ End(p)
    /\ UNCHANGED <<tables, loops, upsets>>

-----------------------------------------------------------------------------
(* The processes.                                                          *)

Quiet(a) ==
    /\ refresh' = [refresh EXCEPT ![a] = NoRefresh]
    /\ health' = [health EXCEPT ![a] = NoHealth]

\* An operator starts it with a token they were given.
StartAgent(a, token) ==
    /\ Upset
    /\ ~agent[a].up
    /\ agent' = [agent EXCEPT ![a] = [up |-> TRUE, token |-> token, checks |-> {}]]
    /\ Quiet(a)
    /\ UNCHANGED <<tables, task>>

StopAgent(a) ==
    /\ Upset
    /\ agent[a].up
    /\ agent' = [agent EXCEPT ![a] = [up |-> FALSE, token |-> 0, checks |-> {}]]
    /\ Quiet(a)
    /\ UNCHANGED <<tables, task>>

(* The configuration loop.                                                 *)

\* FetchConfig, as far as the middleware, which answers 401 or goes on ...
FetchConfig(a) ==
    /\ agent[a].up
    /\ refresh[a].pc = "idle"
    /\ \E n \in Owners(agent[a].token) :
          refresh' = [refresh EXCEPT ![a] = [NoRefresh EXCEPT !.pc = "list", !.node = n]]
    /\ UNCHANGED <<tables, task, agent, health, upsets>>

\* ... to GetForNode ...
ListConfig(a) ==
    /\ refresh[a].pc = "list"
    /\ refresh' = [refresh EXCEPT ![a].pc = "decode", ![a].list = Config(refresh[a].node)]
    /\ UNCHANGED <<tables, task, agent, health, upsets>>

\* The response is read in full and every check in it is one the agent runs.
Usable(list) ==
    /\ Cardinality(list) <= Capacity
    /\ \A c \in list : c[2] \in Supported

\* Comparing services only, not what is checked of them.
DecodeNewServices(a) ==
    /\ refresh[a].pc = "decode"
    /\ LET list == refresh[a].list
           same == {c[1] : c \in list} = {c[1] : c \in agent[a].checks}
       IN  agent' = [agent EXCEPT ![a].checks = IF Usable(list) /\ ~same THEN list ELSE @]
    /\ refresh' = [refresh EXCEPT ![a] = NoRefresh]
    /\ UNCHANGED <<tables, task, health, upsets>>

\* ... whose answer replaces the checks, or leaves them as they are.
Decode(a) ==
    /\ refresh[a].pc = "decode"
    /\ agent' = [agent EXCEPT ![a].checks =
                    IF Usable(refresh[a].list) THEN refresh[a].list ELSE @]
    /\ refresh' = [refresh EXCEPT ![a] = NoRefresh]
    /\ UNCHANGED <<tables, task, health, upsets>>

(* The health loop.                                                        *)

\* runHealthChecks: a snapshot of the checks ...
BeginRound(a) ==
    /\ health[a].pc = "idle"
    /\ agent[a].checks # {}
    /\ health' = [health EXCEPT ![a] = [NoHealth EXCEPT
                    !.pc = "send", !.todo = agent[a].checks]]
    /\ UNCHANGED <<tables, task, agent, refresh, upsets>>

\* The loop when it is through with one of them.
Rest(h) == IF h.todo = {} THEN NoHealth
           ELSE [NoHealth EXCEPT !.pc = "send", !.todo = h.todo]

\* ... of which each is run and its result sent, as far as the middleware.
SendResult(a) ==
    /\ health[a].pc = "send"
    /\ \E c \in health[a].todo :
          LET h == [health[a] EXCEPT !.todo = @ \ {c}]
              owners == Owners(agent[a].token)
          IN  health' = [health EXCEPT ![a] =
                 IF owners = {} THEN Rest(h)
                 ELSE [h EXCEPT !.pc = "read", !.node = CHOOSE n \in owners : TRUE,
                                !.service = c[1], !.check = c[2]]]
    /\ UNCHANGED <<tables, task, agent, refresh, upsets>>

\* HealthIngestionService.Ingest reads the service, compares its node ...
ReadService(a) ==
    /\ health[a].pc = "read"
    /\ health' = [health EXCEPT ![a] =
          IF health[a].service \in ServicesOf(health[a].node)
          THEN [@ EXCEPT !.pc = "insert"] ELSE Rest(@)]
    /\ UNCHANGED <<tables, task, agent, refresh, upsets>>

\* ... and stores the result, unless it is deleted by now.
StoreResult(a) ==
    /\ health[a].pc = "insert"
    /\ LET h == health[a] IN
         /\ latest' = IF services[h.service].state = "live"
                      THEN [latest EXCEPT ![h.service] = h.check] ELSE latest
         /\ health' = [health EXCEPT ![a] = Rest(h)]
    /\ UNCHANGED <<nodes, services, issued, task, agent, refresh, upsets>>

RefreshConfig(a) == FetchConfig(a) \/ ListConfig(a) \/ Decode(a)
CheckHealth(a) == BeginRound(a) \/ SendResult(a) \/ ReadService(a) \/ StoreResult(a)

\* A request of the agent fails, or its answer is lost.
FailRefresh(a) ==
    /\ Upset
    /\ refresh[a].pc # "idle"
    /\ refresh' = [refresh EXCEPT ![a] = NoRefresh]
    /\ UNCHANGED <<tables, task, agent, health>>

FailHealth(a) ==
    /\ Upset
    /\ health[a].pc \in {"read", "insert"}
    /\ health' = [health EXCEPT ![a] = Rest(@)]
    /\ UNCHANGED <<tables, task, agent, refresh>>

-----------------------------------------------------------------------------

Request(p) ==
    \/ \E n \in Nodes : DeleteNode(p, n) \/ RegenerateAgentToken(p, n)
    \/ \E s \in Services, check \in Checks :
          UpdateService(p, s, check) \/ \E n \in Nodes : CreateService(p, n, s, check)

Next ==
    \/ \E p \in Handlers : Request(p) \/ Work(p) \/ Fail(p)
    \/ \E n \in Nodes : CreateNode(n)
    \/ \E s \in Services : DeleteService(s)
    \/ \E a \in Agents :
          \/ StopAgent(a) \/ \E token \in 1 .. issued : StartAgent(a, token)
          \/ RefreshConfig(a) \/ CheckHealth(a)
          \/ FailRefresh(a) \/ FailHealth(a)

\* Both loops of an agent tick for ever, and requests go on.
Fairness ==
    /\ \A p \in Handlers : WF_vars(Work(p))
    /\ \A a \in Agents : WF_vars(RefreshConfig(a)) /\ WF_vars(CheckHealth(a))

Spec == Init /\ [][Next]_vars /\ Fairness

-----------------------------------------------------------------------------

\* Deleting a node takes no service along that was there when the deletion
\* was asked for, whatever is created and deleted before it is carried out.
DeletionSparesWhatWasThere ==
    [][\A p \in Handlers :
          task[p].pc = "delete" /\ nodes[task[p].node].state # nodes'[task[p].node].state
             => \A s \in task[p].found :
                   services[s].state = "live" => services'[s].state = "live"]_vars

\* a runs for n under a token that is good.
Serves(a, n) == agent[a].up /\ n \in Owners(agent[a].token)

\* Whatever edits, restarts and errors have crossed, an agent that goes on
\* running for a node ends up with the checks of its services, and each
\* service with results of its own check, provided the configuration is one
\* the agent can use.
AgentsCatchUp ==
    \A a \in Agents, n \in Nodes :
        <>[](Serves(a, n) /\ Usable(Config(n))) =>
            <>[](/\ agent[a].checks = Config(n)
                 /\ \A s \in ServicesOf(n) : latest[s] = services[s].check)

\* Its token was replaced, or its node is gone.
Retired(a) ==
    \A n \in Nodes : Live(n) => nodes[n].token # agent[a].token

\* An agent whose token was replaced, or whose node is gone, gets nothing
\* past the middleware any more, once what had passed it is through.
RetiredAgentsFallSilent ==
    \A a \in Agents :
        <>[]Retired(a) =>
            <>[](refresh[a].pc = "idle" /\ health[a].pc \in {"idle", "send"})

\* "Assigned health checks now come from the backend": all that are assigned.
AgentsRunWhatIsAssigned ==
    \A a \in Agents, n \in Nodes :
        <>[]Serves(a, n) => <>[](agent[a].checks = Config(n))
=============================================================================
