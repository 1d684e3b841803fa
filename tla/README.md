# Specifications of the cluster optimizer and its agent

TLA+ models of the parts of this repository whose correctness depends on order,
on failures or on boundaries: threads and coroutines of the Kubernetes agent,
calls that may fail before or after their effect, requests that share rows of a
database, workers that share keys of Redis, and the formulas of the optimization
modules. TLC checks every model on a small instance; TLAPS proves the safety
properties of the runs for every value of their constants. `PROJECT.json` lists
the runs, the lines of source each definition stands for, a mutation of the
model that breaks each property, the hazards and the theorems.

Contents:
[1 The system](#1-the-system) ·
[2 The modules](#2-the-modules) ·
[3 The runs](#3-the-runs) ·
[4 Fairness](#4-fairness) ·
[5 The proofs](#5-the-proofs) ·
[6 What the code turned out to do](#6-what-the-code-turned-out-to-do) ·
[7 What is not modelled](#7-what-is-not-modelled) ·
[8 Plan](#8-plan)

To repeat a run or a proof, in this directory:

    tlc -workers 2 -config MetricsCollector.cfg MetricsCollector.tla
    tlapm MetricsCollectorProofs.tla

## 1 The system

The repository is a service that lowers the cost of Kubernetes clusters on AWS.

* The **agent** (`src/agent/`) is one process in each cluster. Its main thread
  registers with the backend and starts four threads: the *collector* posts
  metrics, the *actuator* polls for actions and executes them, the *heartbeat*
  thread posts heartbeats and serves `/readyz`, the *WebSocket* thread holds a
  connection over which the backend can send commands.
* The **backend** (`src/backend/`) is a FastAPI application over PostgreSQL and
  Redis, with Celery workers. *Services* hold the state changes of the API, one
  per resource; the *decision engine* filters what the *optimization modules*
  propose; the *action executor* carries it out on AWS; *workers* scan accounts,
  react to interruptions and apply hibernation schedules.
* The **frontend** shows what the API returns.

Agent and backend meet in HTTP requests and WebSocket messages. The endpoints
that the agent calls (`/api/v1/agents/...`, `/api/v1/actions/...`,
`/api/v1/metrics/batch`) are not in the repository, and nothing reads or writes
the table `agent_action`: the backend that the agent models see is external and
is described by what the agent can observe of it.

### Components, state, operations

| component | state | operations | hard because | correct when |
|---|---|---|---|---|
| agent: collector `collector.py` | buffer, its lock, `running` | collect, add, flush, run, stop | two threads flush; a POST that times out may have been stored | nothing is lost, order is kept, doubt is one batch wide, stop ends the loop |
| agent: actuator `actuator.py` | batch in hand, `running`; node, deployment and pods in the cluster | poll, verify, execute, report; drain, cordon, label, update, evict | crash between execution and report, lost reports, read-modify-patch against other clients | a result belongs to its action, a repetition is explained, nobody's write is undone, a reported drain leaves none behind that was not told to go |
| agent: main and heartbeat `main.py`, `heartbeat.py` | shutdown event, threads, component health, readiness | register, start, monitor, restart, stop, deregister | signals between any two statements, a server that appears at any moment | a signal ends the process, dead threads are replaced, readiness follows health |
| agent: WebSocket `websocket_client.py` | connection, buffer, attempts, receive loops | connect, reconnect, flush, receive, send, stop | coroutines that outlive their connection, sends that fail half way | no answer is forgotten, the client comes back, stop ends the thread |
| decision engine `core/decision_engine.py` | none | evaluate_action_plan | ties and chains of conflicts | the best valid action of each resource is approved |
| action executor `core/action_executor.py` | results; instances and spot requests in AWS | execute_action_plan and a handler per action type | AWS calls that fail before or after their effect | no termination without a replacement, completed means replaced |
| organizations `organization_service.py` | users, invitations | invite, accept, remove, update; signup | check and write in different statements | one user per email, invitations and users agree, an administrator is left |
| node templates `template_service.py` | templates of a user | create, update, delete, set default | row locks, stale copies, deadlock | one default, at least one template |
| sessions `auth_service.py`, `dependencies.py`, parts of `settings_service.py`, `admin_service.py` | users, tokens | login, refresh, password change and reset, profile, toggle, removal | tokens cannot be revoked; check-then-write of the address | a session ends, an address leads to one user |
| integrations `settings_service.py` | a list per user in the memory of the process | add, delete, list | threads without a lock, a list that is replaced | what was answered stays so |
| accounts, onboarding `account_service.py`, `onboarding_service.py` | AWS accounts, onboarding state | link, validate, delete; steps, verify, skip | check-then-insert, two commits in one request | one row per account, a completed onboarding stays completed |
| health `health_service.py` | a pooled connection | system, readiness and detailed checks | parts fail and recover between two questions | an alarm has a cause, an outage that lasts is told |
| admin queries, audit `admin_service.py`, `audit_service.py` | none | lists by page, statistics, dashboard | every query sees another moment | rows and numbers agree unless something moved |
| events `event_processor.py` | de-duplication keys, instance states, the activity list | process_event and a handler per kind | at-least-once delivery, several workers, a key written before the work | an event is handled once, none is lost |
| risk tracker `risk_tracker.py` | flags with an expiry, counters | flag, check, list, clear | four calls that may break in between | what was flagged is counted and found |
| prices `pricing_collector.py`, `spot_advisor_scraper.py` | price rows, caches | collect, scrape, read and refill | threads on one session, caches written before the commit, collections that overlap | what is counted is stored, the cache follows the database |
| optimization modules `rightsizer.py`, `spot_optimizer.py`, `ml_model_server.py`, `bin_packer.py`, `optimization.py` | none | resize, select, predict; pack, detect, optimize (which raise) | boundaries of formulas, tables written twice | results satisfy their definitions |
| AWS scripts `scripts/aws/` | instances, volumes, an Auto Scaling group | launch, terminate, detach, update | AWS calls that fail after their effect, several shells | volumes survive, one instance a run, true reports |
| clusters, discovery | clusters, instances | register, delete, heartbeat, scan | a periodic scan against requests | a removed cluster stays removed |
| policies, hibernation schedules | one row per cluster | CRUD, toggle, override; a worker each minute | cached state, repeated minutes | one transition per edge of the schedule |
| lab, models | experiments, ML models | start, stop, promote | status transitions | only legal transitions |
| reports, metrics service, configuration, gateway, schemas, migrations, frontend, deployment | none of their own, or the last answer | | | not candidates, see section 7 |

`PROJECT.json` has the same list with the files and the status of each.

### Interactions

* `main.py` starts, watches and stops the four components. `AgentLifecycle` has
  the main thread and a coarse view of each component (its thread, its flag);
  `MetricsCollector`, `ActionActuator` and `WebSocketClient` have the inside of a
  component and a main thread reduced to the calls it makes on that component.
* The actuator executes an action as an operation on the cluster:
  `ActionActuator` treats an execution as something that succeeds or fails,
  `NodeOperations` is what happens in between.
* The decision engine is called once per proposal and its plan is given to the
  executor: `ActionExecutor` extends `DecisionEngine` and contains both calls.
* Requests to one service share its rows: `Organization`, `NodeTemplates`,
  `Sessions`, `Accounts` and `Integrations` run several requests at a time,
  statement by statement.
* The event processor, the risk tracker, the price collectors, the optimization
  modules and the scripts are meant to feed one another. As written they do not:
  the event handler calls `get_risk_tracker` with an argument too many, so that no
  interruption flags a pool; the collector stores a price under
  `spot_price:{region}:{az}:{type}`, which is no key the optimizer reads; nothing
  calls the scripts. So `MCWorkers` runs them side by side with one part moving
  and the others at rest (`part`), which loses no interleaving. The same holds of
  the services in `MCServices`: no two of them write the same column, and that a
  user's row may go at any time is part of each of them it matters to.

## 2 The modules

| module | models | state | actions |
|---|---|---|---|
| `MetricsDelivery` | what the collector promises: an in-order at-least-once channel | three counters | `Produce`, `StoreUnconfirmed`, `StoreConfirmed` |
| `MetricsCollector` | `collector.py` | buffer, lock, flag, place of each of two threads, the POST in flight, what the backend has | one per statement group of `run`, `flush_buffer` and `stop` |
| `MetricsCollectorProofs` | | | theorems |
| `ActionActuator` | the loop of `actuator.py` and the queue it polls | queue and stored results (external); place, batch and result of the thread | `Poll`, `Reject`, `Execute`, `ExecuteRaises`, `Report`, each with its failures; `Crash` |
| `NodeOperations` | the operations of `actuator.py` | fields of a node and a deployment, place of each pod; the copy in hand, the eviction list | `Read`, `Patch`, `Conflict`, `List`, `Evict`...; writes of others, scheduler |
| `ActionActuatorProofs`, `NodeOperationsProofs` | | | theorems |
| `AgentLifecycle` | `main.py`, `heartbeat.py` | phase and step of the main thread, thread and flag of each component, health, readiness | a call of the main thread is an entry of `StartPlan`, `MonitorPlan` or `StopPlan` |
| `WebSocketClient` | `websocket_client.py` | connection, buffer, attempts, place of the main coroutine and of each receive loop | what a coroutine does between two awaits |
| `WebSocketClientProofs` | | | theorems |
| `DecisionEngine` | `decision_engine.py` | none: operators | |
| `ActionExecutor` | `action_executor.py` | the plan, the results, instances and spot requests | `Decide`, `ExecuteLogged`, the three steps of a replacement with their failures, `Fulfil` |
| `ActionExecutorProofs` | | | theorems |
| `Organization` | `organization_service.py`, signup | users, invitations; the step and the loaded values of each worker | a query or a commit each |
| `NodeTemplates` | `template_service.py` | templates, row locks, uncommitted writes; the step and the loaded values of each worker | a statement or the lock of a row each |
| `NodeTemplatesProofs` | | | theorems |
| `NoneValue` | what is absent: no row, no request, no key | one constant that composed modules share | |
| `Sessions` | login, tokens, passwords, profile, toggle and removal of a user | rows, tokens, what each request has loaded | `LogIn`, `Refresh`; a load and a `Commit` or `Fail` per request |
| `Integrations` | the integrations in `settings_service.py` | the list objects that were made, each as the set of its ids, the one in the dictionary, place of each thread | a read or a write of the dictionary or of a list each |
| `Accounts` | `account_service.py`, `onboarding_service.py` | rows, onboarding state, roles in AWS; step of each request | a query, an AWS call or a commit each |
| `HealthService` | `health_service.py` | condition of each part, the answer being put together | one check each; changes of the parts |
| `Arrangement` | Python's sorts of distinct elements: the k-th of a finite set has k - 1 others before it | none: operators | |
| `AdminQueries` | `admin_service.py`, `audit_service.py` | rows of the lists, the walk or the report in progress | one query each; changes of others |
| `EventProcessor` | `event_processor.py` | keys, states, the activity list; place of each worker | one call of Redis each; `Break`, expiries |
| `RiskTracker` | `risk_tracker.py` | flags, metadata, counters; the call of each client | one call of Redis each; `BreakOff`, expiries |
| `PriceCollection` | `pricing_collector.py` | rows, session, caches; place of each thread and reader | fetch, store, commit per region; reads that refill |
| `SpotAdvisor` | `spot_advisor_scraper.py` | rows, cache; the scrape, what each reader has read | download, store, commit per operating system |
| `Recommendations` | optimization modules, `optimization.py` | the call and its result | one call with one input each |
| `AwsScripts` | `scripts/aws/` | instances, volumes, the group; the script of each shell | one AWS call each, and `CallFails` |
| `MCActionExecutor`, `MCOrganization`, `MCAwsScripts` | values of constants for TLC | | |
| `MCServices` | `Organization`, `Sessions`, `Integrations`, `Accounts`, `HealthService`, `AdminQueries` side by side | `part`: which one moves | a step of that one |
| `ServicesProofs` | | | theorems about each of the six and about `MCServices` |
| `MCWorkers` | `EventProcessor`, `RiskTracker`, `PriceCollection`, `SpotAdvisor`, `Recommendations`, `AwsScripts` side by side | `part` | a step of that one |
| `WorkersProofs` | | | theorems about each of the six and about `MCWorkers` |

The two composed modules extend their components, so that the definition a run
checks is the very definition a theorem is about.

The other modules need no MC module: their `.cfg` gives the constants their
values directly.

### How state and actions correspond to the code

**MetricsCollector.** Metrics are numbers in the order of their collection, since
no property looks at their content. `buffer`, `running` and `lock` are the
attributes of the object. `flush_buffer` holds the lock during the POST, so it is
two actions, `FlushBegin` and `FlushOk` or `FlushFailed`; a POST that failed may
still have been stored. The collection calls return what they found before an
error, so `Collect` yields any number of metrics. The main thread's `stop` clears
the flag (`Stop`) and flushes once (`Flush("main")`). `ImplementsDelivery` maps
`produced` to what has entered the buffer, `stored` to what the backend has and
`acked` to what has left the buffer.

**ActionActuator.** `batch` is the set of the actions of a poll that the loop has
not done with, and `Current(a)` holds of the oldest of them, the one in the loop's
hand. `result` is the local variable of that name. `SignedFields` is what
the signer computed the HMAC over, `VerifiedFields` what the code computes it
over. `redeliver` is chosen once: the repository does not say whether an action
that was handed out and not answered is handed out again.

**NodeOperations.** `copy` is the object that was read and changed, `changed` the
objects whose `resourceVersion` moved since. The API server merges a patch
(a key that is missing from the body stays) and answers a conflict to an old
version. Pods move between `pending`, `assigned` (chosen by the scheduler, not
yet on the node), `here` and `terminating`: an eviction or a deletion leaves the pod
on the node for its grace period, the list of a drain contains it, and an eviction
of it succeeds again. `Commands` are the actions the operations are called
with; a label is a key of its own (`LabelsAssumption`), not one of the other
fields.

**AgentLifecycle.** The main thread is straight-line code, so its calls are data
(`StartPlan`...) and its position a number; a signal handler can run at every
position. `flag[c]` is the `running` attribute of component c, set by the first
statement of its `run()` and cleared by its `stop()`. `step` 1 of `StopPlan` is
the `finally` of `Agent.run`.

**WebSocketClient.** `conn` is `self.websocket` with the states of the library
that the code can tell apart. `loop` is where `run()` and then `reconnect_loop`
is, `task[t]` where receive loop t is. `Cut` makes a `recv()` that a closing
connection will end `stale`.

**DecisionEngine, ActionExecutor.** Actions are named by their index in the
proposal. Filters become sets of indices and the sort becomes the order `Before`
(priority, then index, since Python's sort is stable). In `ActionExecutor` a call
to AWS that fails may have had its effect (`RequestFails`, `TerminateFails`), and
spot requests are fulfilled at any time or never.

**Organization, NodeTemplates.** A worker is a thread of the pool FastAPI runs
plain functions in. `req[w]` is what its session has loaded. PostgreSQL's default
isolation is READ COMMITTED, and SQLAlchemy writes at the commit only the columns
whose value differs from the loaded one: `Written` and `Column`. `NodeTemplates`
also has row locks, because `Query.update` writes before the commit; a deadlock
is broken by aborting one of the transactions.

**Sessions.** Time is counted in lives of an access token, a password is the
number of its hash. `tokens` holds the tokens that clients have and that have not
expired: the server keeps none. `request[r]` is what a request that writes has
loaded and is about to commit. That `get_current_user` accepts a token of either
kind and does not look at `is_active` is `KnownUser`.

**Integrations.** `_MOCK_INTEGRATIONS_DB` is a dictionary of the module, so all
requests of a process share it. `heap` has the list objects that were made, each
as the set of its ids (an id is appended once, and nobody asks for the order), and
`current` the one in the dictionary: `add_integration` appends to the object it
has fetched, `delete_integration` puts a new object in its place. `crossed` is
history: the ids that were added or deleted while a list that knew nothing of it
waited to be put in.

**Accounts.** AWS answers according to `works`, which changes. `linkedTogether`,
`validatedTogether` and `disturbed` are history and record overlaps, so that the
properties can say what goes wrong only with one.

**HealthService.** `condition` says of each part whether it is up, slow or down,
`price` how long each cached price still lives; both change between two checks.
A request samples one of the cached prices, whichever the scan finds first, and
reads its time to live later. `inspect()` waits one second for the workers: those
that are slow, or that answer over a slow Redis, are missing (`CeleryStatuses`).
`failed`, `broken` and `wavered` are history: what was down at some moment, down at
every moment, and slow or about to expire at some moment of the request.

**AdminQueries.** A reader asks for page after page until the total of the last
answer is reached; a report is a list of counts, each of its own moment. A query
returns the rows of a list that pass the filter (`Listed`), the newest first
(`Newer`), arranged by `Arrangement`.

**EventProcessor, RiskTracker.** A step is one call of Redis, which may raise, and
then nothing after it happens (`Break`, `BreakOff`). Keys expire at any time.
`handlings`, `ends`, `skipped`, `pushed`, `flags`, `published` and `broken` are
history.

**PriceCollection, SpotAdvisor.** A price stands for the time it was valid at and a
rating for the number of its publication, which makes older and newer visible.
The threads of all regions of a collection share one SQLAlchemy session: a commit
takes every pending row, and after a failed commit that nobody rolls back each
later use raises (`poisoned`). Nothing keeps a second collection of spot prices
from starting while one runs (`Collectors`): `overtaken` is history, the threads
that store an answer of AWS after another collection has got a newer one, and
`origin` says where the cached price of a pool is from. The scrape of ratings and
the collection of on-demand prices do not overlap with themselves here: both look
for a row before they insert one, and whether the table refuses the second is in
`app.database.models`, which is not in the repository.

**Recommendations.** These functions have no state; a behaviour is one call. Only
calls that can return are here: resizing, selection and prediction. Those that
filter on `Instance.deleted_at` raise (section 7). Of `bin_packer.py` only the table
of capacities is used, to judge the right-sizer by.
Percents and prices are integers of a unit small enough for every constant of the
source. A sort is an arrangement (`Arrangement`) of indices by key and then by
place, which is stable as Python's. `SortSeq` of the standard library would say the
same, but it is defined by a choice among permutations that the provers do not
look into; here the place of an element is a number that a proof can speak of.

**AwsScripts.** A script that dies leaves what it has done; the next run starts
from there. `number` tells the runs apart, `refused` is which types AWS had no
capacity for, `disturbed` whether another shell has changed the group since this
script read it, `overwritten` whether one has set its sizes since this script did.
Three things are simpler than in AWS: a volume is available as soon as
`detach_volume` was answered, without the time in which it is detaching;
`DeleteOnTermination` is cleared by volume, where the call names the device, so that
a volume that took the device of a detached one would be the one that is flagged;
and nobody sets that flag again on a volume that is attached anew.

## 3 The runs

A passing run explores all reachable states of its instance (distinct states below).

| run | instance | states | shows |
|---|---|---|---|
| `collector` | batch 2, at most 3 metrics a cycle and 5 in all | 3,942 | `DuplicatesWithinNextBatch`; `ImplementsDelivery` (refinement); `EventuallyDelivered`, `StopEndsLoop` |
| `actuator` | two good actions, one malformed, one unsigned; one fault | 143,600 | `SuccessIsEarned`, `ExecutionsPaid`, `ExecutedInOrder`; `EveryActionIsAnswered` |
| `node_operations` | one label, a daemon-set pod, a managed and a bare pod | 6.3 million | `DrainedIsEvicted`; the action properties `OthersKept`, `DrainedIsLeaving` |
| `lifecycle` | the four components | 35,520 | `SignalEndsAgent`, `DeadIsRestarted` |
| `websocket` | buffer 1, two attempts, three receive loops, two messages, two outages | 92,324 | `NothingForgotten`; `Reconnects`, `BufferDrains`, `StopEndsThread` |
| `executor` | two nodes, nine kinds of action, three policies, proposals of up to three | 64,480 | `BestOfResourceIsExecuted`, `TerminationIsJustified`, `CompletedIsReplaced`; `EveryActionIsReported` |
| `node_templates` | three templates, two workers | 556,916 | the action property `DefaultsAreExplained`; `RequestsEnd` |
| `services` | see below, with symmetry | 3.5 million | `OneUserPerEmail`, `AcceptedHasJoined`, `LastAdminFallsToStaleAdmin` (action property) of the organization; `SessionsEnd`, `AddressFindsOwner`; `AnswersAreKept` of integrations; `AccountsSettle`; `HealthIsTold`; `ListsAgree` |
| `workers` | see below, with symmetry | 2.3 million | `EventsAreHandled`; `RisksAreKnown`; `PricesAreExplained`; `SelectionIsRanked`, `TablesAgree` of the optimization modules; `PreservedSurvive`, `LaunchIsSound`, `ReportIsTrue` of the scripts |
| `actuator_signature` | two signed actions | violated | `SignedIsExecuted` |
| `lifecycle_ready` | the four components | violated | `HealthyBecomesReady` |
| `executor_first` | proposals of one action | violated | `ReplacementRunsFirst` |

The three violated runs are the findings of section 6. The type invariants are
not checked as properties of runs: where a module is proved about, its types are
proved (section 5).

Many properties have the form "the good state holds, unless ...". The exceptions
are what the code does; history variables keep them narrow, by saying which
requests overlapped or which call broke. Each property is violated by the mutation
of the model that `PROJECT.json` lists for it.

### Why the bounds are enough

* **Collector.** Five metrics with batches of two give three batches, the last
  one short; three in one cycle give a buffer that one flush cannot empty. The
  proofs of section 5 remove the bounds for the safety properties.
* **Actuator.** One fault is either a lost poll, a lost, stored or late report,
  or a crash. Two good actions are needed for order and for results that could
  be swapped; the malformed action raises in the middle of a batch and the
  unsigned one is rejected between two others. `ExecutionsPaid` counts, so a
  second fault only adds one to both sides.
* **Node operations.** The three pods are the three cases of the eviction loop:
  skipped, evicted, and refused without `force`. Each may be absent, on its way
  or on the node, and may leave and come back. Mirror pods are skipped by the
  same test as daemon-set pods; that set is empty in this run.
* **Lifecycle.** No bound: the model is finite as it is.
* **WebSocket.** Of three receive loops one is the first, which `run()` waits
  for, and two are left over by reconnections. Two outages and two attempts let
  the client give up and be started again; a buffer of one is full with the
  first message.
* **Executor.** The nine actions are on both sides of every threshold of the
  engine (savings 20 and 100, risk 70 and 80, node counts) and name no, the same
  or different resources; three of them are enough for a conflict whose winner
  loses another one. The proofs remove the bound on the proposal.
* **Templates.** Two requests at a time, any number one after the other. Two is
  where the races begin; what a third worker would add is a longer chain of the
  same waits. Three templates let a delete promote one while another request moves
  the default to the third.
* **Services.** Organization: three users, two emails, one invitation, two
  requests at a time (users are bounded by their keys). Sessions: an admin and a
  client, one address in two spellings, two password changes and three moments,
  which is a login, a refresh at the last moment and the end of what it gave.
  Integrations: three threads, because the loss of an answer needs a first list
  that is created twice or a deletion, an append and a second deletion; two adds
  and two deletes. Accounts: two requests, two rows of one AWS account, one change
  of the role in AWS. Health: two changes during a request, so that a part can
  fail and recover between two questions, and two cached prices, so that the
  sampled one can expire while the other stands. Lists: pages of one row and up to four
  rows, so that a walk has edges in its middle; three changes.
* **Workers.** Events: two workers, six events of every kind of handler, two
  of which differ in their state only; four deliveries, so that an event is
  delivered again after its key expired; a list cut to one entry is cut by the
  second push. Risk: two clients, two pools, each flagged twice. Prices: two
  regions with a pool each, two prices, two collections that may overlap and one
  expiry, a reader: the second collection makes the reader's answer old, or
  overtakes the first. Spot Advisor: two operating
  systems and two scrapes. Modules: utilizations on both sides of every
  threshold, four pools of two types, prices on both sides of the fallback and of
  the cut at one dollar, every set of flagged pools. Scripts: sixteen command lines, two shells, three runs.

### Deadlock

TLC's deadlock check stays on where the system never stops (collector, node
operations, templates). It is off where it does: a stopped actuator, agent or
client ends, an execution is done, and in `services` and `workers` the bounded
keys, prices, deliveries and runs are used up (that is the bound, not the code).

## 4 Fairness

| run | assumed | because |
|---|---|---|
| collector | the collector thread goes on; so does a flush of the main thread | threads are scheduled, the POST has a timeout of 30 s |
| actuator | its thread goes on | every request has a timeout |
| lifecycle | the main thread, the start of threads, the end of loops, POSTs and the bind of the server | joins and POSTs have timeouts; nothing is assumed of signals or of a WebSocket loop in `recv()` |
| websocket | each coroutine goes on; keepalive pings find a dead connection; a closing handshake ends; `disconnect()` ends | the event loop is fair, `ping_interval` and `ping_timeout` are set; an answer from the backend and its return are not assumed |
| executor | the execution goes on | AWS calls return or time out; fulfilment is not assumed |
| templates | strong fairness per worker | a waiting transaction gets a lock in its turn and a deadlock is detected |

`node_operations`, `services` and `workers` check safety only and assume no
fairness: the tasks, requests and scripts in them are not tried again by the
code when a call fails, so that what is lost stays lost until AWS or a user
repeats it.

Only `Reconnects`, `BufferDrains`, `EventuallyDelivered` and
`EveryActionIsAnswered` assume something of the environment in the property itself
(a backend that stays, a component that is not stopped), and say so.

## 5 The proofs

### MetricsCollectorProofs

For every `BatchSize` in `Nat \ {0}` and all bounds in `Nat`
(`BatchSizeAssumption`, `BoundsAssumption`):

* `TypeCorrect`: `TypeOK` is invariant.
* `NothingLost`, `StoredInOrder`: what was collected is stored, buffered or about
  to be buffered, and the backend stores a prefix of it.
* `DoubtIsOneBatch`: the safety invariant of the run.
* `HeadIsPosted`: the slice being posted is the head of the buffer until the POST
  ends.
* `CollectorImplementsDelivery`: `Spec => Delivery!Spec`.

None of the three invariants is inductive. When a POST succeeds the code drops
the first `batch_size` entries of the buffer, whatever they are; that these are
the entries that were posted needs the fact that no other thread has touched the
head meanwhile, which needs the lock. The inductive invariant `IInv` therefore
adds: whoever posts owns the lock; the slice in flight is the head of the buffer;
the buffer followed by the cycle holds the consecutive numbers up to `collected`;
and the backend has the numbers 1 to some k that is at least what has left the
buffer and at most one batch more. `AddToBuffer` appends at the tail and leaves
the head alone; `FlushFailed` keeps the buffer and may move k by one batch;
`FlushOk` moves both. There is one lemma per action and one for the steps that
leave the buffer alone. The refinement uses `IInv` to show that `StoredCount`,
defined by CHOOSE, is that k, and then maps each action to an action of
`MetricsDelivery` or to a stutter.

### ActionExecutorProofs

For proposals of any length, any policies and any failures, from
`ActionsAssumption` (savings are integers, a replacement names a node of the
cluster):

* `TypeCorrect`: `TypeOK` is invariant.
* `BestOfResourceIsApproved`: about the engine alone. Of the actions that name a
  resource at most one is approved, and it saves as much as every valid rival.
  `Beats` is total on two indices, so of two approved rivals one would have
  removed the other, however long the chain of conflicts.
* `OnlyTheBestIsExecuted`, `TerminationsAreJustified`, `CompletedMeansReplaced`:
  the invariants of the run.

`IInv` adds to the properties what connects them: the action in hand is a
replacement of the plan and the run no dry run (`InHand`), a request for its node
has been made when the termination is next, and reported and remaining actions
are approved ones, and each is reported once (`ReportedOnce`).

### ActionActuatorProofs

For any actions, any `redeliver` and any number of faults, from the assumptions of
the module:

* `TypeCorrect`: `TypeOK` is invariant.
* `SuccessesAreEarned`, `RepetitionsArePaid`, `QueueIsServedInOrder`: the safety
  invariants of the run.
* `SignatureOverOtherFieldsIsRejected`: if the signer computed the HMAC over other
  fields than the code verifies, no action is ever executed. It is the finding
  `actuator_signature` for every set of actions.

A stored success says nothing of the loop by itself. `IInv` follows a result from
the variable of the loop to a report that is late to the stored one, and asks at
each place that it was earned (`Earned`). For the count (`Paid`) it says of an
action that may still be executed that it owes no fault: each earlier execution
of it is matched by a lost report or a crash. `ResultsAreDone` says that an action
with a result anywhere was executed or has a signature that fails; `Ordered` that
whatever is older than an action of the batch is in the batch too or done, and
whatever is older than an executed action is done.

### NodeOperationsProofs

For any labels and any pods, managed, bare or of a daemon set, from
`PodsAssumption` and `LabelsAssumption`:

* `TypeCorrect`: `TypeOK` is invariant.
* `DrainsEvict`, `PatchesKeepOthers`, `DrainsLeaveNobodyBehind`: the properties of the run, the
  last two action properties.

`IInv` says that the copy in hand has the command's fields set and, as long as the
object has not moved since it was read, agrees with it in all others (`CopyOK`);
that a drain that lists pods has cordoned the node, and that a pod
that was listed has been evicted, is in the list still or is skipped
(`ListedAreSeen`); and that while the node stays cordoned no pod is chosen for it
(`NoNewPods`).

### WebSocketClientProofs

For every `MaxBuffer`, any finite set of receive loops and all bounds, from
`ConstantsAssumption`:

* `TypeCorrect`: `TypeOK` is invariant; the buffer stays within its size.
* `AnswersAreKept`: `NothingForgotten`.

The strengthening is `OneFlush`: outside a flush its list is empty. Without it a
connection that is made while an earlier flush has messages left would overwrite
them. `ProducedOK` (an answer for each message in hand still fits the bound) and
`AttemptsOK` are for the type invariant.

### NodeTemplatesProofs

For any number of requests in parallel and any finite set of templates
(`NoneAssumption`, `TemplatesAssumption`):

* `DefaultsAlwaysExplained`: the action property `DefaultsAreExplained`.

The property looks at the state just before a commit, and what a commit does was
decided by statements that ran long before. `TemplateInv` (`TemplateInvariance`)
carries it there: a row is written only under its lock (`WritesAreLocked`), nobody
else knows the row that a create is about to insert (`NewIsUnknown`), and
`Progress` says at each step of a request what its transaction has written by
now: the rows it saw cleared, its own row, at most one row promoted. From that,
only a commit changes what others see, it makes at most one template the default,
and each of the three things that can go wrong is a row that was not in `visible`
or a flag that had changed since it was `loaded`.

### ServicesProofs

**Organization**, for any users, emails, invitations and workers, from
`ConstantsAssumption`:

* `OrganizationTypes`: `TypeOK` is invariant.
* `EmailsAreUnique`, `InvitationsAgree`, and the action property
  `LastAdminNeedsStaleRequest`.

What a request has loaded may be stale by the time it commits. `MemberRequestsOK`
is what stays true of it: it never targets its author, and what it will write are
roles and levels. `TablesOK` adds to the types that rows exist only under keys
that were handed out, so an insert takes no other row's place.

**Sessions**, for any users, addresses, requests and lifetimes in `Nat`, if users
sign up with different addresses that are stored in lower case
(`SessionsAssumption`):

* `SessionsAreBounded`: `SessionsEnd`. The bound on a token depends on its kind:
  a refresh hands out no refresh token, so the end of a refresh token is counted
  from the last login, and only an access token may reach one life further
  (`TokenOK`).
* `AddressesFindOwners`: `AddressFindsOwner`. No two rows hold one address, which
  the unique column ensures at the commit whatever the check before has seen, and
  a row whose profile was not updated holds the address of the signup
  (`AddressesOK`).

**Integrations**, for any threads and any number of additions and deletions
(`NoListAssumption`): `IntegrationAnswersAreKept`. A deletion builds its list
first and puts it in place later, and meanwhile a thread may append to the list
it is going to replace. `KeptOK` follows both: of an integration that was
answered and not crossed, every list that waits knows what the list in the
dictionary knows, but for the one it deletes. That a list that waits is in
nobody else's hands (`ListsOK`) and an id is appended once (`AddsOK`) is what
keeps this true under an append.

**Accounts**, for any requests, AWS accounts and rows
(`NoOnboardingAssumption`): `AccountsAreSettled`. `LinksOK` counts the row of an
account with the link that has found none and will insert one; `ValidationsOK`
says that a validation that met no other has loaded the status that is stored,
which is the last answer; `OnboardingOK` that, undisturbed, at most one request
will write the step and it has loaded the one that is stored.

**HealthService**, for any sequence of failures, recoveries and requests:
`HealthIsAlwaysTold`, for any set of cached prices. Each check is made at a moment
of its own; `CheckOK` says of what was answered so far that it names only what was
down at some moment of the request, or is one of the three false alarms (an old
connection, workers that did not answer in time, the sampled price), and does not
deny what was down at every one, and `Asked` which checks have been made when the
answer is put together.

**AdminQueries**, for any finite set of accounts (`ClientAccountsAssumption`), any
size of a page (`PageSizeAssumption`) and any changes between the queries:
`ListsAlwaysAgree`, in two halves.

* `ReportsAgree`, the numbers of a report. `CountsHold`: while no row came since the
  report began, there is no more now than was counted, and while none went, no
  less. The next query counts what there is now, and it is compared only with
  counts that stand before it (`QueryOrder`, `InOrder`); that there are never more
  active users than users, nor instances without a cluster, is `CountsNow`.
* `WalkInvariance`, the walk through the pages. The *depth* of a row is the number
  of rows that a query returns before it; a page shows the rows of certain depths
  (`PageFacts`), since a row of an arrangement stands where its depth says
  (`NewestFacts`). A new row only makes depths grow and a deleted or deactivated
  one only makes them shrink (`RowComes`, `RowGoes`, `DepthGrows`, `DepthShrinks`),
  wherever the new row is put. `OnTheWay` follows from that through any changes:
  until a row goes, a row of the start that was not seen is no less deep than the
  next page begins; until one comes, a row that was seen is less deep. When the
  walk ends, the total covers the depths that are left, unless a row came after it
  was counted (`late`) or one went.

**MCServices**: `ServicesAreCorrect`. A step of the composition is a step of one
service and leaves the variables of the others alone, so that it implements the
specification of each (`ServiceParts`); the specification that TLC explores
therefore has all these properties for every value of the constants.

### WorkersProofs

**EventProcessor**, for any events, any finite set of workers, any length of the
list and any number of deliveries and expiries (`EventAssumption`):
`EventsHandledOncePerWorker`. That an event is handled at most once per worker
while its key stands is not inductive: a worker that has found no key and not
written it yet will begin a handling whatever the others do. `CountOK` counts
those workers with the handlings that have begun; a worker that begins moves from
one count to the other, and an expiry starts a new count, because without a key no
handling has begun since (`e \notin processed => handlings[e] = 0`). `Taken`
covers the written keys as well as the skipped events. `LogOK` adds to
`LogKeepsNewest` that the list is a prefix of what was pushed, entry by entry.

**RiskTracker**, for any pools and any finite set of clients
(`ClientsAssumption`): `FlaggedRisksAreKnown`. The calls at each step of
`flag_risky_pool` are counted with what is stored, so that a call that goes on
moves from one side of the equation to the other (`FlagsAreCounted`); `AnswersOK`
follows a reader: a pool that was flagged throughout is still to be asked for or
in the list.

**AwsScripts**, for any commands, volumes, shells and types (`IdsAssumption`,
`CommandsAssumption`): `VolumesSurvive`, `LaunchesAreSound`, `ReportsAreTrue`. What a
script relies on when it reports was read or done several calls earlier.
`KeepsOK` says which volumes `terminate_instance` has dealt with at each of its
places, `RefusalsOK` which types `launch_spot` has tried, `SizesOK` what
`update_asg` may still believe of the group if no other shell has changed it since
it was read, and which sizes are its own unless one has set them since; a flag that
was cleared is never set again, and two scripts never have the same number.

**SpotAdvisor and PriceCollection**, for any ratings, pools, regions and readers
(`PriceAssumption`): `PricesAlwaysExplained`. Of the advisor, publications count
up and nothing is newer than the one that is scraped (`AdvisorOrder`); what a
reader holds is no newer than the row, and what the scrape cached last is what it
will commit (`ReadersBehind`). Of the collection, the threads of all regions share
a session, so the rows of one may be committed by another: `ThreadsOK` speaks of
the rows that are committed (of a thread that is done) or pending (of one that
stores, in a session that is well). Collections overlap, so that what makes the
cache follow is `LeadersOK`: a thread that stores and that no other has overtaken
has a price as new as any row, committed or pending, and as any other thread's;
`CacheOK` says the same of a cached price that such a thread put there. Without the
first, a step of another collection would break the second. `OnDemandInv` follows
the second collection: a region waits, is pending or is counted, never two of
them.

**Recommendations**, for any utilizations in `Nat` and any counts of interruptions
(`UtilizationsAssumption`, `HistoriesAssumption`): `TablesAlwaysAgree`. The answer
is always what the tables give (`AnswersOfTables`); the rest compares the tables
entry by entry (`TabledCapacities`), with the percentages left as variables.

Also for any list of pools and any prices (`PoolListAssumption`,
`CachedAssumption`): `SelectionsAreRanked`. The lemmas about arrangements come
first: of two elements the earlier one has fewer before it (`FewerBefore`), so that
no two share a place, every place is taken (`EveryPlaceTaken`), and a sequence
whose elements stand at their places holds all of them, once, in order
(`PlacesInOrder`). What a ranking promises is then read off the key it arranges by:
of two pools the one that is cheaper and safer never scores worse, though prices
are cut at one dollar (`WorseScoresMore`), and flagged pools were taken out before.

**MCWorkers**: `WorkersAreCorrect`, in the same way as above (`WorkerParts`).

### What is only model-checked

* Liveness (it needs fairness and ENABLED, which the prover does not handle):
  `EventuallyDelivered`, `StopEndsLoop`, `EveryActionIsAnswered`,
  `SignalEndsAgent`, `DeadIsRestarted`, `Reconnects`, `BufferDrains`,
  `StopEndsThread`, `EveryActionIsReported`, `RequestsEnd`. `AgentLifecycle` has no
  other property, and so no proofs.

Nothing else: every invariant and every action property that a passing run checks,
and the refinement of `MetricsDelivery`, is a theorem. What bounds the runs
(`MaxListed`, `MaxRowChanges` and the like) is a constant without a bound there.

## 6 What the code turned out to do

Findings, each with a run that shows it:

* `verify_signature` computes the HMAC over the whole action, with the field
  `signature` in it. A signer that signs the action and attaches the signature is
  never accepted (`actuator_signature`). The passing run `actuator` assumes a
  signer that signs the very same dictionary, without which no action would ever
  be executed and its properties would hold for no interesting reason.
* A health server created after the components were marked healthy is never told,
  and `/readyz` stays at 503 (`lifecycle_ready`).
* The old node of a replacement is terminated when its successor has only been
  requested (`executor_first`).

Facts that the models contain and the properties allow for, in the agent:

* A `stop()` between `Thread.start()` and the first statement of `run()` is
  overwritten there (`collector.py:444`) and the collector goes on. `StopEndsLoop`
  begins after that statement, and `WebSocketClient` takes it
  (`websocket_client.py:346`) and the start of the thread as one step.
  `AgentLifecycle` has the same race for all components; there the process ends
  anyway.
* A malformed action blocks its batch at every poll: what is queued behind it is
  never answered (`EveryActionIsAnswered` leaves out just that). `drain_node` reports
  "drained successfully" while the evicted pods are in their grace period, so the
  report does not say that the node is empty (`DrainedIsLeaving`). `label_node` with `remove`
  removes nothing, because the patch is merged. 'healthy' may reach the backend
  after 'stopping'. `flush_buffer` sends one batch and a stopping collector loses
  the rest; the buffer has no bound.

In the backend:

* Two administrators can remove each other (`LastAdminFallsToStaleAdmin`); creates,
  updates and deletes can leave two default templates, one or none
  (`DefaultsAreExplained`). The approval flag of a plan is not looked at; actions
  that name no resource never conflict.
* A token of either kind opens every route and stays valid until its end through a
  change of the password. Nobody looks at `is_active`: a client that is disabled
  goes on, although `admin_routes.py:152` says that it cannot log in. A profile
  update stores an address as it is written while login looks for it in lower
  case, so a user may be out of reach of login (`AddressFindsOwner`).
* An integration that was answered can be lost, and a deleted one come back
  (`AnswersAreKept`).
* Two requests can link one AWS account twice. A verification sets the onboarding
  back from `completed` before it completes it again, and stays half-way if it
  breaks (`AccountsSettle`). The later of two validations decides the status only
  if its answer differs from what it loaded.
* `/health/system` may answer "healthy" of a system that was well at no moment, and
  it and the other checks give three kinds of false alarm (`AlarmHasACause`): readiness
  and the gateway may blame a database that is back, over a pooled connection of
  before; workers that are slow, or that answer over a slow Redis, miss the one
  second of `inspect()` and are reported as "No active Celery workers found"
  (`health_service.py:214`); and one sampled price that is about to expire speaks for
  all of them (`health_service.py:261`).
* A walk through pages may miss a row or show one twice, and end one row early
  (`ListsAgree`).
* An event is handled by each worker that tests the key before the first one
  writes it; one whose handler breaks is lost, because the key is written first. Every
  termination is alerted as unexpected: nothing writes the key
  `spot_interruption:{id}` that would explain it. An interruption flags no pool,
  since `get_risk_tracker` takes one argument and is given two.
* A cached price can be older than the stored one: a reader put back what it had
  read, a collection stored its answer after a newer one had overtaken it, or the
  newer price could not be cached. A cached one may never be stored (a commit that
  failed). After a failed commit the session is not rolled back and every later
  region fails (`PricesAreExplained`).
* Two types of the downsize table are missing in the capacity table beside it
  (`rightsizer.py:186`), so that an `r5.2xlarge` is resized as if it had 16 GB. The
  first counted interruption makes a risky type look safer than none does
  (`spot_optimizer.py:323`). When every pool is flagged the selection is empty,
  although the comment at `spot_optimizer.py:135` calls the on-demand entry the last
  resort; when there is one it stands at the end whatever its score, so that the
  list is not sorted through. `SelectionIsRanked` and `TablesAgree` leave these cases
  out.
* `launch_spot` gives up early when the last type is named twice; `update_asg` reports
  the old size when it has set it to 0, and the old desired capacity when the new
  bounds have moved it (`update_asg.py:150`), which `ReportIsTrue` leaves out;
  `terminate_instance` that fails half-way
  leaves the instance running with some of the flags cleared.

## 7 What is not modelled

* **Data that no property distinguishes**: contents of metrics, messages and
  logs, lengths of delays, names, resource figures, HTTP status codes.
* **Code that does not import.** The decision engine and the scrapers import
  `app.*`, which is not there, and the engine reads attributes that
  `ClusterPolicy` does not have (the class has one JSON column). They are modelled
  as they are written. `_log_action` builds a record with columns that `AuditLog`
  does not have; the exception is swallowed, so audit entries are left out.
  `create_audit_log` is called by nobody. SAFE_MODE and the rollback that the docs
  mention do not exist in the code.
* **Reads and permissions**: routes that only read and answer one row, and
  `RequireAccess` of the template routes. The role check of organization routes is
  modelled, because the races are about it; so is that of the super admin in
  `Sessions`.
* **Code that raises before it changes anything.** A model of it would be a model of
  code nobody has run: `hibernation_worker.py` and `hibernation_service.py` filter
  by columns that do not exist, and the task is not registered with Celery; the
  registration, connection, deletion and discovery of `cluster_service.py` and the
  scan of `discovery.py` compare with names the enums lack; `policy_service.py`
  writes missing columns; `lab_service.py` and `metrics_service.py` read missing
  ones; `report_worker.py` compares the status of a job with a string that is no
  member; `pricing_task` imports a missing class; `replay_event`,
  `cleanup_old_events` and `log_event` use names that are not defined;
  `set_default_account` filters by a missing column;
  `promote_model_to_production` filters by a string that is no member of the enum;
  `get_optional_user` swallows an exception and never returns a user.
  The functions that filter on `Instance.deleted_at`, which `models/instance.py` does
  not have, raise as well: `analyze_fragmentation` and with it
  `generate_migration_plan` (`bin_packer.py:73`), `detect_opportunities`
  (`spot_optimizer.py:189`) and `get_savings_projection` (`spot_optimizer.py:254`). The
  task `optimize_cluster` needs them and fails. Behind the filter,
  `detect_opportunities` would not skip spot nodes as its comment says
  (`spot_optimizer.py:195`), because it compares a member of an enum with a string.
  `PROJECT.json` says so per component.
* **Tables that nothing uses**: `agent_action`, whose endpoints are not in the
  repository.
* **No state of their own**: configuration, gateway, logging, schemas, migrations,
  seeds, frontend, deployment files.

## 8 Plan

Done, in the order of importance: the path of metrics, the path of actions, the
life of the agent, the decision and its execution, the services of the API with
races, the workers and the scripts; proofs of the safety properties of all of
them and of the two compositions.

Next, modules, when the code they are about runs:

1. `Hibernation`: `process_schedule` as a function of schedule, hour and cached
   state, over the minutes of a day around the edges of a schedule; the cached
   state is compared with byte strings.
2. `Clusters`: register, delete, heartbeat and scan, composed with `Accounts`.
3. `LabExperiments`: the status transitions of experiments and models.
4. Once the event handler reaches the risk tracker and the optimizer the prices: the
   parts of `MCWorkers` joined at the keys they then share.

Abstract specifications to state: an at-most-once or at-least-once action channel
that `ActionActuator` implements, according to `redeliver`; a bounded mailbox that
`WebSocketClient` implements; serial updates that `Organization` implements but
for the cases its property names.

Theorems: that `ActionActuator` implements the action channel and
`WebSocketClient` the bounded mailbox, from the invariants that are proved.
