# Models of the OpenStack code in this repository

The repository holds seven source trees: Heat 2014.2.1 (orchestration), Neutron
2014.2.2 (networking) with the "gcloud" extensions, the libraries oslo.messaging,
oslo.db and oslo.config, python-neutronclient, and a small test script. Heat and
Neutron are sets of processes - API servers, engines, plug-in servers, agents - that
share databases and call one another through RPC; inside a process the work is done by
green threads.

This directory specifies, in TLA+, the parts where the order of steps of several actors
decides whether the system is right. Each module is checked with TLC on small instances,
and the safety properties that matter most are proved with TLAPS for every value of the
constants.

    tlc -workers 2 -config StackLock_mutex.cfg MCStackLock.tla
    tlapm StackLockProofs.tla

Paths below are relative to the source tree of the part in question: `heat/...`,
`neutron/...`, `oslo/messaging/...`.

## 1. Inventory

| component | state | operations | what makes it hard | what makes it correct | model |
|---|---|---|---|---|---|
| Stack lock (`heat/engine/stack_lock.py`, `service.py`, `db/sqlalchemy/api.py`) | one row `stack_lock` per stack, the threads of each engine | acquire, try, steal, release; update, cancel, delete, stop_stack | engines die with the lock; several steal at once; a remote stop outlives its caller; killed threads | one thread at a time works on a stack; no lock without a thread that gives it back; every request ends | `StackLock` |
| Task scheduler (`heat/engine/scheduler.py`, `dependencies.py`) | the graph that is left, one runner per task, its time limit | start, step, cancel, errors with and without grace period, abort | a graph that changes while it is walked; errors while other tasks run | order of dependencies; no generator left open; exactly the dependents of a failure are dropped | `TaskGroup` |
| Stack life cycle (`heat/engine/stack.py`, `resource.py`, `update.py`) | stack and resource rows, the backup stack, physical resources | create, update with replacement, rollback, delete | failure or death half-way; what the next operation finds | once a row has had its id, a physical resource keeps a row that a later delete reaches; COMPLETE means what it says | `StackLife` |
| Engine service (`heat/engine/service.py`) | thread groups | RPC handlers | the handlers that take the lock | see the stack lock | in `StackLock` |
| Templates, parameters, properties | none of their own | parse, resolve, validate | data, not order | unit tests | no |
| Resource plug-ins (`heat/engine/resources`) | the id of a physical resource | one service call each, polled | lost answers | life cycle of a resource | what they share is in `StackLife` |
| Alarms and scaling (`watchrule.py`, `autoscaling.py`, `cooldown.py`) | last evaluation, last action | evaluate, adjust | check and act apart | no action within the cooldown | no |
| REST APIs | none | translate requests to RPC | - | - | no |
| RPC calls (`oslo/messaging/_drivers/amqpdriver.py`) | one shared connection, one queue per call | call, receive for others, reply | native threads; a reply in two messages; time-outs; redelivery | each call gets its own reply; nobody sleeps for ever | `ReplyWaiter` |
| Dispatch, executors, connection pool, duplicate cache (`oslo/messaging/_drivers/pool.py`, `amqp.py`) | free and used connections, 16 last message ids | get, put, check a duplicate | the pool at its limit | no slot is lost; a message runs once | no |
| L3 agent (`neutron/agent/l3_agent.py`) | a priority queue, a master per router, time stamps, the configured routers | notifications, workers, full synchronisation, restart | data that is older than it looks; updates handed from worker to worker | in the end each router is configured as the database says | `RouterQueue` |
| Link local addresses (`LinkLocalAllocator`) | a file | allocate, release | the file is rewritten in place | associations survive restarts | no |
| Address allocation (`neutron/db/db_base_plugin_v2.py`) | pools, availability ranges, allocations | generate, take a given one, rebuild, release, new pools | a request that finds no range has locked nothing | no address twice; a range holds no address in use; no refusal while one is free | `AddressPools` |
| gcloud NAT and QoS (`neutron/db/gcloud_nat_db.py`, `gcloud_router_qos_db.py`) | port mappings, the address of each router, limits | create, update, delete | check then insert; rows read before the transaction | a mapping is served by the gateway it names; one external port, one mapping | `GatewayNat` (NAT) |
| L3 gateways (`neutron/db/l3_db.py`) | routers, gateway ports | set, clear, give and remove an address, delete the router | two transactions; foreign keys that cascade and one that does not | a port keeps its address; a gateway has one | `GatewayNat` |
| L3 scheduling and HA (`l3_agent_scheduler.py`, `l3_hamode_db.py`) | bindings, virtual router ids | bind, rebind, allocate | two schedulers at once | at most `max_l3_agents_per_router`; ids unique | no |
| ML2 (`plugins/ml2/plugin.py`) | ports, bindings | create, update, bind outside the transaction | a port that changes while it is bound | a binding is of the port as it is | no |
| DHCP and Open vSwitch agents, DVR | their view of the networks | synchronise | as the L3 agent | as the L3 agent | no |
| oslo.db, oslo.config, python-neutronclient, pythonsqldb | - | - | libraries and clients without a protocol of their own | - | no |

How they meet: a REST request becomes an RPC (`ReplyWaiter`) to some Heat engine; the
engine takes the lock of the stack (`StackLock`) and starts a thread; the thread runs an
operation of the stack (`StackLife`) as a task group over its resources (`TaskGroup`); the
resources call Neutron and other services; the Neutron server allocates addresses and
gateways in its database (`AddressPools`, composed with the gateway requests in
`GatewayNat`) and notifies the agents (`RouterQueue`).

The hazards are listed, with their lines, in `PROJECT.json`.

## 2. The stack lock - `StackLock`, `StackSerial`

A stack is worked on by one engine at a time. The lock is a database row with the engine's
id. `StackLock` models one stack (rows, thread groups and handlers of different stacks
share nothing), any set of engines and any set of requests.

| model | code |
|---|---|
| `lock` | `stack_lock.engine_id`, or `NoEngine` when there is no row |
| `row` | the stack row: action and status as far as the handlers look at them |
| `up` | the engines that run |
| `pc[r]`, `seen`, `retry`, `home`, `op` | the handler of request r, with the local variables of `acquire` |
| `worker[r]` | the thread it started with `start_with_acquired_lock`; "exiting" is the time between the end of its function and its `link` callback |
| `waits`, `rstop` | `ThreadGroupManager.stop` and the RPC `stop_stack` to another engine |
| `Load`, `TryDelete`, `TryCancel`, `StopOwn`, `Join`, `DeletePing`, `ServeStop`, `AnswerStop`, `StopAnswered`, `StopTimeout`, `Reload` | `update_stack`, `stack_cancel_update`, `delete_stack`, `EngineListener` |
| `Acquire`, `Ping`, `Steal`, `Undo` | `StackLock.acquire` and `thread_lock` |
| `Begin`, `Finish`, `Release` | the thread, and the release it is linked to |
| `Crash` | the process of an engine ends. A stop of the service (`EngineService.stop`) that kills its threads leaves the lock in the same way |

A step ends at every call that can switch to another green thread: a transaction, an RPC,
a sleep. Two constants describe the surroundings. `LateReplies`: may a live engine
miss `engine_life_check_timeout`? If so it is taken for dead, and no lock can
exclude it. `Exclusive`: do callers send the requests for a stack to one engine one after
the other? If they do not, the first finding below applies.

`StackSerial` is what the lock promises: operations of a stack run one at a time, only the
one that runs writes the stack row, and a deleted row is never written again. The
refinement maps `busy` to the threads that are active.

Runs:

- `StackLock_mutex` - three engines, three requests of any kind, serial callers, no late
  replies. `MutualExclusion` (one active thread, and the row names its engine),
  `StealsFromDeadOnly`, and `SerialSpec`, the refinement. Three requests are the smallest
  number with two that steal from a dead third; three engines the smallest with an owner
  and two that steal. Engines and requests are symmetric; no liveness is
  checked here.
- `StackLock_live` - two engines, two requests on any of them at any time, late replies.
  `NoOrphanLock`: a lock that names a live engine has a thread that will give it back.
  `RequestsEnd`: no handler waits for ever. `LockGivenBack`. These hold even
  where mutual exclusion does not.
- `StackLock_same_engine` - finding: two updates on one engine. The second fails with
  ActionInProgress, inside the `try` of `thread_lock`; the bare `except` releases the lock
  of the thread that is working (`LockKeptWhileWorking`).
- `StackLock_stale_load` - finding: an update loads the stack, a delete on another engine
  runs to its end, the update takes the free lock and starts (`NoUpdateOfDeleted`). The
  delete handler loads the stack again before it takes the lock; the update handler does
  not.

One more defect has no run of its own: `stack_cancel_update` calls `try_acquire` to find
out who has the lock. If the update has ended meanwhile, this takes the lock, and nothing
ever gives it back. `TryCancel` models this ("leaked"), and `NoOrphanLock` fails as soon
as `Ops` contains "cancel"; the run and the theorem leave that operation out.

Fairness: weak, for each handler, listener and thread. eventlet runs every green
thread that can run, calls have time-outs, and a stack operation ends because of the
stack timeout.

## 3. The task group - `TaskGroup`, `OrderedRun`

`DependencyTaskGroup` runs a task per resource in the order of a dependency graph, as a
coroutine. `runner[k]` is the state of the `TaskRunner` of task k, `graph` and `require`
are what is left of the `Graph`, `at` and `todo` are the place in the coroutine, `limited`
the runners with a `TimedCancel`. A round starts everything that is ready (`Start`),
yields (`Suspend`, `Resume`) and steps all that runs (`StepEnds`, `StepExpires`,
`StepGoesOn`, `StepRaises`, `RoundEnds`). `RaiseInAggregate`, `RaiseAtOnce` and
`RaiseWithGrace` are the three ways to treat an error; `Abort` is a timeout or a kill.
Tasks are generators that end, raise or go on; the order of the loops is open, as they run
over dictionaries. Two details of the code are kept on purpose: deleting
a node from a `defaultdict` brings nodes back that were deleted before, and a task that
ended badly is taken out of the graph like one that ended well, which frees
its dependents. `OrderKept` shows that neither lets a dependent start.

`OrderedRun` is what Heat expects: order, at most one start per task, and a
task is dropped only on account of a failure - in an aggregating group of one it depends
on - or of an abort.

`TaskGroup_run` checks all 64 acyclic graphs of four tasks in all three modes. Four tasks
give every shape that matters for the propagation of a failure: chains of three edges,
diamonds, and parts that are independent. It checks `OrderKept`, `AggregateComplete`,
`NothingLeftOpen`, `NoStartAfterError`, `RunSpec` and `Terminates`.

Fairness: the group is resumed until it is over (`run_to_completion`), and what a task
polls for comes to an end (strong fairness of `StepEnds`, as a round may pass without it).

Not modelled: `PollingTaskGroup`, `wrappertask`, and the wall clock; a grace period may be
over at any time after it began.

## 4. The L3 agent - `RouterQueue`

The agent hears of changes by notifications and by full synchronisations. Both
put updates into a priority queue; worker threads take them. Only one worker, the master
of a router, processes it; a worker that comes second leaves its update with the
master. A time stamp per router, taken before its data was fetched, tells which updates
have become superfluous.

| model | code |
|---|---|
| `db`, `notes`, `Change`, `Deliver` | the server and its notifications (`router_deleted`, `routers_updated`, `router_added_to_agent`, `router_removed_from_agent`) |
| `queue`, `Take` | `RouterProcessingQueue` |
| `masters`, `own`, `stamp`, `Become`, `HandOver`, `Skip`, `Leave` | `ExclusiveRouterProcessor` |
| `Begin`, `Answer`, `FetchFails`, `Add`, `Apply`, `Remove`, `Raise` | `_process_router_update`, with `_process_routers` and `_router_removed` |
| `SyncStart`, `SyncAnswer`, `SyncEnd`, `SyncFails`, `AskSync` | `_sync_routers_task` and `fullsync` |
| `Restart` | the process dies and starts anew |
| `known`, `conf` | `router_info`, and the data a router was configured with by this process |

Assumptions: the clock is strictly increasing (`Tick` where the code takes a time);
notifications for one router arrive in order and are not lost; the server reads all
routers of a synchronisation in one transaction; `process_router` is one step. `conf` is
what this process has configured: namespaces a former process left behind are not looked
at. Left out: `_process_routers` returns early where the external bridge is missing
(`l3_agent.py:2021-2025`), and `fetched_and_processed` records the time all the same. `MaxTime` bounds the changes, failures and restarts, not the work of the agent: what
has been started may always be finished.

Runs:

- `RouterQueue_current` - one router, two workers, restarts, changes up to time 4.
  `StampCovers`, the invariant that the comment on `fetched_and_processed` claims:
  whatever changed up to the recorded time is configured, or an update is still to come
  that will be found fresh. `ListedCurrent`: when nothing is under way, a listed router is
  configured as the database says. `Settles`: this is reached for good. Routers do
  not share anything the property depends on but the queue and the workers, and two
  workers suffice for one to hold the router while the other hands over.
- `RouterQueue_faults` - two routers, all faults: `Exclusive`, `NoDeadMaster`.
- `RouterQueue_zombie` - finding: removing a router records no time. Data that a
  synchronisation fetched before the deletion and that is processed after it
  configures the router again, for good (`GoneRemoved`).
- `RouterQueue_fetch` - finding: a fetch fails while a synchronisation is under way. The
  worker sets `fullsync`, the end of the synchronisation clears it, and the change
  is lost (`ListedCurrent`).

One more loss has no run: when the processing of an update raises, the updates that other
workers left with that master go with it (`Raise`), and no synchronisation is asked for;
`ListedCurrent` fails with `Faults = {"process"}`.

Fairness: weak, for each worker, the taking of updates, deliveries and the periodic task.
Nothing is assumed of changes or faults.

## 5. RPC replies - `ReplyWaiter`

All threads of a process that wait for replies share one connection. The one that has
`conn_lock` reads for all and puts foreign messages into the queues of the others; when
it leaves, it wakes them up so that one of them takes over. A reply is two
messages: the reply, and an ending that lets the call return.

`at[c]` is the place of the thread of call c in `_send` and `ReplyWaiter.wait`; `queue`,
`waiters` are `ReplyWaiters`; `incoming` is `ReplyWaiter.incoming`; `wire` is the reply
queue in the broker; `served` is the server of a call (`AMQPIncomingMessage.reply`). A step
is one operation on the lock, a queue or the connection, as the threads may be native.

`ReplyWaiter_calls`: three calls, one with a timeout, one whose server never answers, and
one message that may come twice. Three is the smallest number with one thread
that polls, one that sleeps and one that comes in between. `NobodyForgotten` (no lost
wake-up), `ReturnsItsReply`, `EndingKept`, and `Ends`: a call whose server has replied in
full, or that has a timeout, ends. Weak fairness for each calling thread; nothing is
assumed of the servers. Deadlock is not checked: a call without a timeout and without an
answer waits for ever, in the code as well.

Not modelled: the clock. A timeout may fire at any time, which covers one that
fires early but not that the code starts the time anew with every message and every
wake-up. Also left out are the loss of the reply queue when the broker restarts (it is
declared `auto_delete`) and `msg_id_cache`: `ReplyWaiter` looks duplicates up in it and
never adds to it, so that a message that comes twice is processed twice, as in the model.

## 6. The life of a stack - `StackLife`

One stack, its backup stack and the physical resources behind them, from the first create
to the delete. One operation runs at a time (that is what `StackLock` gives), as a task
group: in an update there is a task for each resource of the new stack and one for each of
the existing stack. `TaskGroup` has the coroutine; here a group is reduced to its
order, so that what the tasks do can be looked at. A step is what a task does between two
yields.

| model | code |
|---|---|
| `state`, `t`, `pt` | the stack row and the stored templates of the stack and of the backup stack |
| `res`, `prev` | their `Resource` objects: state, `resource_id`, definition, whether there is a row, and (`real`) the definition the physical resource was last brought to |
| `cloud`, `made` | the physical resources that exist, and the ids given out |
| `unheard`, `dropped` | history: what no row can know, see `NoneLost` below |
| `phase`, `want`, `orig`, `undo` | the operation: which group runs, `newstack`, `oldstack`, rollback or not |
| `new`, `old` | the task of each name for the new and for the existing stack |
| `rid`, `pid` | the `resource_id`s in memory during a delete |
| `Create`, `HandleCreate`, `ResourceIdSet`, `CheckCreate` | `Resource.create`: the row, the service's call in `action_handler_task`, the commit of its answer in `resource_id_set`, the polling |
| `UpToDate`, `RefuseUpdate`, `UpdateInPlace`, `HandleUpdate` | `Resource.update` |
| `Exchange`, `ExchangeDies`, `ClearFirst`, `Replace` | `StackUpdate._create_resource`, `_exchange_stacks`, `resource_exchange_stacks` |
| `ClearOld`, `KeepOld`, `RemoveOld` | `_process_existing_resource_update`, `_remove_old_resource`, `Resource.destroy` |
| `Update`, `Delete`, the ends of the phases | `Stack.update_task`, `Stack.delete`, `_backup_stack` |
| `FailNew`, `FailOld`, `CutNew`, `CutOld`, `Timeout`, `CancelUpdate`, `Kill`, `Crash` | exceptions of plug-ins, the grace period, the stack timeout, the cancel message, the end of the thread and of the engine |
| `CrashReplacing`, `CrashExchanging` | the end of the engine between two commits of a replacement or an exchange |

While a task is "called" the service has answered, or is about to, and no row has the id
(`InAir`). The plug-in does not yield to the group there, so no other task moves and no
timeout or cancellation is delivered (`Alone`, `AtYield`). What can happen there is an
exception (`FailNew`: the answer is lost, or the plug-in raises on it), and the end of
the thread or of the engine (`Kill`, `Crash`): a service call switches green threads, and
a delete may kill this one in it.

Run `StackLife_ops`: a create and three updates or deletes of two resources, b depending
on a, between two templates of which one changes a and drops b, with two faults. Two
names are the fewest with a dependency, and the second template takes one resource out and
replaces the other; three operations are enough for a failed update, the one that finds
what it left, and a delete; two faults let an operation fail and its rollback as well. The instance has 528 766
distinct states.

- `NoneLost`: whatever fails, is killed or crashes, every physical resource has a row of
  the stack or its backup, under a name the template has, so that a later delete
  finds it. Two kinds are lost, and the property says which: those made for a call
  that failed, or whose thread or engine ended, before `resource_id_set` had committed
  (`unheard`), and those a delete had exchanged in memory (`dropped`). Nothing else ever is.
- `NoneShared`: no two rows stand for one physical resource.
- `UpdateAligns`, `RollbackAligns`: an update or rollback that ends COMPLETE leaves
  each resource as its template says, if the update found the stack in order.
- `NobodyWorks`: a stack without a thread is IN_PROGRESS only if its operation was cut off,
  or if a delete or a rollback met a name that only the backup stack has.
- `Ends`: no task waits for ever for another. Fairness is weak, for the work as a whole:
  the thread of the operation goes on while its engine does; faults and requests have none.

What the exceptions in these properties stand for are defects of the code, each seen in a
counterexample when its exception is taken out:

- The rollback of a failed create calls `self.delete(action=ROLLBACK)`
  (`heat/engine/stack.py:567`), but `report_task_status` (`heat/engine/util.py:11`) wraps
  `delete` in a function with a required `task_id`: a TypeError, and nothing is rolled back.
- A physical resource exists from the call of the service (`resource.py:476`) and its id is
  stored by `resource_id_set` (`resource.py:862-869`). If the thread is killed, the engine
  dies or the answer is lost in between, no row has the id and no delete will find the
  resource (`unheard`). The servers set the id in a `finally`, to "Avoid a race condition
  where the thread could be cancelled before the ID is stored"
  (`resources/instance.py:629-632`, likewise `server.py:548-551`), but there is none to set
  when the call itself is interrupted.
- A rollback that meets a COMPLETE resource in the backup stack exchanges it for the
  stack's own. If an engine died in the middle of a replacement the stack may have none;
  when the next update fails or is cancelled before it has cleaned up the backup, its
  rollback raises KeyError (`update.py:107`), or AttributeError where the object has no row
  (`db/sqlalchemy/api.py:232-242`). `update_task` does not catch either: the stack stays
  ROLLBACK, IN_PROGRESS (`ExchangeDies`, `UpdateDies`).
- A delete looks the names of the backup stack up in the stack (`stack.py:877`). When a
  failed update has left one there that the stack does not have, this raises KeyError after
  the stack went to DELETE, IN_PROGRESS, and it stays there (`DeleteDies`, `Unmatched`).
- A delete exchanges ids between stack and backup in memory (`stack.py:893-899`). If the
  deletion of the backup then fails, the rows no longer have the id that was
  exchanged away (`dropped`).
- A resource that is INIT or IN_PROGRESS because its engine died, and whose definition has
  not changed, passes for up to date (`resource.py:630-650`): UPDATE, COMPLETE with a
  resource that was never made (`found = "odd"`).
- A FAILED resource that is replaced goes to the backup stack as UPDATE, COMPLETE
  (`update.py:118`), and a later update may exchange it back as valid (`found # "whole"`).

Abstractions: between the row of a resource and the call of the service (`Create`,
`HandleCreate`) the model lets other tasks run, which the code does not; the steps of a
replacement or an exchange are one, except to the death of the engine, as the task does not
yield between them; of errors of two kinds in one group either may be the one that is
raised (`UpdateFails`, `UpdateDies`); a physical deletion is seen when it completes, with its
row, so that neither the lost answer of a deletion nor a crash before the row goes is
modelled (the next delete would find nothing at the service, which plug-ins ignore);
that `resource_id_set` and `_store_or_update` only log an error of the database is left out,
and so are the retries of a create (`resource.py:549-578`) and the ways in which
`_needs_update` decides other than by the definition (`resource.py:635-642`);
dependencies are the same in every template; whether a reference resolves to something
new is open (`MayDiffer`). Not modelled: suspend, resume, check, adopt, snapshot, abandon,
deletion policies, credentials.

## 7. Addresses and gateways - `AddressPools`, `GatewayNat`

`AddressPools` is the address allocation of one IPv4 subnet: the tables `pools`, `ranges`
and `used`, and the requests under way. The first free address is taken from an
availability range; when there is none left, the ranges are made anew from the pools and
the allocations.

`GatewayNat` extends it with what the routers of that (external) subnet do: the
port mappings of the gcloud extension, the table `plus` (GcloudNatPlus) that has one
address per router, and the requests that set and clear a gateway, give its port an address
and take it away. As `neutron.conf` has `allow_gcloud_nat = True`, a gateway port is made
without an address, and the first mapping brings one. All requests share the
pool, so each of the two parts is the environment of the other.

| model | code |
|---|---|
| `TakeFirst`, `FindNone`, `ReadAllocations`, `RebuildTake`, `Exhausted` | `_generate_ip`, `_try_generate_ip`, `_rebuild_availability_ranges` |
| `SpecificTake`, `SpecificLook`, `SpecificStore` | `_check_unique_ip`, `_allocate_specific_ip`, `_store_ip_allocation` |
| `CreatePort...`, `DeletePort`, `UpdatePools` | `create_port`, `delete_port`, `_update_subnet_allocation_pools` |
| `NatCount`, `NatLook`, `NatPlan`, `NatReuse`, `NatAdopt`, `NatTake` | `create_gcloud_nat`, one step per read that is used later |
| `UpdateNat`, `DeleteNat` | `update_gcloud_nat`, `delete_gcloud_nat` |
| `GwIpLook`, `GwIpTake`, `RemoveLook`, `RemoveGatewayIp` | `create_router_gatewayip`, `remove_router_gatewayip` |
| `SetGateway`, `ClearGateway`, `ClearDeletes`, `DeleteRouter` | `_create_router_gw_port`, `_delete_current_gw_port`, `delete_router` |
| `Fail`, `Refuse` | an exception or a lost deadlock; IpAddressGenerationFailure |

The database is taken to be read committed with row locks and without gap locks. A query
`with_lockmode('update')` that returns rows holds them until the commit, so a
request that finds a range is one step. A query that returns no row has locked nothing: a
step of its own, after which others may commit. Primary keys and foreign keys are
guards; a violation rolls the request back.

Run `GatewayNat_ops`: two requests at a time, three gateway requests in all
(`MaxOps`), any number of requests on ports and on the subnet; one router, two gateway
ports, one port of an instance, two addresses, two pool sets, two mappings. Two addresses
let the port of the instance and the gateway compete and use the pool up; two
gateway ports let the gateway change; two mappings collide. Rows, numbers and requests are
symmetric.

- `HonestRefusal`: a request is told that there is no address only when
  all are in use. `RangesFree`: ranges lie in the pools, do not overlap and hold no address
  in use - until a request stores what it worked out from an old view (`raced`).
- `NatServed`: the external address of a mapping belongs to the gateway port it was made
  for and is the one in `plus`. `NoCollision`: two mappings do not share an external port
  or a target. `OneAddress`: a gateway port has at most one address. `PortKept`: a port
  keeps its address as long as it exists.

History variables mark what the code itself spoils; every other way to break the
properties is excluded. They stand for these defects:

- Clearing a gateway deletes its port, and by foreign keys the address and the mappings,
  but the row of `plus` refers to the router only and stays (`tainted`). The next mapping
  uses that address without allocating it - while `neutron.conf:100-102` says "Just
  then you create a gcloud_nat of the router, the gateway port will be allocated a ip" - and
  `remove_router_gatewayip`, which deletes an allocation by its address, takes it from
  whoever has it by then (`robbed`). Without a gateway `remove_router_gatewayip` raises
  TypeError, so the row cannot be removed either.
- A mapping whose router was read before `remove_router_gatewayip` commits is stored with
  an address that was given back.
- Two mappings counted before either is stored may have the same external port
  or target, and `update_gcloud_nat` does not compare at all (`clean`).
- A first mapping and a `create_router_gatewayip` that both saw no address give the gateway
  port two (`doubled`); the agents ignore all but the first (`l3_db.py:1337`).
- Two requests that rebuild the ranges from views of different age, or one that
  stores a given address it found in no range, leave ranges that overlap or hold addresses
  in use (`raced`); allocations from them fail on the primary key.

Abstractions: `SetGateway` is one step; a deleted router comes back under its name; the QoS
rows, floating addresses, interfaces, MAC addresses and `update_port` are left out, and so is
the deletion of an instance's port with its mappings. The new pools of a subnet are
stored, and the ranges rebuilt from the allocations, in one step (`UpdatePools`,
`db_base_plugin_v2.py:1373-1387`), and so are the two counts of `NatCount`
(`gcloud_nat_db.py:82`, `85`). A crash between the two transactions
of `ClearGateway` leaves the port (`Fail`), as in the code.

## 8. What is proved

All proofs are in modules of their own that extend the model. The constants are
arbitrary - any number of engines, tasks, routers, calls - and the only assumptions are the
named `ASSUME`s of the models, and those in the table.

| theorem | statement | assumed | argument |
|---|---|---|---|
| `StackLockProofs!TypeCorrect` | types | - | inductive |
| `LockNeverOrphaned` | `NoOrphanLock` | no "cancel" | with `OnLiveEngine`: handlers and threads under way are on live engines, and a handler that has started a thread has ended. Without it a handler could start a second thread, or one on a dead engine |
| `LockExcludes` | `MutualExclusion` | `Exclusive`, no late replies | `SerialInv`: a handler under way is alone at its engine (`Alone`), and who is about to steal has seen an owner that is dead and stays so (`SeenDead`) |
| `NeverStolenAlive` | `StealsFromDeadOnly` | no late replies | from `SeenDead` |
| `LockSerialises` | `SerialSpec` | as `LockExcludes` | each step maps to a step of `StackSerial` or a stutter |
| `TaskGroupProofs!TypeCorrect` | types | - | inductive |
| `OrderAlwaysKept`, `NothingEverLeftOpen`, `NothingStartsAfterError` | the properties of the same sense | - | one invariant `IInv`: a requirement that a waiting task no longer has in `require` has finished well (`WaitingExact`); after an error no task waits (`NoneWait`), or, in an aggregating group, none below the failed one (`NoneWaitBelow`); and only an error leaves a task raised, closed or limited (`ErrorTraces`) |
| `AggregateRunsTheRest` | `AggregateComplete` | - | adds `CancelExact`: in an aggregating group a cancelled task depends on a failed one |
| `GroupRunsInOrder` | `RunSpec` | - | each step maps to one of `OrderedRun` or a stutter |
| `NoRoundInVain` | a group that yields has a task of its graph started, which the next round steps | every graph is `Sorted` | `Pending`: what a task still requires is in the graph, only a generator that is over leaves it, and nobody waits for a cancelled task. Of the tasks that are left the one of least rank requires none of the others |
| `RouterQueueProofs!TypeCorrect`, `OneWorker`, `MastersWork` | types, `Exclusive`, `NoDeadMaster` | - | `Struct`; with all faults |
| `StampAlwaysCovers`, `NoChangeLost` | `StampCovers`, `ListedCurrent` | no fault but restarts | `IInv`, below |
| `ReplyWaiterProofs!TypeCorrect` | types | - | inductive |
| `NobodyIsForgotten` | `NobodyForgotten` | - | `Struct`: the lock is held exactly by the thread between taking and releasing it (`Locked`), a call listens exactly while it is under way (`Registered`), and its outcome is open exactly until it leaves `wait` (`Pending`) |
| `EachGetsItsReply` | `ReturnsItsReply` | - | unless a call has taken its reply already, its queue, then `incoming`, then `wire`, read one after the other, hold the reply before any ending (`InOrder`); and a thread that polls has only wake-ups in its queue (`Keyed`) |
| `EndingIsKept` | `EndingKept` | - | with `Struct`: a call that waits is registered, so `Put` does not drop |
| `StackLifeProofs!TypeCorrect` | types | - | inductive, one lemma per action |
| `NoneIsLost` | `NoneLost` | - | `IInv`: what has a row has a name in its template (`RowsOK`); a task that is creating, or has called the service, has a row without an id (`NewOK`); besides what is recorded, dropped or unheard, nothing exists but the answer in the air; during a delete the ids held in memory, not the rows, account for what exists (`Kept`, `HeldOK`) |
| `StackAlignProofs!NoneIsShared` | `NoneShared` | - | `SInv`: an id that is made is above all there are, in rows or in memory (`IdsOK`), and the one that a service has answered and no row has yet belongs to one task alone (`AirOK`); while a delete runs the ids it holds in memory are distinct, and each row has the one of its own or, after the exchange, that of its counterpart (`SharedOK`) |
| `UpdatesAlign`, `RollbacksAlign` | `UpdateAligns`, `RollbackAligns` | - | `AInv`, below |
| `NoneIsStuck` | while an operation is under way its tasks are over or it has failed, or a task can take a step | `Requires` is `Sorted` | `QInv`: a task that waits will find what it needs, a row in the backup stack or nothing (`QueueOK`), and only a failure cancels (`CutsFail`). Among the tasks that build, the one of least rank can start, among those that remove the one of greatest |
| `InProgressIsExplained` | `NobodyWorks` | - | with `AInv` and `QInv`: only a rollback meets a row that only the backup stack has (`DiedOK`) |
| `GatewayNatProofs!TypeCorrect` | types | - | `Shape`: an allocation under way is for a port, or for the gateway port its request has read (`OwnerInv`); the port a request has read is or was its router's (`ReqInv`) |
| `RangesSound` | `RangesFree` | - | `RangeInv`: as long as nobody committed since it looked, a request that found no range is right, and what it read of the allocations includes all in use (`ViewOK`) |
| `RefusalsHonest` | `HonestRefusal` | - | `LockInv`: what a request that rebuilds the ranges has locked stays in use. Around an address in use by nobody there is a nearest one in use, or the end of the pool, on each side; the range between them is among the ones rebuilt (`AvailableWhole`) |
| `MappingsServed` | `NatServed` | - | `Served`: what a request has read still stands unless it was told otherwise (`ViewOf`); the address of a router belongs to its gateway port (`PlusOK`) and is the one of its mappings (`NatOK`) |
| `AddressesKept` | `PortKept` | - | with `Served`: what is removed on a valid view is the gateway's own |
| `SingleAddress` | `OneAddress` | - | a request that saw no address, and was told of no other, is right (`FreeOf`) |
| `MappingsDistinct` | `NoCollision` | - | a request that was told of no other mapping counted right (`CountOf`) |
| `AloneIsExact` | `raced` stays FALSE and `doubled` empty, so `RangesFree` and `OneAddress` hold without exception | there is at most one request at a time | `Current`: nothing was committed since the request read |

`ListedCurrent` is not inductive, nor is `StampCovers`. The invariant behind both has
five parts. `Struct`: a worker that is busy is the master of its router, and every queue
has a master. `Times`: no time in the system is later than `now`, and an update whose time
is not before the last change of its router carries the router as it is in the database.
`NotesInv`: notifications are no younger than the last change, and the youngest for a
listed router asks for an update. `Behind`: a deletion that was notified before a router
was listed again, but delivered after, has an update behind it that will undo
it. `Nothing`: for every listed router, the last change is on its way, or will be
synchronised, or has been recorded (`Heard`); and what has been recorded is in the
configuration, or on its way again (`Recorded`).
The zombie of section 4 shows why the theorem speaks of listed routers only.

An update aligns a stack because every task keeps its own resource right, not because of
the order they run in, so `AInv` speaks of one name at a time (`NameOK`), and says what
holds at each place of its tasks. `TowardsOK`: while an update that can be trusted runs,
what has not been visited is as its definition says or FAILED, what the backup stack offers
in exchange is what is wanted, and what is done is `Is(res[n], want[n])`. `UndoOK` says the
same of the way back, before anyone knows that it will be taken: what is cut off at any
moment is FAILED or as it was, and what the backup stack offers once a replacement was
made is the original. A rollback turns `UndoOK` into its own `TowardsOK`; the
two differ in what they assume of the stack that was found (`odd`, `whole`), and that is
the difference between `UpdateAligns` and `RollbackAligns`. `Settled` carries the result
over to the idle stack. The invariants of this module and of `StackLifeProofs` hold, by TLC, on the instance of
`StackLife_ops` too.

`NoRoundInVain` and `NoneIsStuck` are the safety half of `Terminates` and `Ends`: there is
always a step to take. They assume that the dependencies can be sorted, which the code
sees to: `Dependencies.toposort` (`heat/engine/dependencies.py:144-158`) raises
CircularDependencyException where they cannot, and a group is made by iterating over it
(`scheduler.py:345`). ENABLED is out of reach of the prover, so the guards of the tasks are
written out in `NewMoves` and `OldMoves`; on the instance of `StackLife_ops` TLC found them
equal to ENABLED of `NewTask` and `OldTask` in every state.

The properties of `GatewayNat` are about rows; none is inductive, as a request that
read one row and is about to write another may break it. Each layer of the invariant says
what such a request still knows, and which message of the history variables
(`cut`, `dup`, `crossed`) tells that it no longer does. The lemmas about the steps of an
allocation, in `AddressPoolsProofs`, know nothing of gateways: cutting an address out of a
sound set of ranges leaves a sound one (`CutOutSound`), and the ranges made from pools that
share no address are sound (`AvailableSound`).

Induction over data cannot be used directly, as the theorems of the library that state it
take an operator. What the proofs need of it - that a set of natural numbers that is not
empty has a least element, and a bounded one a greatest - follows from
`NatLessThanWellFounded`, which takes none (`LeastElement`). The nearest address in use
and the tasks of least and greatest rank above are found that way.

Only model-checked: `RequestsEnd`, `LockGivenBack`, `Terminates`, `Settles`, `Ends` of
`ReplyWaiter` and of `StackLife`, because TLAPS does not handle liveness under fairness
here. Every invariant, action property and refinement of the passing runs is a theorem.
The four findings with runs of their own are counterexamples of TLC.

## 9. Not modelled, and what comes next

What could follow, in this order:

1. The operations of a stack that are left out (suspend, resume, check).
2. Binding of routers to agents and allocation of virtual router ids (`l3_agent_scheduler`,
   `l3_hamode_db`): the agents of a router are counted before it is bound to another one.
3. The connection pool and the duplicate cache of a listener, which holds 16 ids.
4. The file of link local addresses, which is truncated and then rewritten.
5. The retry loop of port binding in ML2.
6. Alarms and the cooldown of scaling groups.

The rest is left out for good: templates, parameters and properties are data without an
order of steps; REST APIs and clients translate and keep nothing; plug-ins of vendors
drive systems that are not in the repository; DHCP and Open vSwitch agents synchronise as
the L3 agent does; distributed and highly available routers are, on the agent's
side, part of `process_router`, and the elections of the latter are those of keepalived;
oslo.db and oslo.config are libraries without a protocol.
