# TLA+ verification of OpenXLA's runtime coordination

This directory holds TLA+ models of the parts of OpenXLA in which processes and
threads coordinate, the TLC configurations that check them on small instances, and
TLAPS proofs of their central invariants. Paths below are relative to the
repository's `src/`; `coordination/` abbreviates
`xla/tsl/distributed_runtime/coordination/`.

## 1. Inventory

OpenXLA is a compiler with a runtime. Most of its lines are sequential
transformations of HLO graphs. The parts whose correctness depends on *order* are in
the runtime:

| component | state | operations | interacts with | hard because |
|---|---|---|---|---|
| **Key-value store** `coordination/key_value_store.*` | map of keys, map of waiting callbacks, one mutex | Put, IncrementBy, Get, AddCallbackForKey, Delete, DeletePrefix, destructor | called by the service's key-value handlers | gets wait for keys that others put or delete; the destructor runs with gets waiting |
| **Coordination service** `coordination/coordination_service.*` | per task: state, status, incarnation, ongoing barriers; per barrier id: counter, result, participants, callbacks; pollers; liveness queries; unsynced tasks | RegisterTask, Heartbeat, ReportTaskError, PollForError, Barrier, CancelBarrier, GetAliveTasks, ShutdownTask, ResetTask, Stop; a check thread | RPCs of the agents; owns a key-value store | tasks crash, restart, retry and time out at any moment; a failing task fails barriers, a failing barrier fails tasks |
| **Coordination agent** `coordination/coordination_service_agent.*` | connection state, barrier counters, heartbeat and polling threads | Initialize, Connect, WaitAtBarrier, CancelBarrier, ReportError, Shutdown, Reset | RPCs to the service, a cancellation manager | retries, lost and late replies, threads racing Shutdown |
| **Preemption sync manager** `xla/tsl/distributed_runtime/preemption/` | call counter, sync point, a protocol thread | ReachedSyncPoint, notice, protocol, Shutdown | agent: keys and a barrier | agreement on a step while the counters move |
| **Rendezvous** `xla/service/rendezvous.*` | map of rounds, ack and rel counters, a flag | Join, leader's part, wait, timeouts | threads of a collective | rounds with the same key overlap |
| **Execution graph** `xla/runtime/execution_graph.*` | edges, priorities | Create with its transitive reduction | thunk executor | two kinds of edges, one of which promises less |
| **CPU thunk executor** `xla/backends/cpu/runtime/thunk_executor.*` | node counters, pending nodes, ready queues | Execute, ProcessOutEdges, SplitReadyQueue, sequential execution | execution graph, async values, thread pool | lock-free counting, abort on error, work that completes later |
| **Async values** `xla/tsl/concurrency/async_value.*` | state and waiter list in one word, reference count | AndThen, emplace, SetError, ForwardTo, DropRef, RunWhenReady, BlockUntilReady | everywhere in the runtime | compare-and-swap races, lifetime |
| **Count-down async value** `xla/tsl/concurrency/async_value_ref.h` | count, error | CountDown | async values | the last count races an error |
| **Cancellation manager** `xla/tsl/framework/cancellation.*` | flags, callbacks, children | StartCancel, Register-, Deregister-, TryDeregisterCallback, child managers | agent, RPCs | callbacks run without the lock; children die while the parent cancels |
| RPC handler `coordination/coordination_service_rpc_handler.*` | pointers to agent and service | one method per RPC | between agent and service | little of its own |
| Tracked device buffers `xla/pjrt/abstract_tracked_device_buffer.*` | hold counters, donation status | acquire, convert and drop holds, Delete, Release | PJRT clients | blocking rules between kinds of holds |
| BFC allocator, graph cycles | chunks and bins; an online topological order | allocate, free; insert edge | - | sequential algorithms |
| HLO passes, backends, StreamExecutor, PJRT device clients and plugins, IFRT proxy | - | - | - | semantic equality of tensor programs, or input and output |

The components in bold are modelled. What makes each of them correct:

* *Store*: no get misses a put; every get is answered once; destruction answers all.
* *Service*: the three records kept of a barrier agree; a barrier passes OK only when
  every participant is at it; none waits for a dead task; a call is answered unless its
  task has restarted during the barrier; tasks connect together or not at all; a restart does not go unnoticed; errors that must be
  heard are; shutdown is all or nothing; liveness queries wait for live tasks only.
* *Agent*: OK means that every task has called for that instance; no instance answers two
  calls of a process; heartbeats end with their session and notice a failure and a
  restarted service; a repeated registration is not a second process.
* *Preemption*: all tasks save at the same step, and nobody is past it.
* *Rendezvous*: rounds do not mix and nobody is left behind.
* *Graph and executor*: what the reduction leaves orders everything the conflicts order;
  the execution keeps that order and reports the end last, once.
* *Async values, count-down*: waiters run once, on a value that is there; values are
  destroyed once, unused; an error is not lost.
* *Cancellation*: a callback taken back is over; one that was accepted is reached; no
  destroyed child is touched; waits end.

The hazards behind these properties, each at its line, are listed in `PROJECT.json`.

## 2. Plan

Done, with proofs: the store, the service and the barrier calls of its agents, the agent
alone, the preemption manager, rendezvous and its refinement of `Rounds`, the execution
graph, the executor and its refinement of `OrderedExecution`, async values and their
refinement of `Promises`, the count-down value, cancellation. Every safety property that a
run checks is also a theorem.

Left, in this order:

1. The rest of the service: WaitForAllTasks with device aggregation, WatchJobState with
   its version numbers, the contents of GetAliveTasks replies.
2. The agent's key-value calls over `KeyValueStore`, with cancellation of a pending get.
3. Tracked device buffers; then, as pure algorithms, graph cycles and the BFC allocator.

## 3. Modules

| module | contents |
|---|---|
| `KeyValueStore`, `MC...` | the store, with the service's `DeleteKeyValue`; an instance |
| `CoordinationService`, `MC...`, `...Proofs` | the service; symmetry of tasks configured alike; theorems about it and `AgentBarriers`: OkIsCalledByAll, OkIsForANewInstance, ServiceTyped, BooksAgree, NobodyWaitsForFailedTask, OkNeedsEveryone, TasksConnectTogether, NewestRegistrationWaits, NoQueryIsStuck, FailuresAreHeard, RestartsAreNoticed, ShutdownTogether |
| `AgentBarriers`, `MC...` | extends `CoordinationService`: agents' barrier calls, the network, restarts, shutdown |
| `CoordinationAgent`, `MC...` | one agent's life: application thread, heartbeat thread, error poll; its process dies and another takes over |
| `StoreAndAgentProofs` | theorems about `KeyValueStore` (StoreCorrect, NoWakeupIsLost, CalledOnce) and `CoordinationAgent` (NoHeartbeatOutlives, RepeatsAreNoDuplicates) |
| `PreemptionSync`, `MC...`, `...Proofs` | the preemption sync managers of a job; theorems AllAgree, SyncPointIsAhead |
| `Rendezvous`, `MC...`, `...Proofs` | threads that meet; implements `Rounds`; theorems NoRoundIsMixed, ImplementsRounds |
| `Rounds` | abstract: nobody returns from a round before all have arrived |
| `ExecutionGraph`, `...Proofs` | Create and the transitive reduction; theorem ReductionKeepsOrder, and about `ThunkExecutor` NothingRunsOnceDone, ExecutionKeepsOrder |
| `ThunkExecutor`, `MC...` | extends `ExecutionGraph`: the execution; implements `OrderedExecution` |
| `OrderedExecution` | abstract: thunks start after what they conflict with, the outcome comes last |
| `AsyncValue`, `MC...`, `...Proofs` | async values; implements `Promises`; theorems NothingFreedIsUsed, CallbacksSeeValues, NothingLeaks, PromisesKept |
| `Promises` | abstract: values resolve once, waiters run once and after them |
| `CountDown`, `MC...`, `...Proofs` | CountDownAsyncValueRef; theorems TypeCorrect, OutcomeCorrect, SetOnlyOnce |
| `Cancellation`, `MC...`, `...Proofs` | CancellationManager with children; theorems DeregistrationIsFinal, NoCallbackIsForgotten, NoManagerIsUsedAfterFree |

A definition whose comment says "Mutant" is a deliberately wrong version of the one
after it. It is used by no specification; it shows that a property can fail.

### KeyValueStore

`data` and `callbacks` are `data_` and `callbacks_`. Every method of the store holds
`mu_` from start to end, so each is one action. `DeleteKeyValue` calls the store twice
without a lock of its own in between, so it is two actions (`Delete`, `DeletePrefix`) of
a deleter. Keys are normalized keys; `Under(d)` are the ones with prefix `d/`.
A value is an integer, standing for its decimal text, or `Word`, standing for a text that
`absl::SimpleAtoi` rejects (external, modelled from its use). `IntMax` stands for the
largest `int`: the parse accepts only what fits. `MaxAbs` bounds the increments explored.
`answer` and `issued` are history: what each get was answered with and which gets arrived.

### CoordinationService

`svc` is the state the class keeps under `state_mu_`, as one record. Its private methods
are operators from a service state to a service state with the names they have in the
code, so that a handler is the composition the code executes under one lock. One handler
is one action, with two exceptions that release the mutex half way: `ShutdownTaskAsync`
(`GetTasksForShutdownBarrier`, then `ShutdownBarrier`) and
`CheckBarrierStatusWithRecoverableTasks` (`GetCountOfOutOfSyncTasksPerBarrier`, then the
rest, with the counts in `snapshot`).

* A status is its code. The codes kept are the ones the code branches on.
* Time: at any moment a connected task may be found stale, an ongoing barrier past its
  deadline, and a grace period over. This includes every order of events that real
  clocks allow.
* `client_cache_` is null, as in every PJRT deployment
  (`xla/pjrt/distributed/service.cc`), so errors reach agents by error polling.
* A task is recoverable or not for good (`RecoverableTasks`); as in the code the service
  learns it when the task registers.
* Error handling is recursive in the code (SetTaskError, LeaveOngoingBarriers,
  PassBarrier, SetAllTasksError, ...). The recursion ends after one round because a task
  in error is not set to error again; the model writes that round as a *wave*
  (`ErrorWave`) followed by the hooks of the barriers that failed in it
  (`AfterFailure`). Where the code visits tasks in the order of a hash map, recoverable
  tasks are taken first; the order shows only in fields of barriers that have ended.
* `RecordHeartbeat` is an action only where it changes the modelled state.

Named bounds: `MaxIncarnation` (how often a task restarts), `MaxCounter` (how often a
barrier id is reused).

### AgentBarriers

Composes the barrier calls of agents with the service. `agent[t]` holds the agent's set
of ongoing barriers, its counter per barrier, the number of the call in flight and whether
its cancellation manager has been cancelled. `requests`, `cancels` and `answers` are what is
in the network, in no order; `holder` is the call whose callback the service keeps. The
agent may give a call up at any moment (`RpcFails`) although the request or its answer is
still on its way, and may restart with its counters lost while the network keeps what it
has. `ShutdownInternal` sends the ShutdownTask RPC, served or not, and then cancels the
manager; the two are one step, which leaves out calls that another thread begins in between,
after the service has answered its last one because of the shutdown. From then on WaitAtBarrierAsync answers CANCELLED without an RPC and leaves the id in
`ongoing_barriers_` (`WaitAtBarrierCancelled`).

A service handler is the action of `CoordinationService`; whoever leaves `calls` in it is
answered (`Answered`). That is what the code does everywhere but in
CheckBarrierStatusWithRecoverableTasks (7.4), which runs only under
leave_barriers_on_recoverable_agent_restart. The module is about the default, flag off, and
has no shutdown barrier (`DefaultFlags`): the check thread then only finds stale tasks and
deadlines passed, the run sets the flags so, and the theorems assume it. The repeated
registration of `Connect` is part of `ServiceStep`. `sent` is history. Bounds: `MaxCalls` (a
shutdown counts as one), `MaxInterrupted` (tasks that restart or are shut down),
`Cancellers`, `Quitters` (whose agents are shut down), one cancel request at a time.

### CoordinationAgent

The application thread (`app`), the heartbeat thread (`hb`) and the error polls (`polls`)
of one agent; a step is what happens between two releases of `state_mu_` or
`shutdown_mu_`, or between two RPCs. An RPC is served or not and its answer heard or not.
`srv` is what the service does with the state of this one task: its state and status, and
the incarnation it was registered with, which RegisterTaskAsync and RecordHeartbeat compare
with that of the caller. The process may die at any point (`ProcessRestarts`); the next one
has a new incarnation and the service still has the old one's record. `known` is history:
the processes this life of the service has connected. The callbacks of polls deregister from the cancellation manager that the pointer points to at that time, as the
code does. Bounds: `MaxSessions`,
`MaxIncarnation` (processes of the task), `MaxLeader` (lives of the service).

### PreemptionSync

Per task: `step` and `sync` are `call_counter_` and `preemption_sync_counter_`, `mu` the
holder of `mu_`, `proto` and `app` the places of the two threads. `notice`, `counter` and
`barrier` are the keys and the barrier in the service. The barrier passes when all tasks are
at it (`Everyone`, as ReachBarrier decides and OkNeedsEveryone proves of the service with
the restart flag off, its default) and may fail at any time before (`BarrierFails`). The notice reaches tasks at different times and may or may not fall
within the grace period (`near`). Every failure, and Shutdown, counts against `MaxFaults`.

### Rendezvous and Rounds

A round is a `RendezvousState`: `ack`, `rel`, the values, `ready`. Each atomic operation
and each critical section is one action, from `TryJoin` of the flag to `Return`. A state
whose shared pointers are gone is reused; there is one more state than threads, so one is
always free. `Nil`, the null pointer and the empty slot, is none of the things it is
compared with (`NilAssumption`). `Setups` lets one run cover meetings with and without a result, with a
terminating timeout, and behind a flag. Logging of stuck rendezvous is left out.
`Rounds` sees only how many calls each thread has begun and ended.

### ExecutionGraph and ThunkExecutor, OrderedExecution

`Create` computes the edges from buffer and resource conflicts, for programs short enough
for NodeId, which the code refuses otherwise; `FollowEdge`, `Visit` and
`NextSource` are the rounds of the depth-first reduction with its stack, its visited set
and the rule that a path with a scheduling edge erases scheduling edges only. In the code
the sorted edge vectors determine the order; here an edge that is first or last among its
kind (`IsFirst`, `IsLast`).

A worker is one active `Execute` call or continuation: its ready queue, the node in hand,
the out-edges it still has to process, whether it drops `pending_nodes` and whether it
holds a session lock. Each atomic operation is an action. A thunk completes before
Execute returns, later, or fails. Nodes with equal priority leave the priority queue in
the order of their ids. `OrderedExecution` sees which thunks run, succeeded and failed,
and the event.

### AsyncValue and Promises

`state` and `head` are the two halves of `waiters_and_state_`. A thread's `stack` holds
what is left of its calls, so that a waiter run by NotifyAvailable can call into other
values. Each atomic instruction and each write of data that is published by one is a
step. Clients keep the contract: only a value's producer sets it, and a thread releases a
reference once, when it no longer needs it; indirect values are not forwarded in a circle
(`ForwardAssumption`), and a thread in BlockUntilReady takes no reference
(`KindsAssumption`). `ran` counts how often each waiter ran. `Promises` sees the outcome of
each value and which waiters were handed over and ran.

### CountDown

`Units` are what is counted and `Share[t]` the units a call counts down. StoreError,
FetchSub and SetState are the three steps of CountDown; observers call CountDown(0).

### Cancellation

Each section under a manager's mutex is an action; between them callbacks run and
children are cancelled. A thread has a stack of `frames`, since cancelling a parent
cancels its children on the same thread. The intrusive list of children is a set: the
order in which children are cancelled is left open. `life` follows a child through constructor and
destructor. Callers keep the rules of the header.

## 4. Runs

Every run passes. Deadlock is not checked where the system may stop: a destroyed store, a
stopped service, threads that have made all their calls. It is checked in `thunks` and
`count_down`.

| run | instance | distinct states | properties |
|---|---|---|---|
| `store` | 3 keys, 2 gets, 1 deleter, values up to 4 | 45,823 | NoLostWakeup, CallbackAccounting, AnsweredOnce |
| `out_of_sync` | 2 tasks, one recoverable, restart flag on, register barrier, 1 barrier, 2 instances, arguments: none, a subset, one with an unknown task; a liveness query | 47,198 | TypeOK, BarrierBooks, AlivenessNotStuck, UnsyncedDoNotBlock, CallsAnswered |
| `lifecycle` | 3 tasks, one recoverable, 2 incarnations, register and shutdown barriers, symmetry | 536,421 | ConnectedTogether, NewestIncarnationWaits, ShutdownIsAllOrNothing, RestartIsNoticed |
| `errors` | 3 tasks: plain, of a recoverable job, recoverable; two poll; shutdown barrier; reconnection allowed | 546,970 | ErrorsAreHeard |
| `agent_barriers` | 2 agents, one recoverable, 2 calls each, 2 instances, 1 restart or shutdown of an agent | 1,643,675 | OkMeansAllCalled, OkIsNew, OkMeansEveryoneArrived, NoWaitForFailedTask |
| `agent` | 3 sessions, 2 processes, 2 lives of the service, reconnection allowed | 107,582 | HeartbeatsEndWithSession, NoSelfDuplicate, FailureIsNoticed |
| `preemption` | 3 tasks, 2 steps, 2 faults | 218,969 | Agreement, NoneIsPast, AllSave |
| `rendezvous` | 3 threads, 2 calls each, 3 setups | 313,274 | RoundsDoNotMix, RoundsImplemented, AllReturn |
| `thunks` | 632 programs of 4 operations built, 7 of them executed with 3 kinds of queue, 2 workers | 89,120 | SchedulesKept, OrderKeptInExecution, QuietOnceDone, EventSet |
| `async_values` | a concrete value, two indirect ones in a chain, 2 threads, 2 waiters, a group of two | 268,917 | NoUseAfterFree, NoLeak, WaiterSeesValue, KeepsPromises, WaitersRun |
| `count_down` | 5 calls, one of two units, 3 errors, an observer | 253 | OutcomeRight |
| `cancellation` | a root, 2 children, 2 callbacks, 2 cancelling threads | 71,660 | DeregisterSettles, CallbacksReached, NoUseAfterFree, WaitsEnd |

Why the bounds are enough for the cases of interest.

* Service: two plain tasks and a recoverable one give every mixture the code
  distinguishes. Two instances of a barrier make a counter stale, ahead or right. Two
  incarnations are a restart, and a second restart meets the same code. Integers up to 4
  with `IntMax` = 2 cross the limit of an `int` in one and in two steps.
* Agent: three sessions let the leftovers of one session meet the next and the one after;
  the second process registers while the service has the record of the first, connected,
  in error or gone; two calls per agent are a call given up and its repetition, and one
  agent that restarts or is shut down leaves the other to meet what it has left behind.
* Rendezvous: two calls per thread make rounds overlap, with a fast thread in the second
  while slow ones are still in the first; three threads make a leader, one that wakes it
  and a bystander.
* Graph and executor: four operations are the least that has a diamond and a path of
  three edges that mixes kinds; two workers and three ready nodes make a queue split. The
  theorem carries the graph's result to any size.
* Async values: a chain of two indirect values is the least in which a forward meets a
  forward; the group makes the count of RunWhenReady race.
* Cancellation: two children, one of which leaves while the other is being cancelled; a
  child cancelled by its parent and by its owner.

Fairness. No fairness is assumed of tasks, clients or faults.

* `FairCheckSpec` (service): the check thread loops once a second until the service
  stops. `CallsAnswered` adds in its own premise that deadlines of ongoing barriers pass
  and are found (`BarrierExpires`): the deadline is set once, when the instance starts,
  and the thread compares it with the clock in every round. Its other half is about the
  calls themselves: one that is to be answered is not marked, while it waits, as one whose
  callback the check thread drops. A call whose task restarted during the barrier is
  outside it (7.4).
* `CoordinationAgent`: the heartbeat thread runs; its RPC has a deadline and its wait a
  timeout.
* `PreemptionSync`: the protocol thread runs and its calls return; a get of the notice is
  answered; the application goes on stepping. No fault is ever due, and AllSave claims
  nothing once one has happened.
* `Rendezvous`, `AsyncValue`, `CountDown`, `Cancellation`, `ThunkExecutor`: a thread
  inside a call runs on; callbacks return and thunks complete. Nothing makes a thread
  begin a call.

Every property has a mutant in `PROJECT.json`: a plausible slip in the code it is about (a
count not updated, a list not emptied, two steps swapped) under which TLC finds the
property violated.

## 5. Proofs

TLAPS checks these theorems for every value of the constants that satisfies the named
assumptions.

**StoreCorrect** (`StoreAndAgentProofs`; assumptions: a directory's entries are keys, the
special values are distinct): TypeOK, NoLostWakeup, CallbackAccounting and
DestructAnswersAll always hold. Together they are inductive: that a put answers everybody
who waits needs that nobody waits at two keys, and that the destructor leaves nobody
needs that whoever was received waits or has been answered. **NoWakeupIsLost** states the
part of it that matters most: no get waits for a key that is there.
**CalledOnce**: no step changes an answer; from the same invariant, because a caller that
waits has no answer yet.

**ServiceTyped** and **BooksAgree** (`CoordinationServiceProofs`; assumptions: `Tasks` is
finite, constants are typed, user barriers do not use the two reserved ids): TypeOK and
BarrierBooks always hold. BarrierBooks says, per barrier (`Book`):

* it is in `ongoing_barriers_` exactly if it was started and has not passed;
* a task has it among its ongoing barriers exactly if it is ongoing and the task takes
  part;
* while it is ongoing, `num_pending_tasks` is the number of participants not at it, and
  that is not zero;
* only tasks at it have callbacks, and there are none once it has ended;
* an entry that was never started is blank.

The invariant is inductive as it stands but no handler can be looked at in one piece: a
handler that works on one barrier breaks its records for a while and, through the error
hooks, ends others. The proof therefore goes by operator. `Good(s)` is the invariant of a
service state, `GoodExcept(s, F)` the invariant with a weaker frame for the barriers being
worked on. `EndBarriersGood` shows that PassBarrier turns the second into the first;
`LeaveRecoverableGood` carries the counting argument for tasks that leave;
`ReachBarrierGood` that for tasks that arrive. The lemmas about SetTaskError,
DisconnectTask, BarrierAsyncLocked and the handlers follow the calls in the code, and
`NextIInv` has one step per action.

Five more theorems say what the barriers are for:

* **NobodyWaitsForFailedTask**: no ongoing barrier has a participant that is in error and
  not recoverable (NoWaitForFailedTask);
* **OkNeedsEveryone**: an instance that is OK has every participant at it
  (OkMeansEveryoneArrived). It assumes `~LeaveOnRestart`: with the restart flag the
  service discounts out-of-sync tasks on purpose, and a barrier passes without them;
* **TasksConnectTogether**: with the register barrier a task is connected only if that
  barrier passed OK, for all tasks (ConnectedTogether);
* **NewestRegistrationWaits**: who waits at the register barrier waits with its newest
  incarnation (NewestIncarnationWaits);
* **NoQueryIsStuck**: until the service stops, a liveness query that is kept waits for a
  connected task that has not called (AlivenessNotStuck).

They rest on a second invariant, `SInv`, above BarrierBooks. Its part `Steady` says that
only recoverable tasks carry the flag (`Flagged`), that a task in error without it is in no
barrier (`AllLeft`), that the register barrier has one instance, of all tasks, which passed
OK before any task connected (`OneRegister`), whose incarnation waits (`Newest`), and who
has arrived when a barrier is OK (`Arrived`); `QueriesWait` says that no liveness query has
all it waits for. None of the five is inductive alone: that nobody waits for a failed task
holds because failing it made it leave its barriers, which BarrierBooks identifies with
the participants, and a barrier that fails may fail tasks in turn. A relation `Calmer`
between service states covers what all error paths have in common (barriers end, tasks
leave, nothing starts) and keeps every part, so that each operator needs one lemma
(`...Settled`) along the calls of the code; `NextSInv` has one step per action.

Three more are about what one step does, under the lock, to tasks and shutdown:

* **FailuresAreHeard**: when a task that is not recoverable is set to error, the pollers
  are answered in the same step or no task stays connected (ErrorsAreHeard);
* **RestartsAreNoticed**: no step replaces a connected non-recoverable task by another
  incarnation (RestartIsNoticed);
* **ShutdownTogether**: the step that ends the shutdown barrier disconnects all
  non-recoverable tasks if it passes and fails all tasks if it does not
  (ShutdownIsAllOrNothing).

They need one more invariant, that a connected task has no error status (`Healthy`):
otherwise RegisterTaskAsync could take a connected task for one that lost its connection.
The relation `Turns(r, s)` says what any call may have done between s and r: the tasks are
the same, and either the shutdown barrier has not come to pass OK and whoever newly failed
failed with everybody (`Contained`), or it passed and nobody failed (`ShutsDown`). For the
second, disconnecting the tasks must not fail the register barrier, whose hooks would take
them to error again (`DisconnectIsQuiet`): a connected task is in no register barrier,
because that passed before it connected, and one in error has left all barriers.
`NextLawful` has one step per action.

**OkIsCalledByAll** and **OkIsForANewInstance** (`CoordinationServiceProofs`, about
`AgentBarriers`): OkMeansAllCalled and OkIsNew hold of every step: a call that returns OK for
an instance returns when every participant has called for it, and no process gets OK for an
instance that it has seen end. Both assume `DefaultFlags`: with the restart flag a barrier
passes without the tasks out of sync and the claims are false. `Answering` says that who is
at a barrier has called for its present instance (`Backed`), that everybody is at one that
has passed OK, and that an OK answer in the network is backed by calls of all participants.
That stays true while later instances begin, because InitializeTasksAtBarrier keeps the
participants once there are any, counters of instances never fall, and calls are never unmade
(`Follows`). `Lasts` is what the error paths have in common: the instance stays the same,
tasks only leave it, and it does not come to pass OK. Nobody leaves a barrier that has
passed, since BarrierBooks takes it out of the tasks' books. For the second theorem,
`Numbered` says that what is in the network or kept is of a call that was made, so that a
new call is nowhere yet, and `Ahead` that the call in flight is, wherever it is, about a later
instance than its agent's counter: its request asks for one, the barrier that keeps it is at
one, an OK answer is for one. The service may answer for another instance than the request names (a
stale counter, a request for instance 0 of a recoverable task), so that is not a matter of
echoing a number: `JoinBarrierServes` and `BarrierAsyncLockedServes` go through the branches
that let a call in. Agents start in incarnation 1, so MaxIncarnation is positive
(`CallsAssumption`).

**NoHeartbeatOutlives** and **RepeatsAreNoDuplicates** (`StoreAndAgentProofs`, about
`CoordinationAgent`; any number of sessions, processes and lives of the service):
HeartbeatsEndWithSession and NoSelfDuplicate always hold. The invariant `LifeInv` follows the
application thread: no heartbeat thread exists while the agent is uninitialized or
disconnected, connecting, or registered and yet to start its threads; StartThreads runs only
when the agent has connected or an error came in between. For the second, the service has
connected no process later than the present one, and whenever it has connected the present
one and is connected, it has that one's incarnation on record, whichever earlier process it
had there before; so the comparison in RegisterTaskAsync goes well.

**AllAgree** and **SyncPointIsAhead** (`PreemptionSyncProofs`; any tasks, steps and
faults): Agreement and NoneIsPast always hold. A task is counted in at the barrier only
after it has published its step (`CountedInHasPublished`), so when the barrier has passed
the published steps are final and every sync point is computed from the same ones
(`SyncFromSteps`). A task is not past it because the protocol thread holds `mu_` from
publishing to the end (`LockHeld`).

**NoRoundIsMixed** and **ImplementsRounds** (`RendezvousProofs`; any threads, keys and
number of calls, in each setup): RoundsDoNotMix always holds, and the specification
implements `Rounds`. The invariant `IInv` ties the shared state to how far each thread has
come in its call: the threads that hold one state share key and call (`SameRound`); its
counters count the threads of the group that have come as far (`Counted`); the map names
the state until all have acked and not after the leader has erased it (`Listed`); there is
one leader, who has found the counter full (`OneLeads`, `Over`); every arrival writes its
own slot and what was written stays (`OwnSlot`, `Stored`); the result is computed from the
values of this call (`Computed`); the flag counts who is in flight (`FlagCounts`); and
nobody has returned from a call that another has not reached (`Together`), which is what
the refinement needs. There is one lemma per action for the invariant; `StepImplements`
shows, action by action, which step of `Rounds` or stutter it is.

**DeregistrationIsFinal**, **NoCallbackIsForgotten**, **NoManagerIsUsedAfterFree**
(`CancellationProofs`; any managers, callbacks and threads): DeregisterSettles,
CallbacksReached and NoUseAfterFree always hold. `OneCancels`: `is_cancelling_` is set for
exactly the one StartCancel that is between its two sections. So a callback is in the
table, in the hands of that call, over, or taken back (`Placed`), and the notification
that DeregisterCallback waits for comes when that call has let go of all it took
(`Members`, `Notifiers`, `Holds`). A child that its parent lists or has taken is not past
the wait of its destructor (`Kept`), and a destructor that is through has cancelled what
was registered (`Drained`); a stack has at most the root's call and that of a child
(`Stacks`).

**ReductionKeepsOrder** (`ExecutionGraphProofs`; any number of operations, any buffers and
resources): at every moment of the reduction, times of start and end that respect the
edges left respect every conflict of Create. The invariant has three parts. `Shape`: only
conflicts are ever edges. `Found`: whatever is on the search's stack starts no earlier
than the node the search set out from, in every run that respects the edges of later
nodes. `Implied`: a conflict follows from the edges left, looking only at those of
later nodes and those of its own node that lead no further, which makes the argument well
founded: no edge of a later node is erased any more while a node's own are. A path is more than the kind of its ends:
it ends-before-starts only if every edge on it does, which is what the search keeps track
of.

**NothingRunsOnceDone** (`ExecutionGraphProofs`, about `ThunkExecutor`; any program, queue,
number of workers, outcomes): QuietOnceDone always holds. For an execution by workers the
invariant is `Going`. Its part `Books` says that no node is in two places (a ready queue or a
worker's hands), that a node's counter is the number of edges to it that are still to be
processed (`Todo`), and that pending_nodes is the number of nodes that will still drop it
(`Live`): sinks that are not done, and nodes with scheduling edges between the moment they
are counted and their completion. The step that matters drops pending_nodes to zero: if then
anything were left to do, the last node with an open edge, or in a worker's hands, would
still owe a drop (`Quiet`, by the largest node, as edges lead forward); so the worker that
sets the event is alone. There is one lemma per step of a worker. An execution thunk by thunk
has the simpler invariant `Stepwise`.

**ExecutionKeepsOrder** (the same): the executor implements `OrderedExecution`. `InOrder`
adds that a thunk that has started has all its edges met (`Met`), that one that is neither
counted nor held is settled, and that no failure is unknown to everybody before the abort
is recorded (`Sound`, `Settled`). A node is taken up when its counter is zero, so its
in-edges are processed and their sources settled (`ReadyIsMet`); the check of abort in
between excludes sources that were skipped. That the *edges* are met is not enough, since
the reduction has erased some: `ConflictsMet` takes the thunks started so far for the
first half of a two-instant schedule, which respects the edges, and applies the invariant
`Implied` of the reduction to it, so the conflicts are met as well. The refinement
(`RefinementStep`) then takes the start of a thunk to Start, its end to Complete, and the
step that sets the event to Finish; all others stutter.

**NothingFreedIsUsed**, **CallbacksSeeValues**, **NothingLeaks**, **PromisesKept**
(`AsyncValueProofs`; any finite sets of values, threads, waiters and groups, in any forwarding
without a circle): NoUseAfterFree, WaiterSeesValue and NoLeak always hold and the
specification implements `Promises`. The invariant says that there is a way to place
things, `\E loc : Inv(loc)`:

* a *duty* (to set a value, to run its list, to run a waiter, to count a group down) is in
  exactly one place: an entry of a thread's stack, a node of a waiter list, not yet born,
  over, or divided among the duties it was split into;
* the nodes of a value's list are chained by falling ranks, so that a walk along `next`
  meets each of them once and no node is in two lists;
* every unit of a reference count has one owner: a thread, a pending call, a node, or an
  indirect value that was forwarded; a count is the number of its owners;
* a value is alive while a step that is still to come reads it, and the facts on which
  pending calls rely (the value they were promised is available, the error is stored)
  hold until the calls are made.

`loc` is a witness, not state: each step shows how the places move (Shift) and that the rest
stays. The first theorem is the guards of the next steps; the second that a waiter's place
becomes an entry of a stack only in NotifyAvailable's walk, on an available value; for the
third, a value that nobody can reach has no owners, and `ForwardAssumption` makes the
argument along a chain of forwards well founded. In the refinement, NotifyAvailable is
Resolve, the call of a waiter is Run, handing one over is Ask, and every other step
stutters.

**TypeCorrect**, **OutcomeCorrect**, **SetOnlyOnce** (`CountDownProofs`; assumptions: the
shares partition a finite set): the count never drops below zero; an available value has
had all its counts dropped and is an error exactly if some call had one; it is set once.
The invariant adds to OutcomeRight that the count is the number of units left
(`CountIsLeft`), that a call with an error has stored it before it counts
(`ErrorsStored`), and that the call that completes is the only one left (`LastIsAlone`).

Only model-checked:

* all liveness (AllReturn, WaitersRun, EventSet, WaitsEnd, FailureIsNoticed, AllSave,
  UnsyncedDoNotBlock, CallsAnswered), which is outside the prover's reach, as is the
  `ENABLED` in `AgentBarriers!HandleCancel`.

## 6. Not modelled

Of the service: WaitForAllTasks and device aggregation, WatchJobState, the contents of
replies other than a barrier's result, pushing errors to clients. Of the agent: the
key-value calls, which forward to the service, and job states. Of the store: Get and
GetPrefix, which only read, and int64 overflow in IncrementBy. Of async values: AndThen
with an executor, type ids and allocation. Of the executor: profiling and tracing. Weak
memory: atomics are sequentially consistent in the models; where data is published by a
release store, the order of the writes is modelled. Logging everywhere.

The compiler passes and backends, which are most of the repository, transform tensor
programs; that they preserve meaning is not a question TLC can enumerate or that these
provers can be asked. StreamExecutor and the PJRT clients wrap vendor drivers. The other
components left out are listed in section 1 and, with reasons, in `PROJECT.json`.

## 7. Where the code and its documentation disagree

The models do what the code does. Where a comment or a header says something else, the
properties above state what the code keeps. The differences met:

1. `coordination/key_value_store.cc:78`: IncrementBy parses an `int` and stores an
   `int64_t` sum. A counter that passes INT_MAX can no longer be incremented; the header
   promises 64 bits.
2. `coordination/coordination_service.cc:1404`: a call with a wrong counter or other
   participants passes a barrier again that has already passed and replaces its result.
   The header promises that later calls get the previous response.
3. `coordination/coordination_service.cc:353`: CheckBarrierStatusWithRecoverableTasks uses
   a count from an earlier critical section. If the out-of-sync task arrives in between,
   the count equals the number of tasks in sync that are still missing, and the barrier
   passes without them.
4. The same function erases the callbacks of tasks that restarted during the barrier,
   including one that has come back and waits; that call is never answered.
   CallsAnswered leaves out the calls that are marked so, and says that no other becomes one
   of them while it waits.
5. `coordination/coordination_service_agent.cc:1003`: CancelBarrierAsync does not set the
   counter of its request, so the service refuses it for every instance but the first.
   The header says "Aborts the barrier if it is ongoing."
6. `coordination/coordination_service_agent.cc:954`: the late first call of a recoverable
   task, numbered 0, may be taken for that of a restarted one and be answered OK for
   instance 1. The comment says of the response's counter "This would correspond to the
   request counter." OkMeansAllCalled therefore lets a request for instance 0 of a
   recoverable task count for any instance, also one sent before the task restarted.
7. `coordination/coordination_service_agent.cc:365`: a poll's callback uses the
   cancellation manager of the time when it runs. After Reset it may deregister the token
   of the new session's poll, which Shutdown then does not cancel.
8. `coordination/coordination_service_agent.cc:482`: ReportError accepts a disconnected
   agent; the header lists "FailedPrecondition: Uninitialized/disconnected/already in
   error state."
9. `xla/tsl/distributed_runtime/preemption/preemption_sync_manager.cc:210`: Shutdown joins
   the protocol thread while it holds `mu_`, which a thread past its sleep is about to
   take.
10. `.../preemption_sync_manager.cc:244`: a task that fails before the barrier means to
    cancel it, but its agent has no call ongoing there and refuses; the others wait for
    the barrier's timeout.
11. `xla/service/rendezvous.cc:119`: a terminate timeout ends the process; the header says
    it returns an error status to all participants.
12. `xla/runtime/execution_graph.cc:87`: a chain of scheduling edges counts as sequential;
    the comment says that every node depends on the completion of the previous one.
13. `xla/tsl/concurrency/async_value_ref.h:875`: CountDown(0) returns true when the count
    is zero, though the value may not be available yet.
14. `xla/tsl/concurrency/async_value.h:402`: "If the state is not available, then the
    waiter list must be nullptr" - the code keeps the opposite.
15. `xla/tsl/framework/cancellation.cc:37`: a child's constructor stores the result of
    RegisterChild after the parent's mutex is released, and may overwrite a cancellation
    that the parent has made in between.
16. `coordination/coordination_service_agent.cc:938`: WaitAtBarrierAsync of an agent that
    has been shut down answers CANCELLED and leaves the id in `ongoing_barriers_`; a later
    call for it is refused as "already ongoing" though none is. The comment at line 906 says
    that the id is taken only "till the previous call completes".
