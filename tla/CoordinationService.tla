------------------------- MODULE CoordinationService -------------------------
(***************************************************************************)
(* The coordination service that keeps a multi-process XLA job together     *)
(* (xla/tsl/distributed_runtime/coordination/coordination_service.{h,cc}):  *)
(* task registration, heartbeats, error propagation, barriers, liveness     *)
(* queries and shutdown.                                                   *)
(*                                                                         *)
(* Every handler runs with state_mu_ held, so it is one action here; the    *)
(* two that release the mutex half way (CheckBarrierStatusWithRecoverable-  *)
(* Tasks and ShutdownTaskAsync) are two actions each.  The mutex-protected  *)
(* members of the class are the record `svc`; the private methods are       *)
(* operators from a service state to a service state, composed in the order *)
(* in which the handlers call them.                                        *)
(*                                                                         *)
(* Abstractions.  A status is its code.  Time is not counted: at any moment *)
(* a connected task may be found stale, an ongoing barrier may be past its  *)
(* deadline and a grace period may end.  The client cache is null, as in    *)
(* every PJRT deployment (xla/pjrt/distributed/service.cc), so errors reach *)
(* the agents through error polling.  Where the code walks a hash map of    *)
(* tasks, the recoverable ones are taken first: the order shows only in     *)
(* fields of barriers that have ended.                                     *)
(***************************************************************************)
EXTENDS Integers, FiniteSets

CONSTANTS
    Tasks,                \* the configured tasks: the keys of cluster_state_
    RecoverableTasks,     \* tasks whose agents set CoordinatedTask.recoverable
    RecoverableJobTasks,  \* tasks of the jobs in config.recoverable_jobs
    Pollers,              \* tasks whose agents poll for errors
    Stranger,             \* a task that is not configured
    UserBarriers,         \* ids passed to WaitAtBarrier
    Register, Shutdown,   \* kClusterRegisterBarrierId and shutdown_barrier_id_
    BarrierArgs,          \* the participating_tasks arguments clients pass
    AliveArgs,            \* the `tasks` arguments of GetAliveTasks
    RegisterWithBarrier,  \* config.cluster_register_with_barrier
    ShutdownWithBarrier,  \* shutdown_barrier_timeout_ > 0
    AllowReconnect,       \* config.allow_new_incarnation_to_reconnect
    LeaveOnRestart,       \* FLAGS_leave_barriers_on_recoverable_agent_restart
    MaxIncarnation,       \* bound of the model: incarnations are 1..MaxIncarnation
    MaxCounter            \* bound of the model: barrier counters are 0..MaxCounter

Special == {Register, Shutdown}
BarrierIds == UserBarriers \cup Special

ASSUME TasksAssumption ==
    /\ IsFiniteSet(Tasks)
    /\ Stranger \notin Tasks
    /\ RecoverableTasks \subseteq Tasks
    /\ RecoverableJobTasks \subseteq Tasks
    /\ Pollers \subseteq Tasks
    /\ AliveArgs \subseteq SUBSET Tasks
    /\ BarrierArgs \subseteq SUBSET (Tasks \cup {Stranger})

ASSUME BarriersAssumption ==
    /\ UserBarriers \cap Special = {}
    /\ Register # Shutdown

ASSUME ConfigAssumption ==
    /\ RegisterWithBarrier \in BOOLEAN
    /\ ShutdownWithBarrier \in BOOLEAN
    /\ AllowReconnect \in BOOLEAN
    /\ LeaveOnRestart \in BOOLEAN
    /\ MaxIncarnation \in Nat
    /\ MaxCounter \in Nat

Incarnations == 1..MaxIncarnation
Counters == 0..MaxCounter
TaskCodes == {"OK", "UNAVAILABLE", "OTHER"}
BarrierCodes == {"UNKNOWN", "OK", "INTERNAL", "CANCELLED", "DEADLINE_EXCEEDED",
                 "INVALID_ARGUMENT"}

VARIABLES
    svc,           \* the members of CoordinationService guarded by state_mu_
    snapshot,      \* out_of_sync_tasks_per_barrier while the check thread holds one
    shutdownArgs   \* task -> the shutdown_tasks it read in ShutdownTaskAsync, or {}

vars == <<svc, snapshot, shutdownArgs>>

-----------------------------------------------------------------------------
(* State.                                                                   *)

\* class TaskState.  `grace`: a disconnected task is within its grace period.
TaskState ==
    [state : {"DISCONNECTED", "CONNECTED", "ERROR"}, status : TaskCodes,
     incarnation : Incarnations \cup {0}, recoverable : BOOLEAN,
     grace : BOOLEAN, ongoing : SUBSET BarrierIds]

\* struct BarrierState.  `tasks` and `at` are the keys of tasks_at_barrier and
\* the ones mapped to true; `calls` the keys of done_callbacks; `restarted` is
\* recoverable_tasks_restarted_during_barrier; `named` says id is not empty.
BarrierState ==
    [named : BOOLEAN, counter : Counters, passed : BOOLEAN,
     result : BarrierCodes, pending : Int, tasks : SUBSET Tasks,
     at : SUBSET Tasks, calls : SUBSET Tasks, restarted : SUBSET Tasks]

\* struct AlivenessState.
AlivenessState == [tasks : SUBSET Tasks, in_barrier : SUBSET Tasks]

\* The members of class CoordinationService, and `captured`: the incarnation held
\* by the callback a task has at the register barrier.
Service ==
    [cluster : [Tasks -> TaskState], barriers : [BarrierIds -> BarrierState],
     ongoing : SUBSET BarrierIds, captured : [Tasks -> Incarnations \cup {0}],
     polling : BOOLEAN, responded : BOOLEAN, polls : SUBSET Tasks,
     unsynced : SUBSET Tasks, shutdownTasks : SUBSET Tasks,
     aliveness : SUBSET AlivenessState, stopped : BOOLEAN]

\* The check thread holds no snapshot.
NoSnapshot == [held |-> FALSE, count |-> [b \in BarrierIds |-> 0]]

\* Every variable has its type: only configured tasks are entered in barriers, and
\* counters, codes and incarnations stay in range.
TypeOK ==
    /\ svc \in Service
    /\ snapshot \in [held : BOOLEAN, count : [BarrierIds -> Nat]]
    /\ shutdownArgs \in [Tasks -> SUBSET Tasks]

FreshTask ==
    [state |-> "DISCONNECTED", status |-> "OK", incarnation |-> 0,
     recoverable |-> FALSE, grace |-> FALSE, ongoing |-> {}]

FreshBarrier ==
    [named |-> FALSE, counter |-> 0, passed |-> FALSE, result |-> "UNKNOWN",
     pending |-> 0, tasks |-> {}, at |-> {}, calls |-> {}, restarted |-> {}]

Init ==
    /\ svc = [cluster |-> [t \in Tasks |-> FreshTask],
              barriers |-> [b \in BarrierIds |-> FreshBarrier],
              ongoing |-> {}, captured |-> [t \in Tasks |-> 0],
              polling |-> FALSE, responded |-> FALSE, polls |-> {},
              unsynced |-> {}, shutdownTasks |-> {}, aliveness |-> {},
              stopped |-> FALSE]
    /\ snapshot = NoSnapshot
    /\ shutdownArgs = [t \in Tasks |-> {}]

InState(s, x) == {t \in Tasks : s.cluster[t].state = x}
NonRecoverable(s) == {t \in Tasks : ~s.cluster[t].recoverable}

-----------------------------------------------------------------------------
(* Liveness queries.                                                        *)

AliveTasks(s, T) == T \cap InState(s, "CONNECTED")

\* RefreshAliveness(): answer and remove every pending GetAliveTasks whose
\* alive tasks are all in the barrier.
RefreshAliveness(s) ==
    [s EXCEPT !.aliveness =
        {a \in @ : ~(AliveTasks(s, a.tasks) \subseteq a.in_barrier)}]

-----------------------------------------------------------------------------
(* Barriers end, tasks fail, leave and disconnect.                          *)

\* Mutant of EndBarriers: PassBarrier forgets to clear done_callbacks.
EndBarriersKeepsCalls(s, F, result) ==
    [s EXCEPT
        !.barriers = [b \in BarrierIds |->
            IF b \in F THEN [s.barriers[b] EXCEPT !.passed = TRUE, !.result = result]
            ELSE s.barriers[b]],
        !.cluster = [t \in Tasks |->
            [s.cluster[t] EXCEPT !.ongoing = @ \ {b \in F : t \in s.barriers[b].tasks}]],
        !.ongoing = @ \ F]

\* Mutant of EndBarriers: PassBarrier forgets to call ExitBarrier.
EndBarriersNoExit(s, F, result) ==
    [s EXCEPT
        !.barriers = [b \in BarrierIds |->
            IF b \in F
            THEN [s.barriers[b] EXCEPT !.passed = TRUE, !.result = result, !.calls = {}]
            ELSE s.barriers[b]],
        !.ongoing = @ \ F]

\* The part of PassBarrier(barrier, result) common to all barriers, for every
\* barrier of F: record the result, make the participants exit, answer and
\* clear the callbacks.
EndBarriers(s, F, result) ==
    [s EXCEPT
        !.barriers = [b \in BarrierIds |->
            IF b \in F
            THEN [s.barriers[b] EXCEPT !.passed = TRUE, !.result = result, !.calls = {}]
            ELSE s.barriers[b]],
        !.cluster = [t \in Tasks |->
            [s.cluster[t] EXCEPT !.ongoing = @ \ {b \in F : t \in s.barriers[b].tasks}]],
        !.ongoing = @ \ F]

\* Mutant of LeaveRecoverable: no ++num_pending_tasks.
LeaveRecoverableUncounted(s, R) ==
    [s EXCEPT !.barriers = [b \in BarrierIds |->
        LET leaving == {t \in R : b \in s.cluster[t].ongoing}
        IN [s.barriers[b] EXCEPT !.calls = @ \ leaving, !.at = @ \ leaving]]]

\* LeaveOngoingBarriers(task) of the recoverable tasks R: each leaves the
\* barriers it takes part in and its pending callbacks are cancelled.
LeaveRecoverable(s, R) ==
    [s EXCEPT !.barriers = [b \in BarrierIds |->
        LET x == s.barriers[b]
            leaving == {t \in R : b \in s.cluster[t].ongoing}
        IN [x EXCEPT
              !.calls = @ \ leaving,
              !.restarted = IF LeaveOnRestart THEN @ \cup (leaving \cap x.tasks) ELSE @,
              !.at = IF LeaveOnRestart THEN @ ELSE @ \ leaving,
              !.pending = IF LeaveOnRestart THEN @
                          ELSE @ + Cardinality(leaving \cap x.at)]]]

\* The barriers LeaveOngoingBarriers fails when the tasks of E leave.
Failing(s, E) ==
    UNION {s.cluster[t].ongoing : t \in E \cap NonRecoverable(s)}

\* Mutant of LeaveOngoingBarriers: a non-recoverable task leaves its barriers
\* without failing them.
LeaveOngoingBarriersQuietly(s, E) == LeaveRecoverable(s, E \ NonRecoverable(s))

\* LeaveOngoingBarriers for the tasks of E, without the hooks of PassBarrier.
LeaveOngoingBarriers(s, E) ==
    EndBarriers(LeaveRecoverable(s, E \ NonRecoverable(s)), Failing(s, E), "INTERNAL")

\* TaskState::SetError and the rest of SetTaskError, for every task of E that
\* is not in error yet, without the hooks of PassBarrier.
ErrorWave(s, E, code) ==
    LET failed == E \ InState(s, "ERROR")
        marked == [s EXCEPT !.cluster = [t \in Tasks |->
                     IF t \in failed
                     THEN [s.cluster[t] EXCEPT !.state = "ERROR", !.status = code]
                     ELSE s.cluster[t]]]
    IN RefreshAliveness(LeaveOngoingBarriers(marked, failed))

\* SendErrorPollingResponse(error) / ErrorPollingState::SetError.
SendErrorPollingResponse(s) == [s EXCEPT !.responded = TRUE, !.polls = {}]

AllTasksAreRecoverable(s, S) ==
    \A t \in S : s.cluster[t].recoverable \/ t \in RecoverableJobTasks

Stragglers(s) == s.barriers[Shutdown].tasks \ s.barriers[Shutdown].at

\* CompleteShutdownAfterBarrier(error), step 2: tell the pollers, unless every
\* straggler is recoverable.  Without pollers the step sets all tasks to error,
\* which step 3 does in any case.
TellShutdownError(s) ==
    IF s.polling /\ ~AllTasksAreRecoverable(s, Stragglers(s))
    THEN SendErrorPollingResponse(s) ELSE s

\* Mutant of AfterFailure: a failed shutdown barrier takes no task to error.
AfterFailureOfRegister(s, F) ==
    IF Register \notin F THEN s ELSE ErrorWave(s, Tasks, "OTHER")

\* The hooks of PassBarrier once the barriers of F have failed.  A failed register
\* or shutdown barrier sets all tasks to error (SetAllTasksError), which fails
\* every other barrier they take part in; a failed shutdown barrier also informs
\* the pollers.
AfterFailure(s, F) ==
    IF F \cap Special = {} THEN s
    ELSE LET alsoFailing == Failing(s, Tasks \ InState(s, "ERROR"))
             wave == ErrorWave(s, Tasks, "OTHER")
         IN IF Shutdown \in F \cup alsoFailing THEN TellShutdownError(wave) ELSE wave

\* SetTaskError for the tasks of E, hooks included.
SetTaskError(s, E, code) ==
    AfterFailure(ErrorWave(s, E, code), Failing(s, E \ InState(s, "ERROR")))

\* Mutant of PropagateError: without pollers the error is dropped.
PropagateErrorToPollers(s, sources) ==
    IF ~AllTasksAreRecoverable(s, sources) /\ s.polling THEN SendErrorPollingResponse(s)
    ELSE s

\* PropagateError(error, sources) with a null client cache: error polling once
\* any agent has polled, otherwise every task is set to error.
PropagateError(s, sources) ==
    IF AllTasksAreRecoverable(s, sources) THEN s
    ELSE IF s.polling THEN SendErrorPollingResponse(s)
    ELSE SetTaskError(s, Tasks, "OTHER")

\* The error path of the handlers: SetTaskError, then PropagateError.
FailTasks(s, E, code) == PropagateError(SetTaskError(s, E, code), E)

\* Mutant of DisconnectTasks: no RefreshAliveness().
DisconnectTasksNoRefresh(s, D) ==
    LET gone == D \ InState(s, "DISCONNECTED")
        marked == [s EXCEPT !.cluster = [t \in Tasks |->
                     IF t \in gone
                     THEN [s.cluster[t] EXCEPT !.state = "DISCONNECTED",
                                               !.status = "OK", !.grace = TRUE]
                     ELSE s.cluster[t]]]
        left == AfterFailure(LeaveOngoingBarriers(marked, gone), Failing(s, gone))
    IN [left EXCEPT !.polls = @ \ gone]

\* DisconnectTask for the tasks of D; one that is disconnected is left alone.
DisconnectTasks(s, D) ==
    LET gone == D \ InState(s, "DISCONNECTED")
        marked == [s EXCEPT !.cluster = [t \in Tasks |->
                     IF t \in gone
                     THEN [s.cluster[t] EXCEPT !.state = "DISCONNECTED",
                                               !.status = "OK", !.grace = TRUE]
                     ELSE s.cluster[t]]]
        left == AfterFailure(LeaveOngoingBarriers(marked, gone), Failing(s, gone))
    IN [RefreshAliveness(left) EXCEPT !.polls = @ \ gone]

\* TaskState::Connect for the tasks of C.
ConnectTasks(s, C) ==
    [s EXCEPT !.cluster = [t \in Tasks |->
        IF t \in C THEN [s.cluster[t] EXCEPT !.state = "CONNECTED", !.status = "OK"]
        ELSE s.cluster[t]]]

\* ConnectAfterBarrierPasses, run with an OK result for the callers S: a task
\* connects when the incarnation its callback captured is still the task's.
ConnectAfterBarrierPasses(s, S) ==
    ConnectTasks(s, {t \in S : s.captured[t] = s.cluster[t].incarnation})

\* PassBarrier(barrier, OK) with its hooks.
PassBarrierOk(s, b) ==
    LET ended == EndBarriers(s, {b}, "OK") IN
    CASE b = Register -> ConnectAfterBarrierPasses(ended, s.barriers[b].calls)
      [] b = Shutdown -> DisconnectTasks(ended, NonRecoverable(s))
      [] OTHER -> ended

\* PassBarrier(barrier, error) with its hooks.
PassBarrierError(s, b, result) ==
    AfterFailure(EndBarriers(s, {b}, result), {b})

-----------------------------------------------------------------------------
(* Barrier calls.                                                           *)

BarrierIsUninitialized(x) ==
    ~x.named /\ x.counter = 0 /\ ~x.passed /\ x.pending = 0

\* Mutant of InitializeTasksAtBarrier: unknown tasks are entered like any other.
InitializeTasksAtBarrierUnchecked(x, args, before) ==
    IF x.tasks # {} THEN x.tasks ELSE IF args = {} THEN Tasks ELSE args

\* InitializeTasksAtBarrier.  The participants of an earlier instance are kept.
\* When the caller names an unknown task, the ones listed before it (`before`)
\* have already been entered.
InitializeTasksAtBarrier(x, args, before) ==
    CASE x.tasks # {} -> x.tasks
      [] x.tasks = {} /\ args = {} -> Tasks
      [] x.tasks = {} /\ Stranger \in args -> before
      [] OTHER -> args

\* InitializeBarrier: a new instance, failed at once when an unknown task is
\* named or a non-recoverable participant is in error.
InitializeBarrier(s, b, counter, args, before) ==
    LET x == s.barriers[b]
        members == InitializeTasksAtBarrier(x, args, before)
        unknown == x.tasks = {} /\ Stranger \in args
        fresh == [s EXCEPT !.barriers[b] =
                    [x EXCEPT !.named = TRUE, !.counter = counter, !.passed = FALSE,
                              !.result = "UNKNOWN", !.calls = {}, !.tasks = members,
                              !.at = {},
                              !.pending = IF unknown THEN @ ELSE Cardinality(members)]]
        broken == members \cap NonRecoverable(s) \cap InState(s, "ERROR")
    IN IF unknown THEN PassBarrierError(fresh, b, "INVALID_ARGUMENT")
       ELSE IF broken # {} THEN PassBarrierError(fresh, b, "INTERNAL")
       ELSE [fresh EXCEPT
                !.ongoing = @ \cup {b},
                !.cluster = [t \in Tasks |->
                    IF t \in members THEN [s.cluster[t] EXCEPT !.ongoing = @ \cup {b}]
                    ELSE s.cluster[t]]]

\* ValidateTaskArgs: participants are named consistently and include the caller.
ValidateTaskArgs(x, t, args) ==
    IF args = {} THEN x.tasks = Tasks ELSE x.tasks = args /\ t \in x.tasks

\* Mutant of RepeatBarrierResult: connects whatever the result was.
RepeatBarrierResultConnects(s, t, b) ==
    CASE b = Shutdown -> DisconnectTasks(s, {t})
      [] b = Register -> ConnectAfterBarrierPasses(s, {t})
      [] OTHER -> s

\* RepeatBarrierResult: an instance that has passed answers a repeated call.
RepeatBarrierResult(s, t, b) ==
    CASE b = Shutdown -> DisconnectTasks(s, {t})
      [] b = Register /\ s.barriers[b].result = "OK" -> ConnectAfterBarrierPasses(s, {t})
      [] OTHER -> s

\* Mutant of ReachBarrier: a repeated call counts again.
ReachBarrierCountsRepeats(s, t, b) ==
    LET x == s.barriers[b]
        arrived == [s EXCEPT !.barriers[b].at = @ \cup {t}, !.barriers[b].pending = @ - 1]
    IN IF x.pending # 1 THEN arrived
       ELSE PassBarrierOk([arrived EXCEPT !.unsynced = @ \ x.tasks], b)

\* ReachBarrier: the last participant to arrive passes the barrier.
ReachBarrier(s, t, b) ==
    LET x == s.barriers[b]
        arrived == [s EXCEPT !.barriers[b].at = @ \cup {t}, !.barriers[b].pending = @ - 1]
    IN IF t \in x.at THEN s
       ELSE IF x.pending # 1 THEN arrived
       ELSE PassBarrierOk([arrived EXCEPT !.unsynced = @ \ x.tasks], b)

\* AddBarrierCallback: an earlier callback of the same task is cancelled.
AddBarrierCallback(s, t, b) == [s EXCEPT !.barriers[b].calls = @ \cup {t}]

\* A call to instance `counter` of b from a recoverable task that restarted, b
\* having passed: it starts the next instance.
StartsAfterRestart(s, t, b, counter) ==
    /\ s.barriers[b].passed
    /\ t \in RecoverableTasks
    /\ counter = 0
    /\ b \notin Special

ShouldInitialize(s, t, b, counter) ==
    LET x == s.barriers[b] IN
    \/ BarrierIsUninitialized(x) /\ counter = 0
    \/ x.passed /\ counter = x.counter + 1
    \/ StartsAfterRestart(s, t, b, counter)

\* The part of BarrierAsyncLocked after the instance has been set up.
JoinBarrier(s, t, b, counter, args, isNew) ==
    LET called == AddBarrierCallback(s, t, b)
        x == called.barriers[b]
        mismatch == ~isNew /\ counter # x.counter /\ ~(t \in RecoverableTasks /\ counter = 0)
    IN CASE mismatch -> PassBarrierError(called, b, "INTERNAL")
         [] ~mismatch /\ ~ValidateTaskArgs(x, t, args) ->
              PassBarrierError(called, b, "INVALID_ARGUMENT")
         [] ~mismatch /\ ValidateTaskArgs(x, t, args) /\ x.passed ->
              RepeatBarrierResult(s, t, b)
         [] OTHER -> ReachBarrier(called, t, b)

\* BarrierAsyncLocked.
BarrierAsyncLocked(s, t, b, counter, args, before) ==
    IF ~ShouldInitialize(s, t, b, counter) THEN JoinBarrier(s, t, b, counter, args, FALSE)
    ELSE LET c == IF StartsAfterRestart(s, t, b, counter) THEN s.barriers[b].counter + 1
                  ELSE counter
             new == InitializeBarrier(s, b, c, args, before)
         IN IF new.barriers[b].passed THEN new
            ELSE JoinBarrier(new, t, b, c, args, TRUE)

-----------------------------------------------------------------------------
(* Handlers.  Each holds state_mu_ throughout unless it says otherwise.     *)

\* ConnectTask: a recoverable task leaves the barriers of its earlier life.
ConnectTask(s, t, inc) ==
    LET connected == ConnectTasks([s EXCEPT !.cluster[t].incarnation = inc], {t})
    IN IF ~s.cluster[t].recoverable THEN connected
       ELSE [LeaveRecoverable(connected, {t}) EXCEPT
                !.unsynced = IF LeaveOnRestart THEN @ \cup {t} ELSE @]

\* Mutant of RegisterAtBarrier: no SetTaskIncarnation.
RegisterAtBarrierKeepsIncarnation(s, t, inc) ==
    BarrierAsyncLocked([s EXCEPT !.captured[t] = inc], t, Register, 0, {}, {})

\* The register-barrier branch of RegisterTaskAsync.
RegisterAtBarrier(s, t, inc) ==
    LET isLate == s.cluster[t].recoverable /\ LeaveOnRestart /\ s.barriers[Register].passed
    IN BarrierAsyncLocked(
         [s EXCEPT !.cluster[t].incarnation = inc, !.captured[t] = inc,
                   !.unsynced = IF isLate THEN @ \cup {t} ELSE @],
         t, Register, 0, {}, {})

\* A disconnected task may connect, and one that lost its connection may come back
\* if it is recoverable or the service is configured to let it.
MayConnect(task) ==
    \/ task.state = "DISCONNECTED"
    \/ /\ AllowReconnect \/ task.recoverable
       /\ task.status = "UNAVAILABLE"

\* Mutant of MayRepeat: the incarnation is not compared.
MayRepeatAnyIncarnation(task, inc) == task.state = "CONNECTED"

\* A connected task repeats its registration; a recoverable one may have restarted.
MayRepeat(task, inc) ==
    /\ task.state = "CONNECTED"
    /\ task.incarnation = inc \/ task.recoverable

\* RegisterTaskAsync.  A task connects when it is disconnected, when it may come
\* back from a lost connection, or when it repeats its own registration; in any
\* other case it is set to error.
RegisterTaskAsync(t, inc) ==
    LET s == [svc EXCEPT !.cluster[t].recoverable = (t \in RecoverableTasks)]
        task == s.cluster[t]
    IN /\ ~svc.stopped
       /\ \/ /\ MayConnect(task) /\ RegisterWithBarrier
             /\ svc' = RegisterAtBarrier(s, t, inc)
          \/ /\ MayRepeat(task, inc) \/ (MayConnect(task) /\ ~RegisterWithBarrier)
             /\ svc' = ConnectTask(s, t, inc)
          \/ /\ ~MayConnect(task) /\ ~MayRepeat(task, inc)
             /\ svc' = FailTasks(s, {t}, "OTHER")
       /\ UNCHANGED <<snapshot, shutdownArgs>>

\* BarrierAsync of a user barrier.
BarrierAsync(t, b, counter, args) ==
    /\ ~svc.stopped
    /\ StartsAfterRestart(svc, t, b, counter) => svc.barriers[b].counter < MaxCounter
    /\ \E before \in IF Stranger \in args THEN SUBSET (args \cap Tasks) ELSE {{}} :
          svc' = BarrierAsyncLocked(svc, t, b, counter, args, before)
    /\ UNCHANGED <<snapshot, shutdownArgs>>

\* CancelBarrier: only the present instance, and only while it has not passed.
\* An id nobody has used yet can be cancelled too.
CancelBarrier(b, counter) ==
    /\ ~svc.stopped
    /\ svc.barriers[b].counter = counter
    /\ ~svc.barriers[b].passed
    /\ svc' = PassBarrierError(svc, b, "CANCELLED")
    /\ UNCHANGED <<snapshot, shutdownArgs>>

\* ShutdownTaskAsync.  Tasks that use no shutdown barrier disconnect at once.
ShutdownTaskAsync(t) ==
    /\ ~svc.stopped
    /\ ~ShutdownWithBarrier \/ t \in RecoverableTasks
    /\ svc' = DisconnectTasks(svc, {t})
    /\ UNCHANGED <<snapshot, shutdownArgs>>

\* The others first read the participants under their own lock
\* (GetTasksForShutdownBarrier, which keeps the first non-empty result) ...
GetTasksForShutdownBarrier(t) ==
    LET tasks == IF svc.shutdownTasks = {} THEN NonRecoverable(svc) ELSE svc.shutdownTasks
    IN /\ ~svc.stopped
       /\ ShutdownWithBarrier /\ t \notin RecoverableTasks
       /\ svc' = [svc EXCEPT !.shutdownTasks = tasks]
       /\ shutdownArgs' = [shutdownArgs EXCEPT ![t] = tasks]
       /\ UNCHANGED snapshot

\* ... and then call the barrier under another.
ShutdownBarrier(t) ==
    /\ ~svc.stopped
    /\ shutdownArgs[t] # {}
    /\ svc' = BarrierAsyncLocked(svc, t, Shutdown, 0, shutdownArgs[t], {})
    /\ shutdownArgs' = [shutdownArgs EXCEPT ![t] = {}]
    /\ UNCHANGED snapshot

\* ResetTask.
ResetTask(t) ==
    /\ ~svc.stopped
    /\ svc' = DisconnectTasks(svc, {t})
    /\ UNCHANGED <<snapshot, shutdownArgs>>

\* IsDisconnectedBeyondGracePeriod.
IsDisconnectedBeyondGracePeriod(t) ==
    svc.cluster[t].state = "DISCONNECTED" /\ ~svc.cluster[t].grace

\* RecordHeartbeat changes the modelled state only when the incarnation is not
\* the task's: a non-recoverable task has restarted and is set to error.
RecordHeartbeat(t, inc) ==
    /\ ~svc.stopped
    /\ svc.cluster[t].status = "OK"
    /\ ~IsDisconnectedBeyondGracePeriod(t)
    /\ svc.cluster[t].incarnation # inc
    /\ ~svc.cluster[t].recoverable
    /\ svc' = FailTasks(svc, {t}, "OTHER")
    /\ UNCHANGED <<snapshot, shutdownArgs>>

\* ReportTaskError.
ReportTaskError(t, code) ==
    /\ ~svc.stopped
    /\ svc.cluster[t].state = "CONNECTED"
    /\ svc' = FailTasks(svc, {t}, code)
    /\ UNCHANGED <<snapshot, shutdownArgs>>

\* PollForErrorAsync: the first poll switches the service to error polling, also
\* when the poll itself is refused; a poll after the response is answered at once.
PollForErrorAsync(t) ==
    LET accepted == /\ ~IsDisconnectedBeyondGracePeriod(t)
                    /\ svc.cluster[t].state # "ERROR"
                    /\ ~svc.responded
    IN /\ ~svc.stopped
       /\ svc' = [svc EXCEPT !.polling = TRUE,
                             !.polls = IF accepted THEN @ \cup {t} ELSE @]
       /\ UNCHANGED <<snapshot, shutdownArgs>>

\* GetAliveTasksAsync(t, T): join the pending query for the same set of tasks, or
\* start it, and answer it if every alive task has joined.  It does not look at
\* shutting_down_.
GetAliveTasksAsync(t, T) ==
    LET same == {a \in svc.aliveness : a.tasks = T}
        joined == [tasks |-> T, in_barrier |-> {t} \cup UNION {a.in_barrier : a \in same}]
        isDone == AliveTasks(svc, T) \subseteq joined.in_barrier
    IN /\ t \in T
       /\ svc' = [svc EXCEPT !.aliveness =
                     (@ \ same) \cup IF isDone THEN {} ELSE {joined}]
       /\ UNCHANGED <<snapshot, shutdownArgs>>

\* Stop(): barriers that have not passed fail, then barriers and cluster state
\* are erased and the polls are cancelled.  Pending GetAliveTasks calls are
\* answered only if a failing register or shutdown barrier takes all tasks to
\* error first.
Stop ==
    /\ ~svc.stopped
    /\ svc' = [svc EXCEPT
                 !.stopped = TRUE,
                 !.barriers = [b \in BarrierIds |-> FreshBarrier],
                 !.ongoing = {},
                 !.cluster = [t \in Tasks |-> FreshTask],
                 !.responded = svc.polling \/ @,
                 !.polls = IF svc.polling THEN {} ELSE @,
                 !.aliveness = IF svc.ongoing \cap Special = {} THEN @ ELSE {}]
    /\ UNCHANGED <<snapshot, shutdownArgs>>

-----------------------------------------------------------------------------
(* Time, and the check thread (CheckStaleness).                             *)

\* A disconnected task's grace period ends.
GracePeriodEnds(t) ==
    /\ svc.cluster[t].grace
    /\ svc' = [svc EXCEPT !.cluster[t].grace = FALSE]
    /\ UNCHANGED <<snapshot, shutdownArgs>>

\* CheckHeartbeatTimeout finds the connected tasks of S stale.  Once one of them
\* fails the shutdown barrier no task is connected any more, so the loop finds
\* at most one such task.
CheckHeartbeatTimeout(S) ==
    /\ ~svc.stopped /\ ~snapshot.held
    /\ S # {}
    /\ S \subseteq InState(svc, "CONNECTED")
    /\ \A t, u \in S : Failing(svc, {t}) \cap Failing(svc, {u}) \cap Special # {} => t = u
    /\ svc' = FailTasks(svc, S, "UNAVAILABLE")
    /\ UNCHANGED <<snapshot, shutdownArgs>>

\* CheckBarrierTimeout finds the barriers of X past their deadline.  Those of
\* `late` are visited after a register or shutdown barrier of X.
CheckBarrierTimeout(X, late) ==
    LET first == EndBarriers(svc, X \ late, "DEADLINE_EXCEEDED") IN
    /\ ~svc.stopped /\ ~snapshot.held
    /\ X # {}
    /\ X \subseteq svc.ongoing
    /\ late \subseteq X \ Special
    /\ svc' = EndBarriers(AfterFailure(first, X \ late), late, "DEADLINE_EXCEEDED")
    /\ UNCHANGED <<snapshot, shutdownArgs>>

\* First lock of CheckBarrierStatusWithRecoverableTasks
\* (GetCountOfOutOfSyncTasksPerBarrier): count, per ongoing barrier, the
\* unsynced participants that are not at it.
GetCountOfOutOfSyncTasksPerBarrier ==
    /\ ~svc.stopped /\ ~snapshot.held
    /\ LeaveOnRestart
    /\ snapshot' = [held |-> TRUE,
                    count |-> [b \in BarrierIds |->
                       IF b \notin svc.ongoing THEN 0
                       ELSE Cardinality((svc.barriers[b].tasks \ svc.barriers[b].at)
                                           \cap svc.unsynced)]]
    /\ UNCHANGED <<svc, shutdownArgs>>

\* Mutant of ReadyBarriers: the out-of-sync tasks are not discounted.
ReadyBarriersCountAll == {b \in svc.ongoing : svc.barriers[b].pending = 0}

\* The ongoing barriers whose pending tasks number what was counted.
ReadyBarriers == {b \in svc.ongoing : svc.barriers[b].pending = snapshot.count[b]}

\* Second lock: the barriers that are ready pass.  The tasks that restarted during
\* such a barrier exit it and their callbacks are erased, uncalled.  The register barrier is
\* never ready here: no task is unsynced before it has passed.
CheckBarrierStatusWithRecoverableTasks ==
    LET P == ReadyBarriers
        excluded == [svc EXCEPT !.barriers = [b \in BarrierIds |->
                        LET x == svc.barriers[b] IN
                        IF b \in P
                        THEN [x EXCEPT !.pending = @ - Cardinality(x.restarted \ x.at),
                                       !.calls = @ \ x.restarted,
                                       !.restarted = {}]
                        ELSE x]]
    IN /\ ~svc.stopped /\ snapshot.held
       /\ svc' = LET ended == EndBarriers(excluded, P, "OK")
                 IN IF Shutdown \in P THEN DisconnectTasks(ended, NonRecoverable(svc))
                    ELSE ended
       /\ snapshot' = NoSnapshot
       /\ UNCHANGED shutdownArgs

-----------------------------------------------------------------------------
TaskCalls(t) ==
    \/ \E inc \in Incarnations : RegisterTaskAsync(t, inc) \/ RecordHeartbeat(t, inc)
    \/ \E b \in UserBarriers, c \in Counters, args \in BarrierArgs : BarrierAsync(t, b, c, args)
    \/ ShutdownTaskAsync(t)
    \/ GetTasksForShutdownBarrier(t)
    \/ ShutdownBarrier(t)
    \/ ResetTask(t)
    \/ \E code \in {"UNAVAILABLE", "OTHER"} : ReportTaskError(t, code)
    \/ t \in Pollers /\ PollForErrorAsync(t)
    \/ \E T \in AliveArgs : GetAliveTasksAsync(t, T)

ServiceSteps ==
    \/ \E t \in Tasks : GracePeriodEnds(t)
    \/ \E S \in SUBSET Tasks : CheckHeartbeatTimeout(S)
    \/ \E X \in SUBSET BarrierIds : \E late \in SUBSET X : CheckBarrierTimeout(X, late)
    \/ GetCountOfOutOfSyncTasksPerBarrier
    \/ CheckBarrierStatusWithRecoverableTasks
    \/ \E b \in UserBarriers, c \in Counters : CancelBarrier(b, c)
    \/ Stop

Next == (\E t \in Tasks : TaskCalls(t)) \/ ServiceSteps

Spec == Init /\ [][Next]_vars

-----------------------------------------------------------------------------
(* Properties.                                                              *)

\* What the service's records say of barrier b when they agree.
Book(s, b) ==
    LET x == s.barriers[b] IN
    /\ b \in s.ongoing <=> x.named /\ ~x.passed
    /\ \A t \in Tasks : b \in s.cluster[t].ongoing <=> b \in s.ongoing /\ t \in x.tasks
    /\ x.at \subseteq x.tasks
    /\ b \in s.ongoing => x.pending = Cardinality(x.tasks \ x.at) /\ x.tasks # x.at
    /\ x.calls \subseteq x.at
    /\ x.calls # {} => b \in s.ongoing
    /\ ~x.named => x.counter = 0 /\ x.pending = 0 /\ x.tasks = {}

\* The three books the service keeps about barriers agree: ongoing_barriers_ has
\* the instances that have started and not passed; a task's ongoing set has the
\* ongoing barriers it takes part in; num_pending_tasks counts the participants
\* that are not at the barrier.  Only those at an ongoing barrier wait for it.
BarrierBooks == \A b \in BarrierIds : Book(svc, b)

\* A barrier that passed OK was reached by every participant since they last left
\* it: no recoverable task that left is taken for arrived.
OkMeansEveryoneArrived ==
    \A b \in BarrierIds : svc.barriers[b].result = "OK" =>
        svc.barriers[b].tasks = svc.barriers[b].at

\* No barrier is left waiting for a non-recoverable task that is in error.
NoWaitForFailedTask ==
    \A b \in svc.ongoing : \A t \in svc.barriers[b].tasks :
        svc.cluster[t].state = "ERROR" => svc.cluster[t].recoverable

\* When a task that is not recoverable fails, everybody hears of it: either the
\* pollers are answered or no task stays connected.
ErrorsAreHeard ==
    [][\A t \in Tasks :
         /\ svc.cluster[t].state # "ERROR" /\ svc'.cluster[t].state = "ERROR"
         /\ ~AllTasksAreRecoverable(svc', {t})
         => \/ svc'.responded /\ svc'.polls = {}
            \/ InState(svc', "CONNECTED") = {}]_vars

\* A pending liveness query is waiting for a task that is alive: every step that
\* takes a task out of CONNECTED answers the queries it blocked.
AlivenessNotStuck ==
    \A a \in svc.aliveness :
        svc.stopped \/ ~(AliveTasks(svc, a.tasks) \subseteq a.in_barrier)

\* A connected non-recoverable task is never replaced by another incarnation of
\* itself unnoticed.
RestartIsNoticed ==
    [][\A t \in Tasks :
         /\ svc.cluster[t].state = "CONNECTED" /\ svc'.cluster[t].state = "CONNECTED"
         /\ t \notin RecoverableTasks
         => svc'.cluster[t].incarnation = svc.cluster[t].incarnation]_vars

\* With a register barrier no task is connected before all have registered, and
\* after a failed registration none ever is.
ConnectedTogether ==
    RegisterWithBarrier /\ InState(svc, "CONNECTED") # {} =>
        svc.barriers[Register].passed /\ svc.barriers[Register].result = "OK"

\* A registration waiting at the register barrier is that of the task's newest
\* incarnation.
NewestIncarnationWaits ==
    \A t \in svc.barriers[Register].calls : svc.captured[t] = svc.cluster[t].incarnation

\* The shutdown barrier ends for all or for none: every non-recoverable task is
\* disconnected when it passes, every task is in error when it fails.
ShutdownIsAllOrNothing ==
    [][LET x == svc.barriers[Shutdown]
           y == svc'.barriers[Shutdown]
       IN ~x.passed /\ y.passed =>
            \/ y.result = "OK" /\ NonRecoverable(svc') \subseteq InState(svc', "DISCONNECTED")
            \/ y.result # "OK" /\ InState(svc', "ERROR") = Tasks]_vars

\* The check thread goes round its loop.
FairCheckSpec ==
    /\ Spec
    /\ WF_vars(GetCountOfOutOfSyncTasksPerBarrier)
    /\ WF_vars(CheckBarrierStatusWithRecoverableTasks)

\* Barrier b waits for out-of-sync tasks only.
Blocked(b) ==
    b \in svc.ongoing /\ svc.barriers[b].tasks \ svc.barriers[b].at \subseteq svc.unsynced

\* Restarted tasks do not block the others: a barrier that waits for out-of-sync
\* tasks only does not do so for ever, whatever its deadline.
UnsyncedDoNotBlock ==
    \A b \in BarrierIds : Blocked(b) ~> ~Blocked(b)

\* The deadline of an ongoing barrier passes and the check thread, which runs every
\* second, finds it.
BarrierExpires(b) ==
    \E X \in SUBSET BarrierIds : \E late \in SUBSET X : b \in X /\ CheckBarrierTimeout(X, late)

\* The calls at b that a callback will answer.  With the flag
\* leave_barriers_on_recoverable_agent_restart the check thread erases, uncalled, those of
\* tasks marked as restarted during b.
Answerable(s, b) == s.barriers[b].calls \ s.barriers[b].restarted

\* A call to a barrier by a task that has not restarted during it is answered in the end,
\* if deadlines pass: all calls of the barrier leave the table, and until then none is
\* marked so that the check thread would drop its callback instead of calling it.
CallsAnswered ==
    /\ [][\A b \in BarrierIds :
            Answerable(svc, b) \cap svc'.barriers[b].calls \subseteq Answerable(svc', b)]_vars
    /\ (\A b \in BarrierIds : SF_vars(BarrierExpires(b)))
         => \A b \in BarrierIds : Answerable(svc, b) # {} ~> svc.barriers[b].calls = {}

=============================================================================
