--------------------------- MODULE ThunkExecutor ---------------------------
(***************************************************************************)
(* The thunk executor of the CPU backend                                   *)
(* (xla/backends/cpu/runtime/thunk_executor.cc): workers take nodes of the *)
(* execution graph from their ready queues, execute the thunks, and count  *)
(* down the nodes behind their out-edges.  A thunk may complete later, in  *)
(* another thread, which continues as a worker.  Who drops pending_nodes   *)
(* to zero sets the execute event.  The sequence may also be executed      *)
(* thunk by thunk (ExecuteSequential).                                     *)
(***************************************************************************)
EXTENDS ExecutionGraph, SequencesExt

CONSTANTS
    HasRunner,          \* params.task_runner is set
    MayBlock,           \* the thunks whose ExecuteMayBlock is true
    Executed,           \* the programs that are executed; the others are only built
    QueueTypes,         \* the queues to choose from: "fifo", "lifo", "priority"
    PreferSequential,   \* the heuristics of the constructor choose sequential execution
    MaxWorkers, SplitThreshold,
    Outcomes            \* what a thunk may do: "now", "later" (complete), "fail"

ASSUME ExecutorAssumption ==
    /\ {HasRunner, PreferSequential} \subseteq BOOLEAN
    /\ MayBlock \subseteq Nodes
    /\ Executed \subseteq Programs
    /\ QueueTypes \subseteq {"fifo", "lifo", "priority"} /\ QueueTypes # {}
    /\ MaxWorkers \in Nat /\ SplitThreshold \in Nat
    /\ Outcomes \subseteq {"now", "later", "fail"}

Pending == -2
Ok == -1

VARIABLES
    ready_queue_type,   \* of the options
    counter,        \* node |-> Node::counter
    pending_nodes,
    abort,
    abort_status,   \* Ok or the thunk whose error was stored first
    event,          \* execute_event: Pending, Ok or the thunk whose error it carries
    workers,        \* the calls of Execute and the continuations in progress
    thunk           \* node |-> "idle", "running", "ok", "failed"

execVars == <<ready_queue_type, counter, pending_nodes, abort, abort_status, event, workers, thunk>>
vars == <<ops, edges, source, todo, via, stack, visited, priority, stage,
          ready_queue_type, counter, pending_nodes, abort, abort_status, event, workers,
          thunk>>

\* What no worker changes.
setting == <<graphVars, ready_queue_type>>

\* A call of Execute: where it is, the ready queue, the node in hand, the out-edges it
\* has not processed, whether it drops pending_nodes, whether it holds a session lock.
Worker(at, queue, node, out, drop, lock) ==
    [at |-> at, queue |-> queue, node |-> node, out |-> out, drop |-> drop, lock |-> lock]

\* A worker that has nothing left returns.
Loop(w) ==
    IF w.queue = <<>> THEN {} ELSE {Worker("pop", w.queue, 0, {}, FALSE, w.lock)}

\* Worker w becomes the workers of new.
Replace(w, new) == workers' = (workers \ {w}) \cup new

Goto(w, at) == Replace(w, {[w EXCEPT !.at = at]})

\* ExecuteSession::num_workers: the copies of the lock that are held.
NumWorkers == Cardinality({w \in workers : w.lock})

-----------------------------------------------------------------------------
(* Ready queues *)

\* The queue in the order in which Pop takes the nodes.  Nodes of one priority come
\* out of std::priority_queue in an order of its own; here in the order of their ids.
Precedes(a, b) ==
    priority[a] > priority[b] \/ (priority[a] = priority[b] /\ a < b)

\* How many nodes of the queue come out before n.
Ahead(queue, n) ==
    CASE ready_queue_type = "fifo" -> Len(queue)
      [] ready_queue_type = "lifo" -> 0
      [] ready_queue_type = "priority" ->
            Cardinality({k \in 1..Len(queue) : Precedes(queue[k], n)})

Push(queue, n) == InsertAt(queue, Ahead(queue, n) + 1, n)

Comes(a, b) ==
    CASE ready_queue_type = "fifo" -> a < b
      [] ready_queue_type = "lifo" -> a > b
      [] ready_queue_type = "priority" -> Precedes(a, b)

\* The constructor with the ready nodes in ascending order: the node that comes out after
\* k - 1 others is at place k.
QueueOf(ns) ==
    [k \in 1..Cardinality(ns) |->
        CHOOSE n \in ns : Cardinality({m \in ns : Comes(m, n)}) = k - 1]

\* How many nodes PopHalf leaves in the queue: a Lifo queue gives away one more than half.
Kept(queue) ==
    LET size == Len(queue) IN
    IF ready_queue_type = "lifo" THEN size - (size \div 2 + 1) ELSE size \div 2

HalfFrom(queue, k) == SubSeq(queue, k, Len(queue))

\* PopHalf: the nodes it takes away.
PoppedHalf(queue) == HalfFrom(queue, Kept(queue) + 1)

-----------------------------------------------------------------------------
Init ==
    /\ GraphInit
    /\ ready_queue_type \in QueueTypes
    /\ counter = [n \in Nodes |-> 0]
    /\ pending_nodes = 0
    /\ abort = FALSE /\ abort_status = Ok
    /\ event = Pending
    /\ workers = {}
    /\ thunk = [n \in Nodes |-> "idle"]

Build == GraphNext /\ UNCHANGED execVars

Sequential == PreferSequential \/ IsSequential \/ N = 1

\* Execute(params): the state of the execution, and the main thread as the first worker.
Start ==
    /\ stage = "built" /\ ops \in Executed
    /\ stage' = "execute"
    /\ counter' = [n \in Nodes |-> Cardinality(In(n))]
    /\ pending_nodes' = Cardinality(SinkNodes)
    /\ workers' = {IF Sequential THEN Worker("next", <<>>, 0, {}, FALSE, FALSE)
                   ELSE Worker("pop", QueueOf(SourceNodes), 0, {}, FALSE, FALSE)}
    /\ UNCHANGED <<ops, edges, source, todo, via, stack, visited, priority, ready_queue_type,
                   abort, abort_status, event, thunk>>

\* Execute takes a node from its queue.
Pop(w) ==
    /\ w.at = "pop"
    /\ LET rest == Tail(w.queue) IN
       Replace(w, {[w EXCEPT !.node = Head(w.queue), !.queue = rest,
                        !.at = IF Len(rest) > SplitThreshold /\ HasRunner
                               THEN "split" ELSE "load"]})
    /\ UNCHANGED <<setting, counter, pending_nodes, abort, abort_status, event, thunk>>

\* SplitReadyQueue: TryJoin compares the number of workers with its limit ...
TryJoin(w) ==
    /\ w.at = "split"
    /\ Goto(w, IF Len(w.queue) > SplitThreshold /\ NumWorkers < MaxWorkers
               THEN "launch" ELSE "load")
    /\ UNCHANGED <<setting, counter, pending_nodes, abort, abort_status, event, thunk>>

\* ... and then, in a step of its own, half of the queue goes to the task runner.
Launch(w) ==
    /\ w.at = "launch"
    /\ Replace(w, {[w EXCEPT !.at = "split", !.queue = SubSeq(@, 1, Kept(@))]}
                    \cup Loop(Worker("launch", PoppedHalf(w.queue), 0, {}, FALSE, TRUE)))
    /\ UNCHANGED <<setting, counter, pending_nodes, abort, abort_status, event, thunk>>

\* A thunk that may block leaves this worker while there are other ready nodes.
Offloads(w) == w.node \in MayBlock /\ w.queue # <<>> /\ HasRunner

Offload(w) ==
    /\ w.at = "load"
    /\ Offloads(w)
    /\ Replace(w, Loop(w) \cup {Worker("pop", <<w.node>>, 0, {}, FALSE, TRUE)})
    /\ UNCHANGED <<setting, counter, pending_nodes, abort, abort_status, event, thunk>>

IsSink(n) == Out(n) = {}

\* After the out-edges: the pending nodes are dropped, or the worker goes on.
AfterEdges(w) ==
    IF w.out # {} THEN {[w EXCEPT !.at = "edges"]}
    ELSE IF w.drop THEN {[w EXCEPT !.at = "drop"]}
    ELSE Loop(w)

\* ProcessCompletedOutEdges is entered for edges es; an error is recorded first.
Completed(w, es, drop) ==
    LET c == [w EXCEPT !.out = es, !.drop = drop] IN
    IF thunk[w.node] = "failed" THEN {[c EXCEPT !.at = "error"]} ELSE AfterEdges(c)

\* Once the execution is aborted the nodes are processed without their thunks.
Skip(w) ==
    /\ w.at = "load" /\ abort
    /\ ~Offloads(w)
    /\ Replace(w, AfterEdges([w EXCEPT !.out = Out(w.node), !.drop = IsSink(w.node)]))
    /\ UNCHANGED <<setting, counter, pending_nodes, abort, abort_status, event, thunk>>

Load(w) ==
    /\ w.at = "load" /\ ~abort
    /\ ~Offloads(w)
    /\ Goto(w, "execute")
    /\ UNCHANGED <<setting, counter, pending_nodes, abort, abort_status, event, thunk>>

\* Thunk::Execute begins.
Execute(w) ==
    /\ w.at = "execute"
    /\ thunk' = [thunk EXCEPT ![w.node] = "running"]
    /\ Goto(w, "executing")
    /\ UNCHANGED <<setting, counter, pending_nodes, abort, abort_status, event>>

SchedulingEdges(n) == {e \in Out(n) : e.kind = kScheduling}

ExecutionEdges(n) == {e \in Out(n) : e.kind = kExecution}

\* A thunk completes, inside Thunk::Execute or after it has returned.
Complete(n) ==
    /\ thunk[n] = "running"
    /\ \/ thunk' = [thunk EXCEPT ![n] = "ok"]
       \/ "fail" \in Outcomes /\ thunk' = [thunk EXCEPT ![n] = "failed"]
    /\ UNCHANGED <<setting, counter, pending_nodes, abort, abort_status, event, workers>>

\* Thunk::Execute returns an event that is available ...
ReturnNow(w) ==
    /\ w.at = "executing"
    /\ thunk[w.node] # "running"
    /\ Replace(w, Completed(w, Out(w.node), IsSink(w.node)))
    /\ UNCHANGED <<setting, counter, pending_nodes, abort, abort_status, event, thunk>>

\* ... or not yet.
ReturnLater(w) ==
    /\ w.at = "executing"
    /\ thunk[w.node] = "running"
    /\ "later" \in Outcomes
    /\ Goto(w, "scheduled")
    /\ UNCHANGED <<setting, counter, pending_nodes, abort, abort_status, event, thunk>>

\* Mutant of IncrementsPending: a thunk still running is not counted.
IncrementsPendingNever(n) == FALSE

\* inc_pending_nodes: a node with scheduling edges that has not completed is pending.
IncrementsPending(n) == SchedulingEdges(n) # {}

\* ProcessScheduledOutEdges, until the first edge.
Scheduled(w) ==
    /\ w.at = "scheduled"
    /\ pending_nodes' = pending_nodes + (IF IncrementsPending(w.node) THEN 1 ELSE 0)
    /\ Replace(w, {[w EXCEPT !.at = IF SchedulingEdges(w.node) = {} THEN "attach" ELSE "sched",
                             !.out = SchedulingEdges(w.node)]})
    /\ UNCHANGED <<setting, counter, abort, abort_status, event, thunk>>

\* Out-edges are processed in the order of the nodes they lead to.
NextEdge(es) == CHOOSE e \in es : IsFirst(e, es)

\* The counter behind an out-edge is dropped; a node whose counter was one is ready.
CountDown(e) == counter' = [counter EXCEPT ![e.to] = @ - 1]

Pushed(queue, e) == IF counter[e.to] = 1 THEN Push(queue, e.to) ELSE queue

ScheduledEdge(w) ==
    /\ w.at = "sched"
    /\ LET e == NextEdge(w.out)
           rest == w.out \ {e}
       IN /\ CountDown(e)
          /\ Replace(w, {[w EXCEPT !.queue = Pushed(w.queue, e), !.out = rest,
                                   !.at = IF rest = {} THEN "attach" ELSE "sched"]})
    /\ UNCHANGED <<setting, pending_nodes, abort, abort_status, event, thunk>>

\* Mutant of DropsPending: the increment is not taken back.
DropsPendingSink(n) == IsSink(n)

\* drop_pending_nodes of a node that completes later.
DropsPending(n) == IsSink(n) \/ IncrementsPending(n)

\* AndThen: the continuation takes the lock along if this worker has nothing left to do.
Attach(w) ==
    /\ w.at = "attach"
    /\ Replace(w, Loop(w) \cup {Worker("waiting", <<>>, w.node, {}, DropsPending(w.node),
                                       IF w.queue = <<>> THEN w.lock ELSE TRUE)})
    /\ UNCHANGED <<setting, counter, pending_nodes, abort, abort_status, event, thunk>>

\* The continuation runs when the thunk has completed.
Resume(w) ==
    /\ w.at = "waiting"
    /\ thunk[w.node] # "running"
    /\ Replace(w, Completed(w, ExecutionEdges(w.node), w.drop))
    /\ UNCHANGED <<setting, counter, pending_nodes, abort, abort_status, event, thunk>>

\* Status::Update keeps the first error.
FirstError(n) == IF abort_status = Ok THEN n ELSE abort_status

Error(w) ==
    /\ w.at = "error"
    /\ abort' = TRUE
    /\ abort_status' = FirstError(w.node)
    /\ Replace(w, AfterEdges(w))
    /\ UNCHANGED <<setting, counter, pending_nodes, event, thunk>>

CompletedEdge(w) ==
    /\ w.at = "edges"
    /\ LET e == NextEdge(w.out) IN
       /\ CountDown(e)
       /\ Replace(w, AfterEdges([w EXCEPT !.queue = Pushed(w.queue, e), !.out = @ \ {e}]))
    /\ UNCHANGED <<setting, pending_nodes, abort, abort_status, event, thunk>>

Drop(w) ==
    /\ w.at = "drop"
    /\ pending_nodes' = pending_nodes - 1
    /\ Replace(w, IF pending_nodes = 1 THEN {[w EXCEPT !.at = "done"]} ELSE Loop(w))
    /\ UNCHANGED <<setting, counter, abort, abort_status, event, thunk>>

\* Who dropped the last one sets the event, with the stored error if there is one.
Done(w) ==
    /\ w.at = "done"
    /\ event' = IF abort THEN abort_status ELSE Ok
    /\ Replace(w, Loop(w))
    /\ UNCHANGED <<setting, counter, pending_nodes, abort, abort_status, thunk>>

-----------------------------------------------------------------------------
(* ExecuteSequential and ResumeExecuteSequential: w.node is the iterator. *)

NextThunk(w) ==
    /\ w.at = "next"
    /\ \/ w.node = N /\ event' = Ok /\ Replace(w, {}) /\ UNCHANGED thunk
       \/ /\ w.node < N
          /\ thunk' = [thunk EXCEPT ![w.node] = "running"]
          /\ Goto(w, "waits")
          /\ UNCHANGED event
    /\ UNCHANGED <<setting, counter, pending_nodes, abort, abort_status>>

\* The thunk has completed, before Execute returned or in its continuation.
AfterThunk(w) ==
    /\ w.at = "waits"
    /\ thunk[w.node] # "running"
    /\ IF thunk[w.node] = "failed"
       THEN event' = w.node /\ Replace(w, {})
       ELSE Replace(w, {[w EXCEPT !.at = "next", !.node = @ + 1]}) /\ UNCHANGED event
    /\ UNCHANGED <<setting, counter, pending_nodes, abort, abort_status, thunk>>

-----------------------------------------------------------------------------
WorkerStep(w) ==
    \/ Pop(w) \/ TryJoin(w) \/ Launch(w) \/ Offload(w) \/ Skip(w) \/ Load(w) \/ Execute(w)
    \/ ReturnNow(w) \/ ReturnLater(w) \/ Scheduled(w) \/ ScheduledEdge(w) \/ Attach(w)
    \/ Resume(w) \/ Error(w) \/ CompletedEdge(w) \/ Drop(w) \/ Done(w)
    \/ NextThunk(w) \/ AfterThunk(w)

Next ==
    \/ Build \/ Start
    \/ \E w \in workers : WorkerStep(w)
    \/ \E n \in Nodes : Complete(n)

\* Every worker has returned, or the graph is built and never executed.
Returned ==
    /\ \/ stage = "execute" /\ workers = {}
       \/ stage = "built" /\ ops \notin Executed
    /\ UNCHANGED vars

Spec == Init /\ [][Next \/ Returned]_vars

\* Threads that have work run on, and thunks complete.
FairSpec == Spec /\ WF_vars(Next)

-----------------------------------------------------------------------------
(* Properties *)

\* The event is set last: from then on no worker is left that could touch the parameters
\* of the execution, which the caller is free to destroy, and nothing is pending.
QuietOnceDone == event # Pending => workers = {} /\ \A n \in Nodes : thunk[n] # "running"

\* The earlier nodes that n conflicts with by an edge of that kind.
Conflicts(n, kind) == {e.from : e \in {c \in ConflictEdges : c.to = n /\ c.kind = kind}}

With(state) == {n \in Nodes : thunk[n] = state}

Ordered == INSTANCE OrderedExecution WITH
    waits <- [n \in Nodes |-> Conflicts(n, kExecution)],
    follows <- [n \in Nodes |-> Conflicts(n, kScheduling)],
    running <- With("running"), succeeded <- With("ok"), failed <- With("failed"),
    outcome <- event

\* The execution does what OrderedExecution promises: thunks with a buffer or token
\* conflict run one after the other, and only on what earlier ones completed; thunks with
\* a communicator start in program order; the outcome is set once and tells of a failure.
OrderKeptInExecution == Ordered!Spec

\* The event is set in the end, whatever the thunks do and whoever runs them.
EventSet == stage = "execute" ~> event # Pending
=============================================================================
