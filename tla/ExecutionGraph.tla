--------------------------- MODULE ExecutionGraph ---------------------------
(***************************************************************************)
(* The execution graph of a sequence of operations                         *)
(* (xla/runtime/execution_graph.cc): Create turns the conflicts of buffer  *)
(* and resource uses into edges from earlier to later operations, a depth  *)
(* first search from every node erases the redundant ones and counts the   *)
(* nodes it reaches, which becomes the node's priority.                    *)
(***************************************************************************)
EXTENDS Integers, Sequences, FiniteSets

CONSTANTS
    N,              \* the number of operations
    Resources,
    IsToken,        \* resource |-> its kind is kToken, not kCollectiveCommunicator
    Programs,       \* the sequences of operations that Create is called with
    Times           \* the instants that Schedules range over

Nodes == 0..(N - 1)

kScheduling == 0
kExecution == 1
Kinds == {kScheduling, kExecution}

\* An edge of the graph, and NodeEdge: its kind and the node it leads to.
EdgeSet == [from : Nodes, to : Nodes, kind : Kinds]

\* What an operation reads and writes: buffer slices (sets of cells) and resources.
IsOperation(op) ==
    /\ DOMAIN op = {"read", "write", "rread", "rwrite"}
    /\ op.rread \subseteq Resources /\ op.rwrite \subseteq Resources

ASSUME GraphAssumption ==
    /\ N \in Nat \ {0}
    /\ IsToken \in [Resources -> BOOLEAN]
    /\ Times \subseteq Int
    /\ \A p \in Programs : DOMAIN p = Nodes /\ \A n \in Nodes : IsOperation(p[n])

VARIABLES
    ops,        \* the operations
    edges,      \* in_edges and out_edges of the builders
    source,     \* i: the node whose out-edges are being reduced, -1 at the end
    todo,       \* the out-edges of source (its copy) that have not been followed
    via,        \* out_edge, the one being followed
    stack,      \* TransitiveReductionDfsState::stack_, one set for each push
    visited,    \* TransitiveReductionDfsState::visited_
    priority,
    stage       \* "create", "reduce", "built"; then "execute" (ThunkExecutor)

graphVars == <<ops, edges, source, todo, via, stack, visited, priority, stage>>

-----------------------------------------------------------------------------
(* Conflicts *)

\* BufferUse::ReadWriteSet::HasConflicts: a slice overlaps one of a set.
Overlaps(set, slice) == \E s \in set : s = slice \/ s \cap slice # {}

BufferConflict(a, b) ==
    \/ \E s \in b.read : Overlaps(a.write, s)
    \/ \E s \in b.write : Overlaps(a.write, s) \/ Overlaps(a.read, s)

\* ResourceUse::ReadWriteSet::Conflicts.
ResourceConflicts(a, b) ==
    (b.rread \cap a.rwrite) \cup (b.rwrite \cap (a.rwrite \cup a.rread))

\* EdgeKind: one token is enough for an execution edge.
EdgeKind(resources) ==
    IF \E r \in resources : IsToken[r] THEN kExecution ELSE kScheduling

Conflict(a, b) == BufferConflict(a, b) \/ ResourceConflicts(a, b) # {}

ConflictKind(a, b) ==
    IF BufferConflict(a, b) THEN kExecution ELSE EdgeKind(ResourceConflicts(a, b))

ConflictEdge(j, i) == [from |-> j, to |-> i, kind |-> ConflictKind(ops[j], ops[i])]

\* The edges of the first loop of Create.
ConflictEdges ==
    {ConflictEdge(p[1], p[2]) :
        p \in {q \in Nodes \X Nodes : q[1] < q[2] /\ Conflict(ops[q[1]], ops[q[2]])}}

-----------------------------------------------------------------------------
Out(n) == {e \in edges : e.from = n}

In(n) == {e \in edges : e.to = n}

SourceNodes == {n \in Nodes : In(n) = {}}

SinkNodes == {n \in Nodes : Out(n) = {}}

\* is_sequential_: every node has an edge from the one before it.
IsSequential == \A n \in Nodes \ {0} : \E e \in In(n) : e.from = n - 1

\* Edges of one node are sorted by the node they lead to.
IsFirst(e, es) == e \in es /\ \A f \in es : e.to <= f.to

IsLast(e, es) == e \in es /\ \A f \in es : e.to >= f.to

NoEdge == [from |-> 0, to |-> 0, kind |-> kExecution]

GraphInit ==
    /\ ops \in Programs
    /\ edges = {} /\ source = N - 1 /\ todo = {} /\ via = NoEdge
    /\ stack = <<>> /\ visited = {}
    /\ priority = [n \in Nodes |-> 0]
    /\ stage = "create"

\* Create, for programs whose operations NodeId can number; it refuses longer ones.
Create ==
    /\ stage = "create"
    /\ stage' = "reduce"
    /\ edges' = ConflictEdges
    /\ todo' = {e \in ConflictEdges : e.from = N - 1}
    /\ UNCHANGED <<ops, source, via, stack, visited, priority>>

\* PushToStack(out_edges): those that lead to nodes not visited yet, as one batch.
PushToStack(st, es) == IF es = {} THEN st ELSE Append(st, es)

Unvisited(es, seen) == {e \in es : e.to \notin seen}

Targets(es) == {e.to : e \in es}

\* The next out-edge of the node is followed.
FollowEdge ==
    /\ stage = "reduce" /\ stack = <<>>
    /\ \E e \in todo :
        LET next == Unvisited(Out(e.to), visited \cup {e.to}) IN
        /\ IsFirst(e, todo)
        /\ via' = e
        /\ todo' = todo \ {e}
        /\ stack' = PushToStack(<<>>, next)
        /\ visited' = visited \cup {e.to} \cup Targets(next)
    /\ UNCHANGED <<ops, edges, source, priority, stage>>

\* PopFromStack: the newest batch without its last edge.
StackWithout(e) ==
    LET rest == stack[Len(stack)] \ {e}
        below == SubSeq(stack, 1, Len(stack) - 1)
    IN PushToStack(below, rest)

\* Mutant of ErasableKind: only the last edge of the path is looked at.
ErasableKindLastEdge(e, st) == e.kind

\* What an edge from source to a node found by the search may be and still be erased:
\* has_scheduling_edge looks at the first edge, the last one, and the whole stack.
ErasableKind(e, st) ==
    IF \/ via.kind = kScheduling
       \/ e.kind = kScheduling
       \/ \E k \in 1..Len(st) : \E f \in st[k] : f.kind = kScheduling
    THEN kScheduling ELSE kExecution

\* EraseEdge: an edge with a stronger ordering guarantee stays.
EraseEdge(from, to, kind) ==
    edges \ {e \in edges : e.from = from /\ e.to = to /\ e.kind <= kind}

\* One round of the search: the edge at the back of the stack is popped.
Visit ==
    /\ stage = "reduce" /\ stack # <<>>
    /\ \E e \in stack[Len(stack)] :
        LET rest == StackWithout(e)
            next == Unvisited(Out(e.to), visited)
        IN /\ IsLast(e, stack[Len(stack)])
           /\ edges' = EraseEdge(source, e.to, ErasableKind(e, rest))
           /\ stack' = PushToStack(rest, next)
           /\ visited' = visited \cup Targets(next)
    /\ UNCHANGED <<ops, source, todo, via, priority, stage>>

NumVisited == Cardinality(visited)

\* The out-edges of source are done: its priority is set, the node before it is next.
NextSource ==
    /\ stage = "reduce" /\ stack = <<>> /\ todo = {}
    /\ priority' = [priority EXCEPT ![source] = NumVisited]
    /\ source' = source - 1
    /\ todo' = Out(source - 1)
    /\ visited' = {}
    /\ stage' = IF source = 0 THEN "built" ELSE "reduce"
    /\ UNCHANGED <<ops, edges, via, stack>>

GraphNext == Create \/ FollowEdge \/ Visit \/ NextSource

GraphSpec == GraphInit /\ [][GraphNext]_graphVars

-----------------------------------------------------------------------------
(* Properties *)

\* When the nodes are executed: a start and an end for each.
Schedules == [start : [Nodes -> Times], end : [Nodes -> Times]]

\* The order that an edge asks for.
Meets(s, e) ==
    IF e.kind = kExecution THEN s.end[e.from] <= s.start[e.to]
                           ELSE s.start[e.from] <= s.start[e.to]

Respects(s, es) == \A e \in es : Meets(s, e)

\* A run of the operations, each of which ends after it starts, that respects the edges
\* that are left respects every conflict of Create: no execution that the reduced graph
\* allows is one the conflicts forbid.
SchedulesKept ==
    stage \in {"reduce", "built"} =>
        \A s \in Schedules :
            (\A n \in Nodes : s.start[n] <= s.end[n]) /\ Respects(s, edges) =>
                Respects(s, ConflictEdges)

=============================================================================
