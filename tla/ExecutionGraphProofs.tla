------------------------ MODULE ExecutionGraphProofs ------------------------
(***************************************************************************)
(* Proof that the transitive reduction of ExecutionGraph never weakens the *)
(* order of the operations, for any number of operations, any conflicts    *)
(* and any instants.  The reduction erases edges of a node while it relies *)
(* on others, some of which it has erased before; the argument is that an  *)
(* edge is implied by the edges of later nodes and the edges of the same   *)
(* node that lead no further than it does, and that what the search has    *)
(* found is implied by the edges of later nodes alone.                     *)
(*                                                                         *)
(* The rest is about the execution of the graph by ThunkExecutor.  Its     *)
(* counters and pending_nodes count what the workers have still to do, so  *)
(* that the event is set when nothing is left; and a thunk that starts has *)
(* all its edges behind it, hence all its conflicts, so that the executor  *)
(* implements OrderedExecution.                                            *)
(***************************************************************************)
EXTENDS ThunkExecutor, FiniteSetTheorems, SequenceTheorems, TLAPS

\* Schedules, at any instants, in which every operation ends after it starts.
Runs ==
    {s \in [start : [Nodes -> Int], end : [Nodes -> Int]] :
        \A n \in Nodes : s.start[n] <= s.end[n]}

\* The edges of the nodes after n.
Later(n) == {e \in edges : e.from > n}

\* The edges that imply edge c.
Below(c) == {e \in edges : e.from > c.from \/ (e.from = c.from /\ e.to <= c.to)}

OnStack(st) == UNION {st[k] : k \in 1..Len(st)}

Shape ==
    /\ stage \in {"reduce", "built"}
    /\ source \in Int
    /\ edges \subseteq ConflictEdges
    /\ todo \subseteq ConflictEdges
    /\ \A e \in todo : e.from = source
    /\ stack \in Seq(SUBSET ConflictEdges)

\* What the search has pushed starts after the node it set out from.
Found ==
    /\ stack # <<>> => via \in ConflictEdges /\ via.from = source
    /\ \A e \in OnStack(stack) :
        /\ via.to < e.to
        /\ \A s \in Runs : Respects(s, Later(source)) => s.start[via.to] <= s.start[e.to]

Implied == \A c \in ConflictEdges : \A s \in Runs : Respects(s, Below(c)) => Meets(s, c)

IInv ==
    IF stage = "create" THEN source = N - 1 /\ stack = <<>> ELSE Shape /\ Found /\ Implied

\* A conflict leads from an earlier operation to a later one.
LEMMA ConflictEdgeShape ==
    ASSUME NEW c \in ConflictEdges
    PROVE  /\ c.from \in Nodes /\ c.to \in Nodes
           /\ c.from \in Int /\ c.to \in Int
           /\ c.from < c.to
           /\ c.kind \in Kinds
<1>1. PICK p \in Nodes \X Nodes : p[1] < p[2] /\ c = ConflictEdge(p[1], p[2])
  BY DEF ConflictEdges
<1>2. p[1] \in Nodes /\ p[2] \in Nodes
  BY <1>1
<1>3. c.from = p[1] /\ c.to = p[2] /\ c.kind = ConflictKind(ops[p[1]], ops[p[2]])
  BY <1>1 DEF ConflictEdge
<1>4. c.kind \in Kinds
  BY <1>3 DEF ConflictKind, EdgeKind, Kinds
<1>5. Nodes \subseteq Int
  BY GraphAssumption DEF Nodes
<1> QED  BY <1>1, <1>2, <1>3, <1>4, <1>5

\* In a run that respects a conflict, whatever its kind, the later operation does not
\* start before the earlier one.
LEMMA MeetsStart ==
    ASSUME NEW c \in ConflictEdges, NEW s \in Runs, Meets(s, c)
    PROVE  s.start[c.from] <= s.start[c.to]
<1>1. c.from \in Nodes /\ c.to \in Nodes /\ c.kind \in Kinds
  BY ConflictEdgeShape
<1>2. s.start[c.from] \in Int /\ s.end[c.from] \in Int /\ s.start[c.to] \in Int
  BY <1>1, GraphAssumption DEF Runs
<1>3. s.start[c.from] <= s.end[c.from]
  BY <1>1 DEF Runs
<1> QED  BY <1>1, <1>2, <1>3 DEF Meets, Kinds, kExecution, kScheduling

\* What is on the stack after a push was on it before or has just been pushed.
LEMMA PushedOnStack ==
    ASSUME NEW X, NEW st \in Seq(SUBSET X), NEW es \in SUBSET X
    PROVE  /\ PushToStack(st, es) \in Seq(SUBSET X)
           /\ OnStack(PushToStack(st, es)) \subseteq OnStack(st) \cup es
<1>1. CASE es = {}
  BY <1>1 DEF PushToStack
<1>2. CASE es # {}
  <2>1. PushToStack(st, es) = Append(st, es)
    BY <1>2 DEF PushToStack
  <2>2. Append(st, es) \in Seq(SUBSET X) /\ Len(Append(st, es)) = Len(st) + 1
    OBVIOUS
  <2>3. \A k \in 1..(Len(st) + 1) : Append(st, es)[k] = IF k = Len(st) + 1 THEN es ELSE st[k]
    OBVIOUS
  <2>4. \A k \in 1..(Len(st) + 1) : k = Len(st) + 1 \/ k \in 1..Len(st)
    OBVIOUS
  <2> QED  BY <2>1, <2>2, <2>3, <2>4 DEF OnStack
<1> QED  BY <1>1, <1>2

\* Popping an edge takes nothing else off the stack, and puts nothing on it.
LEMMA PoppedStack ==
    ASSUME NEW X, stack \in Seq(SUBSET X), stack # <<>>, NEW e
    PROVE  /\ StackWithout(e) \in Seq(SUBSET X)
           /\ OnStack(StackWithout(e)) \subseteq OnStack(stack)
           /\ stack[Len(stack)] \subseteq OnStack(stack)
<1> DEFINE below == SubSeq(stack, 1, Len(stack) - 1)
           rest == stack[Len(stack)] \ {e}
<1>1. Len(stack) \in Nat \ {0}
  OBVIOUS
<1>2. Len(stack) \in 1..Len(stack)
  BY <1>1
<1>3. stack[Len(stack)] \subseteq OnStack(stack)
  BY <1>2 DEF OnStack
<1>4. /\ below \in Seq(SUBSET X) /\ Len(below) = Len(stack) - 1
      /\ \A k \in 1..(Len(stack) - 1) : below[k] = stack[k]
  <2>1. Len(stack) - 1 \in Int /\ \A k \in 1..(Len(stack) - 1) : stack[k] \in SUBSET X
    BY <1>1
  <2>2. /\ SubSeq(stack, 1, Len(stack) - 1) \in Seq(SUBSET X)
        /\ Len(SubSeq(stack, 1, Len(stack) - 1)) =
             IF 1 <= Len(stack) - 1 THEN (Len(stack) - 1) - 1 + 1 ELSE 0
        /\ \A k \in 1..((Len(stack) - 1) - 1 + 1) :
             SubSeq(stack, 1, Len(stack) - 1)[k] = stack[1 + k - 1]
    BY <2>1, SubSeqProperties
  <2>3. \A k \in 1..(Len(stack) - 1) : k \in 1..((Len(stack) - 1) - 1 + 1) /\ 1 + k - 1 = k
    BY <1>1
  <2>4. \A k \in 1..(Len(stack) - 1) : SubSeq(stack, 1, Len(stack) - 1)[k] = stack[k]
    BY <2>2, <2>3
  <2>5. Len(SubSeq(stack, 1, Len(stack) - 1)) = Len(stack) - 1
    <3>1. \A n \in Nat \ {0} : (IF 1 <= n - 1 THEN (n - 1) - 1 + 1 ELSE 0) = n - 1
      OBVIOUS
    <3> QED  BY <1>1, <2>2, <3>1, Zenon
  <2> QED  BY <2>2, <2>4, <2>5, Zenon
<1>5. OnStack(below) \subseteq OnStack(stack)
  BY <1>1, <1>4 DEF OnStack
<1>6. rest \in SUBSET X
  BY <1>2
<1>7. StackWithout(e) = PushToStack(below, rest)
  BY DEF StackWithout
<1> HIDE DEF below, rest
<1>8. rest \subseteq OnStack(stack)
  BY <1>3 DEF rest
<1> QED  BY <1>3, <1>4, <1>5, <1>6, <1>7, <1>8, PushedOnStack

LEMMA InitIInv == GraphInit => IInv
BY DEF GraphInit, IInv

\* The steps of the reduction leave the conflicts alone.
LEMMA ConflictsUnchanged ==
    ASSUME UNCHANGED ops
    PROVE  ConflictEdges' = ConflictEdges
BY DEF ConflictEdges, ConflictEdge

LEMMA CreateIInv ==
    ASSUME IInv, Create
    PROVE  IInv'
<1> USE DEF Create
<1>1. ConflictEdges' = ConflictEdges
  BY ConflictsUnchanged
<1>2. Shape'
  BY <1>1, GraphAssumption DEF IInv, Shape
<1>3. Found'
  BY DEF IInv, Found, OnStack
<1>4. Implied'
  <2> SUFFICES ASSUME NEW c \in ConflictEdges, NEW s \in Runs, Respects(s, Below(c)')
               PROVE  Meets(s, c)
    BY <1>1 DEF Implied
  <2>1. c \in Below(c)'
    BY ConflictEdgeShape DEF Below
  <2> QED  BY <2>1 DEF Respects
<1>5. stage' # "create"
  OBVIOUS
<1> QED  BY <1>2, <1>3, <1>4, <1>5 DEF IInv

\* The out-edges of a node after source, found from source by way of via, start after it.
LEMMA FoundOut ==
    ASSUME Shape, NEW n \in Int, n > source,
           NEW s \in Runs, Respects(s, Later(source)), NEW f \in Out(n)
    PROVE  s.start[n] <= s.start[f.to]
<1>1. f \in Later(source) /\ f \in ConflictEdges /\ f.from = n
  BY DEF Out, Later, Shape
<1> QED  BY <1>1, MeetsStart DEF Respects

LEMMA FollowEdgeIInv ==
    ASSUME IInv, FollowEdge
    PROVE  IInv'
<1> USE DEF FollowEdge
<1>1. PICK e \in todo :
        /\ via' = e
        /\ todo' = todo \ {e}
        /\ stack' = PushToStack(<<>>, Unvisited(Out(e.to), visited \cup {e.to}))
  OBVIOUS
<1> DEFINE next == Unvisited(Out(e.to), visited \cup {e.to})
<1>2. Shape /\ Found /\ Implied
  BY DEF IInv
<1>3. ConflictEdges' = ConflictEdges
  BY ConflictsUnchanged
<1>4. e \in ConflictEdges /\ e.from = source
  BY <1>2 DEF Shape
<1>5. next \subseteq Out(e.to) /\ next \in SUBSET ConflictEdges
  BY <1>2 DEF Unvisited, Out, Shape
<1>6. <<>> \in Seq(SUBSET ConflictEdges) /\ OnStack(<<>>) = {}
  BY DEF OnStack
<1>7. stack' \in Seq(SUBSET ConflictEdges) /\ OnStack(stack') \subseteq Out(e.to)
  <2>1. stack' = PushToStack(<<>>, next)
    BY <1>1
  <2> HIDE DEF next
  <2>2. /\ PushToStack(<<>>, next) \in Seq(SUBSET ConflictEdges)
        /\ OnStack(PushToStack(<<>>, next)) \subseteq OnStack(<<>>) \cup next
    BY <1>5, <1>6, PushedOnStack, Zenon
  <2> QED  BY <1>5, <1>6, <2>1, <2>2, Zenon
<1>8. Shape'
  BY <1>1, <1>2, <1>3, <1>7 DEF Shape
<1>9. Found'
  <2>1. ASSUME NEW f \in Out(e.to) PROVE via'.to < f.to
    BY <1>1, <1>2, <2>1, ConflictEdgeShape DEF Out, Shape
  <2>2. ASSUME NEW f \in Out(e.to), NEW s \in Runs, Respects(s, Later(source))
        PROVE  s.start[via'.to] <= s.start[f.to]
    <3>1. e.to \in Int /\ e.to > source
      BY <1>4, ConflictEdgeShape DEF Shape
    <3> QED  BY <1>1, <1>2, <2>2, <3>1, FoundOut
  <2>3. Later(source)' = Later(source) /\ OnStack(stack)' \subseteq Out(e.to)
    BY <1>7 DEF Later, OnStack
  <2> QED  BY <1>1, <1>3, <1>4, <2>1, <2>2, <2>3 DEF Found
<1>10. Implied'
  BY <1>2, <1>3 DEF Implied, Below
<1>11. stage' # "create"
  OBVIOUS
<1> QED  BY <1>8, <1>9, <1>10, <1>11 DEF IInv

\* An edge that the search may erase is implied by the edges that stay.
LEMMA ErasedIsImplied ==
    ASSUME Shape, Found, Implied, stack # <<>>,
           NEW e \in OnStack(stack), NEW st, NEW g \in edges,
           g.from = source, g.to = e.to, g.kind <= ErasableKind(e, st),
           NEW s \in Runs, Respects(s, Later(source)), Respects(s, Below(via))
    PROVE  Meets(s, g)
<1>1. via \in ConflictEdges /\ via.from = source /\ g \in ConflictEdges
  BY DEF Found, Shape
<1>2. Meets(s, via)
  BY <1>1 DEF Implied
<1>3. s.start[via.to] <= s.start[e.to]
  BY DEF Found
<1>4. /\ source \in Nodes /\ via.to \in Nodes /\ e.to \in Nodes
      /\ via.kind \in Kinds /\ g.kind \in Kinds
  BY <1>1, ConflictEdgeShape
<1>5. /\ s.start[source] \in Int /\ s.end[source] \in Int
      /\ s.start[via.to] \in Int /\ s.start[e.to] \in Int
      /\ s.start[source] <= s.end[source]
  BY <1>4, GraphAssumption DEF Runs
<1>6. CASE via.kind = kExecution
  BY <1>1, <1>2, <1>3, <1>4, <1>5, <1>6 DEF Meets, Kinds, kExecution, kScheduling
<1>7. CASE via.kind = kScheduling
  <2>1. g.kind = kScheduling
    BY <1>4, <1>7 DEF ErasableKind, Kinds, kExecution, kScheduling
  <2>2. s.start[source] <= s.start[via.to]
    BY <1>1, <1>2, MeetsStart
  <2> QED  BY <1>3, <1>5, <2>1, <2>2 DEF Meets, kExecution, kScheduling
<1> QED  BY <1>4, <1>6, <1>7 DEF Kinds

LEMMA VisitIInv ==
    ASSUME IInv, Visit
    PROVE  IInv'
<1> USE DEF Visit
<1>1. PICK e \in stack[Len(stack)] :
        /\ edges' = EraseEdge(source, e.to, ErasableKind(e, StackWithout(e)))
        /\ stack' = PushToStack(StackWithout(e), Unvisited(Out(e.to), visited))
  OBVIOUS
<1> DEFINE next == Unvisited(Out(e.to), visited)
           erased == {g \in edges : g.from = source /\ g.to = e.to
                                    /\ g.kind <= ErasableKind(e, StackWithout(e))}
<1>2. Shape /\ Found /\ Implied
  BY DEF IInv
<1>3. ConflictEdges' = ConflictEdges
  BY ConflictsUnchanged
<1>4. stack \in Seq(SUBSET ConflictEdges)
  BY <1>2 DEF Shape
<1>5. /\ e \in OnStack(stack)
      /\ StackWithout(e) \in Seq(SUBSET ConflictEdges)
      /\ OnStack(StackWithout(e)) \subseteq OnStack(stack)
  BY <1>1, <1>4, PoppedStack
<1>6. e \in ConflictEdges
  BY <1>4, <1>5 DEF OnStack
<1>7. via \in ConflictEdges /\ via.from = source /\ via.to < e.to
  BY <1>2, <1>5 DEF Found
<1>8. /\ source \in Int /\ via.to \in Int /\ e.to \in Int
      /\ source < via.to /\ source < e.to
  BY <1>6, <1>7, ConflictEdgeShape
<1>9. edges' = edges \ erased
  BY <1>1 DEF EraseEdge
<1>10. next \subseteq Out(e.to) /\ next \in SUBSET ConflictEdges
  BY <1>2 DEF Unvisited, Out, Shape
<1>11. /\ stack' \in Seq(SUBSET ConflictEdges)
       /\ OnStack(stack') \subseteq OnStack(stack) \cup Out(e.to)
  <2>1. stack' = PushToStack(StackWithout(e), next)
    BY <1>1
  <2> HIDE DEF next
  <2>2. /\ PushToStack(StackWithout(e), next) \in Seq(SUBSET ConflictEdges)
        /\ OnStack(PushToStack(StackWithout(e), next))
             \subseteq OnStack(StackWithout(e)) \cup next
    BY <1>5, <1>10, PushedOnStack, Zenon
  <2> QED  BY <1>5, <1>10, <2>1, <2>2, Zenon
<1>12. Shape'
  BY <1>2, <1>3, <1>9, <1>11 DEF Shape
<1>13. Later(source)' = Later(source)
  BY <1>8, <1>9 DEF Later
<1>14. Found'
  <2>1. ASSUME NEW f \in Out(e.to) PROVE via.to < f.to
    <3>1. f \in ConflictEdges /\ f.from = e.to
      BY <1>2, <2>1 DEF Out, Shape
    <3>2. f.to \in Int /\ e.to < f.to
      BY <3>1, ConflictEdgeShape
    <3> QED  BY <1>7, <1>8, <3>2
  <2>2. ASSUME NEW f \in Out(e.to), NEW s \in Runs, Respects(s, Later(source))
        PROVE  s.start[via.to] <= s.start[f.to]
    <3>1. s.start[via.to] <= s.start[e.to]
      BY <1>2, <1>5, <2>2 DEF Found
    <3>2. s.start[e.to] <= s.start[f.to]
      BY <1>2, <1>8, <2>2, FoundOut
    <3>3. via.to \in Nodes /\ e.to \in Nodes /\ f.to \in Nodes
      BY <1>2, <1>6, <1>7, <2>2, ConflictEdgeShape DEF Out, Shape
    <3>4. s.start[via.to] \in Int /\ s.start[e.to] \in Int /\ s.start[f.to] \in Int
      BY <3>3, GraphAssumption DEF Runs
    <3> QED  BY <3>1, <3>2, <3>4
  <2>3. OnStack(stack)' \subseteq OnStack(stack) \cup Out(e.to)
    BY <1>11 DEF OnStack
  <2>4. \A f \in OnStack(stack)' :
          /\ via.to < f.to
          /\ \A s \in Runs : Respects(s, Later(source)) => s.start[via.to] <= s.start[f.to]
    BY <1>2, <2>1, <2>2, <2>3 DEF Found
  <2> QED  BY <1>3, <1>7, <1>13, <2>4 DEF Found
<1>15. Implied'
  <2> SUFFICES ASSUME NEW c \in ConflictEdges, NEW s \in Runs, Respects(s, Below(c)')
               PROVE  Meets(s, c)
    BY <1>3 DEF Implied
  <2>1. c.from \in Int /\ c.to \in Int
    BY ConflictEdgeShape
  <2>2. CASE c.from > source \/ (c.from = source /\ c.to < e.to)
    <3>1. Below(c)' = Below(c)
      BY <1>8, <1>9, <2>1, <2>2 DEF Below
    <3> QED  BY <1>2, <3>1 DEF Implied
  <2>3. CASE c.from < source \/ (c.from = source /\ e.to <= c.to)
    <3>1. \A f \in edges : f.from \in Int /\ f.to \in Int
      BY <1>2, ConflictEdgeShape DEF Shape
    <3>2. Later(source) \subseteq Below(c)'
      BY <1>8, <1>9, <2>1, <2>3, <3>1 DEF Later, Below
    <3>3. Below(via) \subseteq Below(c)'
      BY <1>7, <1>8, <1>9, <2>1, <2>3, <3>1 DEF Below
    <3>4. Respects(s, Later(source)) /\ Respects(s, Below(via))
      BY <3>2, <3>3 DEF Respects
    <3>5. ASSUME NEW g \in erased PROVE Meets(s, g)
      BY <1>2, <1>5, <3>4, <3>5, ErasedIsImplied
    <3>6. Below(c) \subseteq Below(c)' \cup erased
      BY <1>9 DEF Below
    <3>7. Respects(s, Below(c))
      BY <3>5, <3>6 DEF Respects
    <3> QED  BY <1>2, <3>7 DEF Implied
  <2> QED  BY <1>8, <2>1, <2>2, <2>3
<1>16. stage' # "create"
  OBVIOUS
<1> QED  BY <1>12, <1>14, <1>15, <1>16 DEF IInv

LEMMA NextSourceIInv ==
    ASSUME IInv, NextSource
    PROVE  IInv'
<1> USE DEF NextSource
<1>1. Shape /\ Found /\ Implied
  BY DEF IInv
<1>2. ConflictEdges' = ConflictEdges
  BY ConflictsUnchanged
<1>3. Shape'
  BY <1>1, <1>2 DEF Shape, Out
<1>4. Found'
  BY DEF Found, OnStack
<1>5. Implied'
  BY <1>1, <1>2 DEF Implied, Below
<1>6. stage' # "create"
  BY <1>3 DEF Shape
<1> QED  BY <1>3, <1>4, <1>5, <1>6 DEF IInv

LEMMA NextIInv == IInv /\ [GraphNext]_graphVars => IInv'
<1> SUFFICES ASSUME IInv, [GraphNext]_graphVars PROVE IInv'
  OBVIOUS
<1>1. CASE GraphNext
  BY <1>1, CreateIInv, FollowEdgeIInv, VisitIInv, NextSourceIInv DEF GraphNext
<1>2. CASE UNCHANGED graphVars
  <2>1. ConflictEdges' = ConflictEdges
    BY <1>2, ConflictsUnchanged DEF graphVars
  <2> QED
    BY <1>2, <2>1 DEF graphVars, IInv, Shape, Found, Implied, Below, Later, OnStack
<1> QED  BY <1>1, <1>2

LEMMA IInvImpliesKept == IInv => SchedulesKept
<1> SUFFICES ASSUME Implied,
                    NEW s \in Schedules, \A n \in Nodes : s.start[n] <= s.end[n],
                    Respects(s, edges), NEW c \in ConflictEdges
             PROVE  Meets(s, c)
  BY DEF IInv, SchedulesKept, Respects
<1>1. s \in Runs
  BY GraphAssumption DEF Runs, Schedules
<1>2. Respects(s, Below(c))
  BY DEF Respects, Below
<1> QED  BY <1>1, <1>2 DEF Implied

\* Every run of the operations that respects the edges left by the reduction, at any time
\* of the reduction and for any operations, respects all the conflicts Create found.
THEOREM ReductionKeepsOrder == GraphSpec => []SchedulesKept
BY InitIInv, NextIInv, IInvImpliesKept, PTL DEF GraphSpec

-----------------------------------------------------------------------------
(* The executor: module ThunkExecutor.  What the workers of an execution have still to  *)
(* do, for a set E of edges, a set W of workers and counters c.                         *)

Graph(E) == E \subseteq EdgeSet /\ \A e \in E : e.from < e.to

From(E, n) == {e \in E : e.from = n}

OfKind(E, n, k) == {e \in From(E, n) : e.kind = k}

Sink(E, n) == From(E, n) = {}

\* A node that drops pending_nodes when it completes later.
Dropped(E, n) == Sink(E, n) \/ OfKind(E, n, kScheduling) # {}

\* Where a worker has a node in hand: none of its out-edges is processed yet, or some are.
Early == {"split", "launch", "load", "execute", "executing", "scheduled"}
Busy == Early \cup {"sched", "attach", "waiting", "error", "edges", "drop"}

\* The nodes in a ready queue; none is there twice.
Elems(q) == {q[k] : k \in 1..Len(q)}

OneToOne(q) == \A i, j \in 1..Len(q) : q[i] = q[j] => i = j

Queued(w) == Elems(w.queue)

Hand(w) == IF w.at \in Busy THEN {w.node} ELSE {}

Mine(w) == Queued(w) \cup Hand(w)

\* The out-edges of the node in hand that are still to be processed.
Left(E, w) ==
    CASE w.at \in Early -> From(E, w.node)
      [] w.at = "sched" -> w.out \cup OfKind(E, w.node, kExecution)
      [] w.at \in {"attach", "waiting"} -> OfKind(E, w.node, kExecution)
      [] w.at \in {"error", "edges"} -> w.out
      [] OTHER -> {}

\* The node in hand is one of pending_nodes.
Owes(E, w) ==
    \/ w.at \in Early /\ Sink(E, w.node)
    \/ w.at \in {"sched", "attach"} /\ Dropped(E, w.node)
    \/ w.at \in {"waiting", "error", "edges", "drop"} /\ w.drop

\* The edges that are in the hands of a worker, and the pending nodes.
Work(E, w) == {e \in E : e.from \in Queued(w)} \cup Left(E, w)

Debt(E, w) == {n \in Queued(w) : Sink(E, n)} \cup {n \in Hand(w) : Owes(E, w)}

Todo(E, W, c) == {e \in E : c[e.from] > 0 \/ \E w \in W : e \in Work(E, w)}

Live(E, W, c) == {n \in Nodes : (Sink(E, n) /\ c[n] > 0) \/ \E w \in W : n \in Debt(E, w)}

WorkerSet(E) ==
    [at : Busy \cup {"pop", "done"}, queue : Seq(Nodes), node : Nodes, out : SUBSET E,
     drop : BOOLEAN, lock : BOOLEAN]

IsWorker(E, w) ==
    /\ w \in WorkerSet(E)
    /\ OneToOne(w.queue)
    /\ w.at \in Busy => w.node \notin Queued(w)
    /\ w.at = "sched" => w.out \subseteq OfKind(E, w.node, kScheduling)
    /\ w.at \in {"error", "edges"} => w.out \subseteq From(E, w.node)

\* No node is in two places, a counter is the number of edges to the node that are still
\* to be processed, and pending_nodes that of the nodes which will still drop it.
Books(E, W, c, p) ==
    /\ \A w \in W : IsWorker(E, w)
    /\ \A v, w \in W : v # w => Mine(v) \cap Mine(w) = {}
    /\ c \in [Nodes -> Int]
    /\ \A w \in W : \A n \in Mine(w) : c[n] = 0
    /\ \A n \in Nodes : c[n] = Cardinality({e \in Todo(E, W, c) : e.to = n})
    /\ p = Cardinality(Live(E, W, c))

LEMMA NodesFinite == IsFiniteSet(Nodes) /\ Nodes \subseteq Nat /\ 0 \in Nodes
<1>1. 0 \in Int /\ N - 1 \in Int
  BY GraphAssumption
<1> QED  BY <1>1, FS_Interval, GraphAssumption DEF Nodes

\* A nonempty set of nodes has a last one.
LEMMA LastNode ==
    ASSUME NEW S \in SUBSET Nodes, S # {}
    PROVE  \E x \in S : \A y \in S : y <= x
<1> DEFINE T == {N - x : x \in S}
<1>1. T \subseteq Nat /\ T # {}
  BY GraphAssumption DEF Nodes
<1>2. PICK t \in T : \A u \in T : ~(<<u, t>> \in OpToRel(<, Nat))
  BY <1>1, WFMin, NatLessThanWellFounded
<1>3. PICK x \in S : t = N - x
  OBVIOUS
<1>4. ASSUME NEW y \in S PROVE y <= x
  <2>1. N - y \in T /\ N - y \in Nat /\ t \in Nat /\ x \in Int /\ y \in Int /\ N \in Int
    BY <1>1, GraphAssumption, NodesFinite
  <2>2. ~(N - y < t)
    BY <1>2, <2>1 DEF OpToRel
  <2> QED  BY <1>3, <2>1, <2>2
<1> QED  BY <1>4

\* A nonempty set of nodes has a first one.
LEMMA FirstNode ==
    ASSUME NEW S \in SUBSET Nodes, S # {}
    PROVE  \E x \in S : \A y \in S : x <= y
<1>1. S \subseteq Nat
  BY NodesFinite
<1>2. PICK x \in S : \A y \in S : ~(<<y, x>> \in OpToRel(<, Nat))
  BY <1>1, WFMin, NatLessThanWellFounded
<1>3. ASSUME NEW y \in S PROVE x <= y
  <2>1. x \in Nat /\ y \in Nat
    BY <1>1
  <2>2. y < x => <<y, x>> \in OpToRel(<, Nat)
    BY <2>1 DEF OpToRel
  <2>3. ~(y < x)
    BY <1>2, <2>2, Zenon
  <2> QED  BY <2>1, <2>3
<1> QED  BY <1>3

\* There are finitely many edges.
LEMMA EdgesFinite ==
    ASSUME NEW E, E \subseteq EdgeSet
    PROVE  IsFiniteSet(E)
<1> DEFINE T == (Nodes \X Nodes) \X Kinds
           f == [e \in EdgeSet |-> <<<<e.from, e.to>>, e.kind>>]
<1>1. IsFiniteSet(Kinds)
  <2>1. Kinds = 0..1
    BY DEF Kinds, kScheduling, kExecution
  <2>2. 0 \in Int /\ 1 \in Int
    OBVIOUS
  <2>3. IsFiniteSet(0..1)
    BY <2>2, FS_Interval, Zenon
  <2> QED  BY <2>1, <2>3
<1>2. IsFiniteSet(T)
  BY <1>1, NodesFinite, FS_Product
<1>3. f \in Injection(EdgeSet, T)
  <2>1. f \in [EdgeSet -> T]
    BY DEF EdgeSet
  <2>2. ASSUME NEW a \in EdgeSet, NEW b \in EdgeSet, f[a] = f[b] PROVE a = b
    BY <2>2 DEF EdgeSet
  <2> HIDE DEF f
  <2> QED  BY <2>1, <2>2 DEF Injection, IsInjective
<1> HIDE DEF f, T
<1>4. IsFiniteSet(EdgeSet)
  BY <1>2, <1>3, FS_Injection
<1> QED  BY <1>4, FS_Subset

\* What a worker has in hand are nodes, and the edges out of them.
LEMMA WorkerHolds ==
    ASSUME NEW E, NEW w, IsWorker(E, w)
    PROVE  /\ Mine(w) \subseteq Nodes
           /\ Work(E, w) \subseteq {e \in E : e.from \in Mine(w)}
           /\ Debt(E, w) \subseteq Mine(w)
<1>1. w \in WorkerSet(E)
  BY DEF IsWorker
<1>2. Queued(w) \subseteq Nodes /\ w.node \in Nodes
  BY <1>1 DEF WorkerSet, Queued, Elems
<1>3. Mine(w) \subseteq Nodes
  BY <1>2 DEF Mine, Hand
<1>4. Left(E, w) \subseteq {e \in E : e.from \in Hand(w)}
  BY DEF IsWorker, Left, Hand, Busy, Early, From, OfKind
<1>5. Debt(E, w) \subseteq Mine(w)
  BY DEF Debt, Mine
<1> QED  BY <1>3, <1>4, <1>5 DEF Work, Mine

\* Workers that share out what one had keep the books, up to what is pending.
LEMMA Shared ==
    ASSUME NEW E, NEW W, NEW c, NEW p, Books(E, W, c, p), NEW w \in W, NEW new,
           \A v \in new : IsWorker(E, v) /\ Mine(v) \subseteq Mine(w),
           \A u, v \in new : u # v => Mine(u) \cap Mine(v) = {},
           \A e : e \in Work(E, w) <=> \E v \in new : e \in Work(E, v),
           NEW V, V = (W \ {w}) \cup new,
           NEW r, r = Cardinality(Live(E, V, c))
    PROVE  Books(E, V, c, r)
<1>1. Todo(E, V, c) = Todo(E, W, c)
  BY DEF Todo
<1>2. ASSUME NEW u \in V, NEW v \in V, u # v PROVE Mine(u) \cap Mine(v) = {}
  BY <1>2 DEF Books
<1>3. \A v \in V : IsWorker(E, v) /\ \A n \in Mine(v) : c[n] = 0
  BY DEF Books
<1> QED  BY <1>1, <1>2, <1>3 DEF Books

\* Nothing pending changes hands but among them.
LEMMA Rearranged ==
    ASSUME NEW E, NEW W, NEW c, NEW p, Books(E, W, c, p), NEW w \in W, NEW new,
           \A v \in new : IsWorker(E, v) /\ Mine(v) \subseteq Mine(w),
           \A u, v \in new : u # v => Mine(u) \cap Mine(v) = {},
           \A e : e \in Work(E, w) <=> \E v \in new : e \in Work(E, v),
           \A n : n \in Debt(E, w) <=> \E v \in new : n \in Debt(E, v)
    PROVE  Books(E, (W \ {w}) \cup new, c, p)
<1> DEFINE V == (W \ {w}) \cup new
<1>1. Live(E, V, c) = Live(E, W, c)
  BY DEF Live
<1>2. p = Cardinality(Live(E, V, c))
  BY <1>1 DEF Books
<1> QED  BY <1>2, Shared

\* The node in hand becomes one of the pending nodes.
LEMMA Owed ==
    ASSUME NEW E, NEW W, NEW c, NEW p, Books(E, W, c, p), NEW w \in W, NEW v,
           IsWorker(E, v), Mine(v) \subseteq Mine(w), Work(E, v) = Work(E, w),
           NEW n \in Mine(w), ~Sink(E, n), n \notin Debt(E, w), Debt(E, v) = Debt(E, w) \cup {n}
    PROVE  Books(E, (W \ {w}) \cup {v}, c, p + 1)
<1> DEFINE V == (W \ {w}) \cup {v}
<1>1. n \in Nodes
  BY WorkerHolds DEF Books
<1>2. n \notin Live(E, W, c)
  <2>1. \A u \in W \ {w} : n \notin Debt(E, u)
    BY WorkerHolds DEF Books
  <2> QED  BY <2>1 DEF Live
<1>3. Live(E, V, c) = Live(E, W, c) \cup {n}
  BY <1>1 DEF Live
<1>4. IsFiniteSet(Live(E, W, c))
  BY NodesFinite, FS_Subset DEF Live
<1>5. p + 1 = Cardinality(Live(E, V, c))
  <2>1. Cardinality(Live(E, W, c) \cup {n}) = Cardinality(Live(E, W, c)) + 1
    BY <1>2, <1>4, FS_AddElement
  <2> QED  BY <1>3, <2>1 DEF Books
<1> QED  BY <1>5, Shared

\* The node in hand is pending no longer.
LEMMA Paid ==
    ASSUME NEW E, NEW W, NEW c, NEW p, Books(E, W, c, p), NEW w \in W, NEW new,
           \A v \in new : IsWorker(E, v) /\ Mine(v) \subseteq Mine(w),
           \A u, v \in new : u # v => Mine(u) \cap Mine(v) = {},
           \A e : e \in Work(E, w) <=> \E v \in new : e \in Work(E, v),
           NEW n \in Debt(E, w),
           \A m : m \in Debt(E, w) \ {n} <=> \E v \in new : m \in Debt(E, v)
    PROVE  /\ Books(E, (W \ {w}) \cup new, c, p - 1)
           /\ p \in Nat \ {0}
<1> DEFINE V == (W \ {w}) \cup new
<1>1. n \in Nodes /\ c[n] = 0 /\ n \in Mine(w)
  BY WorkerHolds DEF Books
<1>2. \A u \in W \ {w} : n \notin Debt(E, u)
  BY <1>1, WorkerHolds DEF Books
<1>3. n \in Live(E, W, c)
  BY <1>1 DEF Live
<1>4. Live(E, V, c) = Live(E, W, c) \ {n}
  <2>1. ASSUME NEW m \in Nodes, m # n PROVE m \in Live(E, V, c) <=> m \in Live(E, W, c)
    BY <2>1 DEF Live
  <2>2. n \notin Live(E, V, c)
    BY <1>1, <1>2 DEF Live
  <2>3. Live(E, V, c) \subseteq Nodes /\ Live(E, W, c) \subseteq Nodes
    BY DEF Live
  <2> QED  BY <2>1, <2>2, <2>3
<1>5. IsFiniteSet(Live(E, W, c))
  BY NodesFinite, FS_Subset DEF Live
<1>6. Cardinality(Live(E, W, c)) \in Nat \ {0}
  BY <1>3, <1>5, FS_EmptySet, FS_CardinalityType
<1>7. p - 1 = Cardinality(Live(E, V, c))
  <2>1. Cardinality(Live(E, W, c) \ {n}) = Cardinality(Live(E, W, c)) - 1
    BY <1>3, <1>5, FS_RemoveElement
  <2> QED  BY <1>4, <2>1 DEF Books
<1>8. p \in Nat \ {0}
  BY <1>6 DEF Books
<1>9. Books(E, V, c, p - 1)
  BY <1>7, Shared
<1> QED  BY <1>8, <1>9

\* A counter is positive behind an edge that is still to be processed.
LEMMA TodoCounts ==
    ASSUME NEW E, Graph(E), NEW W, NEW c, NEW p, Books(E, W, c, p), NEW e \in Todo(E, W, c)
    PROVE  e.to \in Nodes /\ c[e.to] \in Int /\ c[e.to] > 0
<1> DEFINE T == {f \in Todo(E, W, c) : f.to = e.to}
<1>1. e \in EdgeSet /\ T \subseteq EdgeSet
  BY DEF Todo, Graph
<1>2. e.to \in Nodes
  BY <1>1 DEF EdgeSet
<1>3. IsFiniteSet(T) /\ T # {}
  BY <1>1, EdgesFinite
<1>4. c[e.to] = Cardinality(T)
  BY <1>2 DEF Books
<1> HIDE DEF T
<1>5. Cardinality(T) \in Nat /\ Cardinality(T) # 0
  BY <1>3, FS_EmptySet, FS_CardinalityType
<1> QED  BY <1>2, <1>4, <1>5

\* An execution with nothing pending is over: the last node that is not would be a pending
\* sink, or in hand and pending, or have an edge to a later one.
LEMMA Quiet ==
    ASSUME NEW E, Graph(E), NEW W, NEW c, Books(E, W, c, 0),
           \A w \in W : w.at = "sched" => w.out # {},
           \A w \in W : w.at \in {"error", "edges"} /\ w.out = {} => w.drop,
           \A w \in W : w.at = "waiting" => w.drop = Dropped(E, w.node),
           \A w \in W : w.at = "drop" => w.drop
    PROVE  /\ \A w \in W : Mine(w) = {}
           /\ \A n \in Nodes : ~(c[n] > 0)
<1> DEFINE open == {n \in Nodes : c[n] > 0 \/ \E w \in W : n \in Mine(w)}
<1>1. Live(E, W, c) = {}
  <2>1. IsFiniteSet(Live(E, W, c))
    BY NodesFinite, FS_Subset DEF Live
  <2> QED  BY <2>1, FS_EmptySet DEF Books
<1>2. ASSUME NEW n \in open PROVE \E e \in Todo(E, W, c) : e.from = n
  <2>1. n \in Nodes
    OBVIOUS
  <2>2. CASE c[n] > 0
    <3>1. ~Sink(E, n)
      BY <1>1, <2>1, <2>2 DEF Live
    <3> QED  BY <2>2, <3>1 DEF Sink, From, Todo
  <2>3. CASE \E w \in W : n \in Queued(w)
    <3>1. PICK w \in W : n \in Queued(w)
      BY <2>3
    <3>2. ~Sink(E, n)
      BY <1>1, <2>1, <3>1 DEF Live, Debt
    <3> QED  BY <3>1, <3>2 DEF Sink, From, Todo, Work
  <2>4. CASE \E w \in W : n \in Hand(w)
    <3>1. PICK w \in W : n \in Hand(w)
      BY <2>4
    <3>2. w.at \in Busy /\ n = w.node /\ IsWorker(E, w)
      BY <3>1 DEF Hand, Books
    <3>3. ~Owes(E, w)
      BY <1>1, <2>1, <3>1 DEF Live, Debt
    <3>4. \E e \in Left(E, w) : e.from = n /\ e \in E
      <4>1. CASE w.at \in Early
        <5>1. Left(E, w) = From(E, n) /\ ~Sink(E, n)
          BY <3>2, <3>3, <4>1 DEF Owes, Left, Early
        <5> QED  BY <5>1 DEF Sink, From
      <4>2. CASE w.at \in {"sched", "attach", "waiting"}
        <5>1. ~Dropped(E, n)
          BY <3>2, <3>3, <4>2 DEF Owes, Early
        <5>2. PICK e \in From(E, n) : e.kind # kScheduling
          BY <5>1 DEF Dropped, Sink, OfKind
        <5>3. e \in E /\ e.from = n /\ e.kind \in Kinds
          BY <5>2 DEF From, Graph, EdgeSet
        <5>4. e \in OfKind(E, n, kExecution)
          BY <5>2, <5>3 DEF OfKind, Kinds
        <5> QED  BY <3>2, <4>2, <5>3, <5>4 DEF Left, Early
      <4>3. CASE w.at \in {"error", "edges"}
        <5>1. w.out # {} /\ w.out \subseteq From(E, n) /\ Left(E, w) = w.out
          BY <3>2, <3>3, <4>3 DEF Owes, IsWorker, Left, Early
        <5> QED  BY <5>1 DEF From
      <4>4. CASE w.at = "drop"
        BY <3>3, <4>4 DEF Owes, Early
      <4> QED  BY <3>2, <4>1, <4>2, <4>3, <4>4 DEF Busy
    <3> QED  BY <3>4 DEF Todo, Work
  <2> QED  BY <2>2, <2>3, <2>4 DEF Mine
<1>3. open = {}
  <2> SUFFICES ASSUME open # {} PROVE FALSE
    OBVIOUS
  <2>1. PICK x \in open : \A y \in open : y <= x
    BY LastNode
  <2>2. PICK e \in Todo(E, W, c) : e.from = x
    BY <1>2
  <2>3. e.to \in Nodes /\ c[e.to] > 0
    BY <2>2, TodoCounts
  <2>4. e.to \in open
    BY <2>3
  <2>5. e.from < e.to /\ e.to \in Int /\ x \in Int
    <3>1. e \in E
      BY DEF Todo
    <3>2. e.from < e.to
      BY <3>1 DEF Graph
    <3>3. \A n \in Nodes : n \in Int
      BY NodesFinite
    <3> QED  BY <2>3, <3>2, <3>3
  <2> QED  BY <2>1, <2>2, <2>4, <2>5
<1>4. \A w \in W : Mine(w) \subseteq Nodes
  BY WorkerHolds DEF Books
<1> QED  BY <1>3, <1>4

\* Worker w becomes v when it has processed edge e: the counter behind the edge is dropped,
\* and if it was one the node is in the worker's queue.
EdgeStep(E, w, v, e, c, d) ==
    /\ w.at \in {"sched", "edges"} /\ e \in w.out
    /\ v \in WorkerSet(E) /\ OneToOne(v.queue)
    /\ v.at = w.at /\ v.node = w.node /\ v.drop = w.drop /\ v.out = w.out \ {e}
    /\ Queued(v) = Queued(w) \cup (IF c[e.to] = 1 THEN {e.to} ELSE {})
    /\ d = [c EXCEPT ![e.to] = c[e.to] - 1]

\* Processing an out-edge keeps the books.
LEMMA EdgeDone ==
    ASSUME NEW E, Graph(E), NEW W, NEW c, NEW p, Books(E, W, c, p),
           NEW w \in W, NEW v, NEW e, NEW d, EdgeStep(E, w, v, e, c, d)
    PROVE  /\ IsWorker(E, v)
           /\ Books(E, (W \ {w}) \cup {v}, d, p)
<1> DEFINE V == (W \ {w}) \cup {v}
           R == IF c[e.to] = 1 THEN {e.to} ELSE {}
<1> USE DEF EdgeStep
<1>1. IsWorker(E, w) /\ w \in WorkerSet(E) /\ c \in [Nodes -> Int]
  BY DEF Books, IsWorker
<1>2. e \in From(E, w.node) /\ (w.at = "sched" => e.kind = kScheduling)
  BY <1>1 DEF IsWorker, OfKind
<1>3. e \in E /\ e.from = w.node /\ e \in EdgeSet /\ e.from < e.to
  BY <1>2 DEF From, Graph
<1>4. e.from \in Nodes /\ e.to \in Nodes /\ e.from # e.to
  <2>1. e.from \in Nodes /\ e.to \in Nodes
    BY <1>3 DEF EdgeSet
  <2>2. \A n \in Nodes : n \in Int
    BY NodesFinite
  <2>3. \A a, b \in Int : a < b => a # b
    OBVIOUS
  <2> QED  BY <1>3, <2>1, <2>2, <2>3
<1>5. w.at \in Busy /\ w.node \in Mine(w) /\ w.node \notin Queued(w)
  BY <1>1 DEF IsWorker, Busy, Mine, Hand
<1>6. e \in Left(E, w)
  BY DEF Left, Early
<1>7. e \in Todo(E, W, c)
  BY <1>3, <1>6 DEF Todo, Work
<1>8. c[e.to] \in Int /\ c[e.to] > 0
  BY <1>7, TodoCounts
<1>9. \A u \in W : e.to \notin Mine(u)
  BY <1>8 DEF Books
<1>10. /\ v.at = w.at /\ v.node = w.node /\ v.drop = w.drop
       /\ v.out = w.out \ {e} /\ v \in WorkerSet(E) /\ OneToOne(v.queue)
  OBVIOUS
<1>11. Queued(v) = Queued(w) \cup R
  OBVIOUS
<1>12. Hand(v) = Hand(w) /\ Mine(v) = Mine(w) \cup R
  BY <1>10, <1>11 DEF Hand, Mine
<1>13. IsWorker(E, v)
  BY <1>1, <1>3, <1>4, <1>5, <1>10, <1>11 DEF IsWorker
<1>14. Left(E, v) = Left(E, w) \ {e}
  <2>1. CASE w.at = "sched"
    <3>1. e \notin OfKind(E, w.node, kExecution)
      BY <1>2, <2>1 DEF OfKind, kScheduling, kExecution
    <3> QED  BY <1>10, <2>1, <3>1 DEF Left, Early
  <2>2. CASE w.at = "edges"
    BY <1>10, <2>2 DEF Left, Early
  <2> QED  BY <2>1, <2>2
<1>15. Work(E, v) = (Work(E, w) \ {e}) \cup {f \in E : f.from \in R}
  BY <1>3, <1>4, <1>5, <1>11, <1>14 DEF Work
<1>16. Debt(E, v) = Debt(E, w) \cup {n \in R : Sink(E, n)}
  <2>1. Owes(E, v) = Owes(E, w)
    BY <1>10 DEF Owes
  <2> QED  BY <1>11, <1>12, <2>1 DEF Debt
<1>17. d \in [Nodes -> Int] /\ d[e.to] = c[e.to] - 1 /\ \A n \in Nodes \ {e.to} : d[n] = c[n]
  BY <1>1, <1>4, <1>8
<1>18. \A n \in Nodes : c[n] > 0 <=> (d[n] > 0 \/ n \in R)
  BY <1>1, <1>8, <1>17
<1> HIDE DEF EdgeStep, R
<1>19. \A u \in W \ {w} : Mine(u) \cap Mine(v) = {}
  <2>1. R \subseteq {e.to}
    BY DEF R
  <2> QED  BY <1>9, <1>12, <2>1 DEF Books
<1>20. Todo(E, V, d) = Todo(E, W, c) \ {e}
  <2>1. c[e.from] = 0 /\ ~(d[e.from] > 0)
    BY <1>3, <1>4, <1>5, <1>17 DEF Books
  <2>2. \A u \in V : e \notin Work(E, u)
    <3>1. \A u \in W \ {w} : e \notin Work(E, u)
      BY <1>3, <1>5, WorkerHolds DEF Books
    <3>2. e \notin Work(E, v)
      BY <1>3, <1>4, <1>15 DEF R
    <3> QED  BY <3>1, <3>2
  <2>3. e \notin Todo(E, V, d)
    BY <2>1, <2>2 DEF Todo
  <2>4. ASSUME NEW f \in E, f # e PROVE f \in Todo(E, V, d) <=> f \in Todo(E, W, c)
    <3>1. f.from \in Nodes
      BY DEF Graph, EdgeSet
    <3>2. (\E u \in V : f \in Work(E, u)) <=> (f.from \in R \/ \E u \in W : f \in Work(E, u))
      BY <1>15, <2>4
    <3> QED  BY <1>18, <3>1, <3>2 DEF Todo
  <2>5. Todo(E, V, d) \subseteq E /\ Todo(E, W, c) \subseteq E
    BY DEF Todo
  <2> QED  BY <2>3, <2>4, <2>5
<1>21. Live(E, V, d) = Live(E, W, c)
  <2>1. ASSUME NEW n \in Nodes PROVE n \in Live(E, V, d) <=> n \in Live(E, W, c)
    <3>1. (\E u \in V : n \in Debt(E, u))
            <=> ((n \in R /\ Sink(E, n)) \/ \E u \in W : n \in Debt(E, u))
      BY <1>16
    <3> QED  BY <1>18, <3>1 DEF Live
  <2> QED  BY <2>1 DEF Live
<1>22. ASSUME NEW n \in Nodes
       PROVE  d[n] = Cardinality({f \in Todo(E, V, d) : f.to = n})
  <2> DEFINE T == {f \in Todo(E, W, c) : f.to = n}
  <2>1. c[n] = Cardinality(T)
    BY DEF Books
  <2>2. CASE n = e.to
    <3>1. {f \in Todo(E, V, d) : f.to = n} = T \ {e}
      BY <1>20
    <3>2. e \in T
      BY <1>7, <2>2
    <3>3. IsFiniteSet(T)
      <4>1. T \subseteq EdgeSet
        BY DEF Todo, Graph
      <4> QED  BY <4>1, EdgesFinite
    <3> HIDE DEF T
    <3>4. Cardinality(T \ {e}) = Cardinality(T) - 1
      BY <3>2, <3>3, FS_RemoveElement
    <3> QED  BY <1>17, <2>1, <2>2, <3>1, <3>4
  <2>3. CASE n # e.to
    <3>1. {f \in Todo(E, V, d) : f.to = n} = T
      BY <1>20, <2>3
    <3> QED  BY <1>17, <2>1, <2>3, <3>1
  <2> QED  BY <2>2, <2>3
<1>23. ASSUME NEW u \in V, NEW n \in Mine(u) PROVE d[n] = 0
  <2>1. n \in Nodes
    BY <1>13, WorkerHolds DEF Books
  <2>2. CASE n = e.to
    <3>1. u = v /\ n \in R
      BY <1>9, <1>12, <2>2
    <3> QED  BY <1>8, <1>17, <2>2, <3>1 DEF R
  <2>3. CASE n # e.to
    <3>1. \E x \in W : n \in Mine(x)
      BY <1>12, <2>3 DEF R
    <3> QED  BY <1>17, <2>1, <2>3, <3>1 DEF Books
  <2> QED  BY <2>2, <2>3
<1>24. \A x, y \in V : x # y => Mine(x) \cap Mine(y) = {}
  BY <1>19 DEF Books
<1>25. \A u \in V : IsWorker(E, u)
  BY <1>13 DEF Books
<1> HIDE DEF V
<1>26. p = Cardinality(Live(E, V, d))
  BY <1>21 DEF Books
<1>27. Books(E, V, d, p)
  BY <1>17, <1>22, <1>23, <1>24, <1>25, <1>26 DEF Books
<1> QED  BY <1>13, <1>27 DEF V

-----------------------------------------------------------------------------
(* Ready queues *)

\* A queue made of two others.
LEMMA Glued ==
    ASSUME NEW a \in Seq(Nodes), NEW b \in Seq(Nodes), NEW r \in Seq(Nodes),
           Len(r) = Len(a) + Len(b),
           \A k \in 1..Len(a) : r[k] = a[k],
           \A k \in 1..Len(b) : r[Len(a) + k] = b[k]
    PROVE  /\ Elems(r) = Elems(a) \cup Elems(b)
           /\ OneToOne(r) <=> OneToOne(a) /\ OneToOne(b) /\ Elems(a) \cap Elems(b) = {}
<1>1. Len(a) \in Nat /\ Len(b) \in Nat /\ Len(r) \in Nat
  OBVIOUS
<1>2. \A k \in 1..Len(a) : k \in 1..Len(r)
  BY <1>1
<1>3. \A k \in 1..Len(b) : Len(a) + k \in 1..Len(r) /\ Len(a) + k \notin 1..Len(a)
  BY <1>1
<1>4. \A k \in 1..Len(r) : k \in 1..Len(a) \/ \E j \in 1..Len(b) : k = Len(a) + j
  <2> SUFFICES ASSUME NEW k \in 1..Len(r), k \notin 1..Len(a)
               PROVE  \E j \in 1..Len(b) : k = Len(a) + j
    OBVIOUS
  <2>1. k - Len(a) \in 1..Len(b) /\ k = Len(a) + (k - Len(a))
    BY <1>1
  <2> QED  BY <2>1
<1>5. Elems(r) = Elems(a) \cup Elems(b)
  <2>1. Elems(r) \subseteq Elems(a) \cup Elems(b)
    BY <1>4 DEF Elems
  <2>2. Elems(a) \subseteq Elems(r)
    BY <1>2 DEF Elems
  <2>3. Elems(b) \subseteq Elems(r)
    <3>1. ASSUME NEW k \in 1..Len(b) PROVE b[k] \in Elems(r)
      <4>1. b[k] = r[Len(a) + k] /\ Len(a) + k \in 1..Len(r)
        BY <1>3
      <4> QED  BY <4>1 DEF Elems
    <3> QED  BY <3>1 DEF Elems
  <2> QED  BY <2>1, <2>2, <2>3
<1>6. ASSUME OneToOne(r) PROVE OneToOne(a) /\ OneToOne(b) /\ Elems(a) \cap Elems(b) = {}
  <2>1. OneToOne(a)
    BY <1>2, <1>6 DEF OneToOne
  <2>2. ASSUME NEW i \in 1..Len(b), NEW j \in 1..Len(b), b[i] = b[j] PROVE i = j
    <3>1. r[Len(a) + i] = r[Len(a) + j] /\ Len(a) + i \in 1..Len(r) /\ Len(a) + j \in 1..Len(r)
      BY <1>3, <2>2
    <3>2. Len(a) + i = Len(a) + j
      BY <1>6, <3>1 DEF OneToOne
    <3> QED  BY <1>1, <3>2
  <2>3. ASSUME NEW i \in 1..Len(a), NEW j \in 1..Len(b), a[i] = b[j] PROVE FALSE
    <3>1. r[i] = r[Len(a) + j] /\ i \in 1..Len(r) /\ Len(a) + j \in 1..Len(r)
      BY <1>2, <1>3, <2>3
    <3>2. i = Len(a) + j
      BY <1>6, <3>1 DEF OneToOne
    <3> QED  BY <1>3, <3>2
  <2>4. OneToOne(b)
    BY <2>2 DEF OneToOne
  <2>5. Elems(a) \cap Elems(b) = {}
    BY <2>3 DEF Elems
  <2> QED  BY <2>1, <2>4, <2>5
<1>7. ASSUME OneToOne(a), OneToOne(b), Elems(a) \cap Elems(b) = {} PROVE OneToOne(r)
  <2> SUFFICES ASSUME NEW i \in 1..Len(r), NEW j \in 1..Len(r), r[i] = r[j] PROVE i = j
    BY DEF OneToOne
  <2>1. CASE i \in 1..Len(a) /\ j \in 1..Len(a)
    BY <1>7, <2>1 DEF OneToOne
  <2>2. ASSUME NEW x \in 1..Len(b), i = Len(a) + x, NEW y \in 1..Len(b), j = Len(a) + y
        PROVE  i = j
    <3>1. b[x] = b[y]
      BY <2>2
    <3> QED  BY <1>7, <2>2, <3>1 DEF OneToOne
  <2>3. \A x \in 1..Len(a), y \in 1..Len(b) : a[x] # b[y]
    BY <1>7 DEF Elems
  <2>4. ASSUME i \in 1..Len(a), NEW y \in 1..Len(b), j = Len(a) + y PROVE FALSE
    BY <2>3, <2>4
  <2>5. ASSUME j \in 1..Len(a), NEW x \in 1..Len(b), i = Len(a) + x PROVE FALSE
    BY <2>3, <2>5
  <2> QED  BY <1>4, <2>1, <2>2, <2>4, <2>5
<1> QED  BY <1>5, <1>6, <1>7

\* A queue of one node.
LEMMA OneNode ==
    ASSUME NEW n \in Nodes
    PROVE  <<n>> \in Seq(Nodes) /\ OneToOne(<<n>>) /\ Elems(<<n>>) = {n} /\ Len(<<n>>) = 1
<1>1. Len(<<n>>) = 1 /\ <<n>>[1] = n /\ <<n>> \in Seq(Nodes) /\ 1..1 = {1}
  OBVIOUS
<1> HIDE DEF Nodes
<1> QED  BY <1>1 DEF OneToOne, Elems

\* A worker takes the first node of its queue.
LEMMA TailOf ==
    ASSUME NEW q \in Seq(Nodes), q # <<>>, OneToOne(q)
    PROVE  /\ Head(q) \in Nodes /\ Tail(q) \in Seq(Nodes) /\ OneToOne(Tail(q))
           /\ Head(q) \notin Elems(Tail(q))
           /\ Elems(q) = Elems(Tail(q)) \cup {Head(q)}
<1>1. Head(q) \in Nodes /\ Tail(q) \in Seq(Nodes) /\ Len(q) = 1 + Len(Tail(q))
  OBVIOUS
<1>2. \A k \in 1..1 : q[k] = <<Head(q)>>[k]
  OBVIOUS
<1>3. \A k \in 1..Len(Tail(q)) : q[1 + k] = Tail(q)[k]
  OBVIOUS
<1>4. /\ <<Head(q)>> \in Seq(Nodes) /\ OneToOne(<<Head(q)>>) /\ Elems(<<Head(q)>>) = {Head(q)}
      /\ Len(<<Head(q)>>) = 1
  BY <1>1, OneNode
<1>5. /\ Elems(q) = Elems(<<Head(q)>>) \cup Elems(Tail(q))
      /\ OneToOne(Tail(q)) /\ Elems(<<Head(q)>>) \cap Elems(Tail(q)) = {}
  BY <1>1, <1>2, <1>3, <1>4, Glued
<1> QED  BY <1>1, <1>4, <1>5

\* A queue is cut in two.
LEMMA HalvesOf ==
    ASSUME NEW q \in Seq(Nodes), OneToOne(q), NEW m \in 0..Len(q)
    PROVE  LET a == SubSeq(q, 1, m)
               b == SubSeq(q, m + 1, Len(q))
           IN /\ a \in Seq(Nodes) /\ b \in Seq(Nodes) /\ OneToOne(a) /\ OneToOne(b)
              /\ Elems(a) \cap Elems(b) = {} /\ Elems(q) = Elems(a) \cup Elems(b)
              /\ Len(a) = m /\ Len(b) = Len(q) - m
<1> DEFINE a == SubSeq(q, 1, m)
           b == SubSeq(q, m + 1, Len(q))
<1>1. Len(q) \in Nat /\ m \in Nat /\ m <= Len(q) /\ \A k \in 1..Len(q) : q[k] \in Nodes
  OBVIOUS
<1>2. a \in Seq(Nodes) /\ Len(a) = m /\ \A k \in 1..m : q[k] = a[k]
  BY <1>1
<1>3. m + 1 \in Int /\ Len(q) \in Int /\ \A k \in (m + 1)..Len(q) : q[k] \in Nodes
  BY <1>1
<1>4. /\ b \in Seq(Nodes)
      /\ Len(b) = IF m + 1 <= Len(q) THEN Len(q) - (m + 1) + 1 ELSE 0
      /\ \A k \in 1..(Len(q) - (m + 1) + 1) : b[k] = q[(m + 1) + k - 1]
  BY <1>3, SubSeqProperties
<1> HIDE DEF a, b
<1>5. Len(b) = Len(q) - m
  BY <1>1, <1>4
<1>6. ASSUME NEW k \in 1..Len(b) PROVE q[m + k] = b[k]
  <2>1. k \in 1..(Len(q) - (m + 1) + 1) /\ (m + 1) + k - 1 = m + k
    BY <1>1, <1>5
  <2> QED  BY <1>4, <2>1
<1>7. Len(q) = Len(a) + Len(b)
  BY <1>1, <1>2, <1>5
<1>8. /\ Elems(q) = Elems(a) \cup Elems(b)
      /\ OneToOne(a) /\ OneToOne(b) /\ Elems(a) \cap Elems(b) = {}
  BY <1>2, <1>4, <1>6, <1>7, Glued
<1>9. Len(a) = m /\ a \in Seq(Nodes) /\ b \in Seq(Nodes)
  BY <1>2, <1>4
<1> QED  BY <1>5, <1>8, <1>9 DEF a, b

\* Two queues without a node in common, one after the other.
LEMMA Joined ==
    ASSUME NEW a \in Seq(Nodes), NEW b \in Seq(Nodes), OneToOne(a), OneToOne(b),
           Elems(a) \cap Elems(b) = {}
    PROVE  a \o b \in Seq(Nodes) /\ OneToOne(a \o b) /\ Elems(a \o b) = Elems(a) \cup Elems(b)
<1>1. a \o b \in Seq(Nodes) /\ Len(a \o b) = Len(a) + Len(b)
  OBVIOUS
<1>2. \A k \in 1..Len(a) : (a \o b)[k] = a[k]
  OBVIOUS
<1>3. \A k \in 1..Len(b) : (a \o b)[Len(a) + k] = b[k]
  OBVIOUS
<1> QED  BY <1>1, <1>2, <1>3, Glued

\* A node is inserted after the first m nodes of a queue.
LEMMA InsertedAt ==
    ASSUME NEW q \in Seq(Nodes), OneToOne(q), NEW m \in 0..Len(q),
           NEW n \in Nodes, n \notin Elems(q)
    PROVE  /\ InsertAt(q, m + 1, n) \in Seq(Nodes) /\ OneToOne(InsertAt(q, m + 1, n))
           /\ Elems(InsertAt(q, m + 1, n)) = Elems(q) \cup {n}
<1> DEFINE a == SubSeq(q, 1, m)
           b == SubSeq(q, m + 1, Len(q))
           s == a \o <<n>>
<1>1. /\ a \in Seq(Nodes) /\ b \in Seq(Nodes) /\ OneToOne(a) /\ OneToOne(b)
      /\ Elems(a) \cap Elems(b) = {} /\ Elems(q) = Elems(a) \cup Elems(b)
  BY HalvesOf, Zenon
<1>2. InsertAt(q, m + 1, n) = s \o b
  <2>1. (m + 1) - 1 = m
    OBVIOUS
  <2> QED  BY <2>1, Zenon DEF InsertAt
<1> HIDE DEF a, b
<1>3. s \in Seq(Nodes) /\ OneToOne(s) /\ Elems(s) = Elems(a) \cup {n}
  <2>1. <<n>> \in Seq(Nodes) /\ OneToOne(<<n>>) /\ Elems(<<n>>) = {n}
    BY OneNode
  <2>2. Elems(a) \cap Elems(<<n>>) = {}
    BY <1>1, <2>1
  <2> QED  BY <1>1, <2>1, <2>2, Joined
<1> HIDE DEF s
<1>4. Elems(s) \cap Elems(b) = {}
  BY <1>1, <1>3
<1>5. s \o b \in Seq(Nodes) /\ OneToOne(s \o b) /\ Elems(s \o b) = Elems(s) \cup Elems(b)
  BY <1>1, <1>3, <1>4, Joined
<1> QED  BY <1>1, <1>2, <1>3, <1>5

\* Push puts the node into the queue, wherever the type of the queue wants it.
LEMMA PushedNode ==
    ASSUME ready_queue_type \in {"fifo", "lifo", "priority"},
           NEW q \in Seq(Nodes), OneToOne(q), NEW n \in Nodes, n \notin Elems(q)
    PROVE  Push(q, n) \in Seq(Nodes) /\ OneToOne(Push(q, n)) /\ Elems(Push(q, n)) = Elems(q) \cup {n}
<1> DEFINE S == {k \in 1..Len(q) : Precedes(q[k], n)}
<1>1. Len(q) \in Nat /\ Len(q) \in Int /\ 1 \in Int
  OBVIOUS
<1>2. IsFiniteSet(1..Len(q)) /\ Cardinality(1..Len(q)) = Len(q)
  <2>1. IsFiniteSet(1..Len(q)) /\ Cardinality(1..Len(q)) = IF 1 > Len(q) THEN 0 ELSE Len(q) - 1 + 1
    BY <1>1, FS_Interval
  <2> QED  BY <1>1, <2>1
<1>3. Cardinality(S) \in 0..Len(q)
  <2>1. S \in SUBSET (1..Len(q))
    OBVIOUS
  <2> HIDE DEF S
  <2>2. IsFiniteSet(S) /\ Cardinality(S) <= Len(q)
    BY <1>2, <2>1, FS_Subset
  <2>3. Cardinality(S) \in Nat
    BY <2>2, FS_CardinalityType
  <2> QED  BY <1>1, <2>2, <2>3
<1>4. Ahead(q, n) \in 0..Len(q)
  BY <1>1, <1>3 DEF Ahead
<1> QED  BY <1>4, InsertedAt DEF Push

\* The order in which nodes leave a queue.
LEMMA ComesOrder ==
    ASSUME ready_queue_type \in {"fifo", "lifo", "priority"}, priority \in [Nodes -> Int]
    PROVE  /\ \A a \in Nodes : ~Comes(a, a)
           /\ \A a, b \in Nodes : a # b => Comes(a, b) \/ Comes(b, a)
           /\ \A a, b, c \in Nodes : Comes(a, b) /\ Comes(b, c) => Comes(a, c)
<1>1. \A n \in Nodes : n \in Int /\ priority[n] \in Int
  BY NodesFinite
<1>2. \A a, b \in Nodes : Comes(a, b) <=>
        \/ ready_queue_type = "fifo" /\ a < b
        \/ ready_queue_type = "lifo" /\ b < a
        \/ /\ ready_queue_type = "priority"
           /\ priority[b] < priority[a] \/ (priority[a] = priority[b] /\ a < b)
  BY <1>1 DEF Comes, Precedes
<1>3. CASE ready_queue_type = "fifo"
  BY <1>1, <1>2, <1>3
<1>4. CASE ready_queue_type = "lifo"
  BY <1>1, <1>2, <1>4
<1>5. CASE ready_queue_type = "priority"
  BY <1>1, <1>2, <1>5
<1> QED  BY <1>3, <1>4, <1>5

\* The first queue holds the ready nodes, each once: the nodes ahead of one determine it.
LEMMA QueueOfNodes ==
    ASSUME ready_queue_type \in {"fifo", "lifo", "priority"}, priority \in [Nodes -> Int],
           NEW ns \in SUBSET Nodes
    PROVE  QueueOf(ns) \in Seq(Nodes) /\ OneToOne(QueueOf(ns)) /\ Elems(QueueOf(ns)) = ns
<1> DEFINE ahead(n) == {m \in ns : Comes(m, n)}
           size == Cardinality(ns)
           f == [n \in ns |-> Cardinality(ahead(n)) + 1]
<1>1. IsFiniteSet(ns) /\ size \in Nat
  BY NodesFinite, FS_Subset, FS_CardinalityType
<1>2. ASSUME NEW n \in ns PROVE IsFiniteSet(ahead(n)) /\ Cardinality(ahead(n)) \in 0..(size - 1)
  <2>1. ahead(n) \in SUBSET (ns \ {n})
    BY ComesOrder
  <2>2. IsFiniteSet(ns \ {n}) /\ Cardinality(ns \ {n}) = size - 1
    BY <1>1, <1>2, FS_RemoveElement
  <2> HIDE DEF ahead, size
  <2>3. IsFiniteSet(ahead(n)) /\ Cardinality(ahead(n)) <= size - 1
    BY <2>1, <2>2, FS_Subset
  <2>4. Cardinality(ahead(n)) \in Nat
    BY <2>3, FS_CardinalityType
  <2> QED  BY <1>1, <2>3, <2>4
<1>3. ASSUME NEW a \in ns, NEW b \in ns, Comes(a, b)
      PROVE  Cardinality(ahead(a)) # Cardinality(ahead(b))
  <2>1. ahead(a) \in SUBSET ahead(b) /\ a \in ahead(b) /\ a \notin ahead(a)
    BY <1>3, ComesOrder
  <2>2. IsFiniteSet(ahead(b))
    BY <1>2
  <2> HIDE DEF ahead
  <2> QED  BY <2>1, <2>2, FS_Subset
<1>4. ASSUME NEW a \in ns, NEW b \in ns, f[a] = f[b] PROVE a = b
  <2>1. Cardinality(ahead(a)) = Cardinality(ahead(b))
    <3>1. f[a] = Cardinality(ahead(a)) + 1 /\ f[b] = Cardinality(ahead(b)) + 1
      OBVIOUS
    <3>2. Cardinality(ahead(a)) \in Int /\ Cardinality(ahead(b)) \in Int
      BY <1>2
    <3>3. Cardinality(ahead(a)) + 1 = Cardinality(ahead(b)) + 1
      BY <1>4, <3>1, Zenon
    <3>4. \A x, y \in Int : x + 1 = y + 1 => x = y
      OBVIOUS
    <3> QED  BY <3>2, <3>3, <3>4, Zenon
  <2> HIDE DEF ahead, f
  <2> QED  BY <1>3, <2>1, ComesOrder
<1>5. f \in [ns -> 1..size]
  <2>1. ASSUME NEW n \in ns PROVE Cardinality(ahead(n)) + 1 \in 1..size
    <3>1. Cardinality(ahead(n)) \in 0..(size - 1)
      BY <1>2
    <3> HIDE DEF ahead, size
    <3> QED  BY <1>1, <3>1
  <2> HIDE DEF ahead, size
  <2> QED  BY <2>1
<1>6. f \in Injection(ns, 1..size)
  <2> HIDE DEF f, size
  <2> QED  BY <1>4, <1>5 DEF Injection, IsInjective
<1>7. IsFiniteSet(1..size) /\ Cardinality(1..size) = size
  <2> HIDE DEF size
  <2>1. IsFiniteSet(1..size) /\ Cardinality(1..size) = IF 1 > size THEN 0 ELSE size - 1 + 1
    BY <1>1, FS_Interval
  <2> QED  BY <1>1, <2>1
<1>8. f \in Surjection(ns, 1..size)
  <2> HIDE DEF f
  <2> QED  BY <1>6, <1>7, FS_Injection
<1>9. ASSUME NEW k \in 1..size
      PROVE  QueueOf(ns)[k] \in ns /\ Cardinality(ahead(QueueOf(ns)[k])) = k - 1
  <2>1. PICK n \in ns : f[n] = k
    <3> HIDE DEF f, size
    <3> QED  BY <1>8, <1>9 DEF Surjection
  <2>2. Cardinality(ahead(n)) = k - 1
    <3>1. Cardinality(ahead(n)) \in Int /\ Cardinality(ahead(n)) + 1 = k
      BY <1>2, <2>1
    <3> QED  BY <3>1
  <2>3. QueueOf(ns)[k] = CHOOSE x \in ns : Cardinality(ahead(x)) = k - 1
    BY DEF QueueOf
  <2> HIDE DEF ahead
  <2> QED  BY <2>2, <2>3
<1>10. QueueOf(ns) \in [1..size -> Nodes] /\ Len(QueueOf(ns)) = size /\ QueueOf(ns) \in Seq(Nodes)
  <2> DEFINE g(k) == CHOOSE n \in ns : Cardinality({m \in ns : Comes(m, n)}) = k - 1
  <2>1. QueueOf(ns) = [k \in 1..size |-> g(k)]
    BY DEF QueueOf
  <2> HIDE DEF g, size
  <2>2. \A k \in 1..size : g(k) \in Nodes
    BY <1>9, <2>1
  <2> QED  BY <1>1, <2>1, <2>2
<1>11. OneToOne(QueueOf(ns))
  <2> HIDE DEF ahead, size
  <2> SUFFICES ASSUME NEW i \in 1..size, NEW j \in 1..size, QueueOf(ns)[i] = QueueOf(ns)[j]
               PROVE  i = j
    BY <1>10 DEF OneToOne
  <2>1. i - 1 = j - 1
    BY <1>9
  <2> QED  BY <1>1, <2>1
<1>12. Elems(QueueOf(ns)) \subseteq ns
  <2> HIDE DEF size
  <2> QED  BY <1>9, <1>10 DEF Elems
<1>13. ASSUME NEW n \in ns PROVE n \in Elems(QueueOf(ns))
  <2>1. f[n] \in 1..size /\ f[n] = Cardinality(ahead(n)) + 1 /\ Cardinality(ahead(n)) \in Int
    BY <1>2, <1>5
  <2> DEFINE x == QueueOf(ns)[f[n]]
  <2>2. x \in ns /\ Cardinality(ahead(x)) = f[n] - 1
    BY <1>9, <2>1
  <2>3. f[x] = Cardinality(ahead(x)) + 1
    BY <2>2
  <2> HIDE DEF ahead, size, f
  <2>4. f[x] = f[n]
    BY <2>1, <2>2, <2>3
  <2>5. x = n
    BY <1>4, <2>2, <2>4
  <2> QED  BY <1>10, <2>1, <2>5 DEF Elems
<1> QED  BY <1>10, <1>11, <1>12, <1>13

-----------------------------------------------------------------------------
(* The steps of a worker *)

\* What a worker is about to do is there to be done.
Form(E, w) ==
    /\ w.at \in {"pop", "launch"} => w.queue # <<>>
    /\ w.at = "sched" => w.out # {}
    /\ w.at = "edges" => w.out # {}
    /\ w.at = "error" /\ w.out = {} => w.drop
    /\ w.at = "waiting" => w.drop = Dropped(E, w.node)
    /\ w.at = "drop" => w.drop

\* Where the thunk of the node in hand may be running.
Underway == {"executing", "scheduled", "sched", "attach", "waiting"}

\* The invariant of an execution by workers.
Going ==
    /\ Books(edges, workers, counter, pending_nodes)
    /\ \A w \in workers : Form(edges, w)
    /\ \A w \in workers : w.at = "done" => pending_nodes = 0
    /\ \A v, w \in workers : v.at = "done" /\ w.at = "done" => v = w
    /\ event # Pending => workers = {}
    /\ thunk \in [Nodes -> {"idle", "running", "ok", "failed"}]
    /\ \A n \in Nodes : thunk[n] = "running" =>
          \E w \in workers : w.node = n /\ w.at \in Underway

\* A worker that has not reported the end has something to do.
LEMMA HasWork ==
    ASSUME NEW E, NEW w, IsWorker(E, w), Form(E, w), w.at # "done"
    PROVE  Mine(w) # {}
<1>1. w.at \in Busy \cup {"pop"} /\ w.queue \in Seq(Nodes)
  BY DEF IsWorker, WorkerSet
<1>2. CASE w.at \in Busy
  BY <1>2 DEF Mine, Hand
<1>3. CASE w.at = "pop"
  <2>1. w.queue # <<>>
    BY <1>3 DEF Form
  <2>2. 1 \in 1..Len(w.queue)
    BY <1>1, <2>1
  <2> QED  BY <2>2 DEF Mine, Queued, Elems
<1> QED  BY <1>1, <1>2, <1>3

\* Nobody reports the end while another worker has something to do.
LEMMA NoneIsDone ==
    ASSUME Graph(edges), Going, NEW w \in workers, w.at # "done", NEW v \in workers
    PROVE  v.at # "done"
<1> SUFFICES ASSUME v.at = "done" PROVE FALSE
  OBVIOUS
<1>1. Books(edges, workers, counter, 0)
  BY DEF Going
<1>2. \A u \in workers : Form(edges, u)
  BY DEF Going
<1>3. Mine(w) = {}
  <2>1. \A u \in workers : u.at = "sched" => u.out # {}
    BY <1>2 DEF Form
  <2>2. \A u \in workers : u.at \in {"error", "edges"} /\ u.out = {} => u.drop
    BY <1>2 DEF Form
  <2>3. \A u \in workers : u.at = "waiting" => u.drop = Dropped(edges, u.node)
    BY <1>2 DEF Form
  <2>4. \A u \in workers : u.at = "drop" => u.drop
    BY <1>2 DEF Form
  <2> QED  BY <1>1, <2>1, <2>2, <2>3, <2>4, Quiet
<1> QED  BY <1>1, <1>2, <1>3, HasWork DEF Books

\* A step of a worker keeps the invariant if it keeps the books, its successors are well
\* formed, and the thunk that it leaves is not running.
LEMMA WorkerMoves ==
    ASSUME Graph(edges), Going, UNCHANGED <<edges, event>>,
           NEW w \in workers, w.at # "done", NEW new, Replace(w, new),
           Books(edges, (workers \ {w}) \cup new, counter', pending_nodes'),
           \A v \in new : Form(edges, v) /\ v.at # "done",
           thunk' \in [Nodes -> {"idle", "running", "ok", "failed"}],
           \A n \in Nodes : thunk'[n] = "running" =>
              \/ n \notin Hand(w) /\ thunk[n] = "running"
              \/ \E v \in new : v.node = n /\ v.at \in Underway
    PROVE  Going'
<1>1. workers' = (workers \ {w}) \cup new
  BY DEF Replace
<1>2. Books(edges, workers, counter, pending_nodes)'
  BY <1>1
<1>3. \A v \in workers : v.at # "done"
  BY NoneIsDone
<1>4. \A v \in workers' : Form(edges, v)' /\ v.at # "done"
  BY <1>1, <1>3 DEF Going
<1>5. event = Pending
  BY DEF Going
<1>6. ASSUME NEW n \in Nodes, thunk'[n] = "running"
      PROVE  \E v \in workers' : v.node = n /\ v.at \in Underway
  BY <1>1, <1>6 DEF Going, Hand, Underway, Busy, Early
<1> QED  BY <1>2, <1>4, <1>5, <1>6 DEF Going

\* The next round of a worker.
LEMMA LoopOf ==
    ASSUME NEW E, NEW w \in WorkerSet(E), OneToOne(w.queue)
    PROVE  /\ \A v \in Loop(w) : /\ IsWorker(E, v) /\ Form(E, v) /\ v.at = "pop"
                                 /\ Mine(v) = Queued(w) /\ v.queue = w.queue
           /\ \A u, v \in Loop(w) : u = v
           /\ \A e : (e \in E /\ e.from \in Queued(w)) <=> \E v \in Loop(w) : e \in Work(E, v)
           /\ \A n : (n \in Queued(w) /\ Sink(E, n)) <=> \E v \in Loop(w) : n \in Debt(E, v)
<1> DEFINE x == Worker("pop", w.queue, 0, {}, FALSE, w.lock)
<1>1. w.queue \in Seq(Nodes) /\ w.lock \in BOOLEAN
  BY DEF WorkerSet
<1>2. CASE w.queue = <<>>
  <2>1. Loop(w) = {} /\ Queued(w) = {}
    BY <1>2 DEF Loop, Queued, Elems
  <2> QED  BY <2>1
<1>3. CASE w.queue # <<>>
  <2>1. Loop(w) = {x}
    BY <1>3 DEF Loop
  <2>2. /\ x.at = "pop" /\ x.queue = w.queue /\ x.node = 0 /\ x.out = {} /\ x.drop = FALSE
        /\ x \in WorkerSet(E)
    BY <1>1, NodesFinite DEF Worker, WorkerSet
  <2> HIDE DEF x
  <2>3. Queued(x) = Queued(w)
    BY <2>2 DEF Queued
  <2>4. Hand(x) = {} /\ Mine(x) = Queued(w)
    BY <2>2, <2>3 DEF Hand, Mine, Busy, Early
  <2>5. Left(E, x) = {}
    BY <2>2 DEF Left, Early
  <2>6. IsWorker(E, x)
    BY <2>2 DEF IsWorker, Busy, Early
  <2>7. Form(E, x)
    BY <1>3, <2>2 DEF Form
  <2>8. Work(E, x) = {e \in E : e.from \in Queued(w)}
    BY <2>3, <2>5 DEF Work
  <2>9. Debt(E, x) = {n \in Queued(w) : Sink(E, n)}
    BY <2>3, <2>4 DEF Debt
  <2> QED  BY <2>1, <2>2, <2>4, <2>6, <2>7, <2>8, <2>9
<1> QED  BY <1>2, <1>3

\* A worker with out-edges of the node in hand to process, or to drop it, or neither.
LEMMA AfterEdgesOf ==
    ASSUME NEW E, NEW w \in WorkerSet(E), OneToOne(w.queue), w.node \notin Queued(w),
           w.out \subseteq From(E, w.node)
    PROVE  /\ \A v \in AfterEdges(w) : /\ IsWorker(E, v) /\ Form(E, v) /\ v.at # "done"
                                       /\ Mine(v) \subseteq Queued(w) \cup {w.node}
           /\ \A u, v \in AfterEdges(w) : u = v
           /\ \A e : (e \in E /\ e.from \in Queued(w)) \/ e \in w.out
                        <=> \E v \in AfterEdges(w) : e \in Work(E, v)
           /\ \A n : (n \in Queued(w) /\ Sink(E, n)) \/ (n = w.node /\ w.drop)
                        <=> \E v \in AfterEdges(w) : n \in Debt(E, v)
<1>1. CASE w.out # {}
  <2> DEFINE x == [w EXCEPT !.at = "edges"]
  <2>1. AfterEdges(w) = {x}
    BY <1>1 DEF AfterEdges
  <2>2. /\ x.at = "edges" /\ x.queue = w.queue /\ x.node = w.node /\ x.out = w.out
        /\ x.drop = w.drop /\ x \in WorkerSet(E)
    BY DEF WorkerSet, Busy
  <2> HIDE DEF x
  <2>3. Queued(x) = Queued(w) /\ Hand(x) = {w.node} /\ Mine(x) = Queued(w) \cup {w.node}
    BY <2>2 DEF Queued, Hand, Mine, Busy
  <2>4. Left(E, x) = w.out
    BY <2>2 DEF Left, Early
  <2>5. IsWorker(E, x)
    BY <2>2, <2>3 DEF IsWorker
  <2>6. Form(E, x)
    BY <1>1, <2>2 DEF Form
  <2>7. Work(E, x) = {e \in E : e.from \in Queued(w)} \cup w.out
    BY <2>3, <2>4 DEF Work
  <2>8. Owes(E, x) <=> w.drop
    BY <2>2 DEF Owes, Early
  <2>9. Debt(E, x) = {n \in Queued(w) : Sink(E, n)} \cup {n \in {w.node} : w.drop}
    BY <2>3, <2>8 DEF Debt
  <2> QED  BY <2>1, <2>2, <2>3, <2>5, <2>6, <2>7, <2>9
<1>2. CASE w.out = {} /\ w.drop
  <2> DEFINE x == [w EXCEPT !.at = "drop"]
  <2>1. AfterEdges(w) = {x}
    BY <1>2 DEF AfterEdges
  <2>2. /\ x.at = "drop" /\ x.queue = w.queue /\ x.node = w.node /\ x.out = w.out
        /\ x.drop = w.drop /\ x \in WorkerSet(E)
    BY DEF WorkerSet, Busy
  <2> HIDE DEF x
  <2>3. Queued(x) = Queued(w) /\ Hand(x) = {w.node} /\ Mine(x) = Queued(w) \cup {w.node}
    BY <2>2 DEF Queued, Hand, Mine, Busy
  <2>4. Left(E, x) = {}
    BY <2>2 DEF Left, Early
  <2>5. IsWorker(E, x)
    BY <2>2, <2>3 DEF IsWorker
  <2>6. Form(E, x)
    BY <1>2, <2>2 DEF Form
  <2>7. Work(E, x) = {e \in E : e.from \in Queued(w)}
    BY <2>3, <2>4 DEF Work
  <2>8. Owes(E, x)
    BY <1>2, <2>2 DEF Owes, Early
  <2>9. Debt(E, x) = {n \in Queued(w) : Sink(E, n)} \cup {w.node}
    BY <2>3, <2>8 DEF Debt
  <2> QED  BY <1>2, <2>1, <2>2, <2>3, <2>5, <2>6, <2>7, <2>9
<1>3. CASE w.out = {} /\ ~w.drop
  <2>1. AfterEdges(w) = Loop(w)
    BY <1>3 DEF AfterEdges
  <2> QED  BY <1>3, <2>1, LoopOf
<1> QED  BY <1>1, <1>2, <1>3

\* The thunk of a node in hand runs only where it may.
LEMMA NotRunning ==
    ASSUME Going, NEW w \in workers, w.at \in Busy \ Underway
    PROVE  thunk[w.node] # "running"
<1> SUFFICES ASSUME thunk[w.node] = "running" PROVE FALSE
  OBVIOUS
<1>1. w.node \in Nodes /\ w.node \in Mine(w)
  BY DEF Going, Books, IsWorker, WorkerSet, Mine, Hand
<1>2. PICK u \in workers : u.node = w.node /\ u.at \in Underway
  BY <1>1 DEF Going
<1>3. w.node \in Mine(u)
  BY <1>2 DEF Mine, Hand, Underway, Busy, Early
<1> QED  BY <1>1, <1>2, <1>3 DEF Going, Books

\* A step that hands on what a worker had.
LEMMA HandsOn ==
    ASSUME Graph(edges), Going, UNCHANGED <<edges, event, counter, pending_nodes, thunk>>,
           NEW w \in workers, w.at # "done", NEW new, Replace(w, new),
           \A v \in new : /\ IsWorker(edges, v) /\ Form(edges, v) /\ v.at # "done"
                          /\ Mine(v) \subseteq Mine(w),
           \A u, v \in new : u # v => Mine(u) \cap Mine(v) = {},
           \A e : e \in Work(edges, w) <=> \E v \in new : e \in Work(edges, v),
           \A n : n \in Debt(edges, w) <=> \E v \in new : n \in Debt(edges, v),
           w.at \in Underway /\ thunk[w.node] = "running" =>
              \E v \in new : v.node = w.node /\ v.at \in Underway
    PROVE  Going'
<1>1. Books(edges, workers, counter, pending_nodes)
  BY DEF Going
<1>2. Books(edges, (workers \ {w}) \cup new, counter, pending_nodes)
  BY <1>1, Rearranged
<1>3. ASSUME NEW n \in Nodes, thunk[n] = "running"
      PROVE  \/ n \notin Hand(w) /\ thunk[n] = "running"
             \/ \E v \in new : v.node = n /\ v.at \in Underway
  BY <1>3, NotRunning DEF Hand
<1>4. thunk' \in [Nodes -> {"idle", "running", "ok", "failed"}]
  BY DEF Going
<1> QED  BY <1>2, <1>3, <1>4, WorkerMoves

\* The names of the model for the edges of a node.
LEMMA OutEdges ==
    ASSUME NEW n
    PROVE  /\ Out(n) = From(edges, n)
           /\ IsSink(n) <=> Sink(edges, n)
           /\ SchedulingEdges(n) = OfKind(edges, n, kScheduling)
           /\ ExecutionEdges(n) = OfKind(edges, n, kExecution)
           /\ DropsPending(n) <=> Dropped(edges, n)
           /\ IncrementsPending(n) <=> OfKind(edges, n, kScheduling) # {}
BY DEF Out, From, IsSink, Sink, SchedulingEdges, ExecutionEdges, OfKind, DropsPending,
       Dropped, IncrementsPending

\* While no edge of the node in hand is processed its worker has all of them to process.
LEMMA EarlyHolds ==
    ASSUME NEW E, NEW w, w.at \in Early
    PROVE  /\ Mine(w) = Queued(w) \cup {w.node}
           /\ Work(E, w) = {e \in E : e.from \in Queued(w)} \cup From(E, w.node)
           /\ Debt(E, w) = {n \in Queued(w) : Sink(E, n)} \cup {n \in {w.node} : Sink(E, n)}
<1>1. Hand(w) = {w.node}
  BY DEF Hand, Busy
<1>2. Left(E, w) = From(E, w.node)
  BY DEF Left, Early
<1>3. Owes(E, w) <=> Sink(E, w.node)
  BY DEF Owes, Early
<1> QED  BY <1>1, <1>2, <1>3 DEF Mine, Work, Debt

\* A worker goes from one such place to another.
LEMMA EarlyMove ==
    ASSUME Graph(edges), Going, UNCHANGED <<edges, event, counter, pending_nodes>>,
           NEW w \in workers, w.at \in Early, NEW x \in Early, Goto(w, x),
           x = "launch" => w.queue # <<>>,
           thunk' \in [Nodes -> {"idle", "running", "ok", "failed"}],
           \A n \in Nodes : thunk'[n] = "running" =>
              IF n = w.node THEN x \in Underway ELSE thunk[n] = "running"
    PROVE  Going'
<1> DEFINE v == [w EXCEPT !.at = x]
<1>1. w \in WorkerSet(edges) /\ IsWorker(edges, w)
  BY DEF Going, Books, IsWorker
<1>2. /\ v.at = x /\ v.queue = w.queue /\ v.node = w.node /\ v.out = w.out
      /\ v.drop = w.drop /\ v \in WorkerSet(edges)
  BY <1>1 DEF WorkerSet, Busy
<1>3. Replace(w, {v})
  BY DEF Goto
<1> HIDE DEF v
<1>4. Queued(v) = Queued(w)
  BY <1>2 DEF Queued
<1>5. /\ Mine(v) = Mine(w) /\ Work(edges, v) = Work(edges, w) /\ Debt(edges, v) = Debt(edges, w)
  <2>1. v.at \in Early
    BY <1>2
  <2>2. /\ Mine(v) = Queued(w) \cup {w.node}
        /\ Work(edges, v) = {e \in edges : e.from \in Queued(w)} \cup From(edges, w.node)
        /\ Debt(edges, v) = {n \in Queued(w) : Sink(edges, n)} \cup {n \in {w.node} : Sink(edges, n)}
    <3>1. /\ Mine(v) = Queued(v) \cup {v.node}
          /\ Work(edges, v) = {e \in edges : e.from \in Queued(v)} \cup From(edges, v.node)
          /\ Debt(edges, v) = {n \in Queued(v) : Sink(edges, n)} \cup {n \in {v.node} : Sink(edges, n)}
      BY <2>1, EarlyHolds, Zenon
    <3>2. Queued(v) = Queued(w) /\ v.node = w.node
      BY <1>2, <1>4
    <3> QED  BY <3>1, <3>2
  <2>3. /\ Mine(w) = Queued(w) \cup {w.node}
        /\ Work(edges, w) = {e \in edges : e.from \in Queued(w)} \cup From(edges, w.node)
        /\ Debt(edges, w) = {n \in Queued(w) : Sink(edges, n)} \cup {n \in {w.node} : Sink(edges, n)}
    BY EarlyHolds, Zenon
  <2> QED  BY <2>2, <2>3, Zenon
<1>6. IsWorker(edges, v)
  BY <1>1, <1>2, <1>4 DEF IsWorker, Busy, Early
<1>7. Form(edges, v) /\ v.at # "done" /\ w.at # "done"
  BY <1>2 DEF Form, Early
<1>8. Books(edges, (workers \ {w}) \cup {v}, counter, pending_nodes)
  <2>1. Books(edges, workers, counter, pending_nodes)
    BY DEF Going
  <2> QED  BY <1>5, <1>6, <2>1, Rearranged
<1>9. ASSUME NEW n \in Nodes, thunk'[n] = "running"
      PROVE  \/ n \notin Hand(w) /\ thunk[n] = "running"
             \/ \E u \in {v} : u.node = n /\ u.at \in Underway
  BY <1>2, <1>9 DEF Hand
<1> QED  BY <1>3, <1>7, <1>8, <1>9, WorkerMoves

LEMMA PopGoing ==
    ASSUME Graph(edges), Going, NEW w \in workers, Pop(w)
    PROVE  Going'
<1> DEFINE v == [w EXCEPT !.node = Head(w.queue), !.queue = Tail(w.queue),
                          !.at = IF Len(Tail(w.queue)) > SplitThreshold /\ HasRunner
                                 THEN "split" ELSE "load"]
<1>1. IsWorker(edges, w) /\ w \in WorkerSet(edges) /\ w.queue \in Seq(Nodes) /\ OneToOne(w.queue)
  BY DEF Going, Books, IsWorker, WorkerSet
<1>2. w.at = "pop" /\ w.queue # <<>>
  BY DEF Pop, Going, Form
<1>3. /\ Head(w.queue) \in Nodes /\ Tail(w.queue) \in Seq(Nodes) /\ OneToOne(Tail(w.queue))
      /\ Head(w.queue) \notin Elems(Tail(w.queue))
      /\ Elems(w.queue) = Elems(Tail(w.queue)) \cup {Head(w.queue)}
  BY <1>1, <1>2, TailOf
<1>4. /\ v.at \in {"split", "load"} /\ v.queue = Tail(w.queue) /\ v.node = Head(w.queue)
      /\ v \in WorkerSet(edges)
  BY <1>1, <1>3 DEF WorkerSet, Busy, Early
<1>5. Replace(w, {v})
  BY DEF Pop
<1> HIDE DEF v
<1>6. v.at \in Early
  BY <1>4 DEF Early
<1>7. Queued(v) = Elems(Tail(w.queue)) /\ Queued(w) = Queued(v) \cup {v.node}
  BY <1>3, <1>4 DEF Queued
<1>8. /\ Mine(w) = Queued(w) /\ Work(edges, w) = {e \in edges : e.from \in Queued(w)}
      /\ Debt(edges, w) = {n \in Queued(w) : Sink(edges, n)}
  BY <1>2 DEF Mine, Hand, Work, Left, Debt, Busy, Early
<1>9. IsWorker(edges, v)
  BY <1>3, <1>4, <1>7 DEF IsWorker
<1>10. Form(edges, v) /\ v.at # "done"
  BY <1>4 DEF Form
<1>11. /\ Mine(v) = Mine(w) /\ Work(edges, v) = Work(edges, w) /\ Debt(edges, v) = Debt(edges, w)
  BY <1>6, <1>7, <1>8, EarlyHolds DEF From
<1>12. UNCHANGED <<edges, event, counter, pending_nodes, thunk>>
  BY DEF Pop, setting, graphVars
<1>13. w.at # "done" /\ w.at \notin Underway
  BY <1>2 DEF Underway
<1> QED  BY <1>5, <1>9, <1>10, <1>11, <1>12, <1>13, HandsOn

\* What a worker that is waiting to take a node has.
LEMMA PopHolds ==
    ASSUME NEW E, NEW w, w.at = "pop"
    PROVE  /\ Mine(w) = Queued(w)
           /\ Work(E, w) = {e \in E : e.from \in Queued(w)}
           /\ Debt(E, w) = {n \in Queued(w) : Sink(E, n)}
BY DEF Mine, Hand, Work, Left, Debt, Busy, Early

LEMMA TryJoinGoing ==
    ASSUME Graph(edges), Going, NEW w \in workers, TryJoin(w)
    PROVE  Going'
<1>1. w.queue \in Seq(Nodes) /\ SplitThreshold \in Nat
  BY ExecutorAssumption DEF Going, Books, IsWorker, WorkerSet
<1>2. PICK x \in {"launch", "load"} : Goto(w, x) /\ (x = "launch" => Len(w.queue) > SplitThreshold)
  BY DEF TryJoin
<1>3. x = "launch" => w.queue # <<>>
  BY <1>1, <1>2
<1>4. w.at \in Early \ Underway /\ x \in Early /\ w.at \in Busy
  BY DEF TryJoin, Early, Underway, Busy
<1>5. thunk[w.node] # "running"
  BY <1>4, NotRunning
<1>6. UNCHANGED <<edges, event, counter, pending_nodes, thunk>>
  BY DEF TryJoin, setting, graphVars
<1>7. thunk \in [Nodes -> {"idle", "running", "ok", "failed"}]
  BY DEF Going
<1> QED  BY <1>2, <1>3, <1>4, <1>5, <1>6, <1>7, EarlyMove

LEMMA LoadGoing ==
    ASSUME Graph(edges), Going, NEW w \in workers, Load(w)
    PROVE  Going'
<1>1. w.at \in Early \ Underway /\ w.at \in Busy /\ "execute" \in Early
  BY DEF Load, Early, Underway, Busy
<1>2. thunk[w.node] # "running"
  BY <1>1, NotRunning
<1>3. UNCHANGED <<edges, event, counter, pending_nodes, thunk>> /\ Goto(w, "execute")
  BY DEF Load, setting, graphVars
<1>4. thunk \in [Nodes -> {"idle", "running", "ok", "failed"}]
  BY DEF Going
<1> QED  BY <1>1, <1>2, <1>3, <1>4, EarlyMove

LEMMA ExecuteGoing ==
    ASSUME Graph(edges), Going, NEW w \in workers, Execute(w)
    PROVE  Going'
<1>1. w.at \in Early /\ "executing" \in Early /\ "executing" \in Underway
  BY DEF Execute, Early, Underway
<1>2. UNCHANGED <<edges, event, counter, pending_nodes>> /\ Goto(w, "executing")
  BY DEF Execute, setting, graphVars
<1>3. /\ thunk' = [thunk EXCEPT ![w.node] = "running"]
      /\ thunk \in [Nodes -> {"idle", "running", "ok", "failed"}]
  BY DEF Going, Execute
<1> QED  BY <1>1, <1>2, <1>3, EarlyMove

LEMMA ReturnLaterGoing ==
    ASSUME Graph(edges), Going, NEW w \in workers, ReturnLater(w)
    PROVE  Going'
<1>1. w.at \in Early /\ "scheduled" \in Early /\ "scheduled" \in Underway
  BY DEF ReturnLater, Early, Underway
<1>2. UNCHANGED <<edges, event, counter, pending_nodes, thunk>> /\ Goto(w, "scheduled")
  BY DEF ReturnLater, setting, graphVars
<1>3. thunk \in [Nodes -> {"idle", "running", "ok", "failed"}]
  BY DEF Going
<1> QED  BY <1>1, <1>2, <1>3, EarlyMove

\* Half of the queue, not less than one node, goes to a new worker.
LEMMA LaunchOf ==
    ASSUME Going, NEW w \in workers, Launch(w)
    PROVE  \E x, y : /\ Replace(w, {x, y})
                     /\ x \in WorkerSet(edges) /\ y \in WorkerSet(edges)
                     /\ x.at = "split" /\ x.node = w.node /\ y.at = "pop" /\ y.queue # <<>>
                     /\ OneToOne(x.queue) /\ OneToOne(y.queue)
                     /\ Queued(x) \cap Queued(y) = {} /\ Queued(w) = Queued(x) \cup Queued(y)
<1> DEFINE m == Kept(w.queue)
           a == SubSeq(w.queue, 1, m)
           b == SubSeq(w.queue, m + 1, Len(w.queue))
           x == [w EXCEPT !.at = "split", !.queue = a]
           y == Worker("pop", b, 0, {}, FALSE, TRUE)
<1>1. w \in WorkerSet(edges) /\ w.queue \in Seq(Nodes) /\ OneToOne(w.queue)
  BY DEF Going, Books, IsWorker, WorkerSet
<1>2. w.queue # <<>>
  BY DEF Launch, Going, Form
<1>3. Len(w.queue) \in Nat \ {0}
  BY <1>1, <1>2
<1>4. m \in 0..Len(w.queue) /\ m < Len(w.queue)
  <2>1. \A n \in Nat \ {0} : /\ n \div 2 \in Int /\ 0 <= n \div 2 /\ n \div 2 < n
    OBVIOUS
  <2>2. m = Len(w.queue) - (Len(w.queue) \div 2 + 1) \/ m = Len(w.queue) \div 2
    BY DEF Kept
  <2>3. \A n \in Nat \ {0}, h \in Int : 0 <= h /\ h < n =>
          h \in 0..n /\ n - (h + 1) \in 0..n /\ n - (h + 1) < n
    OBVIOUS
  <2> HIDE DEF m
  <2> QED  BY <1>3, <2>1, <2>2, <2>3
<1> HIDE DEF m
<1>5. /\ a \in Seq(Nodes) /\ b \in Seq(Nodes) /\ OneToOne(a) /\ OneToOne(b)
      /\ Elems(a) \cap Elems(b) = {} /\ Elems(w.queue) = Elems(a) \cup Elems(b)
      /\ Len(b) = Len(w.queue) - m
  BY <1>1, <1>4, HalvesOf, Zenon
<1>6. b # <<>>
  <2>1. Len(b) # 0
    BY <1>3, <1>4, <1>5
  <2> HIDE DEF b
  <2> QED  BY <2>1
<1>7. Replace(w, {x, y})
  <2>1. PoppedHalf(w.queue) = b
    BY DEF PoppedHalf, HalfFrom, m
  <2>2. Replace(w, {x} \cup Loop(Worker("launch", b, 0, {}, FALSE, TRUE)))
    BY <2>1 DEF Launch, m
  <2>3. Loop(Worker("launch", b, 0, {}, FALSE, TRUE)) = {y}
    <3> HIDE DEF b
    <3> QED  BY <1>6 DEF Loop, Worker
  <2> HIDE DEF x, y, b
  <2>4. {x} \cup {y} = {x, y}
    OBVIOUS
  <2> QED  BY <2>2, <2>3, <2>4, Zenon
<1> HIDE DEF a, b
<1>8. /\ x.at = "split" /\ x.queue = a /\ x.node = w.node /\ x \in WorkerSet(edges)
      /\ y.at = "pop" /\ y.queue = b /\ y \in WorkerSet(edges)
  BY <1>1, <1>5, NodesFinite DEF WorkerSet, Worker, Busy, Early
<1> HIDE DEF x, y
<1>9. Queued(x) = Elems(a) /\ Queued(y) = Elems(b) /\ Queued(w) = Queued(x) \cup Queued(y)
  BY <1>5, <1>8 DEF Queued
<1>10. Queued(x) \cap Queued(y) = {} /\ y.queue # <<>> /\ OneToOne(x.queue) /\ OneToOne(y.queue)
  BY <1>5, <1>6, <1>8, <1>9
<1> QED  BY <1>7, <1>8, <1>9, <1>10

LEMMA LaunchGoing ==
    ASSUME Graph(edges), Going, NEW w \in workers, Launch(w)
    PROVE  Going'
<1>1. IsWorker(edges, w) /\ w \in WorkerSet(edges)
  BY DEF Going, Books, IsWorker
<1>2. w.at = "launch" /\ w.at \in Early
  BY DEF Launch, Early
<1>3. PICK x, y : /\ Replace(w, {x, y})
                  /\ x \in WorkerSet(edges) /\ y \in WorkerSet(edges)
                  /\ x.at = "split" /\ x.node = w.node /\ y.at = "pop" /\ y.queue # <<>>
                  /\ OneToOne(x.queue) /\ OneToOne(y.queue)
                  /\ Queued(x) \cap Queued(y) = {} /\ Queued(w) = Queued(x) \cup Queued(y)
  BY LaunchOf
<1>4. x.at \in Early /\ x.at # "done" /\ y.at # "done"
  BY <1>3 DEF Early
<1>5. w.node \notin Queued(w)
  BY <1>1, <1>2 DEF IsWorker, Busy
<1>6. IsWorker(edges, x) /\ IsWorker(edges, y)
  BY <1>3, <1>5 DEF IsWorker, Busy, Early
<1>7. Form(edges, x) /\ Form(edges, y)
  BY <1>3 DEF Form
<1>8. /\ Mine(w) = Queued(w) \cup {w.node} /\ Mine(x) = Queued(x) \cup {w.node}
      /\ Work(edges, w) = {e \in edges : e.from \in Queued(w)} \cup From(edges, w.node)
      /\ Work(edges, x) = {e \in edges : e.from \in Queued(x)} \cup From(edges, w.node)
      /\ Debt(edges, w) = {n \in Queued(w) : Sink(edges, n)} \cup {n \in {w.node} : Sink(edges, n)}
      /\ Debt(edges, x) = {n \in Queued(x) : Sink(edges, n)} \cup {n \in {w.node} : Sink(edges, n)}
  <2>1. x.node = w.node
    BY <1>3
  <2> QED  BY <1>2, <1>4, <2>1, EarlyHolds
<1>9. /\ Mine(y) = Queued(y)
      /\ Work(edges, y) = {e \in edges : e.from \in Queued(y)}
      /\ Debt(edges, y) = {n \in Queued(y) : Sink(edges, n)}
  BY <1>3, PopHolds
<1>10. Mine(x) \cap Mine(y) = {} /\ Mine(x) \subseteq Mine(w) /\ Mine(y) \subseteq Mine(w)
  BY <1>3, <1>5, <1>8, <1>9
<1>11. /\ \A e : e \in Work(edges, w) <=> \E v \in {x, y} : e \in Work(edges, v)
       /\ \A n : n \in Debt(edges, w) <=> \E v \in {x, y} : n \in Debt(edges, v)
  BY <1>3, <1>8, <1>9
<1>12. UNCHANGED <<edges, event, counter, pending_nodes, thunk>>
  BY DEF Launch, setting, graphVars
<1>13. w.at # "done" /\ w.at \notin Underway
  BY <1>2 DEF Underway
<1>14. \A u, v \in {x, y} : u # v => Mine(u) \cap Mine(v) = {}
  BY <1>10
<1>15. \A v \in {x, y} : /\ IsWorker(edges, v) /\ Form(edges, v) /\ v.at # "done"
                         /\ Mine(v) \subseteq Mine(w)
  BY <1>4, <1>6, <1>7, <1>10
<1> QED  BY <1>3, <1>11, <1>12, <1>13, <1>14, <1>15, HandsOn

LEMMA OffloadGoing ==
    ASSUME Graph(edges), Going, NEW w \in workers, Offload(w)
    PROVE  Going'
<1> DEFINE y == Worker("pop", <<w.node>>, 0, {}, FALSE, TRUE)
           new == Loop(w) \cup {y}
<1>1. IsWorker(edges, w) /\ w \in WorkerSet(edges) /\ OneToOne(w.queue) /\ w.node \in Nodes
  BY DEF Going, Books, IsWorker, WorkerSet
<1>2. w.at = "load" /\ w.at \in Early /\ w.at \in Busy
  BY DEF Offload, Early, Busy
<1>3. <<w.node>> \in Seq(Nodes) /\ OneToOne(<<w.node>>) /\ Elems(<<w.node>>) = {w.node}
      /\ Len(<<w.node>>) = 1
  BY <1>1, OneNode
<1>4. y.at = "pop" /\ y.queue = <<w.node>> /\ y \in WorkerSet(edges)
  BY <1>1, <1>3, NodesFinite DEF WorkerSet, Worker, Busy, Early
<1>5. Replace(w, new)
  BY DEF Offload
<1> HIDE DEF y
<1>6. Queued(y) = {w.node} /\ y.queue # <<>>
  BY <1>3, <1>4 DEF Queued
<1>7. IsWorker(edges, y) /\ Form(edges, y)
  BY <1>3, <1>4, <1>6 DEF IsWorker, Form, Busy, Early
<1>8. /\ Mine(y) = {w.node} /\ Work(edges, y) = From(edges, w.node)
      /\ Debt(edges, y) = {n \in {w.node} : Sink(edges, n)}
  <2>1. /\ Mine(y) = Queued(y) /\ Work(edges, y) = {e \in edges : e.from \in Queued(y)}
        /\ Debt(edges, y) = {n \in Queued(y) : Sink(edges, n)}
    BY <1>4, PopHolds
  <2> QED  BY <1>6, <2>1 DEF From
<1>9. /\ Mine(w) = Queued(w) \cup {w.node} /\ w.node \notin Queued(w)
      /\ Work(edges, w) = {e \in edges : e.from \in Queued(w)} \cup From(edges, w.node)
      /\ Debt(edges, w) = {n \in Queued(w) : Sink(edges, n)} \cup {n \in {w.node} : Sink(edges, n)}
  BY <1>1, <1>2, EarlyHolds DEF IsWorker
<1>10. /\ \A v \in Loop(w) : /\ IsWorker(edges, v) /\ Form(edges, v) /\ v.at = "pop"
                             /\ Mine(v) = Queued(w)
       /\ \A u, v \in Loop(w) : u = v
       /\ \A e : (e \in edges /\ e.from \in Queued(w)) <=> \E v \in Loop(w) : e \in Work(edges, v)
       /\ \A n : (n \in Queued(w) /\ Sink(edges, n)) <=> \E v \in Loop(w) : n \in Debt(edges, v)
  BY <1>1, LoopOf
<1>11. \A v \in new : /\ IsWorker(edges, v) /\ Form(edges, v) /\ v.at # "done"
                      /\ Mine(v) \subseteq Mine(w)
  BY <1>4, <1>7, <1>8, <1>9, <1>10
<1>12. \A u, v \in new : u # v => Mine(u) \cap Mine(v) = {}
  BY <1>8, <1>9, <1>10
<1>13. \A e : e \in Work(edges, w) <=> \E v \in new : e \in Work(edges, v)
  BY <1>8, <1>9, <1>10
<1>14. \A n : n \in Debt(edges, w) <=> \E v \in new : n \in Debt(edges, v)
  BY <1>8, <1>9, <1>10
<1>15. UNCHANGED <<edges, event, counter, pending_nodes, thunk>>
  BY DEF Offload, setting, graphVars
<1>16. w.at # "done" /\ w.at \notin Underway
  BY <1>2 DEF Underway
<1> HIDE DEF new
<1> QED  BY <1>5, <1>11, <1>12, <1>13, <1>14, <1>15, <1>16, HandsOn

\* What a worker becomes that has edges es of the node in hand to process, and then to
\* drop pending_nodes or not.
Continues(w, es, drop, new) ==
    /\ \A v \in new : /\ IsWorker(edges, v) /\ Form(edges, v) /\ v.at # "done"
                      /\ Mine(v) \subseteq Queued(w) \cup {w.node}
    /\ \A u, v \in new : u = v
    /\ \A e : (e \in edges /\ e.from \in Queued(w)) \/ e \in es
                 <=> \E v \in new : e \in Work(edges, v)
    /\ \A n : (n \in Queued(w) /\ Sink(edges, n)) \/ (n = w.node /\ drop)
                 <=> \E v \in new : n \in Debt(edges, v)

LEMMA AfterEdgesContinue ==
    ASSUME NEW w \in WorkerSet(edges), OneToOne(w.queue), w.node \notin Queued(w),
           w.out \subseteq From(edges, w.node)
    PROVE  Continues(w, w.out, w.drop, AfterEdges(w))
BY AfterEdgesOf DEF Continues

LEMMA CompletedContinue ==
    ASSUME NEW w \in WorkerSet(edges), OneToOne(w.queue), w.node \notin Queued(w),
           NEW es \in SUBSET From(edges, w.node), NEW drop \in BOOLEAN, es = {} => drop
    PROVE  Continues(w, es, drop, Completed(w, es, drop))
<1> DEFINE c == [w EXCEPT !.out = es, !.drop = drop]
           x == [c EXCEPT !.at = "error"]
<1>1. es \subseteq edges
  BY DEF From
<1>2. /\ c.queue = w.queue /\ c.node = w.node /\ c.out = es /\ c.drop = drop
      /\ c \in WorkerSet(edges)
  BY <1>1 DEF WorkerSet
<1>3. /\ x.at = "error" /\ x.queue = w.queue /\ x.node = w.node /\ x.out = es /\ x.drop = drop
      /\ x \in WorkerSet(edges)
  BY <1>1 DEF WorkerSet, Busy
<1>4. Completed(w, es, drop) = {x} \/ Completed(w, es, drop) = AfterEdges(c)
  BY DEF Completed
<1> HIDE DEF c, x
<1>5. Queued(c) = Queued(w) /\ Queued(x) = Queued(w)
  BY <1>2, <1>3 DEF Queued
<1>6. CASE Completed(w, es, drop) = AfterEdges(c)
  <2>1. Continues(c, c.out, c.drop, AfterEdges(c))
    BY <1>2, <1>5, AfterEdgesContinue
  <2> QED  BY <1>2, <1>5, <1>6, <2>1 DEF Continues
<1>7. CASE Completed(w, es, drop) = {x}
  <2>1. Hand(x) = {w.node} /\ Mine(x) = Queued(w) \cup {w.node}
    BY <1>3, <1>5 DEF Hand, Mine, Busy
  <2>2. Left(edges, x) = es /\ (Owes(edges, x) <=> drop)
    BY <1>3 DEF Left, Owes, Early
  <2>3. IsWorker(edges, x) /\ Form(edges, x)
    BY <1>3, <1>5 DEF IsWorker, Form
  <2>4. Work(edges, x) = {e \in edges : e.from \in Queued(w)} \cup es
    BY <1>5, <2>2 DEF Work
  <2>5. Debt(edges, x) = {n \in Queued(w) : Sink(edges, n)} \cup {n \in {w.node} : drop}
    BY <1>5, <2>1, <2>2 DEF Debt
  <2> QED  BY <1>3, <1>7, <2>1, <2>3, <2>4, <2>5 DEF Continues
<1> QED  BY <1>4, <1>6, <1>7

\* A worker continues with the edges it had, when its thunk is over.
LEMMA ContinuesGoing ==
    ASSUME Graph(edges), Going, UNCHANGED <<edges, event, counter, pending_nodes, thunk>>,
           NEW w \in workers, w.at \in Busy, thunk[w.node] # "running",
           NEW es, NEW drop, NEW new, Replace(w, new), Continues(w, es, drop, new),
           Left(edges, w) = es, Owes(edges, w) <=> drop
    PROVE  Going'
<1>1. Mine(w) = Queued(w) \cup {w.node} /\ Hand(w) = {w.node}
  BY DEF Mine, Hand
<1>2. \A v \in new : /\ IsWorker(edges, v) /\ Form(edges, v) /\ v.at # "done"
                     /\ Mine(v) \subseteq Mine(w)
  BY <1>1 DEF Continues
<1>3. \A u, v \in new : u # v => Mine(u) \cap Mine(v) = {}
  BY DEF Continues
<1>4. \A e : e \in Work(edges, w) <=> \E v \in new : e \in Work(edges, v)
  BY DEF Continues, Work
<1>5. \A n : n \in Debt(edges, w) <=> \E v \in new : n \in Debt(edges, v)
  BY <1>1 DEF Continues, Debt
<1>6. w.at # "done"
  BY DEF Busy, Early
<1> QED  BY <1>2, <1>3, <1>4, <1>5, <1>6, HandsOn

LEMMA ReturnNowGoing ==
    ASSUME Graph(edges), Going, NEW w \in workers, ReturnNow(w)
    PROVE  Going'
<1>1. IsWorker(edges, w) /\ w \in WorkerSet(edges) /\ OneToOne(w.queue)
  BY DEF Going, Books, IsWorker
<1>2. w.at \in Early /\ w.at \in Busy /\ thunk[w.node] # "running"
  BY DEF ReturnNow, Early, Busy
<1>3. Out(w.node) = From(edges, w.node) /\ (IsSink(w.node) <=> Sink(edges, w.node))
  BY OutEdges
<1>4. IsSink(w.node) \in BOOLEAN /\ (Out(w.node) = {} => IsSink(w.node))
  BY DEF IsSink
<1>5. w.node \notin Queued(w)
  BY <1>1, <1>2 DEF IsWorker
<1>6. Continues(w, Out(w.node), IsSink(w.node), Completed(w, Out(w.node), IsSink(w.node)))
  BY <1>1, <1>3, <1>4, <1>5, CompletedContinue
<1>7. Left(edges, w) = Out(w.node) /\ (Owes(edges, w) <=> IsSink(w.node))
  BY <1>2, <1>3 DEF Left, Owes, Early
<1>8. UNCHANGED <<edges, event, counter, pending_nodes, thunk>>
  BY DEF ReturnNow, setting, graphVars
<1>9. Replace(w, Completed(w, Out(w.node), IsSink(w.node)))
  BY DEF ReturnNow
<1> QED  BY <1>2, <1>6, <1>7, <1>8, <1>9, ContinuesGoing

LEMMA SkipGoing ==
    ASSUME Graph(edges), Going, NEW w \in workers, Skip(w)
    PROVE  Going'
<1> DEFINE c == [w EXCEPT !.out = Out(w.node), !.drop = IsSink(w.node)]
<1>1. IsWorker(edges, w) /\ w \in WorkerSet(edges) /\ OneToOne(w.queue)
  BY DEF Going, Books, IsWorker
<1>2. w.at \in Early /\ w.at \in Busy /\ w.at \notin Underway
  BY DEF Skip, Early, Busy, Underway
<1>3. /\ Out(w.node) = From(edges, w.node) /\ Out(w.node) \subseteq edges
      /\ IsSink(w.node) <=> Sink(edges, w.node)
      /\ IsSink(w.node) \in BOOLEAN
  BY OutEdges DEF Out, IsSink
<1>4. /\ c.queue = w.queue /\ c.node = w.node /\ c.out = Out(w.node) /\ c.drop = IsSink(w.node)
      /\ c \in WorkerSet(edges)
  BY <1>1, <1>3 DEF WorkerSet
<1>5. Replace(w, AfterEdges(c))
  BY DEF Skip
<1> HIDE DEF c
<1>6. Queued(c) = Queued(w) /\ w.node \notin Queued(w)
  BY <1>1, <1>2, <1>4 DEF Queued, IsWorker
<1>7. Continues(c, c.out, c.drop, AfterEdges(c))
  BY <1>1, <1>3, <1>4, <1>6, AfterEdgesContinue
<1>8. Continues(w, Out(w.node), IsSink(w.node), AfterEdges(c))
  BY <1>4, <1>6, <1>7 DEF Continues
<1>9. Left(edges, w) = Out(w.node) /\ (Owes(edges, w) <=> IsSink(w.node))
  BY <1>2, <1>3 DEF Left, Owes, Early
<1>10. UNCHANGED <<edges, event, counter, pending_nodes, thunk>>
  BY DEF Skip, setting, graphVars
<1>11. thunk[w.node] # "running"
  BY <1>2, NotRunning
<1> QED  BY <1>2, <1>5, <1>8, <1>9, <1>10, <1>11, ContinuesGoing

\* A node without execution edges is a sink or has scheduling edges.
LEMMA DroppedNode ==
    ASSUME Graph(edges), NEW n
    PROVE  OfKind(edges, n, kExecution) = {} => Dropped(edges, n)
<1>1. \A e \in From(edges, n) : e.kind \in Kinds
  BY DEF From, Graph, EdgeSet
<1> QED  BY <1>1 DEF OfKind, Dropped, Sink, Kinds

LEMMA ResumeGoing ==
    ASSUME Graph(edges), Going, NEW w \in workers, Resume(w)
    PROVE  Going'
<1>1. IsWorker(edges, w) /\ w \in WorkerSet(edges) /\ OneToOne(w.queue) /\ w.drop \in BOOLEAN
  BY DEF Going, Books, IsWorker, WorkerSet
<1>2. w.at = "waiting" /\ w.at \in Busy /\ thunk[w.node] # "running"
  BY DEF Resume, Busy
<1>3. ExecutionEdges(w.node) = OfKind(edges, w.node, kExecution)
  BY OutEdges
<1>4. ExecutionEdges(w.node) \subseteq From(edges, w.node)
  BY <1>3 DEF OfKind
<1>5. w.drop = Dropped(edges, w.node)
  BY <1>2 DEF Going, Form
<1>6. ExecutionEdges(w.node) = {} => w.drop
  BY <1>3, <1>5, DroppedNode
<1>7. w.node \notin Queued(w)
  BY <1>1, <1>2 DEF IsWorker
<1>8. Continues(w, ExecutionEdges(w.node), w.drop, Completed(w, ExecutionEdges(w.node), w.drop))
  BY <1>1, <1>4, <1>6, <1>7, CompletedContinue
<1>9. Left(edges, w) = ExecutionEdges(w.node) /\ (Owes(edges, w) <=> w.drop)
  BY <1>2, <1>3 DEF Left, Owes, Early
<1>10. UNCHANGED <<edges, event, counter, pending_nodes, thunk>>
  BY DEF Resume, setting, graphVars
<1>11. Replace(w, Completed(w, ExecutionEdges(w.node), w.drop))
  BY DEF Resume
<1> QED  BY <1>2, <1>8, <1>9, <1>10, <1>11, ContinuesGoing

LEMMA ErrorGoing ==
    ASSUME Graph(edges), Going, NEW w \in workers, Error(w)
    PROVE  Going'
<1>1. IsWorker(edges, w) /\ w \in WorkerSet(edges) /\ OneToOne(w.queue)
  BY DEF Going, Books, IsWorker
<1>2. w.at = "error" /\ w.at \in Busy /\ w.at \notin Underway
  BY DEF Error, Busy, Underway
<1>3. w.out \subseteq From(edges, w.node) /\ w.node \notin Queued(w)
  BY <1>1, <1>2 DEF IsWorker
<1>4. Continues(w, w.out, w.drop, AfterEdges(w))
  BY <1>1, <1>3, AfterEdgesContinue
<1>5. Left(edges, w) = w.out /\ (Owes(edges, w) <=> w.drop)
  BY <1>2 DEF Left, Owes, Early
<1>6. UNCHANGED <<edges, event, counter, pending_nodes, thunk>>
  BY DEF Error, setting, graphVars
<1>7. Replace(w, AfterEdges(w))
  BY DEF Error
<1>8. thunk[w.node] # "running"
  BY <1>2, NotRunning
<1> QED  BY <1>2, <1>4, <1>5, <1>6, <1>7, <1>8, ContinuesGoing

\* NextEdge picks one of the edges.
LEMMA NextEdgeIn ==
    ASSUME NEW es \in SUBSET EdgeSet, es # {}
    PROVE  NextEdge(es) \in es
<1> DEFINE S == {e.to : e \in es}
<1>1. S \in SUBSET Nodes /\ S # {}
  BY DEF EdgeSet
<1>2. PICK x \in S : \A y \in S : x <= y
  BY <1>1, FirstNode
<1>3. PICK e \in es : e.to = x
  OBVIOUS
<1>4. IsFirst(e, es)
  BY <1>2, <1>3 DEF IsFirst
<1> QED  BY <1>4 DEF NextEdge

\* Worker w with its next edge processed.
Processed(w) ==
    LET e == NextEdge(w.out) IN [w EXCEPT !.queue = Pushed(w.queue, e), !.out = w.out \ {e}]

\* An edge is processed: the counter behind it, the queue, and the books.
LEMMA ProcessEdge ==
    ASSUME Graph(edges), Going, ready_queue_type \in {"fifo", "lifo", "priority"},
           NEW w \in workers, w.at \in {"sched", "edges"}, CountDown(NextEdge(w.out)),
           NEW v, v = Processed(w), NEW W, W = (workers \ {w}) \cup {v}
    PROVE  /\ IsWorker(edges, v)
           /\ v.at = w.at /\ v.node = w.node /\ v.drop = w.drop
           /\ v.out = w.out \ {NextEdge(w.out)}
           /\ v \in WorkerSet(edges) /\ OneToOne(v.queue)
           /\ Books(edges, W, counter', pending_nodes)
           /\ W \ {v} = workers \ {w}
<1> DEFINE e == NextEdge(w.out)
           q == Pushed(w.queue, e)
<1>1. IsWorker(edges, w) /\ w \in WorkerSet(edges) /\ OneToOne(w.queue) /\ w.queue \in Seq(Nodes)
  BY DEF Going, Books, IsWorker, WorkerSet
<1>2. Books(edges, workers, counter, pending_nodes)
  BY DEF Going
<1>3. w.out # {} /\ w.out \subseteq edges /\ w.out \subseteq EdgeSet
  BY <1>1 DEF Going, Form, WorkerSet, Graph
<1>4. e \in w.out
  BY <1>3, NextEdgeIn
<1>5. CountDown(e) /\ v = [w EXCEPT !.queue = q, !.out = w.out \ {e}]
  BY DEF Processed
<1> HIDE DEF e
<1>6. e \in EdgeSet /\ e.to \in Nodes
  BY <1>3, <1>4 DEF EdgeSet
<1>7. counter[e.to] # 0
  <2>1. e \in Todo(edges, workers, counter)
    <3>1. e \in Left(edges, w)
      BY <1>4 DEF Left, Early
    <3> QED  BY <1>3, <1>4, <3>1 DEF Todo, Work
  <2> QED  BY <1>2, <2>1, TodoCounts
<1>8. e.to \notin Elems(w.queue)
  BY <1>2, <1>7 DEF Books, Mine, Queued
<1>9. /\ q \in Seq(Nodes) /\ OneToOne(q)
      /\ Elems(q) = Queued(w) \cup (IF counter[e.to] = 1 THEN {e.to} ELSE {})
  BY <1>1, <1>6, <1>8, PushedNode DEF Pushed, Queued
<1> HIDE DEF q
<1>10. /\ v \in WorkerSet(edges) /\ v.queue = q
       /\ v.at = w.at /\ v.node = w.node /\ v.out = w.out \ {e} /\ v.drop = w.drop
  BY <1>1, <1>5, <1>9 DEF WorkerSet
<1>11. counter' = [counter EXCEPT ![e.to] = counter[e.to] - 1]
  BY <1>5 DEF CountDown
<1>12. EdgeStep(edges, w, v, e, counter, counter')
  BY <1>4, <1>9, <1>10, <1>11 DEF EdgeStep, Queued
<1>13. IsWorker(edges, v) /\ Books(edges, W, counter', pending_nodes)
  BY <1>2, <1>12, EdgeDone
<1>14. v \notin workers \ {w}
  <2>1. w.node \in Mine(w) /\ w.node \in Mine(v)
    BY <1>10 DEF Mine, Hand, Busy
  <2> QED  BY <1>2, <2>1 DEF Books
<1>15. OneToOne(v.queue)
  BY <1>9, <1>10
<1> QED  BY <1>10, <1>13, <1>14, <1>15 DEF e

LEMMA CompletedEdgeGoing ==
    ASSUME Graph(edges), Going, ready_queue_type \in {"fifo", "lifo", "priority"},
           NEW w \in workers, CompletedEdge(w)
    PROVE  Going'
<1> DEFINE e == NextEdge(w.out)
           v == Processed(w)
           W == (workers \ {w}) \cup {v}
<1>1. w.at = "edges" /\ w.at \in {"sched", "edges"} /\ CountDown(e) /\ w \in WorkerSet(edges)
  BY DEF CompletedEdge, Going, Books, IsWorker
<1>2. Replace(w, AfterEdges(v))
  <2>1. v = [w EXCEPT !.queue = Pushed(w.queue, e), !.out = @ \ {e}]
    BY <1>1 DEF WorkerSet, Processed
  <2> HIDE DEF v
  <2> QED  BY <2>1 DEF CompletedEdge
<1>3. /\ IsWorker(edges, v)
      /\ v.at = w.at /\ v.node = w.node /\ v.out = w.out \ {e} /\ v.drop = w.drop
      /\ v \in WorkerSet(edges) /\ OneToOne(v.queue)
      /\ Books(edges, W, counter', pending_nodes)
      /\ W \ {v} = workers \ {w}
  BY <1>1, ProcessEdge
<1> HIDE DEF e, v
<1>4. v \in W
  OBVIOUS
<1> HIDE DEF W
<1>5. v.node \notin Queued(v) /\ v.out \subseteq From(edges, v.node) /\ v.at = "edges"
  BY <1>1, <1>3 DEF IsWorker, Busy
<1>6. Continues(v, v.out, v.drop, AfterEdges(v))
  BY <1>3, <1>5, AfterEdgesContinue
<1>7. /\ Mine(v) = Queued(v) \cup {v.node} /\ Left(edges, v) = v.out
      /\ (Owes(edges, v) <=> v.drop) /\ Hand(v) = {v.node}
  BY <1>5 DEF Mine, Hand, Left, Owes, Busy, Early
<1>8. Books(edges, (W \ {v}) \cup AfterEdges(v), counter', pending_nodes)
  <2>1. /\ \A u \in AfterEdges(v) : IsWorker(edges, u) /\ Mine(u) \subseteq Mine(v)
        /\ \A x, y \in AfterEdges(v) : x # y => Mine(x) \cap Mine(y) = {}
    BY <1>6, <1>7 DEF Continues
  <2>2. \A f : f \in Work(edges, v) <=> \E u \in AfterEdges(v) : f \in Work(edges, u)
    BY <1>6, <1>7 DEF Continues, Work
  <2>3. \A n : n \in Debt(edges, v) <=> \E u \in AfterEdges(v) : n \in Debt(edges, u)
    BY <1>6, <1>7 DEF Continues, Debt
  <2> QED  BY <1>3, <1>4, <2>1, <2>2, <2>3, Rearranged
<1>9. UNCHANGED <<edges, event, pending_nodes, thunk>>
  BY DEF CompletedEdge, setting, graphVars
<1>10. thunk[w.node] # "running" /\ w.at # "done" /\ Hand(w) = {w.node}
  BY <1>1, NotRunning DEF Busy, Underway, Hand
<1>11. \A u \in AfterEdges(v) : Form(edges, u) /\ u.at # "done"
  BY <1>6 DEF Continues
<1>12. thunk' \in [Nodes -> {"idle", "running", "ok", "failed"}]
  BY <1>9 DEF Going
<1>13. \A n \in Nodes : thunk'[n] = "running" => n \notin Hand(w) /\ thunk[n] = "running"
  BY <1>9, <1>10
<1> QED  BY <1>2, <1>3, <1>8, <1>9, <1>10, <1>11, <1>12, <1>13, WorkerMoves

\* The rest of a worker's round at a node whose thunk has not completed.
LEMMA ScheduledEdgeGoing ==
    ASSUME Graph(edges), Going, ready_queue_type \in {"fifo", "lifo", "priority"},
           NEW w \in workers, ScheduledEdge(w)
    PROVE  Going'
<1> DEFINE e == NextEdge(w.out)
           rest == w.out \ {e}
           v == Processed(w)
           W == (workers \ {w}) \cup {v}
           x == [v EXCEPT !.at = IF rest = {} THEN "attach" ELSE "sched"]
<1>1. w.at = "sched" /\ w.at \in {"sched", "edges"} /\ CountDown(e) /\ w \in WorkerSet(edges)
  BY DEF ScheduledEdge, Going, Books, IsWorker
<1>2. Replace(w, {x})
  <2>1. x = [w EXCEPT !.queue = Pushed(w.queue, e), !.out = rest,
                      !.at = IF rest = {} THEN "attach" ELSE "sched"]
    BY <1>1 DEF WorkerSet, Processed
  <2> HIDE DEF x
  <2> QED  BY <2>1 DEF ScheduledEdge
<1>3. /\ IsWorker(edges, v)
      /\ v.at = w.at /\ v.node = w.node /\ v.out = rest /\ v.drop = w.drop
      /\ v \in WorkerSet(edges) /\ OneToOne(v.queue)
      /\ Books(edges, W, counter', pending_nodes)
      /\ W \ {v} = workers \ {w}
  BY <1>1, ProcessEdge
<1>4. v \in W
  OBVIOUS
<1> HIDE DEF v, W, rest
<1>5. /\ x.at = (IF rest = {} THEN "attach" ELSE "sched") /\ x.queue = v.queue
      /\ x.node = v.node /\ x.out = rest /\ x.drop = v.drop /\ x \in WorkerSet(edges)
  BY <1>3 DEF WorkerSet, Busy
<1> HIDE DEF x
<1>6. Queued(x) = Queued(v) /\ Hand(x) = {v.node} /\ Hand(v) = {v.node} /\ Mine(x) = Mine(v)
  BY <1>1, <1>3, <1>5 DEF Queued, Hand, Mine, Busy
<1>7. Left(edges, x) = Left(edges, v)
  BY <1>1, <1>3, <1>5 DEF Left, Early
<1>8. Owes(edges, x) <=> Owes(edges, v)
  BY <1>1, <1>3, <1>5 DEF Owes, Early
<1>9. Work(edges, x) = Work(edges, v) /\ Debt(edges, x) = Debt(edges, v)
  BY <1>6, <1>7, <1>8 DEF Work, Debt
<1>10. IsWorker(edges, x)
  BY <1>1, <1>3, <1>5, <1>6 DEF IsWorker, Busy
<1>11. Form(edges, x) /\ x.at # "done" /\ x.at \in Underway
  BY <1>5 DEF Form, Underway
<1>12. Books(edges, (W \ {v}) \cup {x}, counter', pending_nodes)
  BY <1>3, <1>4, <1>6, <1>9, <1>10, Rearranged
<1>13. UNCHANGED <<edges, event, pending_nodes, thunk>>
  BY DEF ScheduledEdge, setting, graphVars
<1>14. thunk' \in [Nodes -> {"idle", "running", "ok", "failed"}]
  BY <1>13 DEF Going
<1>15. ASSUME NEW n \in Nodes, thunk'[n] = "running"
       PROVE  \/ n \notin Hand(w) /\ thunk[n] = "running"
              \/ \E u \in {x} : u.node = n /\ u.at \in Underway
  BY <1>3, <1>5, <1>11, <1>13, <1>15 DEF Hand
<1>16. w.at # "done"
  BY <1>1
<1> QED  BY <1>2, <1>3, <1>11, <1>12, <1>13, <1>14, <1>15, <1>16, WorkerMoves

LEMMA ScheduledGoing ==
    ASSUME Graph(edges), Going, NEW w \in workers, Scheduled(w)
    PROVE  Going'
<1> DEFINE S == SchedulingEdges(w.node)
           x == [w EXCEPT !.at = IF S = {} THEN "attach" ELSE "sched", !.out = S]
<1>1. IsWorker(edges, w) /\ w \in WorkerSet(edges) /\ Books(edges, workers, counter, pending_nodes)
  BY DEF Going, Books, IsWorker
<1>2. w.at = "scheduled" /\ w.at \in Early /\ w.at \in Busy
  BY DEF Scheduled, Early, Busy
<1>3. Replace(w, {x})
  BY DEF Scheduled
<1>4. S = OfKind(edges, w.node, kScheduling) /\ S \subseteq edges
  BY OutEdges DEF OfKind, From
<1> HIDE DEF S
<1>5. /\ x.at = (IF S = {} THEN "attach" ELSE "sched") /\ x.queue = w.queue
      /\ x.node = w.node /\ x.out = S /\ x.drop = w.drop /\ x \in WorkerSet(edges)
  BY <1>1, <1>4 DEF WorkerSet, Busy
<1> HIDE DEF x
<1>6. Queued(x) = Queued(w) /\ Hand(x) = {w.node} /\ Hand(w) = {w.node} /\ Mine(x) = Mine(w)
  BY <1>2, <1>5 DEF Queued, Hand, Mine, Busy
<1>7. From(edges, w.node) = S \cup OfKind(edges, w.node, kExecution)
  <2>1. \A e \in From(edges, w.node) : e.kind \in Kinds
    BY DEF From, Graph, EdgeSet
  <2> QED  BY <1>4, <2>1 DEF OfKind, Kinds
<1>8. Left(edges, x) = Left(edges, w)
  BY <1>2, <1>5, <1>7 DEF Left, Early
<1>9. Work(edges, x) = Work(edges, w)
  BY <1>6, <1>8 DEF Work
<1>10. /\ Owes(edges, x) <=> Sink(edges, w.node) \/ S # {}
       /\ Owes(edges, w) <=> Sink(edges, w.node)
       /\ S # {} => ~Sink(edges, w.node)
  BY <1>2, <1>4, <1>5 DEF Owes, Early, Dropped, OfKind, Sink
<1>11. IsWorker(edges, x)
  BY <1>1, <1>2, <1>4, <1>5, <1>6 DEF IsWorker, Busy
<1>12. Form(edges, x) /\ x.at # "done" /\ x.at \in Underway
  BY <1>5 DEF Form, Underway
<1>13. UNCHANGED <<edges, event, counter, thunk>>
  BY DEF Scheduled, setting, graphVars
<1>14. Books(edges, (workers \ {w}) \cup {x}, counter, pending_nodes')
  <2>1. CASE S = {}
    <3>1. pending_nodes' = pending_nodes
      <4>1. pending_nodes \in Int
        <5>1. IsFiniteSet(Live(edges, workers, counter))
          BY NodesFinite, FS_Subset DEF Live
        <5> QED  BY <1>1, <5>1, FS_CardinalityType DEF Books
      <4> QED  BY <2>1, <4>1 DEF Scheduled, IncrementsPending, S
    <3>2. Debt(edges, x) = Debt(edges, w)
      BY <1>6, <1>10, <2>1 DEF Debt
    <3> QED  BY <1>1, <1>6, <1>9, <1>11, <3>1, <3>2, Rearranged
  <2>2. CASE S # {}
    <3>1. pending_nodes' = pending_nodes + 1
      BY <2>2 DEF Scheduled, IncrementsPending, S
    <3>2. /\ ~Sink(edges, w.node) /\ w.node \in Mine(w) /\ w.node \notin Debt(edges, w)
          /\ Debt(edges, x) = Debt(edges, w) \cup {w.node}
      BY <1>1, <1>2, <1>6, <1>10, <2>2 DEF Debt, Mine, IsWorker
    <3> QED  BY <1>1, <1>6, <1>9, <1>11, <3>1, <3>2, Owed
  <2> QED  BY <2>1, <2>2
<1>15. thunk' \in [Nodes -> {"idle", "running", "ok", "failed"}]
  BY <1>13 DEF Going
<1>16. ASSUME NEW n \in Nodes, thunk'[n] = "running"
       PROVE  \/ n \notin Hand(w) /\ thunk[n] = "running"
              \/ \E u \in {x} : u.node = n /\ u.at \in Underway
  BY <1>5, <1>12, <1>13, <1>16 DEF Hand
<1>17. w.at # "done"
  BY <1>2
<1> QED  BY <1>3, <1>12, <1>13, <1>14, <1>15, <1>16, <1>17, WorkerMoves

LEMMA AttachGoing ==
    ASSUME Graph(edges), Going, NEW w \in workers, Attach(w)
    PROVE  Going'
<1> DEFINE lock == IF w.queue = <<>> THEN w.lock ELSE TRUE
           y == Worker("waiting", <<>>, w.node, {}, DropsPending(w.node), lock)
           new == Loop(w) \cup {y}
<1>1. /\ IsWorker(edges, w) /\ w \in WorkerSet(edges) /\ OneToOne(w.queue) /\ w.node \in Nodes
      /\ lock \in BOOLEAN
  BY DEF Going, Books, IsWorker, WorkerSet
<1>2. w.at = "attach" /\ w.at \in Busy /\ w.at \notin Early /\ w.at # "done"
  BY DEF Attach, Busy, Early
<1>3. DropsPending(w.node) \in BOOLEAN /\ DropsPending(w.node) = Dropped(edges, w.node)
  BY OutEdges DEF DropsPending, Dropped, IsSink, IncrementsPending, Sink
<1>4. /\ y.at = "waiting" /\ y.queue = <<>> /\ y.node = w.node
      /\ y.drop = Dropped(edges, w.node) /\ y \in WorkerSet(edges)
  <2> HIDE DEF lock
  <2>1. <<>> \in Seq(Nodes)
    OBVIOUS
  <2> QED  BY <1>1, <1>3, <2>1 DEF WorkerSet, Worker, Busy
<1>5. Replace(w, new)
  BY DEF Attach
<1> HIDE DEF y, lock
<1>6. Queued(y) = {} /\ Hand(y) = {w.node} /\ Mine(y) = {w.node}
  BY <1>4 DEF Queued, Elems, Hand, Mine, Busy
<1>7. IsWorker(edges, y)
  BY <1>4, <1>6 DEF IsWorker, OneToOne
<1>8. Form(edges, y) /\ y.at # "done" /\ y.at \in Underway
  BY <1>4 DEF Form, Underway
<1>9. /\ Left(edges, y) = OfKind(edges, w.node, kExecution) /\ Left(edges, w) = Left(edges, y)
      /\ Owes(edges, y) <=> Dropped(edges, w.node)
      /\ Owes(edges, w) <=> Dropped(edges, w.node)
  BY <1>2, <1>4 DEF Left, Owes, Early
<1>10. /\ Work(edges, y) = Left(edges, w)
       /\ Debt(edges, y) = {n \in {w.node} : Owes(edges, w)}
  BY <1>6, <1>9 DEF Work, Debt
<1>11. /\ Mine(w) = Queued(w) \cup {w.node} /\ w.node \notin Queued(w)
       /\ Work(edges, w) = {e \in edges : e.from \in Queued(w)} \cup Left(edges, w)
       /\ Debt(edges, w) = {n \in Queued(w) : Sink(edges, n)} \cup {n \in {w.node} : Owes(edges, w)}
  BY <1>1, <1>2 DEF Mine, Hand, Work, Debt, IsWorker
<1>12. /\ \A v \in Loop(w) : /\ IsWorker(edges, v) /\ Form(edges, v) /\ v.at = "pop"
                             /\ Mine(v) = Queued(w)
       /\ \A u, v \in Loop(w) : u = v
       /\ \A e : (e \in edges /\ e.from \in Queued(w)) <=> \E v \in Loop(w) : e \in Work(edges, v)
       /\ \A n : (n \in Queued(w) /\ Sink(edges, n)) <=> \E v \in Loop(w) : n \in Debt(edges, v)
  BY <1>1, LoopOf
<1>13. \A v \in new : /\ IsWorker(edges, v) /\ Form(edges, v) /\ v.at # "done"
                      /\ Mine(v) \subseteq Mine(w)
  BY <1>6, <1>7, <1>8, <1>11, <1>12
<1>14. \A u, v \in new : u # v => Mine(u) \cap Mine(v) = {}
  BY <1>6, <1>11, <1>12
<1>15. \A e : e \in Work(edges, w) <=> \E v \in new : e \in Work(edges, v)
  BY <1>10, <1>11, <1>12
<1>16. \A n : n \in Debt(edges, w) <=> \E v \in new : n \in Debt(edges, v)
  BY <1>10, <1>11, <1>12
<1>17. UNCHANGED <<edges, event, counter, pending_nodes, thunk>>
  BY DEF Attach, setting, graphVars
<1>18. \E v \in new : v.node = w.node /\ v.at \in Underway
  BY <1>4, <1>8
<1> HIDE DEF new
<1> QED  BY <1>2, <1>5, <1>13, <1>14, <1>15, <1>16, <1>17, <1>18, HandsOn

LEMMA DropGoing ==
    ASSUME Graph(edges), Going, NEW w \in workers, Drop(w)
    PROVE  Going'
<1> DEFINE x == [w EXCEPT !.at = "done"]
           new == IF pending_nodes = 1 THEN {x} ELSE Loop(w)
<1>1. /\ IsWorker(edges, w) /\ w \in WorkerSet(edges) /\ OneToOne(w.queue)
      /\ Books(edges, workers, counter, pending_nodes)
  BY DEF Going, Books, IsWorker
<1>2. w.at = "drop" /\ w.at \in Busy /\ w.at \notin Underway /\ w.at # "done" /\ w.drop
  BY DEF Drop, Busy, Underway, Going, Form
<1>3. Replace(w, new) /\ pending_nodes' = pending_nodes - 1
  BY DEF Drop
<1>4. UNCHANGED <<edges, event, counter, thunk>>
  BY DEF Drop, setting, graphVars
<1>5. /\ x.at = "done" /\ x.queue = w.queue /\ x \in WorkerSet(edges)
  BY <1>1 DEF WorkerSet
<1> HIDE DEF x
<1>6. Queued(x) = Queued(w) /\ Hand(x) = {} /\ Mine(x) = Queued(w)
  BY <1>5 DEF Queued, Hand, Mine, Busy, Early
<1>7. IsWorker(edges, x) /\ Form(edges, x)
  BY <1>1, <1>5 DEF IsWorker, Form, Busy, Early
<1>8. Work(edges, x) = {e \in edges : e.from \in Queued(w)}
  <2>1. Left(edges, x) = {}
    BY <1>5 DEF Left, Early
  <2> QED  BY <1>6, <2>1 DEF Work
<1>9. Debt(edges, x) = {n \in Queued(w) : Sink(edges, n)}
  BY <1>6 DEF Debt
<1>10. /\ Hand(w) = {w.node} /\ Mine(w) = Queued(w) \cup {w.node} /\ w.node \notin Queued(w)
       /\ Work(edges, w) = {e \in edges : e.from \in Queued(w)}
       /\ Debt(edges, w) = {n \in Queued(w) : Sink(edges, n)} \cup {w.node}
  <2>1. Left(edges, w) = {} /\ Owes(edges, w)
    BY <1>2 DEF Left, Owes, Early
  <2> QED  BY <1>1, <1>2, <2>1 DEF Hand, Mine, Work, Debt, IsWorker
<1>11. /\ \A v \in Loop(w) : /\ IsWorker(edges, v) /\ Form(edges, v) /\ v.at = "pop"
                             /\ Mine(v) = Queued(w)
       /\ \A u, v \in Loop(w) : u = v
       /\ \A e : (e \in edges /\ e.from \in Queued(w)) <=> \E v \in Loop(w) : e \in Work(edges, v)
       /\ \A n : (n \in Queued(w) /\ Sink(edges, n)) <=> \E v \in Loop(w) : n \in Debt(edges, v)
  BY <1>1, LoopOf
<1>12. \A v \in new : /\ IsWorker(edges, v) /\ Form(edges, v) /\ Mine(v) = Queued(w)
                      /\ IF pending_nodes = 1 THEN v = x ELSE v.at # "done"
  BY <1>6, <1>7, <1>11
<1>13. /\ \A u, v \in new : u = v
       /\ \A e : e \in Work(edges, w) <=> \E v \in new : e \in Work(edges, v)
       /\ \A n : n \in Debt(edges, w) \ {w.node} <=> \E v \in new : n \in Debt(edges, v)
  BY <1>8, <1>9, <1>10, <1>11
<1> HIDE DEF new
<1>14. Books(edges, (workers \ {w}) \cup new, counter, pending_nodes - 1)
  <2>1. \A v \in new : IsWorker(edges, v) /\ Mine(v) \subseteq Mine(w)
    BY <1>10, <1>12
  <2>2. \A u, v \in new : u # v => Mine(u) \cap Mine(v) = {}
    BY <1>13
  <2>3. w.node \in Debt(edges, w)
    BY <1>10
  <2> QED  BY <1>1, <1>13, <2>1, <2>2, <2>3, Paid
<1>15. thunk[w.node] # "running"
  BY <1>2, NotRunning
<1>16. thunk' \in [Nodes -> {"idle", "running", "ok", "failed"}]
  BY <1>4 DEF Going
<1>17. CASE pending_nodes # 1
  <2>1. \A v \in new : Form(edges, v) /\ v.at # "done"
    BY <1>12, <1>17
  <2>2. ASSUME NEW n \in Nodes, thunk'[n] = "running"
        PROVE  n \notin Hand(w) /\ thunk[n] = "running"
    BY <1>4, <1>10, <1>15, <2>2
  <2>3. Books(edges, (workers \ {w}) \cup new, counter', pending_nodes')
    BY <1>3, <1>4, <1>14
  <2>4. UNCHANGED <<edges, event>>
    BY <1>4
  <2>5. Replace(w, new)
    BY <1>3
  <2>6. w.at # "done"
    BY <1>2
  <2> QED  BY <1>16, <2>1, <2>2, <2>3, <2>4, <2>5, <2>6, WorkerMoves
<1>18. CASE pending_nodes = 1
  <2>1. workers' = (workers \ {w}) \cup new /\ pending_nodes' = 0
    BY <1>3, <1>18 DEF Replace
  <2>2. Books(edges, workers, counter, pending_nodes)'
    BY <1>3, <1>4, <1>14, <2>1
  <2>3. \A v \in workers \ {w} : v.at # "done" /\ Form(edges, v)
    BY <1>2, NoneIsDone DEF Going
  <2>4. \A v \in workers' : Form(edges, v)'
    BY <1>4, <1>12, <2>1, <2>3
  <2>5. \A u, v \in workers' : u.at = "done" /\ v.at = "done" => u = v
    BY <1>13, <2>1, <2>3
  <2>6. event' = Pending
    BY <1>4 DEF Going
  <2>7. ASSUME NEW n \in Nodes, thunk'[n] = "running"
        PROVE  \E v \in workers' : v.node = n /\ v.at \in Underway
    BY <1>2, <1>4, <2>1, <2>7 DEF Going
  <2> QED  BY <1>16, <2>1, <2>2, <2>4, <2>5, <2>6, <2>7 DEF Going
<1> QED  BY <1>17, <1>18

\* Who reports the end is the last worker, and has nothing left.
LEMMA DoneGoing ==
    ASSUME Graph(edges), Going, NEW w \in workers, Done(w)
    PROVE  Going' /\ workers' = {}
<1>1. w.at = "done"
  BY DEF Done
<1>2. Books(edges, workers, counter, 0) /\ pending_nodes = 0
  BY <1>1 DEF Going
<1>3. \A u \in workers : Form(edges, u) /\ IsWorker(edges, u)
  BY DEF Going, Books
<1>4. \A u \in workers : Mine(u) = {}
  <2>1. \A u \in workers : u.at = "sched" => u.out # {}
    BY <1>3 DEF Form
  <2>2. \A u \in workers : u.at \in {"error", "edges"} /\ u.out = {} => u.drop
    BY <1>3 DEF Form
  <2>3. \A u \in workers : u.at = "waiting" => u.drop = Dropped(edges, u.node)
    BY <1>3 DEF Form
  <2>4. \A u \in workers : u.at = "drop" => u.drop
    BY <1>3 DEF Form
  <2> QED  BY <1>2, <2>1, <2>2, <2>3, <2>4, Quiet
<1>5. \A u \in workers : u.at = "done"
  BY <1>3, <1>4, HasWork
<1>6. workers = {w}
  BY <1>1, <1>5 DEF Going
<1>7. w.queue = <<>>
  <2>1. w.queue \in Seq(Nodes)
    BY <1>3 DEF IsWorker, WorkerSet
  <2>2. Elems(w.queue) = {}
    BY <1>4 DEF Mine, Queued
  <2>3. w.queue # <<>> => 1 \in 1..Len(w.queue)
    BY <2>1
  <2> QED  BY <2>2, <2>3 DEF Elems
<1>8. workers' = {}
  BY <1>6, <1>7 DEF Done, Replace, Loop
<1>9. UNCHANGED <<edges, counter, pending_nodes, thunk>>
  BY DEF Done, setting, graphVars
<1>10. Books(edges, {}, counter, 0)
  <2>1. ASSUME NEW e \in edges PROVE \A u \in workers : e \notin Work(edges, u)
    BY <1>3, <1>4, WorkerHolds
  <2>2. ASSUME NEW n PROVE \A u \in workers : n \notin Debt(edges, u)
    BY <1>3, <1>4, WorkerHolds
  <2>3. Todo(edges, {}, counter) = Todo(edges, workers, counter)
    BY <2>1 DEF Todo
  <2>4. Live(edges, {}, counter) = Live(edges, workers, counter)
    BY <2>2 DEF Live
  <2> QED  BY <1>2, <2>3, <2>4 DEF Books
<1>11. \A n \in Nodes : thunk[n] # "running"
  BY <1>5 DEF Going, Underway
<1>12. thunk' \in [Nodes -> {"idle", "running", "ok", "failed"}]
  BY <1>9 DEF Going
<1> QED  BY <1>2, <1>8, <1>9, <1>10, <1>11, <1>12 DEF Going

\* A thunk completes.
LEMMA CompleteGoing ==
    ASSUME Going, NEW n \in Nodes, Complete(n)
    PROVE  Going'
<1>1. UNCHANGED <<edges, counter, pending_nodes, event, workers>>
  BY DEF Complete, setting, graphVars
<1>2. /\ thunk' \in [Nodes -> {"idle", "running", "ok", "failed"}]
      /\ \A m \in Nodes : thunk'[m] = "running" => thunk[m] = "running"
  BY DEF Complete, Going
<1>3. Books(edges, workers, counter, pending_nodes)'
  BY <1>1 DEF Going
<1>4. \A w \in workers' : Form(edges, w)'
  BY <1>1 DEF Going
<1> QED  BY <1>1, <1>2, <1>3, <1>4 DEF Going

-----------------------------------------------------------------------------
(* The execution as a whole *)

\* What the construction of the graph leaves for the execution.
GraphBuilt ==
    /\ stage \in {"create", "reduce", "built", "execute"}
    /\ IF stage = "execute" THEN Implied ELSE IInv
    /\ edges \subseteq ConflictEdges
    /\ visited \subseteq Nodes
    /\ priority \in [Nodes -> Int]
    /\ ready_queue_type \in QueueTypes

LEMMA IsGraph ==
    ASSUME GraphBuilt
    PROVE  Graph(edges)
<1>1. ASSUME NEW e \in edges PROVE e \in EdgeSet /\ e.from < e.to
  <2>1. e \in ConflictEdges
    BY DEF GraphBuilt
  <2>2. e = [from |-> e.from, to |-> e.to, kind |-> e.kind]
    BY <2>1 DEF ConflictEdges, ConflictEdge
  <2> QED  BY <2>1, <2>2, ConflictEdgeShape DEF EdgeSet
<1> QED  BY <1>1 DEF Graph

LEMMA QueueTypeKnown ==
    ASSUME GraphBuilt
    PROVE  ready_queue_type \in {"fifo", "lifo", "priority"}
BY ExecutorAssumption DEF GraphBuilt

LEMMA BuildGraphBuilt ==
    ASSUME GraphBuilt, Build
    PROVE  GraphBuilt' /\ stage # "execute" /\ stage' # "execute"
<1>1. stage \in {"create", "reduce"} /\ IInv /\ ready_queue_type' = ready_queue_type
  BY DEF Build, GraphNext, Create, FollowEdge, Visit, NextSource, GraphBuilt, execVars
<1>2. IInv'
  BY <1>1, NextIInv DEF Build
<1>3. stage' \in {"reduce", "built"}
  BY DEF Build, GraphNext, Create, FollowEdge, Visit, NextSource
<1>4. ConflictEdges' = ConflictEdges
  BY ConflictsUnchanged DEF Build, GraphNext, Create, FollowEdge, Visit, NextSource
<1>5. edges' \subseteq ConflictEdges'
  BY <1>2, <1>3 DEF IInv, Shape
<1>6. \A e \in edges : e.to \in Nodes
  BY ConflictEdgeShape DEF GraphBuilt
<1>7. \A n : \A seen : Targets(Unvisited(Out(n), seen)) \subseteq Nodes
  BY <1>6 DEF Targets, Unvisited, Out
<1>8. visited' \subseteq Nodes
  <2>1. CASE Create \/ NextSource
    BY <2>1 DEF Create, NextSource, GraphBuilt
  <2>2. CASE FollowEdge
    <3>1. PICK e \in todo :
            visited' = visited \cup {e.to} \cup Targets(Unvisited(Out(e.to), visited \cup {e.to}))
      BY <2>2 DEF FollowEdge
    <3>2. e \in ConflictEdges
      BY <1>1, <2>2 DEF IInv, Shape, FollowEdge
    <3>3. e.to \in Nodes
      BY <3>2, ConflictEdgeShape
    <3> QED  BY <1>7, <3>1, <3>3 DEF GraphBuilt
  <2>3. CASE Visit
    <3>1. PICK e \in stack[Len(stack)] :
            visited' = visited \cup Targets(Unvisited(Out(e.to), visited))
      BY <2>3 DEF Visit
    <3> QED  BY <1>7, <3>1 DEF GraphBuilt
  <2> QED  BY <2>1, <2>2, <2>3 DEF Build, GraphNext
<1>9. priority' \in [Nodes -> Int]
  <2>1. Cardinality(visited) \in Nat
    BY NodesFinite, FS_Subset, FS_CardinalityType DEF GraphBuilt
  <2>2. CASE NextSource
    <3>1. priority \in [Nodes -> Int] /\ NumVisited \in Int
      BY <2>1 DEF GraphBuilt, NumVisited
    <3>2. priority' = [priority EXCEPT ![source] = NumVisited]
      BY <2>2 DEF NextSource
    <3> QED  BY <3>1, <3>2
  <2>3. CASE Create \/ FollowEdge \/ Visit
    BY <2>3 DEF Create, FollowEdge, Visit, GraphBuilt
  <2> QED  BY <2>2, <2>3 DEF Build, GraphNext
<1> QED  BY <1>1, <1>2, <1>3, <1>5, <1>8, <1>9 DEF GraphBuilt

\* Once the graph is built nothing changes it.
LEMMA GraphStays ==
    ASSUME GraphBuilt, UNCHANGED <<ops, edges, visited, priority, ready_queue_type>>,
           \/ stage = "built" /\ stage' = "execute"
           \/ stage = "execute" /\ stage' = "execute"
    PROVE  GraphBuilt'
<1>1. ConflictEdges' = ConflictEdges
  BY ConflictsUnchanged
<1>2. Implied
  BY DEF GraphBuilt, IInv
<1>3. Implied'
  BY <1>1, <1>2 DEF Implied, Below
<1> QED  BY <1>1, <1>3 DEF GraphBuilt

\* The invariant of an execution thunk by thunk.
Iterators ==
    [at : {"next", "waits"}, queue : {<<>>}, node : 0..N, out : {{}}, drop : {FALSE}, lock : {FALSE}]

Stepwise ==
    /\ thunk \in [Nodes -> {"idle", "running", "ok", "failed"}]
    /\ \A w \in workers :
        /\ workers = {w} /\ event = Pending
        /\ w \in Iterators
        /\ w.at = "waits" => w.node \in Nodes
        /\ \A n \in Nodes : /\ n < w.node => thunk[n] = "ok"
                            /\ n > w.node => thunk[n] = "idle"
                            /\ n = w.node => (thunk[n] = "idle" <=> w.at = "next")
    /\ workers = {} => \A n \in Nodes : thunk[n] # "running"

Unstarted ==
    /\ workers = {} /\ event = Pending
    /\ thunk = [n \in Nodes |-> "idle"]

ExecInv ==
    /\ GraphBuilt
    /\ IF stage # "execute" THEN Unstarted ELSE IF Sequential THEN Stepwise ELSE Going

LEMMA InitExecInv == Init => ExecInv
<1> SUFFICES ASSUME Init PROVE ExecInv
  OBVIOUS
<1>1. stage = "create" /\ IInv
  BY InitIInv DEF Init, GraphInit
<1>2. GraphBuilt
  BY <1>1 DEF Init, GraphInit, GraphBuilt
<1> QED  BY <1>1, <1>2 DEF ExecInv, Unstarted, Init

\* The first worker has the nodes without in-edges; every edge is to be processed and
\* every sink is pending.
LEMMA StartGoing ==
    ASSUME GraphBuilt, Unstarted, Start, ~Sequential
    PROVE  Going'
<1> DEFINE x == Worker("pop", QueueOf(SourceNodes), 0, {}, FALSE, FALSE)
           c == [n \in Nodes |-> Cardinality(In(n))]
           W == {x}
<1>1. Graph(edges) /\ ready_queue_type \in {"fifo", "lifo", "priority"} /\ priority \in [Nodes -> Int]
  BY IsGraph, QueueTypeKnown DEF GraphBuilt
<1>2. workers' = W /\ counter' = c /\ pending_nodes' = Cardinality(SinkNodes)
  BY DEF Start
<1>3. UNCHANGED <<edges, event, thunk>>
  BY DEF Start
<1>4. /\ QueueOf(SourceNodes) \in Seq(Nodes) /\ OneToOne(QueueOf(SourceNodes))
      /\ Elems(QueueOf(SourceNodes)) = SourceNodes
  BY <1>1, QueueOfNodes DEF SourceNodes
<1>5. /\ x.at = "pop" /\ x.queue = QueueOf(SourceNodes) /\ x \in WorkerSet(edges)
  BY <1>4, NodesFinite DEF Worker, WorkerSet
<1> HIDE DEF x
<1>6. \A e \in edges : e.from \in Nodes /\ e.to \in Nodes /\ e.from \in Nat /\ e.to \in Nat /\ e.from < e.to
  BY <1>1, NodesFinite DEF Graph, EdgeSet
<1>7. 0 \in SourceNodes
  BY <1>6, NodesFinite DEF SourceNodes, In
<1>8. x.queue # <<>>
  BY <1>4, <1>5, <1>7 DEF Elems
<1>9. /\ Mine(x) = SourceNodes /\ Work(edges, x) = {e \in edges : e.from \in SourceNodes}
      /\ Debt(edges, x) = {n \in SourceNodes : Sink(edges, n)}
  <2>1. Queued(x) = SourceNodes
    BY <1>4, <1>5 DEF Queued
  <2> QED  BY <1>5, <2>1, PopHolds
<1>10. IsWorker(edges, x) /\ Form(edges, x)
  BY <1>4, <1>5, <1>8 DEF IsWorker, Form, Busy, Early
<1>11. ASSUME NEW n \in Nodes
       PROVE  c[n] = Cardinality(In(n)) /\ c[n] \in Nat /\ (c[n] = 0 <=> n \in SourceNodes)
  <2>1. In(n) \subseteq EdgeSet
    BY <1>1 DEF In, Graph
  <2>2. IsFiniteSet(In(n))
    BY <2>1, EdgesFinite
  <2>3. Cardinality(In(n)) \in Nat /\ (Cardinality(In(n)) = 0 <=> In(n) = {})
    BY <2>2, FS_EmptySet, FS_CardinalityType
  <2> QED  BY <2>3 DEF SourceNodes
<1>12. c \in [Nodes -> Int]
  <2>1. \A n \in Nodes : Cardinality(In(n)) \in Int
    BY <1>11
  <2> QED  BY <2>1
<1> HIDE DEF c
<1>13. Todo(edges, W, c) = edges
  <2>1. ASSUME NEW e \in edges PROVE c[e.from] > 0 \/ e \in Work(edges, x)
    BY <1>6, <1>9, <1>11
  <2> QED  BY <2>1 DEF Todo
<1>14. \A n \in Nodes : c[n] = Cardinality({e \in Todo(edges, W, c) : e.to = n})
  BY <1>11, <1>13 DEF In
<1>15. Live(edges, W, c) = SinkNodes
  <2>1. \A n \in Nodes : Sink(edges, n) <=> n \in SinkNodes
    BY DEF Sink, From, SinkNodes, Out
  <2>2. SinkNodes \subseteq Nodes
    BY DEF SinkNodes
  <2>3. ASSUME NEW n \in Nodes PROVE n \in Live(edges, W, c) <=> n \in SinkNodes
    BY <1>9, <1>11, <2>1 DEF Live
  <2>4. Live(edges, W, c) \subseteq Nodes
    BY DEF Live
  <2> QED  BY <2>2, <2>3, <2>4
<1>16. \A w \in W : \A n \in Mine(w) : c[n] = 0
  BY <1>9, <1>11 DEF SourceNodes
<1>17. Books(edges, W, c, Cardinality(SinkNodes))
  BY <1>10, <1>12, <1>14, <1>15, <1>16 DEF Books
<1>18. Books(edges, workers, counter, pending_nodes)'
  BY <1>2, <1>3, <1>17
<1>19. \A w \in workers' : Form(edges, w)' /\ w.at # "done"
  BY <1>2, <1>3, <1>5, <1>10
<1>20. event' = Pending /\ thunk' = [n \in Nodes |-> "idle"]
  BY <1>3 DEF Unstarted
<1> QED  BY <1>18, <1>19, <1>20 DEF Going

\* A worker's step in an execution by workers.
LEMMA WorkerGoing ==
    ASSUME GraphBuilt, Going, NEW w \in workers, WorkerStep(w)
    PROVE  Going'
<1>1. Graph(edges) /\ ready_queue_type \in {"fifo", "lifo", "priority"}
  BY IsGraph, QueueTypeKnown
<1>2. w.at # "next" /\ w.at # "waits"
  BY DEF Going, Books, IsWorker, WorkerSet, Busy, Early
<1>3. CASE Pop(w) \/ TryJoin(w) \/ Launch(w) \/ Offload(w) \/ Load(w) \/ Execute(w)
  BY <1>1, <1>3, PopGoing, TryJoinGoing, LaunchGoing, OffloadGoing, LoadGoing, ExecuteGoing
<1>4. CASE Skip(w) \/ ReturnNow(w) \/ ReturnLater(w) \/ Resume(w) \/ Error(w)
  BY <1>1, <1>4, SkipGoing, ReturnNowGoing, ReturnLaterGoing, ResumeGoing, ErrorGoing
<1>5. CASE Scheduled(w) \/ ScheduledEdge(w) \/ Attach(w) \/ CompletedEdge(w)
  BY <1>1, <1>5, ScheduledGoing, ScheduledEdgeGoing, AttachGoing, CompletedEdgeGoing
<1>6. CASE Drop(w) \/ Done(w)
  BY <1>1, <1>6, DropGoing, DoneGoing
<1>7. ~NextThunk(w) /\ ~AfterThunk(w)
  BY <1>2 DEF NextThunk, AfterThunk
<1> QED  BY <1>3, <1>4, <1>5, <1>6, <1>7 DEF WorkerStep

\* The steps of an execution thunk by thunk.
LEMMA WorkerStepwise ==
    ASSUME Stepwise, NEW w \in workers, WorkerStep(w)
    PROVE  Stepwise'
<1>1. /\ workers = {w} /\ event = Pending /\ w \in Iterators
      /\ w.at \in {"next", "waits"} /\ w.node \in 0..N
      /\ thunk \in [Nodes -> {"idle", "running", "ok", "failed"}]
      /\ w.at = "waits" => w.node \in Nodes
  BY DEF Stepwise, Iterators
<1>2. NextThunk(w) \/ AfterThunk(w)
  BY <1>1 DEF WorkerStep, Pop, TryJoin, Launch, Offload, Skip, Load, Execute, ReturnNow,
              ReturnLater, Scheduled, ScheduledEdge, Attach, Resume, Error, CompletedEdge,
              Drop, Done
<1>3. ASSUME NEW n \in Nodes
      PROVE  /\ n < w.node => thunk[n] = "ok"
             /\ n > w.node => thunk[n] = "idle"
             /\ n = w.node => (thunk[n] = "idle" <=> w.at = "next")
             /\ n \in Int /\ w.node \in Int /\ N \in Int /\ n < N
             /\ n < w.node \/ n = w.node \/ n > w.node
  <2>1. n \in Int /\ w.node \in Int /\ N \in Int /\ n < N
    BY <1>1, GraphAssumption DEF Nodes
  <2> QED  BY <2>1 DEF Stepwise
<1>4. CASE NextThunk(w)
  <2>1. w.at = "next" /\ \A n \in Nodes : thunk[n] # "running"
    BY <1>3, <1>4 DEF NextThunk
  <2>2. CASE w.node = N /\ Replace(w, {}) /\ UNCHANGED thunk
    BY <1>1, <2>1, <2>2 DEF Replace, Stepwise
  <2>3. CASE /\ w.node < N /\ Goto(w, "waits") /\ UNCHANGED event
             /\ thunk' = [thunk EXCEPT ![w.node] = "running"]
    <3> DEFINE v == [w EXCEPT !.at = "waits"]
    <3>1. workers' = {v}
      BY <1>1, <2>3 DEF Goto, Replace
    <3>2. w.node \in Nodes
      BY <1>1, <2>3, GraphAssumption DEF Nodes
    <3>3. v \in Iterators /\ v.at = "waits" /\ v.node = w.node
      BY <1>1 DEF Iterators
    <3> HIDE DEF v
    <3>4. ASSUME NEW n \in Nodes
          PROVE  /\ n < w.node => thunk'[n] = "ok"
                 /\ n > w.node => thunk'[n] = "idle"
                 /\ n = w.node => thunk'[n] # "idle"
      BY <1>1, <1>3, <2>3, <3>2
    <3>5. thunk' \in [Nodes -> {"idle", "running", "ok", "failed"}]
      BY <1>1, <2>3
    <3> QED  BY <1>1, <2>3, <3>1, <3>2, <3>3, <3>4, <3>5 DEF Stepwise
  <2> QED  BY <1>4, <2>2, <2>3 DEF NextThunk
<1>5. CASE AfterThunk(w)
  <2>1. w.at = "waits" /\ thunk' = thunk /\ thunk[w.node] # "running" /\ w.node \in Nodes
    BY <1>1, <1>5 DEF AfterThunk
  <2>2. \A n \in Nodes : thunk[n] # "running"
    BY <1>3, <2>1
  <2>3. CASE Replace(w, {})
    BY <1>1, <2>1, <2>2, <2>3 DEF Replace, Stepwise
  <2>4. CASE /\ thunk[w.node] # "failed" /\ UNCHANGED event
             /\ Replace(w, {[w EXCEPT !.at = "next", !.node = @ + 1]})
    <3> DEFINE v == [w EXCEPT !.at = "next", !.node = @ + 1]
    <3>1. workers' = {v}
      BY <1>1, <2>4 DEF Replace
    <3>2. w.node + 1 \in 0..N
      BY <2>1, GraphAssumption DEF Nodes
    <3>3. v \in Iterators /\ v.at = "next" /\ v.node = w.node + 1
      BY <1>1, <3>2 DEF Iterators
    <3> HIDE DEF v
    <3>4. thunk[w.node] = "ok"
      BY <1>1, <1>3, <2>1, <2>4
    <3>5. ASSUME NEW n \in Nodes
          PROVE  /\ n < w.node + 1 => thunk[n] = "ok"
                 /\ n > w.node + 1 => thunk[n] = "idle"
                 /\ n = w.node + 1 => thunk[n] = "idle"
      <4>1. n \in Int /\ w.node \in Int
        BY <1>3
      <4>2. /\ n < w.node + 1 => n < w.node \/ n = w.node
            /\ n > w.node + 1 => n > w.node
            /\ n = w.node + 1 => n > w.node
        BY <4>1
      <4> QED  BY <1>3, <3>4, <4>2
    <3> QED  BY <1>1, <2>1, <2>4, <3>1, <3>3, <3>5 DEF Stepwise
  <2> QED  BY <1>5, <2>1, <2>3, <2>4 DEF AfterThunk
<1> QED  BY <1>2, <1>4, <1>5

LEMMA CompleteStepwise ==
    ASSUME Stepwise, NEW n \in Nodes, Complete(n)
    PROVE  Stepwise'
<1>1. PICK w \in workers : TRUE
  BY DEF Stepwise, Complete
<1>2. thunk \in [Nodes -> {"idle", "running", "ok", "failed"}] /\ thunk[n] = "running"
  BY DEF Stepwise, Complete
<1>3. /\ thunk' \in [Nodes -> {"idle", "running", "ok", "failed"}] /\ thunk'[n] # "idle"
      /\ \A m \in Nodes : m # n => thunk'[m] = thunk[m]
  BY <1>2 DEF Complete
<1>4. UNCHANGED <<workers, event>>
  BY DEF Complete
<1>5. n = w.node
  <2>1. n \in Int /\ w.node \in Int
    <3>1. w \in Iterators
      BY DEF Stepwise
    <3> QED  BY <3>1, NodesFinite, GraphAssumption DEF Iterators
  <2>2. ~(n < w.node) /\ ~(n > w.node)
    BY <1>1, <1>2 DEF Stepwise
  <2> QED  BY <2>1, <2>2
<1>6. \A m \in Nodes : m < w.node \/ m > w.node => m # n
  <2>1. \A m \in Nodes : m \in Int
    BY NodesFinite
  <2> QED  BY <1>5, <2>1
<1> QED  BY <1>1, <1>2, <1>3, <1>4, <1>5, <1>6 DEF Stepwise

\* A worker leaves the graph alone.
LEMMA WorkerKeepsGraph ==
    ASSUME NEW w, WorkerStep(w)
    PROVE  UNCHANGED setting
BY DEF WorkerStep, Pop, TryJoin, Launch, Offload, Skip, Load, Execute, ReturnNow, ReturnLater,
       Scheduled, ScheduledEdge, Attach, Resume, Error, CompletedEdge, Drop, Done, NextThunk,
       AfterThunk

LEMMA ExecInvStep == ExecInv /\ [Next \/ Returned]_vars => ExecInv'
<1> SUFFICES ASSUME ExecInv, [Next \/ Returned]_vars PROVE ExecInv'
  OBVIOUS
<1>1. GraphBuilt
  BY DEF ExecInv
<1>2. CASE UNCHANGED vars
  <2>1. ConflictEdges' = ConflictEdges
    BY <1>2, ConflictsUnchanged DEF vars
  <2> QED
    BY <1>2, <2>1 DEF vars, ExecInv, GraphBuilt, IInv, Shape, Found, Implied, Below, Later,
       OnStack, Unstarted, Stepwise, Going, Sequential, IsSequential, In
<1>3. CASE Build
  <2>1. GraphBuilt' /\ stage # "execute" /\ stage' # "execute"
    BY <1>1, <1>3, BuildGraphBuilt
  <2>2. Unstarted'
    BY <1>3, <2>1 DEF ExecInv, Unstarted, Build, execVars
  <2> QED  BY <2>1, <2>2 DEF ExecInv
<1>4. CASE Start
  <2>1. stage = "built" /\ stage' = "execute" /\ Unstarted
    BY <1>4 DEF Start, ExecInv
  <2>2. GraphBuilt'
    BY <1>1, <1>4, <2>1, GraphStays DEF Start
  <2>3. Sequential' <=> Sequential
    BY <1>4 DEF Start, Sequential, IsSequential, In
  <2>4. CASE Sequential
    <3>1. /\ workers' = {Worker("next", <<>>, 0, {}, FALSE, FALSE)} /\ UNCHANGED <<event, thunk>>
          /\ 0 \in 0..N
      BY <1>4, <2>4, GraphAssumption DEF Start
    <3>2. Worker("next", <<>>, 0, {}, FALSE, FALSE) \in Iterators
      BY <3>1 DEF Worker, Iterators
    <3>3. \A n \in Nodes : ~(n < 0)
      BY NodesFinite
    <3>4. Stepwise'
      BY <2>1, <3>1, <3>2, <3>3 DEF Stepwise, Unstarted, Worker
    <3> QED  BY <2>1, <2>2, <2>3, <2>4, <3>4 DEF ExecInv
  <2>5. CASE ~Sequential
    <3>1. Going'
      BY <1>1, <1>4, <2>1, <2>5, StartGoing
    <3> QED  BY <2>1, <2>2, <2>3, <2>5, <3>1 DEF ExecInv
  <2> QED  BY <2>4, <2>5
<1>5. ASSUME NEW w \in workers, WorkerStep(w) PROVE ExecInv'
  <2>1. stage = "execute"
    BY DEF ExecInv, Unstarted
  <2>2. UNCHANGED setting
    BY <1>5, WorkerKeepsGraph
  <2>3. GraphBuilt' /\ stage' = "execute"
    BY <1>1, <2>1, <2>2, GraphStays DEF setting, graphVars
  <2>4. Sequential' <=> Sequential
    BY <2>2 DEF setting, graphVars, Sequential, IsSequential, In
  <2>5. CASE Sequential
    BY <1>5, <2>1, <2>3, <2>4, <2>5, WorkerStepwise DEF ExecInv
  <2>6. CASE ~Sequential
    BY <1>1, <1>5, <2>1, <2>3, <2>4, <2>6, WorkerGoing DEF ExecInv
  <2> QED  BY <2>5, <2>6
<1>6. ASSUME NEW n \in Nodes, Complete(n) PROVE ExecInv'
  <2>1. stage = "execute"
    BY <1>6 DEF ExecInv, Unstarted, Complete
  <2>2. UNCHANGED setting
    BY <1>6 DEF Complete
  <2>3. GraphBuilt' /\ stage' = "execute"
    BY <1>1, <2>1, <2>2, GraphStays DEF setting, graphVars
  <2>4. Sequential' <=> Sequential
    BY <2>2 DEF setting, graphVars, Sequential, IsSequential, In
  <2>5. CASE Sequential
    <3>1. Stepwise
      BY <2>1, <2>5 DEF ExecInv
    <3>2. Stepwise'
      BY <1>6, <3>1, CompleteStepwise
    <3> QED  BY <2>3, <2>4, <2>5, <3>2 DEF ExecInv
  <2>6. CASE ~Sequential
    BY <1>6, <2>1, <2>3, <2>4, <2>6, CompleteGoing DEF ExecInv
  <2> QED  BY <2>5, <2>6
<1> QED  BY <1>2, <1>3, <1>4, <1>5, <1>6 DEF Next, Returned

LEMMA ExecInvImpliesQuiet == ExecInv => QuietOnceDone
BY DEF ExecInv, QuietOnceDone, Unstarted, Stepwise, Going

\* When the execute event is set, by whichever worker and whatever the thunks did, no call
\* of Execute and no continuation is left, and no thunk runs.
THEOREM NothingRunsOnceDone == Spec => []QuietOnceDone
BY InitExecInv, ExecInvStep, ExecInvImpliesQuiet, PTL DEF Spec

-----------------------------------------------------------------------------
(* The order of the thunks *)

\* What an edge asks for has happened.
Met(e) == IF e.kind = kExecution THEN thunk[e.from] = "ok" ELSE thunk[e.from] # "idle"

\* A node that is done with: its thunk has succeeded, or the execution is aborted.
Settled(n) == thunk[n] = "ok" \/ abort

\* Where the thunk of the node in hand has not begun, and where it may have failed without
\* anybody knowing.
Fresh == {"split", "launch", "load", "execute"}
Unknown == Underway \cup {"error"}

\* What a worker may take for granted.  The last check of abort is before "execute".
Sound(w) ==
    /\ \A n \in Queued(w) : thunk[n] = "idle"
    /\ w.at \in Fresh => thunk[w.node] = "idle"
    /\ w.at = "execute" => \A e \in In(w.node) : Met(e)
    /\ w.at \in Underway => thunk[w.node] # "idle"
    /\ w.at = "error" => thunk[w.node] = "failed" /\ ExecutionEdges(w.node) \subseteq w.out
    /\ w.at \in {"edges", "drop"} => Settled(w.node)

\* The order of the thunks in an execution by workers.
InOrder ==
    /\ \A w \in workers : Sound(w)
    /\ \A n \in Nodes : counter[n] > 0 => thunk[n] = "idle"
    /\ \A n \in Nodes : counter[n] > 0 \/ (\E w \in workers : n \in Mine(w)) \/ Settled(n)
    /\ \A e \in edges : thunk[e.to] # "idle" => Met(e)
    /\ \A n \in Nodes : thunk[n] = "failed" =>
          abort \/ \E w \in workers : w.node = n /\ w.at \in Unknown
    /\ abort \in BOOLEAN
    /\ IF abort THEN abort_status \in Nodes /\ thunk[abort_status] = "failed"
                ELSE abort_status = Ok

\* A step that leaves the thunks alone hands on what worker w had in good order: its
\* successors are sound, it gives up only settled nodes, and no failure is forgotten.
InGoodOrder(w, new) ==
    /\ \A v \in new : Sound(v)
    /\ \A n \in Mine(w) : Settled(n) \/ \E v \in new : n \in Mine(v)
    /\ w.at \in Unknown /\ thunk[w.node] = "failed" =>
          abort \/ \E v \in new : v.node = w.node /\ v.at \in Unknown

LEMMA OrderMoves ==
    ASSUME InOrder, UNCHANGED <<edges, thunk, abort, abort_status>>,
           NEW w \in workers, NEW new, Replace(w, new), InGoodOrder(w, new),
           \A n \in Nodes : counter'[n] > 0 => counter[n] > 0,
           \A n \in Nodes : counter[n] > 0 => counter'[n] > 0 \/ \E v \in new : n \in Mine(v)
    PROVE  InOrder'
<1>1. workers' = (workers \ {w}) \cup new
  BY DEF Replace
<1>2. \A v : Sound(v)' <=> Sound(v)
  BY DEF Sound, Settled, Met, In, ExecutionEdges, Out
<1>3. \A v \in workers' : Sound(v)'
  BY <1>1, <1>2 DEF InOrder, InGoodOrder
<1>4. \A n \in Nodes : (counter[n] > 0)' => (thunk[n] = "idle")'
  BY DEF InOrder
<1>5. ASSUME NEW n \in Nodes
      PROVE  counter'[n] > 0 \/ (\E v \in workers' : n \in Mine(v)) \/ Settled(n)
  <2>1. CASE counter[n] > 0
    BY <1>1, <2>1
  <2>2. CASE \E v \in workers : n \in Mine(v)
    BY <1>1, <2>2 DEF InGoodOrder
  <2>3. CASE Settled(n)
    BY <2>3
  <2> QED  BY <2>1, <2>2, <2>3 DEF InOrder
<1>6. ASSUME NEW n \in Nodes, thunk[n] = "failed"
      PROVE  abort \/ \E v \in workers' : v.node = n /\ v.at \in Unknown
  BY <1>1, <1>6 DEF InOrder, InGoodOrder
<1>7. \A e \in edges : thunk[e.to] # "idle" => Met(e)
  BY DEF InOrder
<1>8. \A n : Settled(n)' <=> Settled(n)
  BY DEF Settled
<1>9. \A e : Met(e)' <=> Met(e)
  BY DEF Met
<1>10. abort' \in BOOLEAN /\ IF abort' THEN abort_status' \in Nodes /\ thunk'[abort_status'] = "failed"
                             ELSE abort_status' = Ok
  BY DEF InOrder
<1>11. \A n \in Nodes : counter'[n] > 0 \/ (\E v \in workers' : n \in Mine(v)) \/ Settled(n)'
  BY <1>5, <1>8
<1>12. \A e \in edges' : thunk'[e.to] # "idle" => Met(e)'
  BY <1>7, <1>9
<1>13. \A n \in Nodes : thunk'[n] = "failed" => abort' \/ \E v \in workers' : v.node = n /\ v.at \in Unknown
  BY <1>6
<1> QED  BY <1>3, <1>4, <1>10, <1>11, <1>12, <1>13 DEF InOrder

\* A worker in the next round.
LEMMA LoopSound ==
    ASSUME NEW w \in WorkerSet(edges), OneToOne(w.queue), \A n \in Queued(w) : thunk[n] = "idle"
    PROVE  /\ \A v \in Loop(w) : Sound(v)
           /\ \A n \in Queued(w) : \E v \in Loop(w) : n \in Mine(v)
<1>1. \A v \in Loop(w) : v.at = "pop" /\ Mine(v) = Queued(w) /\ v.queue = w.queue
  BY LoopOf
<1>2. \A v \in Loop(w) : Sound(v)
  BY <1>1 DEF Sound, Queued, Fresh, Underway
<1>3. ASSUME NEW n \in Queued(w) PROVE Loop(w) # {}
  <2>1. w.queue # <<>>
    BY DEF Queued, Elems
  <2> QED  BY <2>1 DEF Loop
<1> QED  BY <1>1, <1>2, <1>3

\* A worker after the thunk, whose node is settled.
LEMMA AfterEdgesSound ==
    ASSUME NEW w \in WorkerSet(edges), OneToOne(w.queue), \A n \in Queued(w) : thunk[n] = "idle",
           Settled(w.node)
    PROVE  /\ \A v \in AfterEdges(w) : Sound(v)
           /\ \A n \in Queued(w) : \E v \in AfterEdges(w) : n \in Mine(v)
<1>1. CASE AfterEdges(w) = Loop(w)
  BY <1>1, LoopSound
<1>2. ASSUME NEW x \in {"edges", "drop"}, AfterEdges(w) = {[w EXCEPT !.at = x]}
      PROVE  /\ \A v \in AfterEdges(w) : Sound(v)
             /\ \A n \in Queued(w) : \E v \in AfterEdges(w) : n \in Mine(v)
  <2> DEFINE u == [w EXCEPT !.at = x]
  <2>1. u.at = x /\ u.queue = w.queue /\ u.node = w.node
    BY DEF WorkerSet
  <2>2. AfterEdges(w) = {u}
    BY <1>2
  <2> HIDE DEF u
  <2>3. Queued(u) = Queued(w) /\ Queued(w) \subseteq Mine(u)
    BY <2>1 DEF Queued, Mine
  <2>4. Sound(u)
    BY <2>1, <2>3 DEF Sound, Fresh, Underway
  <2> QED  BY <2>2, <2>3, <2>4
<1> QED  BY <1>1, <1>2 DEF AfterEdges

\* A worker whose thunk has completed.
LEMMA CompletedSound ==
    ASSUME NEW w \in WorkerSet(edges), OneToOne(w.queue), \A n \in Queued(w) : thunk[n] = "idle",
           thunk[w.node] \in {"ok", "failed"}, w.at \in Busy,
           NEW es \in SUBSET edges, NEW drop \in BOOLEAN, ExecutionEdges(w.node) \subseteq es
    PROVE  InGoodOrder(w, Completed(w, es, drop))
<1> DEFINE c == [w EXCEPT !.out = es, !.drop = drop]
           x == [c EXCEPT !.at = "error"]
<1>1. c.queue = w.queue /\ c.node = w.node /\ c \in WorkerSet(edges)
  BY DEF WorkerSet
<1>2. x.at = "error" /\ x.queue = w.queue /\ x.node = w.node /\ x.out = es
  BY DEF WorkerSet
<1>3. /\ thunk[w.node] = "failed" => Completed(w, es, drop) = {x}
      /\ thunk[w.node] # "failed" => Completed(w, es, drop) = AfterEdges(c)
  BY DEF Completed
<1> HIDE DEF c, x
<1>4. Mine(w) = Queued(w) \cup {w.node}
  BY DEF Mine, Hand
<1>5. CASE thunk[w.node] = "failed"
  <2>1. Mine(x) = Mine(w)
    BY <1>2, <1>4 DEF Mine, Hand, Queued, Busy
  <2>2. Sound(x)
    BY <1>2, <1>5 DEF Sound, Queued, Fresh, Underway
  <2>3. x.at \in Unknown
    BY <1>2 DEF Unknown
  <2> QED  BY <1>2, <1>3, <1>5, <2>1, <2>2, <2>3 DEF InGoodOrder
<1>6. CASE thunk[w.node] = "ok"
  <2>1. Queued(c) = Queued(w) /\ Settled(w.node) /\ Settled(c.node)
    BY <1>1, <1>6 DEF Queued, Settled
  <2>2. /\ \A v \in AfterEdges(c) : Sound(v)
        /\ \A n \in Queued(w) : \E v \in AfterEdges(c) : n \in Mine(v)
    BY <1>1, <2>1, AfterEdgesSound
  <2> QED  BY <1>3, <1>4, <1>6, <2>1, <2>2 DEF InGoodOrder
<1> QED  BY <1>5, <1>6

\* A worker that has not begun the thunk goes on.
LEMMA FreshMove ==
    ASSUME Going, InOrder, UNCHANGED <<edges, thunk, abort, abort_status, counter>>,
           NEW w \in workers, w.at \in Early, NEW x \in Early, Goto(w, x),
           x \in Fresh <=> w.at \in Fresh,
           x = "execute" => \A e \in In(w.node) : Met(e)
    PROVE  InOrder'
<1> DEFINE v == [w EXCEPT !.at = x]
<1>1. w \in WorkerSet(edges) /\ Sound(w)
  BY DEF Going, Books, IsWorker, InOrder
<1>2. v.at = x /\ v.queue = w.queue /\ v.node = w.node
  BY <1>1 DEF WorkerSet
<1>3. Replace(w, {v})
  BY DEF Goto
<1> HIDE DEF v
<1>4. Mine(v) = Mine(w) /\ Queued(v) = Queued(w)
  BY <1>2 DEF Mine, Hand, Queued, Busy
<1>5. Sound(v)
  BY <1>1, <1>2, <1>4 DEF Sound, Fresh, Underway, Early
<1>6. w.at \in Unknown => v.at \in Unknown
  BY <1>2 DEF Unknown, Underway, Early, Fresh
<1>7. InGoodOrder(w, {v})
  BY <1>2, <1>4, <1>5, <1>6 DEF InGoodOrder
<1> QED  BY <1>3, <1>7, OrderMoves

\* A node that is ready in an execution that is not aborted has all it waits for: an edge
\* that has been processed is met.
LEMMA ReadyIsMet ==
    ASSUME Graph(edges), Going, InOrder, ~abort, NEW w \in workers, w.at \in Busy,
           NEW e \in In(w.node)
    PROVE  Met(e)
<1>1. Books(edges, workers, counter, pending_nodes)
  BY DEF Going
<1>2. e \in edges /\ e.to = w.node /\ e.from \in Nodes /\ e.kind \in Kinds
  BY DEF In, Graph, EdgeSet
<1>3. counter[w.node] = 0
  BY <1>1 DEF Books, Mine, Hand
<1>4. e \notin Todo(edges, workers, counter)
  BY <1>1, <1>2, <1>3, TodoCounts
<1>5. ~(counter[e.from] > 0) /\ \A u \in workers : e \notin Work(edges, u)
  BY <1>2, <1>4 DEF Todo
<1>6. Settled(e.from) => Met(e)
  BY DEF Settled, Met
<1>7. ASSUME NEW u \in workers, e.from \in Mine(u) PROVE Met(e)
  <2>1. Sound(u) /\ e \notin Work(edges, u)
    BY <1>5 DEF InOrder
  <2>2. e.from \notin Queued(u)
    BY <1>2, <2>1 DEF Work
  <2>3. u.at \in Busy /\ u.node = e.from
    BY <1>7, <2>2 DEF Mine, Hand
  <2>4. e \notin Left(edges, u) /\ e \in From(edges, u.node) /\ Out(u.node) = From(edges, u.node)
    BY <1>2, <2>1, <2>3 DEF Work, From, Out
  <2>5. u.at \notin Early
    BY <2>4 DEF Left, Early
  <2>6. CASE u.at \in {"sched", "attach", "waiting"}
    <3>1. e \notin OfKind(edges, u.node, kExecution)
      BY <2>4, <2>5, <2>6 DEF Left, Early
    <3>2. e.kind # kExecution
      BY <2>4, <3>1 DEF OfKind
    <3>3. thunk[e.from] # "idle"
      BY <2>1, <2>3, <2>6 DEF Sound, Underway
    <3> QED  BY <3>2, <3>3 DEF Met
  <2>7. CASE u.at = "error"
    <3>1. e \notin u.out
      BY <2>4, <2>7 DEF Left, Early
    <3>2. thunk[e.from] = "failed" /\ e \notin ExecutionEdges(u.node)
      BY <2>1, <2>3, <2>7, <3>1 DEF Sound
    <3>3. e.kind # kExecution
      BY <2>4, <3>2 DEF ExecutionEdges
    <3> QED  BY <3>2, <3>3 DEF Met
  <2>8. CASE u.at \in {"edges", "drop"}
    BY <1>6, <2>1, <2>3, <2>8 DEF Sound
  <2> QED  BY <2>3, <2>5, <2>6, <2>7, <2>8 DEF Busy
<1> QED  BY <1>2, <1>5, <1>6, <1>7 DEF InOrder

LEMMA PopOrder ==
    ASSUME Going, InOrder, NEW w \in workers, Pop(w)
    PROVE  InOrder'
<1> DEFINE v == [w EXCEPT !.node = Head(w.queue), !.queue = Tail(w.queue),
                          !.at = IF Len(Tail(w.queue)) > SplitThreshold /\ HasRunner
                                 THEN "split" ELSE "load"]
<1>1. w \in WorkerSet(edges) /\ w.queue \in Seq(Nodes) /\ OneToOne(w.queue) /\ Sound(w)
  BY DEF Going, Books, IsWorker, WorkerSet, InOrder
<1>2. w.at = "pop" /\ w.queue # <<>>
  BY DEF Pop, Going, Form
<1>3. Elems(w.queue) = Elems(Tail(w.queue)) \cup {Head(w.queue)}
  BY <1>1, <1>2, TailOf
<1>4. v.at \in {"split", "load"} /\ v.queue = Tail(w.queue) /\ v.node = Head(w.queue)
  BY <1>1 DEF WorkerSet
<1>5. Replace(w, {v})
  BY DEF Pop
<1> HIDE DEF v
<1>6. Queued(w) = Queued(v) \cup {v.node}
  BY <1>3, <1>4 DEF Queued
<1>7. Mine(w) = Queued(w) /\ Mine(v) = Queued(v) \cup {v.node}
  BY <1>2, <1>4 DEF Mine, Hand, Busy, Early
<1>8. Sound(v)
  BY <1>1, <1>4, <1>6 DEF Sound, Underway
<1>9. InGoodOrder(w, {v})
  BY <1>2, <1>6, <1>7, <1>8 DEF InGoodOrder, Unknown, Underway
<1>10. UNCHANGED <<edges, thunk, abort, abort_status, counter>>
  BY DEF Pop, setting, graphVars
<1> QED  BY <1>5, <1>9, <1>10, OrderMoves

LEMMA TryJoinOrder ==
    ASSUME Going, InOrder, NEW w \in workers, TryJoin(w)
    PROVE  InOrder'
<1>1. PICK x \in {"launch", "load"} : Goto(w, x)
  BY DEF TryJoin
<1>2. w.at \in Early /\ w.at \in Fresh /\ x \in Early /\ x \in Fresh /\ x # "execute"
  BY DEF TryJoin, Early, Fresh
<1>3. UNCHANGED <<edges, thunk, abort, abort_status, counter>>
  BY DEF TryJoin, setting, graphVars
<1> QED  BY <1>1, <1>2, <1>3, FreshMove

LEMMA LoadOrder ==
    ASSUME Graph(edges), Going, InOrder, NEW w \in workers, Load(w)
    PROVE  InOrder'
<1>1. w.at \in Early /\ w.at \in Fresh /\ w.at \in Busy /\ "execute" \in Early /\ "execute" \in Fresh
  BY DEF Load, Early, Fresh, Busy
<1>2. \A e \in In(w.node) : Met(e)
  BY <1>1, ReadyIsMet DEF Load
<1>3. UNCHANGED <<edges, thunk, abort, abort_status, counter>> /\ Goto(w, "execute")
  BY DEF Load, setting, graphVars
<1> QED  BY <1>1, <1>2, <1>3, FreshMove

LEMMA ReturnLaterOrder ==
    ASSUME Going, InOrder, NEW w \in workers, ReturnLater(w)
    PROVE  InOrder'
<1>1. /\ w.at \in Early /\ w.at \notin Fresh
      /\ "scheduled" \in Early /\ "scheduled" \notin Fresh /\ "scheduled" # "execute"
  BY DEF ReturnLater, Early, Fresh
<1>2. UNCHANGED <<edges, thunk, abort, abort_status, counter>> /\ Goto(w, "scheduled")
  BY DEF ReturnLater, setting, graphVars
<1> QED  BY <1>1, <1>2, FreshMove

LEMMA LaunchOrder ==
    ASSUME Going, InOrder, NEW w \in workers, Launch(w)
    PROVE  InOrder'
<1>1. PICK x, y : /\ Replace(w, {x, y})
                  /\ x \in WorkerSet(edges) /\ y \in WorkerSet(edges)
                  /\ x.at = "split" /\ x.node = w.node /\ y.at = "pop" /\ y.queue # <<>>
                  /\ OneToOne(x.queue) /\ OneToOne(y.queue)
                  /\ Queued(x) \cap Queued(y) = {} /\ Queued(w) = Queued(x) \cup Queued(y)
  BY LaunchOf
<1>2. Sound(w) /\ w.at = "launch"
  BY DEF InOrder, Launch
<1>3. Sound(x) /\ Sound(y)
  BY <1>1, <1>2 DEF Sound, Fresh, Underway
<1>4. Mine(w) = Queued(w) \cup {w.node} /\ Mine(x) = Queued(x) \cup {w.node} /\ Mine(y) = Queued(y)
  BY <1>1, <1>2 DEF Mine, Hand, Busy, Early
<1>5. InGoodOrder(w, {x, y})
  BY <1>1, <1>2, <1>3, <1>4 DEF InGoodOrder, Unknown, Underway
<1>6. UNCHANGED <<edges, thunk, abort, abort_status, counter>>
  BY DEF Launch, setting, graphVars
<1> QED  BY <1>1, <1>5, <1>6, OrderMoves

LEMMA OffloadOrder ==
    ASSUME Going, InOrder, NEW w \in workers, Offload(w)
    PROVE  InOrder'
<1> DEFINE y == Worker("pop", <<w.node>>, 0, {}, FALSE, TRUE)
<1>1. w \in WorkerSet(edges) /\ OneToOne(w.queue) /\ w.node \in Nodes /\ Sound(w)
  BY DEF Going, Books, IsWorker, WorkerSet, InOrder
<1>2. w.at = "load"
  BY DEF Offload
<1>3. Elems(<<w.node>>) = {w.node}
  BY <1>1, OneNode
<1>4. y.at = "pop" /\ y.queue = <<w.node>>
  BY DEF Worker
<1>5. Replace(w, Loop(w) \cup {y})
  BY DEF Offload
<1> HIDE DEF y
<1>6. Queued(y) = {w.node} /\ Mine(y) = {w.node}
  BY <1>3, <1>4 DEF Queued, Mine, Hand, Busy, Early
<1>7. \A n \in Queued(w) : thunk[n] = "idle"
  BY <1>1 DEF Sound
<1>8. /\ \A v \in Loop(w) : Sound(v)
      /\ \A n \in Queued(w) : \E v \in Loop(w) : n \in Mine(v)
  BY <1>1, <1>7, LoopSound
<1>9. thunk[w.node] = "idle"
  BY <1>1, <1>2 DEF Sound, Fresh
<1>10. Sound(y)
  BY <1>4, <1>6, <1>9 DEF Sound, Fresh, Underway
<1>11. Mine(w) = Queued(w) \cup {w.node}
  BY <1>2 DEF Mine, Hand, Busy, Early
<1>12. InGoodOrder(w, Loop(w) \cup {y})
  BY <1>2, <1>6, <1>8, <1>10, <1>11 DEF InGoodOrder, Unknown, Underway
<1>13. UNCHANGED <<edges, thunk, abort, abort_status, counter>>
  BY DEF Offload, setting, graphVars
<1> QED  BY <1>5, <1>12, <1>13, OrderMoves

LEMMA SkipOrder ==
    ASSUME Going, InOrder, NEW w \in workers, Skip(w)
    PROVE  InOrder'
<1> DEFINE c == [w EXCEPT !.out = Out(w.node), !.drop = IsSink(w.node)]
<1>1. w \in WorkerSet(edges) /\ OneToOne(w.queue) /\ Sound(w)
  BY DEF Going, Books, IsWorker, InOrder
<1>2. w.at = "load" /\ abort
  BY DEF Skip
<1>3. c.queue = w.queue /\ c.node = w.node /\ c \in WorkerSet(edges)
  BY <1>1 DEF WorkerSet, Out, IsSink
<1>4. Replace(w, AfterEdges(c))
  BY DEF Skip
<1> HIDE DEF c
<1>5. Queued(c) = Queued(w) /\ Settled(c.node) /\ Settled(w.node)
  BY <1>2, <1>3 DEF Queued, Settled
<1>6. \A n \in Queued(w) : thunk[n] = "idle"
  BY <1>1 DEF Sound
<1>7. /\ \A v \in AfterEdges(c) : Sound(v)
      /\ \A n \in Queued(w) : \E v \in AfterEdges(c) : n \in Mine(v)
  BY <1>1, <1>3, <1>5, <1>6, AfterEdgesSound
<1>8. Mine(w) \subseteq Queued(w) \cup {w.node}
  BY DEF Mine, Hand
<1>9. InGoodOrder(w, AfterEdges(c))
  BY <1>2, <1>5, <1>7, <1>8 DEF InGoodOrder
<1>10. UNCHANGED <<edges, thunk, abort, abort_status, counter>>
  BY DEF Skip, setting, graphVars
<1> QED  BY <1>4, <1>9, <1>10, OrderMoves

\* What a worker finds when the thunk does not run any more.
LEMMA ThunkOver ==
    ASSUME Going, InOrder, NEW w \in workers, w.at \in Underway, thunk[w.node] # "running"
    PROVE  /\ w \in WorkerSet(edges) /\ OneToOne(w.queue) /\ w.at \in Busy
           /\ \A n \in Queued(w) : thunk[n] = "idle"
           /\ thunk[w.node] \in {"ok", "failed"}
<1>1. w \in WorkerSet(edges) /\ OneToOne(w.queue) /\ Sound(w) /\ w.node \in Nodes
  BY DEF Going, Books, IsWorker, WorkerSet, InOrder
<1>2. w.at \in Busy
  BY DEF Underway, Busy, Early
<1>3. thunk[w.node] # "idle" /\ \A n \in Queued(w) : thunk[n] = "idle"
  BY <1>1 DEF Sound
<1>4. thunk[w.node] \in {"idle", "running", "ok", "failed"}
  BY <1>1 DEF Going
<1> QED  BY <1>1, <1>2, <1>3, <1>4

LEMMA ReturnNowOrder ==
    ASSUME Going, InOrder, NEW w \in workers, ReturnNow(w)
    PROVE  InOrder'
<1>1. w.at \in Underway /\ thunk[w.node] # "running"
  BY DEF ReturnNow, Underway
<1>2. /\ Out(w.node) \in SUBSET edges /\ IsSink(w.node) \in BOOLEAN
      /\ ExecutionEdges(w.node) \subseteq Out(w.node)
  BY DEF Out, IsSink, ExecutionEdges
<1>3. InGoodOrder(w, Completed(w, Out(w.node), IsSink(w.node)))
  BY <1>1, <1>2, ThunkOver, CompletedSound
<1>4. UNCHANGED <<edges, thunk, abort, abort_status, counter>>
  BY DEF ReturnNow, setting, graphVars
<1>5. Replace(w, Completed(w, Out(w.node), IsSink(w.node)))
  BY DEF ReturnNow
<1> QED  BY <1>3, <1>4, <1>5, OrderMoves

LEMMA ResumeOrder ==
    ASSUME Going, InOrder, NEW w \in workers, Resume(w)
    PROVE  InOrder'
<1>1. w.at \in Underway /\ thunk[w.node] # "running"
  BY DEF Resume, Underway
<1>2. w.drop \in BOOLEAN
  BY DEF Going, Books, IsWorker, WorkerSet
<1>3. ExecutionEdges(w.node) \in SUBSET edges
  BY DEF Out, ExecutionEdges
<1>4. InGoodOrder(w, Completed(w, ExecutionEdges(w.node), w.drop))
  BY <1>1, <1>2, <1>3, ThunkOver, CompletedSound
<1>5. UNCHANGED <<edges, thunk, abort, abort_status, counter>>
  BY DEF Resume, setting, graphVars
<1>6. Replace(w, Completed(w, ExecutionEdges(w.node), w.drop))
  BY DEF Resume
<1> QED  BY <1>4, <1>5, <1>6, OrderMoves

LEMMA ScheduledOrder ==
    ASSUME Going, InOrder, NEW w \in workers, Scheduled(w)
    PROVE  InOrder'
<1> DEFINE S == SchedulingEdges(w.node)
           x == [w EXCEPT !.at = IF S = {} THEN "attach" ELSE "sched", !.out = S]
<1>1. w \in WorkerSet(edges) /\ Sound(w) /\ w.at = "scheduled"
  BY DEF Going, Books, IsWorker, InOrder, Scheduled
<1>2. Replace(w, {x})
  BY DEF Scheduled
<1>3. x.at \in {"attach", "sched"} /\ x.queue = w.queue /\ x.node = w.node
  BY <1>1 DEF WorkerSet
<1> HIDE DEF x
<1>4. Queued(x) = Queued(w) /\ Mine(x) = Mine(w)
  BY <1>1, <1>3 DEF Queued, Hand, Mine, Busy, Early
<1>5. Sound(x)
  BY <1>1, <1>3, <1>4 DEF Sound, Underway, Fresh
<1>6. x.at \in Unknown
  BY <1>3 DEF Unknown, Underway
<1>7. InGoodOrder(w, {x})
  BY <1>3, <1>4, <1>5, <1>6 DEF InGoodOrder
<1>8. UNCHANGED <<edges, thunk, abort, abort_status, counter>>
  BY DEF Scheduled, setting, graphVars
<1> QED  BY <1>2, <1>7, <1>8, OrderMoves

LEMMA AttachOrder ==
    ASSUME Going, InOrder, NEW w \in workers, Attach(w)
    PROVE  InOrder'
<1> DEFINE lock == IF w.queue = <<>> THEN w.lock ELSE TRUE
           y == Worker("waiting", <<>>, w.node, {}, DropsPending(w.node), lock)
<1>1. w \in WorkerSet(edges) /\ OneToOne(w.queue) /\ Sound(w) /\ w.at = "attach"
  BY DEF Going, Books, IsWorker, InOrder, Attach
<1>2. y.at = "waiting" /\ y.queue = <<>> /\ y.node = w.node
  BY DEF Worker
<1>3. Replace(w, Loop(w) \cup {y})
  BY DEF Attach
<1> HIDE DEF y
<1>4. Queued(y) = {} /\ Mine(y) = {w.node} /\ Mine(w) = Queued(w) \cup {w.node}
  BY <1>1, <1>2 DEF Queued, Elems, Mine, Hand, Busy
<1>5. \A n \in Queued(w) : thunk[n] = "idle"
  BY <1>1 DEF Sound
<1>6. /\ \A v \in Loop(w) : Sound(v)
      /\ \A n \in Queued(w) : \E v \in Loop(w) : n \in Mine(v)
  BY <1>1, <1>5, LoopSound
<1>7. Sound(y)
  BY <1>1, <1>2, <1>4 DEF Sound, Fresh, Underway
<1>8. y.at \in Unknown
  BY <1>2 DEF Unknown, Underway
<1>9. InGoodOrder(w, Loop(w) \cup {y})
  BY <1>2, <1>4, <1>6, <1>7, <1>8 DEF InGoodOrder
<1>10. UNCHANGED <<edges, thunk, abort, abort_status, counter>>
  BY DEF Attach, setting, graphVars
<1> QED  BY <1>3, <1>9, <1>10, OrderMoves

LEMMA DropOrder ==
    ASSUME Going, InOrder, NEW w \in workers, Drop(w)
    PROVE  InOrder'
<1> DEFINE x == [w EXCEPT !.at = "done"]
           new == IF pending_nodes = 1 THEN {x} ELSE Loop(w)
<1>1. w \in WorkerSet(edges) /\ OneToOne(w.queue) /\ Sound(w) /\ w.at = "drop"
  BY DEF Going, Books, IsWorker, InOrder, Drop
<1>2. Replace(w, new)
  BY DEF Drop
<1>3. x.at = "done" /\ x.queue = w.queue
  BY <1>1 DEF WorkerSet
<1> HIDE DEF x
<1>4. \A n \in Queued(w) : thunk[n] = "idle"
  BY <1>1 DEF Sound
<1>5. Mine(x) = Queued(w) /\ Sound(x)
  BY <1>3, <1>4 DEF Queued, Mine, Hand, Busy, Early, Sound, Fresh, Underway
<1>6. /\ \A v \in Loop(w) : Sound(v)
      /\ \A n \in Queued(w) : \E v \in Loop(w) : n \in Mine(v)
  BY <1>1, <1>4, LoopSound
<1>7. Settled(w.node) /\ Mine(w) \subseteq Queued(w) \cup {w.node} /\ w.at \notin Unknown
  BY <1>1 DEF Sound, Mine, Hand, Unknown, Underway
<1>8. InGoodOrder(w, new)
  BY <1>5, <1>6, <1>7 DEF InGoodOrder
<1>9. UNCHANGED <<edges, thunk, abort, abort_status, counter>>
  BY DEF Drop, setting, graphVars
<1> QED  BY <1>2, <1>8, <1>9, OrderMoves

LEMMA DoneOrder ==
    ASSUME Going, InOrder, NEW w \in workers, Done(w)
    PROVE  InOrder'
<1>1. w \in WorkerSet(edges) /\ OneToOne(w.queue) /\ Sound(w) /\ w.at = "done"
  BY DEF Going, Books, IsWorker, InOrder, Done
<1>2. \A n \in Queued(w) : thunk[n] = "idle"
  BY <1>1 DEF Sound
<1>3. /\ \A v \in Loop(w) : Sound(v)
      /\ \A n \in Queued(w) : \E v \in Loop(w) : n \in Mine(v)
  BY <1>1, <1>2, LoopSound
<1>4. Mine(w) = Queued(w) /\ w.at \notin Unknown
  BY <1>1 DEF Mine, Hand, Busy, Early, Unknown, Underway
<1>5. InGoodOrder(w, Loop(w))
  BY <1>3, <1>4 DEF InGoodOrder
<1>6. UNCHANGED <<edges, thunk, abort, abort_status, counter>> /\ Replace(w, Loop(w))
  BY DEF Done, setting, graphVars
<1> QED  BY <1>5, <1>6, OrderMoves

\* Processing an edge: a node is either ready and in the queue, or its counter positive.
LEMMA EdgeOrder ==
    ASSUME Graph(edges), Going, InOrder, ready_queue_type \in {"fifo", "lifo", "priority"},
           NEW w \in workers, w.at \in {"sched", "edges"}, CountDown(NextEdge(w.out)),
           NEW v, v = Processed(w)
    PROVE  /\ \A n \in Nodes : counter'[n] > 0 => counter[n] > 0
           /\ \A n \in Nodes : counter[n] > 0 => counter'[n] > 0 \/ n \in Queued(v)
           /\ Queued(w) \subseteq Queued(v)
           /\ \A n \in Queued(v) : thunk[n] = "idle"
<1> DEFINE e == NextEdge(w.out)
           q == Pushed(w.queue, e)
<1>1. /\ IsWorker(edges, w) /\ w \in WorkerSet(edges) /\ OneToOne(w.queue)
      /\ w.queue \in Seq(Nodes) /\ counter \in [Nodes -> Int] /\ Sound(w)
  BY DEF Going, Books, IsWorker, WorkerSet, InOrder
<1>2. Books(edges, workers, counter, pending_nodes)
  BY DEF Going
<1>3. w.out # {} /\ w.out \subseteq edges /\ w.out \subseteq EdgeSet
  BY <1>1 DEF Going, Form, WorkerSet, Graph
<1>4. e \in w.out
  BY <1>3, NextEdgeIn
<1>5. CountDown(e) /\ v = [w EXCEPT !.queue = q, !.out = w.out \ {e}]
  BY DEF Processed
<1> HIDE DEF e
<1>6. e \in EdgeSet /\ e.to \in Nodes
  BY <1>3, <1>4 DEF EdgeSet
<1>7. counter[e.to] \in Int /\ counter[e.to] > 0
  <2>1. e \in Todo(edges, workers, counter)
    <3>1. e \in Left(edges, w)
      BY <1>4 DEF Left, Early
    <3> QED  BY <1>3, <1>4, <3>1 DEF Todo, Work
  <2> QED  BY <1>2, <2>1, TodoCounts
<1>8. e.to \notin Elems(w.queue)
  BY <1>2, <1>7 DEF Books, Mine, Queued
<1>9. Elems(q) = Queued(w) \cup (IF counter[e.to] = 1 THEN {e.to} ELSE {})
  BY <1>1, <1>6, <1>8, PushedNode DEF Pushed, Queued
<1> HIDE DEF q
<1>10. v.queue = q
  BY <1>1, <1>5 DEF WorkerSet
<1>11. Queued(v) = Queued(w) \cup (IF counter[e.to] = 1 THEN {e.to} ELSE {})
  BY <1>9, <1>10 DEF Queued
<1>12. counter' = [counter EXCEPT ![e.to] = counter[e.to] - 1]
  BY <1>5 DEF CountDown
<1>13. ASSUME NEW n \in Nodes
       PROVE  /\ counter'[n] > 0 => counter[n] > 0
              /\ counter[n] > 0 => counter'[n] > 0 \/ (n = e.to /\ counter[e.to] = 1)
  BY <1>1, <1>6, <1>7, <1>12
<1>14. thunk[e.to] = "idle" /\ \A n \in Queued(w) : thunk[n] = "idle"
  BY <1>1, <1>6, <1>7 DEF InOrder, Sound
<1> QED  BY <1>11, <1>13, <1>14

LEMMA ScheduledEdgeOrder ==
    ASSUME Graph(edges), Going, InOrder, ready_queue_type \in {"fifo", "lifo", "priority"},
           NEW w \in workers, ScheduledEdge(w)
    PROVE  InOrder'
<1> DEFINE e == NextEdge(w.out)
           rest == w.out \ {e}
           v == Processed(w)
           x == [v EXCEPT !.at = IF rest = {} THEN "attach" ELSE "sched"]
<1>1. w.at = "sched" /\ w.at \in {"sched", "edges"} /\ CountDown(e) /\ w \in WorkerSet(edges) /\ Sound(w)
  BY DEF ScheduledEdge, Going, Books, IsWorker, InOrder
<1>2. Replace(w, {x})
  <2>1. x = [w EXCEPT !.queue = Pushed(w.queue, e), !.out = rest,
                      !.at = IF rest = {} THEN "attach" ELSE "sched"]
    BY <1>1 DEF WorkerSet, Processed
  <2> HIDE DEF x
  <2> QED  BY <2>1 DEF ScheduledEdge
<1>3. /\ \A n \in Nodes : counter'[n] > 0 => counter[n] > 0
      /\ \A n \in Nodes : counter[n] > 0 => counter'[n] > 0 \/ n \in Queued(v)
      /\ Queued(w) \subseteq Queued(v)
      /\ \A n \in Queued(v) : thunk[n] = "idle"
  BY <1>1, EdgeOrder
<1>4. v \in WorkerSet(edges) /\ v.node = w.node
  BY <1>1, ProcessEdge
<1> HIDE DEF v, rest
<1>5. x.at \in {"attach", "sched"} /\ x.queue = v.queue /\ x.node = w.node
  BY <1>4 DEF WorkerSet
<1> HIDE DEF x
<1>6. Queued(x) = Queued(v) /\ Mine(x) = Queued(v) \cup {w.node} /\ Mine(w) = Queued(w) \cup {w.node}
  BY <1>1, <1>5 DEF Queued, Hand, Mine, Busy
<1>7. Sound(x)
  BY <1>1, <1>3, <1>5, <1>6 DEF Sound, Fresh, Underway
<1>8. x.at \in Unknown
  BY <1>5 DEF Unknown, Underway
<1>9. InGoodOrder(w, {x})
  BY <1>3, <1>5, <1>6, <1>7, <1>8 DEF InGoodOrder
<1>10. UNCHANGED <<edges, thunk, abort, abort_status>>
  BY DEF ScheduledEdge, setting, graphVars
<1>11. \A n \in Nodes : counter[n] > 0 => counter'[n] > 0 \/ \E u \in {x} : n \in Mine(u)
  BY <1>3, <1>6
<1> QED  BY <1>2, <1>3, <1>9, <1>10, <1>11, OrderMoves

LEMMA CompletedEdgeOrder ==
    ASSUME Graph(edges), Going, InOrder, ready_queue_type \in {"fifo", "lifo", "priority"},
           NEW w \in workers, CompletedEdge(w)
    PROVE  InOrder'
<1> DEFINE e == NextEdge(w.out)
           v == Processed(w)
<1>1. w.at = "edges" /\ w.at \in {"sched", "edges"} /\ CountDown(e) /\ w \in WorkerSet(edges) /\ Sound(w)
  BY DEF CompletedEdge, Going, Books, IsWorker, InOrder
<1>2. Replace(w, AfterEdges(v))
  <2>1. v = [w EXCEPT !.queue = Pushed(w.queue, e), !.out = @ \ {e}]
    BY <1>1 DEF WorkerSet, Processed
  <2> HIDE DEF v
  <2> QED  BY <2>1 DEF CompletedEdge
<1>3. /\ \A n \in Nodes : counter'[n] > 0 => counter[n] > 0
      /\ \A n \in Nodes : counter[n] > 0 => counter'[n] > 0 \/ n \in Queued(v)
      /\ Queued(w) \subseteq Queued(v)
      /\ \A n \in Queued(v) : thunk[n] = "idle"
  BY <1>1, EdgeOrder
<1>4. v \in WorkerSet(edges) /\ v.node = w.node /\ OneToOne(v.queue)
  BY <1>1, ProcessEdge
<1> HIDE DEF v
<1>5. Settled(w.node) /\ Settled(v.node)
  BY <1>1, <1>4 DEF Sound
<1>6. /\ \A u \in AfterEdges(v) : Sound(u)
      /\ \A n \in Queued(v) : \E u \in AfterEdges(v) : n \in Mine(u)
  BY <1>3, <1>4, <1>5, AfterEdgesSound
<1>7. Mine(w) \subseteq Queued(w) \cup {w.node} /\ w.at \notin Unknown
  BY <1>1 DEF Mine, Hand, Unknown, Underway
<1>8. InGoodOrder(w, AfterEdges(v))
  BY <1>3, <1>5, <1>6, <1>7 DEF InGoodOrder
<1>9. UNCHANGED <<edges, thunk, abort, abort_status>>
  BY DEF CompletedEdge, setting, graphVars
<1>10. \A n \in Nodes : counter[n] > 0 => counter'[n] > 0 \/ \E u \in AfterEdges(v) : n \in Mine(u)
  BY <1>3, <1>6
<1> QED  BY <1>2, <1>3, <1>8, <1>9, <1>10, OrderMoves

\* What has happened stays so while the thunks go on.
LEMMA MetStays ==
    ASSUME \A n \in Nodes : thunk[n] = "ok" => thunk'[n] = "ok",
           \A n \in Nodes : thunk[n] # "idle" => thunk'[n] # "idle",
           NEW e, e.from \in Nodes, Met(e)
    PROVE  Met(e)'
BY DEF Met

LEMMA ExecuteOrder ==
    ASSUME Graph(edges), Going, InOrder, NEW w \in workers, Execute(w)
    PROVE  InOrder'
<1> DEFINE x == [w EXCEPT !.at = "executing"]
<1>1. w \in WorkerSet(edges) /\ Sound(w) /\ w.at = "execute" /\ w.node \in Nodes
  BY DEF Going, Books, IsWorker, WorkerSet, InOrder, Execute
<1>2. /\ thunk' = [thunk EXCEPT ![w.node] = "running"]
      /\ thunk \in [Nodes -> {"idle", "running", "ok", "failed"}]
  BY DEF Execute, Going
<1>3. UNCHANGED <<edges, counter, abort, abort_status>> /\ Replace(w, {x})
  BY DEF Execute, setting, graphVars, Goto
<1>4. workers' = (workers \ {w}) \cup {x}
  BY <1>3 DEF Replace
<1>5. x.at = "executing" /\ x.queue = w.queue /\ x.node = w.node
  BY <1>1 DEF WorkerSet
<1> HIDE DEF x
<1>6. thunk[w.node] = "idle" /\ thunk'[w.node] = "running"
  BY <1>1, <1>2 DEF Sound, Fresh
<1>7. \A n \in Nodes : n # w.node => thunk'[n] = thunk[n]
  BY <1>1, <1>2
<1>8. /\ \A n \in Nodes : thunk[n] = "ok" => thunk'[n] = "ok"
      /\ \A n \in Nodes : thunk[n] # "idle" => thunk'[n] # "idle"
  BY <1>6, <1>7
<1>9. \A e \in edges : e.from \in Nodes /\ e.to \in Nodes
  BY DEF Graph, EdgeSet
<1>10. \A e \in edges : Met(e) => Met(e)'
  BY <1>8, <1>9, MetStays
<1>11. \A n \in Nodes : Settled(n) => Settled(n)'
  BY <1>3, <1>8 DEF Settled
<1>12. w.node \in Mine(w) /\ w.node \notin Queued(w) /\ Mine(w) \subseteq Nodes
  BY <1>1, WorkerHolds DEF Going, Books, IsWorker, Mine, Hand, Busy, Early
<1>13. Mine(x) = Mine(w) /\ Queued(x) = Queued(w) /\ Queued(w) \subseteq Mine(w)
  BY <1>1, <1>5 DEF Mine, Hand, Queued, Busy, Early
<1>14. Sound(x)'
  <2>1. \A n \in Queued(x) : thunk'[n] = "idle"
    BY <1>1, <1>7, <1>12, <1>13 DEF Sound
  <2> QED  BY <1>5, <1>6, <2>1 DEF Sound, Fresh, Underway
<1>15. ASSUME NEW v \in workers, v # w PROVE Sound(v)'
  <2>1. Sound(v) /\ w.node \notin Mine(v) /\ Mine(v) \subseteq Nodes /\ v.node \in Nodes
    BY <1>12, <1>15, WorkerHolds DEF Going, Books, InOrder, IsWorker, WorkerSet
  <2>2. Queued(v) \subseteq Mine(v) /\ (v.at \in Busy => v.node # w.node)
    BY <2>1 DEF Mine, Hand
  <2>3. \A n \in Queued(v) : thunk'[n] = "idle"
    BY <1>7, <2>1, <2>2 DEF Sound
  <2>4. v.at \in Fresh \cup Underway \cup {"error", "edges", "drop"} => thunk'[v.node] = thunk[v.node]
    BY <1>7, <2>1, <2>2 DEF Fresh, Underway, Busy, Early
  <2>5. v.at = "execute" => \A e \in In(v.node)' : Met(e)'
    BY <1>3, <1>10, <2>1 DEF Sound, In
  <2>6. ExecutionEdges(v.node)' = ExecutionEdges(v.node)
    BY <1>3 DEF ExecutionEdges, Out
  <2>7. Settled(v.node) => Settled(v.node)'
    BY <1>11, <2>1
  <2> QED  BY <2>1, <2>3, <2>4, <2>5, <2>6, <2>7 DEF Sound
<1>16. \A v \in workers' : Sound(v)'
  BY <1>4, <1>14, <1>15
<1>17. ASSUME NEW n \in Nodes, counter[n] > 0 PROVE thunk'[n] = "idle"
  <2>1. counter[w.node] = 0
    BY <1>12 DEF Going, Books
  <2> QED  BY <1>7, <1>17, <2>1 DEF InOrder
<1>18. ASSUME NEW n \in Nodes
       PROVE  counter[n] > 0 \/ (\E v \in workers' : n \in Mine(v)) \/ Settled(n)'
  BY <1>4, <1>11, <1>13 DEF InOrder
<1>19. ASSUME NEW e \in edges, thunk'[e.to] # "idle" PROVE Met(e)'
  <2>1. CASE e.to = w.node
    BY <1>1, <1>10, <2>1 DEF Sound, In
  <2>2. CASE e.to # w.node
    BY <1>7, <1>9, <1>10, <1>19, <2>2 DEF InOrder
  <2> QED  BY <2>1, <2>2
<1>20. ASSUME NEW n \in Nodes, thunk'[n] = "failed"
       PROVE  abort \/ \E v \in workers' : v.node = n /\ v.at \in Unknown
  <2>1. n # w.node /\ thunk[n] = "failed"
    BY <1>6, <1>7, <1>20
  <2> QED  BY <1>4, <2>1 DEF InOrder
<1>21. abort \in BOOLEAN /\ IF abort THEN abort_status \in Nodes /\ thunk'[abort_status] = "failed"
                            ELSE abort_status = Ok
  BY <1>6, <1>7 DEF InOrder
<1> QED  BY <1>3, <1>16, <1>17, <1>18, <1>19, <1>20, <1>21 DEF InOrder

LEMMA CompleteOrder ==
    ASSUME Graph(edges), Going, InOrder, NEW m \in Nodes, Complete(m)
    PROVE  InOrder'
<1>1. /\ thunk \in [Nodes -> {"idle", "running", "ok", "failed"}] /\ thunk[m] = "running"
      /\ UNCHANGED <<edges, counter, abort, abort_status, workers>>
  BY DEF Complete, Going, setting, graphVars
<1>2. thunk'[m] \in {"ok", "failed"} /\ \A n \in Nodes : n # m => thunk'[n] = thunk[n]
  BY <1>1 DEF Complete
<1>3. /\ \A n \in Nodes : thunk[n] = "ok" => thunk'[n] = "ok"
      /\ \A n \in Nodes : thunk[n] = "failed" => thunk'[n] = "failed"
      /\ \A n \in Nodes : thunk[n] = "idle" <=> thunk'[n] = "idle"
  BY <1>1, <1>2
<1>4. \A e \in edges : e.from \in Nodes /\ e.to \in Nodes
  BY DEF Graph, EdgeSet
<1>5. \A e \in edges : Met(e) => Met(e)'
  BY <1>3, <1>4, MetStays
<1>6. \A n \in Nodes : Settled(n) => Settled(n)'
  BY <1>1, <1>3 DEF Settled
<1>7. ASSUME NEW v \in workers PROVE Sound(v)'
  <2>1. Sound(v) /\ Queued(v) \subseteq Nodes /\ v.node \in Nodes
    BY DEF Going, Books, InOrder, IsWorker, WorkerSet, Queued, Elems
  <2>2. \A n \in Queued(v) : thunk'[n] = "idle"
    BY <1>3, <2>1 DEF Sound
  <2>3. v.at = "execute" => \A e \in In(v.node)' : Met(e)'
    BY <1>1, <1>5, <2>1 DEF Sound, In
  <2>4. ExecutionEdges(v.node)' = ExecutionEdges(v.node)
    BY <1>1 DEF ExecutionEdges, Out
  <2>5. Settled(v.node) => Settled(v.node)'
    BY <1>6, <2>1
  <2> QED  BY <1>3, <2>1, <2>2, <2>3, <2>4, <2>5 DEF Sound
<1>8. \A n \in Nodes : counter[n] > 0 => thunk'[n] = "idle"
  BY <1>3 DEF InOrder
<1>9. \A n \in Nodes : counter[n] > 0 \/ (\E v \in workers : n \in Mine(v)) \/ Settled(n)'
  BY <1>6 DEF InOrder
<1>10. \A e \in edges : thunk'[e.to] # "idle" => Met(e)'
  BY <1>3, <1>4, <1>5 DEF InOrder
<1>11. ASSUME NEW n \in Nodes, thunk'[n] = "failed"
       PROVE  abort \/ \E v \in workers : v.node = n /\ v.at \in Unknown
  <2>1. CASE n = m
    <3>1. \E v \in workers : v.node = n /\ v.at \in Underway
      BY <1>1, <2>1 DEF Going
    <3> QED  BY <3>1 DEF Unknown
  <2>2. CASE n # m
    BY <1>2, <1>11, <2>2 DEF InOrder
  <2> QED  BY <2>1, <2>2
<1>12. abort \in BOOLEAN /\ IF abort THEN abort_status \in Nodes /\ thunk'[abort_status] = "failed"
                            ELSE abort_status = Ok
  BY <1>3 DEF InOrder
<1> QED  BY <1>1, <1>7, <1>8, <1>9, <1>10, <1>11, <1>12 DEF InOrder

\* Once an error is recorded the nodes are settled whatever became of their thunks.
LEMMA ErrorOrder ==
    ASSUME Going, InOrder, NEW w \in workers, Error(w)
    PROVE  InOrder'
<1>1. /\ w \in WorkerSet(edges) /\ OneToOne(w.queue) /\ Sound(w) /\ w.at = "error" /\ w.node \in Nodes
      /\ \A n \in Queued(w) : thunk[n] = "idle"
  BY DEF Going, Books, IsWorker, WorkerSet, InOrder, Error, Sound
<1>2. /\ UNCHANGED <<edges, counter, thunk>> /\ abort' = TRUE
      /\ abort_status' = FirstError(w.node)
      /\ workers' = (workers \ {w}) \cup AfterEdges(w)
  BY DEF Error, setting, graphVars, Replace
<1>3. \A n : Settled(n)'
  BY <1>2 DEF Settled
<1>4. \A e : Met(e)' <=> Met(e)
  BY <1>2 DEF Met
<1>5. ASSUME NEW v \in workers PROVE Sound(v)'
  <2>1. Sound(v)
    BY DEF InOrder
  <2> QED  BY <1>2, <1>3, <1>4, <2>1 DEF Sound, In, ExecutionEdges, Out
<1>6. ASSUME NEW v \in AfterEdges(w) PROVE Sound(v)'
  <2>1. v.queue = w.queue /\ v.at \in {"edges", "drop", "pop"}
    <3>1. CASE v \in Loop(w)
      BY <1>1, <3>1, LoopOf
    <3>2. CASE v \in {[w EXCEPT !.at = "edges"], [w EXCEPT !.at = "drop"]}
      BY <1>1, <3>2 DEF WorkerSet
    <3> QED  BY <3>1, <3>2 DEF AfterEdges
  <2>2. \A n \in Queued(v) : thunk[n] = "idle"
    BY <1>1, <2>1 DEF Queued
  <2> QED  BY <1>2, <1>3, <2>1, <2>2 DEF Sound, Fresh, Underway
<1>7. \A v \in workers' : Sound(v)'
  BY <1>2, <1>5, <1>6
<1>8. \A e \in edges' : thunk'[e.to] # "idle" => Met(e)'
  BY <1>2, <1>4 DEF InOrder
<1>9. abort_status' \in Nodes /\ thunk[abort_status'] = "failed"
  <2>1. thunk[w.node] = "failed"
    BY <1>1 DEF Sound
  <2>2. CASE abort_status = Ok
    BY <1>1, <1>2, <2>1, <2>2 DEF FirstError
  <2>3. CASE abort_status # Ok
    BY <1>2, <2>3 DEF FirstError, InOrder
  <2> QED  BY <2>2, <2>3
<1>10. \A n \in Nodes : counter'[n] > 0 => thunk'[n] = "idle"
  BY <1>2 DEF InOrder
<1> QED  BY <1>2, <1>3, <1>7, <1>8, <1>9, <1>10 DEF InOrder

\* At the start no thunk has begun.
LEMMA StartOrder ==
    ASSUME GraphBuilt, Unstarted, Start, ~Sequential, abort = FALSE, abort_status = Ok
    PROVE  InOrder'
<1>1. PICK x : x = Worker("pop", QueueOf(SourceNodes), 0, {}, FALSE, FALSE)
  OBVIOUS
<1>2. Graph(edges) /\ ready_queue_type \in {"fifo", "lifo", "priority"} /\ priority \in [Nodes -> Int]
  BY IsGraph, QueueTypeKnown DEF GraphBuilt
<1>3. /\ workers' = {x} /\ counter' = [n \in Nodes |-> Cardinality(In(n))]
      /\ UNCHANGED <<edges, thunk, abort, abort_status>>
  BY <1>1 DEF Start
<1>4. Elems(QueueOf(SourceNodes)) = SourceNodes
  BY <1>2, QueueOfNodes DEF SourceNodes
<1>5. x.at = "pop" /\ x.queue = QueueOf(SourceNodes)
  BY <1>1 DEF Worker
<1>6. Queued(x) = SourceNodes /\ Mine(x) = SourceNodes
  BY <1>4, <1>5 DEF Queued, Mine, Hand, Busy, Early
<1>7. thunk' = [n \in Nodes |-> "idle"] /\ abort' = FALSE /\ abort_status' = Ok
  BY <1>3 DEF Unstarted
<1>8. ASSUME NEW n \in Nodes PROVE counter'[n] > 0 \/ n \in SourceNodes
  <2>1. In(n) \subseteq EdgeSet
    BY <1>2 DEF In, Graph
  <2>2. IsFiniteSet(In(n))
    BY <2>1, EdgesFinite
  <2>3. Cardinality(In(n)) \in Nat /\ (Cardinality(In(n)) = 0 <=> In(n) = {})
    BY <2>2, FS_EmptySet, FS_CardinalityType
  <2> QED  BY <1>3, <2>3 DEF SourceNodes
<1>9. Sound(x)'
  <2>1. \A n \in Queued(x) : thunk'[n] = "idle"
    BY <1>6, <1>7 DEF SourceNodes
  <2> QED  BY <1>5, <2>1 DEF Sound, Fresh, Underway
<1>10. \A e \in edges : e.to \in Nodes
  BY <1>2 DEF Graph, EdgeSet
<1>11. \A n \in Nodes : counter'[n] > 0 \/ \E v \in workers' : n \in Mine(v)
  BY <1>3, <1>6, <1>8
<1>12. \A n \in Nodes : thunk'[n] = "idle"
  BY <1>7
<1>13. \A v \in workers' : Sound(v)'
  BY <1>3, <1>9
<1>14. \A e \in edges' : thunk'[e.to] = "idle"
  BY <1>3, <1>10, <1>12
<1> QED  BY <1>7, <1>11, <1>12, <1>13, <1>14 DEF InOrder

\* A worker's step in an execution by workers keeps the order.
LEMMA WorkerOrder ==
    ASSUME GraphBuilt, Going, InOrder, NEW w \in workers, WorkerStep(w)
    PROVE  InOrder'
<1>1. Graph(edges) /\ ready_queue_type \in {"fifo", "lifo", "priority"}
  BY IsGraph, QueueTypeKnown
<1>2. w.at # "next" /\ w.at # "waits"
  BY DEF Going, Books, IsWorker, WorkerSet, Busy, Early
<1>3. CASE Pop(w) \/ TryJoin(w) \/ Launch(w) \/ Offload(w) \/ Load(w) \/ Execute(w)
  BY <1>1, <1>3, PopOrder, TryJoinOrder, LaunchOrder, OffloadOrder, LoadOrder, ExecuteOrder
<1>4. CASE Skip(w) \/ ReturnNow(w) \/ ReturnLater(w) \/ Resume(w) \/ Error(w)
  BY <1>1, <1>4, SkipOrder, ReturnNowOrder, ReturnLaterOrder, ResumeOrder, ErrorOrder
<1>5. CASE Scheduled(w) \/ ScheduledEdge(w) \/ Attach(w) \/ CompletedEdge(w)
  BY <1>1, <1>5, ScheduledOrder, ScheduledEdgeOrder, AttachOrder, CompletedEdgeOrder
<1>6. CASE Drop(w) \/ Done(w)
  BY <1>1, <1>6, DropOrder, DoneOrder
<1>7. ~NextThunk(w) /\ ~AfterThunk(w)
  BY <1>2 DEF NextThunk, AfterThunk
<1> QED  BY <1>3, <1>4, <1>5, <1>6, <1>7 DEF WorkerStep

\* The invariant behind the refinement of OrderedExecution.
OrderInv ==
    /\ ExecInv
    /\ IF stage # "execute" THEN abort = FALSE /\ abort_status = Ok ELSE Sequential \/ InOrder

LEMMA InitOrderInv == Init => OrderInv
<1> SUFFICES ASSUME Init PROVE OrderInv
  OBVIOUS
<1>1. stage = "create" /\ abort = FALSE /\ abort_status = Ok
  BY DEF Init, GraphInit
<1> QED  BY <1>1, InitExecInv DEF OrderInv

LEMMA OrderInvStep == OrderInv /\ [Next \/ Returned]_vars => OrderInv'
<1> SUFFICES ASSUME OrderInv, [Next \/ Returned]_vars PROVE OrderInv'
  OBVIOUS
<1>1. ExecInv /\ ExecInv' /\ GraphBuilt
  BY ExecInvStep DEF OrderInv, ExecInv
<1>2. CASE UNCHANGED vars
  BY <1>1, <1>2 DEF vars, OrderInv, InOrder, Sound, Settled, Met, In, Out, ExecutionEdges,
     Sequential, IsSequential
<1>3. CASE Build
  <2>1. stage # "execute" /\ stage' # "execute"
    BY <1>1, <1>3, BuildGraphBuilt
  <2> QED  BY <1>1, <1>3, <2>1 DEF OrderInv, Build, execVars
<1>4. CASE Start
  <2>1. stage # "execute" /\ stage' = "execute" /\ Unstarted /\ abort = FALSE /\ abort_status = Ok
    BY <1>1, <1>4 DEF Start, ExecInv, OrderInv
  <2>2. Sequential' <=> Sequential
    BY <1>4 DEF Start, Sequential, IsSequential, In
  <2>3. Sequential \/ InOrder'
    BY <1>1, <1>4, <2>1, StartOrder
  <2> QED  BY <1>1, <2>1, <2>2, <2>3 DEF OrderInv
<1>5. ASSUME NEW w \in workers, WorkerStep(w) PROVE OrderInv'
  <2>1. stage = "execute"
    BY <1>1 DEF ExecInv, Unstarted
  <2>2. UNCHANGED setting
    BY <1>5, WorkerKeepsGraph
  <2>3. stage' = "execute" /\ (Sequential' <=> Sequential)
    BY <2>1, <2>2 DEF setting, graphVars, Sequential, IsSequential, In
  <2>4. Sequential \/ InOrder'
    BY <1>1, <1>5, <2>1, WorkerOrder DEF OrderInv, ExecInv
  <2> QED  BY <1>1, <2>3, <2>4 DEF OrderInv
<1>6. ASSUME NEW n \in Nodes, Complete(n) PROVE OrderInv'
  <2>1. stage = "execute"
    BY <1>1, <1>6 DEF ExecInv, Unstarted, Complete
  <2>2. UNCHANGED setting
    BY <1>6 DEF Complete
  <2>3. stage' = "execute" /\ (Sequential' <=> Sequential)
    BY <2>1, <2>2 DEF setting, graphVars, Sequential, IsSequential, In
  <2>4. Sequential \/ InOrder'
    BY <1>1, <1>6, <2>1, IsGraph, CompleteOrder DEF OrderInv, ExecInv
  <2> QED  BY <1>1, <2>3, <2>4 DEF OrderInv
<1> QED  BY <1>2, <1>3, <1>4, <1>5, <1>6 DEF Next, Returned

-----------------------------------------------------------------------------
(* The refinement of OrderedExecution *)

\* An execution in which the edges of all nodes that have begun, and of n, are met, has met
\* the conflicts of n: it is the beginning of a schedule that respects the edges.
LEMMA ConflictsMet ==
    ASSUME GraphBuilt, stage = "execute", NEW n \in Nodes,
           \A e \in edges : thunk[e.to] # "idle" \/ e.to = n => Met(e),
           NEW c \in ConflictEdges, c.to = n
    PROVE  Met(c)
<1> DEFINE first == [m \in Nodes |-> IF thunk[m] # "idle" \/ m = n THEN 0 ELSE 1]
           last == [m \in Nodes |-> IF thunk[m] = "ok" THEN 0 ELSE 1]
           s == [start |-> first, end |-> last]
<1>1. /\ first \in [Nodes -> Int] /\ last \in [Nodes -> Int]
      /\ \A m \in Nodes : /\ first[m] \in {0, 1} /\ last[m] \in {0, 1}
                          /\ first[m] = 0 <=> thunk[m] # "idle" \/ m = n
                          /\ last[m] = 0 <=> thunk[m] = "ok"
  OBVIOUS
<1> HIDE DEF first, last
<1>2. s.start = first /\ s.end = last /\ s \in [start : [Nodes -> Int], end : [Nodes -> Int]]
  BY <1>1
<1> HIDE DEF s
<1>3. \A m \in Nodes : first[m] <= last[m]
  BY <1>1
<1>4. s \in Runs
  BY <1>2, <1>3 DEF Runs
<1>5. ASSUME NEW e \in edges PROVE Meets(s, e)
  <2>1. e.from \in Nodes /\ e.to \in Nodes
    BY ConflictEdgeShape DEF GraphBuilt
  <2>2. first[e.to] = 0 => Met(e)
    BY <1>1, <2>1
  <2>3. CASE e.kind = kExecution
    <3>1. first[e.to] = 0 => last[e.from] = 0
      BY <1>1, <2>1, <2>2, <2>3 DEF Met
    <3>2. last[e.from] <= first[e.to]
      BY <1>1, <2>1, <3>1
    <3> QED  BY <1>2, <2>3, <3>2 DEF Meets
  <2>4. CASE e.kind # kExecution
    <3>1. first[e.to] = 0 => first[e.from] = 0
      BY <1>1, <2>1, <2>2, <2>4 DEF Met
    <3>2. first[e.from] <= first[e.to]
      BY <1>1, <2>1, <3>1
    <3> QED  BY <1>2, <2>4, <3>2 DEF Meets
  <2> QED  BY <2>3, <2>4
<1>6. Meets(s, c)
  <2>1. Respects(s, Below(c))
    BY <1>5 DEF Respects, Below
  <2> QED  BY <1>4, <2>1 DEF GraphBuilt, Implied
<1>7. c.from \in Nodes /\ c.from # n /\ first[n] = 0
  <2>1. c.from \in Nodes /\ c.from \in Int /\ c.to \in Int /\ c.from < c.to
    BY ConflictEdgeShape
  <2> QED  BY <1>1, <2>1
<1>8. CASE c.kind = kExecution
  <2>1. last[c.from] <= 0
    BY <1>2, <1>6, <1>7, <1>8 DEF Meets
  <2>2. last[c.from] = 0
    BY <1>1, <1>7, <2>1
  <2> QED  BY <1>1, <1>7, <1>8, <2>2 DEF Met
<1>9. CASE c.kind # kExecution
  <2>1. first[c.from] <= 0
    BY <1>2, <1>6, <1>7, <1>9 DEF Meets
  <2>2. first[c.from] = 0
    BY <1>1, <1>7, <2>1
  <2> QED  BY <1>1, <1>7, <1>9, <2>2 DEF Met
<1> QED  BY <1>8, <1>9

\* The mapped variables, as sets of nodes.
LEMMA Mapped ==
    ASSUME thunk \in [Nodes -> {"idle", "running", "ok", "failed"}]
    PROVE  /\ Ordered!Begun = {n \in Nodes : thunk[n] # "idle"}
           /\ Ordered!Pending = Pending /\ Ordered!Ok = Ok
<1>1. With("running") \cup With("ok") \cup With("failed") = {n \in Nodes : thunk[n] # "idle"}
  BY DEF With
<1>2. Ordered!Begun = With("running") \cup With("ok") \cup With("failed")
  BY DEF Ordered!Begun
<1> QED  BY <1>1, <1>2 DEF Ordered!Pending, Pending, Ordered!Ok, Ok

LEMMA WaitsUnchanged ==
    ASSUME UNCHANGED ops
    PROVE  /\ UNCHANGED [n \in Nodes |-> Conflicts(n, kExecution)]
           /\ UNCHANGED [n \in Nodes |-> Conflicts(n, kScheduling)]
<1>1. ConflictEdges' = ConflictEdges
  BY ConflictsUnchanged
<1> QED  BY <1>1 DEF Conflicts

LEMMA ConflictsOf ==
    ASSUME NEW n, NEW k, NEW m \in Conflicts(n, k)
    PROVE  \E c \in ConflictEdges : c.to = n /\ c.kind = k /\ c.from = m
BY DEF Conflicts

LEMMA RefinementInit == Init => Ordered!Init
<1> SUFFICES ASSUME Init PROVE Ordered!Init
  OBVIOUS
<1>1. \A n \in Nodes : \A k : Conflicts(n, k) \subseteq Nodes
  BY ConflictsOf, ConflictEdgeShape
<1>2. \A k : [n \in Nodes |-> Conflicts(n, k)] \in [Nodes -> SUBSET Nodes]
  BY <1>1
<1>3. With("running") = {} /\ With("ok") = {} /\ With("failed") = {}
  BY DEF Init, With
<1>4. event = Ordered!Pending
  BY DEF Init, Pending, Ordered!Pending
<1> QED  BY <1>2, <1>3, <1>4 DEF Ordered!Init

\* Nothing that the specification speaks of changes.
LEMMA Stutters ==
    ASSUME UNCHANGED <<ops, thunk, event>>
    PROVE  UNCHANGED Ordered!orderVars
<1>1. UNCHANGED <<With("running"), With("ok"), With("failed")>>
  BY DEF With
<1> QED  BY <1>1, WaitsUnchanged DEF Ordered!orderVars

\* A thunk begins whose conflicts are met.
LEMMA BeginsInOrder ==
    ASSUME thunk \in [Nodes -> {"idle", "running", "ok", "failed"}], event = Pending,
           NEW n \in Nodes, thunk[n] = "idle",
           \A c \in ConflictEdges : c.to = n => Met(c),
           thunk' = [thunk EXCEPT ![n] = "running"], UNCHANGED <<ops, event>>
    PROVE  Ordered!Start(n)
<1> DEFINE waits == [m \in Nodes |-> Conflicts(m, kExecution)]
           follows == [m \in Nodes |-> Conflicts(m, kScheduling)]
<1>1. ASSUME NEW m \in Conflicts(n, kExecution) PROVE m \in With("ok")
  <2>1. PICK c \in ConflictEdges : c.to = n /\ c.kind = kExecution /\ c.from = m
    BY <1>1, ConflictsOf
  <2>2. Met(c) /\ m \in Nodes
    BY <2>1, ConflictEdgeShape
  <2> QED  BY <2>1, <2>2 DEF Met, With
<1>2. ASSUME NEW m \in Conflicts(n, kScheduling) PROVE m \in Nodes /\ thunk[m] # "idle"
  <2>1. PICK c \in ConflictEdges : c.to = n /\ c.kind = kScheduling /\ c.from = m
    BY <1>2, ConflictsOf
  <2>2. Met(c) /\ m \in Nodes
    BY <2>1, ConflictEdgeShape
  <2> QED  BY <2>1, <2>2 DEF Met, kScheduling, kExecution
<1>3. waits[n] \subseteq With("ok") /\ follows[n] \subseteq Ordered!Begun
  BY <1>1, <1>2, Mapped
<1>4. n \notin Ordered!Begun /\ event = Ordered!Pending
  BY Mapped
<1>5. /\ With("running")' = With("running") \cup {n}
      /\ UNCHANGED <<With("ok"), With("failed")>>
  BY DEF With
<1>6. UNCHANGED waits /\ UNCHANGED follows
  BY WaitsUnchanged
<1> QED  BY <1>3, <1>4, <1>5, <1>6 DEF Ordered!Start

\* The event is set when no thunk runs, to the error of one that failed, or when all of
\* them have succeeded.
LEMMA FinishesInOrder ==
    ASSUME thunk \in [Nodes -> {"idle", "running", "ok", "failed"}], event = Pending,
           \A n \in Nodes : thunk[n] # "running",
           \/ event' = Ok /\ \A n \in Nodes : thunk[n] = "ok"
           \/ event' \in Nodes /\ thunk[event'] = "failed",
           UNCHANGED <<ops, thunk>>
    PROVE  Ordered!Finish
<1>1. With("running") = {} /\ event = Ordered!Pending
  BY Mapped DEF With
<1>2. \/ With("failed") = {} /\ With("ok") = Nodes /\ event' = Ordered!Ok
      \/ event' \in With("failed")
  BY Mapped DEF With
<1>3. UNCHANGED <<With("running"), With("ok"), With("failed")>>
  BY DEF With
<1> QED  BY <1>1, <1>2, <1>3, WaitsUnchanged DEF Ordered!Finish

LEMMA CompletesInOrder ==
    ASSUME thunk \in [Nodes -> {"idle", "running", "ok", "failed"}], NEW n \in Nodes, Complete(n)
    PROVE  Ordered!Complete(n)
<1>1. thunk[n] = "running" /\ UNCHANGED <<ops, event>>
  BY DEF Complete, setting, graphVars
<1>2. n \in With("running")
  BY <1>1 DEF With
<1>3. CASE thunk' = [thunk EXCEPT ![n] = "ok"]
  <2>1. /\ With("running")' = With("running") \ {n} /\ With("ok")' = With("ok") \cup {n}
        /\ UNCHANGED With("failed")
    BY <1>1, <1>3 DEF With
  <2> QED  BY <1>1, <1>2, <2>1, WaitsUnchanged DEF Ordered!Complete
<1>4. CASE thunk' = [thunk EXCEPT ![n] = "failed"]
  <2>1. /\ With("running")' = With("running") \ {n} /\ With("failed")' = With("failed") \cup {n}
        /\ UNCHANGED With("ok")
    BY <1>1, <1>4 DEF With
  <2> QED  BY <1>1, <1>2, <2>1, WaitsUnchanged DEF Ordered!Complete
<1> QED  BY <1>3, <1>4 DEF Complete

\* A step of an execution thunk by thunk.
LEMMA StepwiseRefines ==
    ASSUME Stepwise, NEW w \in workers, WorkerStep(w)
    PROVE  Ordered!Next \/ UNCHANGED Ordered!orderVars
<1>1. /\ workers = {w} /\ event = Pending /\ w \in Iterators
      /\ w.at \in {"next", "waits"} /\ w.node \in 0..N
      /\ thunk \in [Nodes -> {"idle", "running", "ok", "failed"}]
      /\ w.at = "waits" => w.node \in Nodes
  BY DEF Stepwise, Iterators
<1>2. NextThunk(w) \/ AfterThunk(w)
  BY <1>1 DEF WorkerStep, Pop, TryJoin, Launch, Offload, Skip, Load, Execute, ReturnNow,
              ReturnLater, Scheduled, ScheduledEdge, Attach, Resume, Error, CompletedEdge,
              Drop, Done
<1>3. ASSUME NEW n \in Nodes
      PROVE  /\ n < w.node => thunk[n] = "ok"
             /\ n > w.node => thunk[n] = "idle"
             /\ n = w.node => (thunk[n] = "idle" <=> w.at = "next")
             /\ n \in Int /\ w.node \in Int /\ N \in Int /\ n < N
             /\ n < w.node \/ n = w.node \/ n > w.node
  <2>1. n \in Int /\ w.node \in Int /\ N \in Int /\ n < N
    BY <1>1, GraphAssumption DEF Nodes
  <2> QED  BY <2>1 DEF Stepwise
<1>4. UNCHANGED ops
  BY <1>2 DEF NextThunk, AfterThunk, setting, graphVars
<1>5. CASE NextThunk(w)
  <2>1. w.at = "next" /\ \A n \in Nodes : thunk[n] # "running"
    BY <1>3, <1>5 DEF NextThunk
  <2>2. CASE w.node = N /\ event' = Ok /\ UNCHANGED thunk
    <3>1. \A n \in Nodes : thunk[n] = "ok"
      BY <1>3, <2>2
    <3>2. Ordered!Finish
      BY <1>1, <1>4, <2>1, <2>2, <3>1, FinishesInOrder
    <3> QED  BY <3>2 DEF Ordered!Next
  <2>3. CASE w.node < N /\ thunk' = [thunk EXCEPT ![w.node] = "running"] /\ UNCHANGED event
    <3>1. w.node \in Nodes
      BY <1>1, <2>3, GraphAssumption DEF Nodes
    <3>2. thunk[w.node] = "idle"
      BY <1>3, <2>1, <3>1
    <3>3. ASSUME NEW c \in ConflictEdges, c.to = w.node PROVE Met(c)
      <4>1. c.from \in Nodes /\ c.from < w.node
        BY <3>3, ConflictEdgeShape
      <4>2. thunk[c.from] = "ok"
        BY <1>3, <4>1
      <4> QED  BY <4>2 DEF Met
    <3>4. Ordered!Start(w.node)
      BY <1>1, <1>4, <2>3, <3>1, <3>2, <3>3, BeginsInOrder
    <3> QED  BY <3>1, <3>4 DEF Ordered!Next
  <2> QED  BY <1>5, <2>2, <2>3 DEF NextThunk
<1>6. CASE AfterThunk(w)
  <2>1. w.at = "waits" /\ thunk' = thunk /\ thunk[w.node] # "running" /\ w.node \in Nodes
    BY <1>1, <1>6 DEF AfterThunk
  <2>2. CASE thunk[w.node] = "failed" /\ event' = w.node
    <3>1. \A n \in Nodes : thunk[n] # "running"
      BY <1>3, <2>1
    <3>2. Ordered!Finish
      BY <1>1, <1>4, <2>1, <2>2, <3>1, FinishesInOrder
    <3> QED  BY <3>2 DEF Ordered!Next
  <2>3. CASE UNCHANGED event
    BY <1>4, <2>1, <2>3, Stutters
  <2> QED  BY <1>6, <2>2, <2>3 DEF AfterThunk
<1> QED  BY <1>2, <1>5, <1>6

\* A step of a worker.
LEMMA WorkerRefines ==
    ASSUME GraphBuilt, stage = "execute", Going, InOrder, NEW w \in workers, WorkerStep(w)
    PROVE  Ordered!Next \/ UNCHANGED Ordered!orderVars
<1>1. Graph(edges) /\ event = Pending /\ thunk \in [Nodes -> {"idle", "running", "ok", "failed"}]
  BY IsGraph DEF Going
<1>2. UNCHANGED ops
  BY WorkerKeepsGraph DEF setting, graphVars
<1>3. CASE Execute(w)
  <2>1. Sound(w) /\ w.at = "execute" /\ w.node \in Nodes
    BY <1>3 DEF Execute, InOrder, Going, Books, IsWorker, WorkerSet
  <2>2. thunk[w.node] = "idle" /\ \A e \in In(w.node) : Met(e)
    BY <2>1 DEF Sound, Fresh
  <2>3. \A e \in edges : thunk[e.to] # "idle" \/ e.to = w.node => Met(e)
    BY <2>2 DEF InOrder, In
  <2>4. \A c \in ConflictEdges : c.to = w.node => Met(c)
    BY <2>1, <2>3, ConflictsMet
  <2>5. thunk' = [thunk EXCEPT ![w.node] = "running"] /\ UNCHANGED event
    BY <1>3 DEF Execute
  <2>6. Ordered!Start(w.node)
    BY <1>1, <1>2, <2>1, <2>2, <2>4, <2>5, BeginsInOrder
  <2> QED  BY <2>1, <2>6 DEF Ordered!Next
<1>4. CASE Done(w)
  <2>1. w.at = "done" /\ UNCHANGED thunk /\ event' = IF abort THEN abort_status ELSE Ok
    BY <1>4 DEF Done
  <2>2. Books(edges, workers, counter, 0) /\ \A u \in workers : Form(edges, u) /\ IsWorker(edges, u)
    BY <2>1 DEF Going, Books
  <2>3. /\ \A u \in workers : Mine(u) = {}
        /\ \A n \in Nodes : ~(counter[n] > 0)
    <3>1. \A u \in workers : u.at = "sched" => u.out # {}
      BY <2>2 DEF Form
    <3>2. \A u \in workers : u.at \in {"error", "edges"} /\ u.out = {} => u.drop
      BY <2>2 DEF Form
    <3>3. \A u \in workers : u.at = "waiting" => u.drop = Dropped(edges, u.node)
      BY <2>2 DEF Form
    <3>4. \A u \in workers : u.at = "drop" => u.drop
      BY <2>2 DEF Form
    <3> QED  BY <1>1, <2>2, <3>1, <3>2, <3>3, <3>4, Quiet
  <2>4. \A u \in workers : u.at \notin Unknown /\ u.at \notin Underway
    BY <2>3 DEF Mine, Hand, Busy, Early, Unknown, Underway
  <2>5. \A n \in Nodes : thunk[n] # "running"
    BY <2>4 DEF Going
  <2>6. \A n \in Nodes : Settled(n)
    BY <2>3 DEF InOrder
  <2>7. \/ event' = Ok /\ \A n \in Nodes : thunk[n] = "ok"
        \/ event' \in Nodes /\ thunk[event'] = "failed"
    BY <2>1, <2>6 DEF InOrder, Settled
  <2>8. Ordered!Finish
    BY <1>1, <1>2, <2>1, <2>5, <2>7, FinishesInOrder
  <2> QED  BY <2>8 DEF Ordered!Next
<1>5. CASE ~Execute(w) /\ ~Done(w)
  <2>1. w.at # "next" /\ w.at # "waits"
    BY DEF Going, Books, IsWorker, WorkerSet, Busy, Early
  <2>2. UNCHANGED <<thunk, event>>
    BY <1>5, <2>1 DEF WorkerStep, Pop, TryJoin, Launch, Offload, Skip, Load, ReturnNow,
       ReturnLater, Scheduled, ScheduledEdge, Attach, Resume, Error, CompletedEdge, Drop,
       NextThunk, AfterThunk
  <2> QED  BY <1>2, <2>2, Stutters
<1> QED  BY <1>3, <1>4, <1>5

LEMMA RefinementStep == OrderInv /\ [Next \/ Returned]_vars => [Ordered!Next]_(Ordered!orderVars)
<1> SUFFICES ASSUME OrderInv, [Next \/ Returned]_vars
             PROVE  Ordered!Next \/ UNCHANGED Ordered!orderVars
  OBVIOUS
<1>1. ExecInv /\ GraphBuilt
  BY DEF OrderInv, ExecInv
<1>2. CASE UNCHANGED vars
  BY <1>2, Stutters DEF vars
<1>3. CASE Build
  BY <1>3, Stutters DEF Build, execVars, GraphNext, Create, FollowEdge, Visit, NextSource
<1>4. CASE Start
  BY <1>4, Stutters DEF Start
<1>5. ASSUME NEW w \in workers, WorkerStep(w) PROVE Ordered!Next \/ UNCHANGED Ordered!orderVars
  <2>1. stage = "execute"
    BY <1>1 DEF ExecInv, Unstarted
  <2>2. CASE Sequential
    BY <1>1, <1>5, <2>1, <2>2, StepwiseRefines DEF ExecInv
  <2>3. CASE ~Sequential
    BY <1>1, <1>5, <2>1, <2>3, WorkerRefines DEF ExecInv, OrderInv
  <2> QED  BY <2>2, <2>3
<1>6. ASSUME NEW n \in Nodes, Complete(n) PROVE Ordered!Next
  <2>1. thunk \in [Nodes -> {"idle", "running", "ok", "failed"}]
    BY <1>1 DEF ExecInv, Unstarted, Stepwise, Going
  <2> QED  BY <1>6, <2>1, CompletesInOrder DEF Ordered!Next
<1> QED  BY <1>2, <1>3, <1>4, <1>5, <1>6 DEF Next, Returned

\* The executor does what OrderedExecution promises, for any program, any conflicts, any
\* number of workers and whatever the thunks do: each starts once, after the thunks it
\* conflicts with, and the outcome is set once, last, and tells of a failure.
THEOREM ExecutionKeepsOrder == Spec => OrderKeptInExecution
<1>1. Init => OrderInv /\ Ordered!Init
  BY InitOrderInv, RefinementInit
<1>2. OrderInv /\ [Next \/ Returned]_vars => OrderInv' /\ [Ordered!Next]_(Ordered!orderVars)
  BY OrderInvStep, RefinementStep
<1> QED  BY <1>1, <1>2, PTL DEF Spec, OrderKeptInExecution, Ordered!Spec

=============================================================================
