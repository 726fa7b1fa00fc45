----------------------------- MODULE AsyncValue -----------------------------
(***************************************************************************)
(* AsyncValue (xla/tsl/concurrency/async_value.h, async_value.cc): values  *)
(* that become available later, with a lock-free list of waiters.          *)
(*                                                                         *)
(* A thread's `stack` holds what is left of the calls it has made, next    *)
(* step first; each step is one atomic instruction on a shared word, or    *)
(* one access to memory it publishes.  A spurious failure of               *)
(* compare_exchange_weak changes nothing and is a stuttering step.         *)
(***************************************************************************)
EXTENDS Integers, Sequences, FiniteSets

CONSTANTS
    Threads,
    Concrete, Indirect,   \* the values of either kind
    Born,                 \* value |-> its state at construction
    Target,               \* indirect value |-> the value it is forwarded to
    Producer,             \* value |-> the thread that makes it available
    Given,                \* thread |-> the values it is given a reference to
    Waiters,              \* callbacks handed to AndThen or BlockUntilReady
    On,                   \* waiter |-> the value it waits for
    Owning,               \* waiters that hold a reference to that value
    Blocking,             \* waiters that are a thread in BlockUntilReady
    Group,                \* the span of values given to RunWhenReady
    Callee,               \* and its callee
    Nil

Values == Concrete \cup Indirect

Unavailable == {"Unconstructed", "Constructed"}

ASSUME KindsAssumption ==
    /\ Concrete \cap Indirect = {}
    /\ Born \in [Values -> Unavailable \cup {"Error"}]
    /\ \A i \in Indirect : Born[i] = "Unconstructed"
    /\ Target \in [Indirect -> Values]
    /\ Producer \in [Values -> Threads]
    /\ Given \in [Threads -> SUBSET Values]
    /\ \A v \in Values : v \in Given[Producer[v]]
    /\ \A i \in Indirect : Target[i] \in Given[Producer[i]]
    /\ On \in [Waiters -> Values]
    /\ Owning \cap Blocking = {}   \* BlockUntilReady takes no reference
    /\ Group \in Seq(Values)
    /\ Callee \notin Waiters

ASSUME FiniteAssumption ==
    IsFiniteSet(Threads) /\ IsFiniteSet(Values) /\ IsFiniteSet(Waiters)

\* No value is forwarded to itself, directly or through others.
ASSUME ForwardAssumption ==
    \A S \in SUBSET Indirect : S # {} => \E i \in S : Target[i] \notin S

VARIABLES
    state, head,     \* the word waiters_and_state_
    next,            \* WaiterListNode::next
    value,           \* IndirectAsyncValue::value_
    payload,         \* what data_store_ holds: "none", "data" or "error"
    refcount,
    freed,           \* values that were destroyed
    counter,         \* CounterAndCallee::counter
    stack,
    holds,           \* thread |-> the values it has a reference to
    produced,        \* values whose producer has begun to set them
    asked, ran       \* waiters handed over; waiter |-> how often it ran

vars == <<state, head, next, value, payload, refcount, freed, counter, stack,
          holds, produced, asked, ran>>

-----------------------------------------------------------------------------
(* Waiter list nodes, and the calls that are left on a stack.               *)

User(w) == [kind |-> "user", of |-> w, av |-> On[w]]
Forward(i) == [kind |-> "forward", of |-> i, av |-> Target[i]]
Countdown(k) == [kind |-> "countdown", of |-> k, av |-> Group[k]]
Last(k) == [kind |-> "last", of |-> k, av |-> Group[k]]

Nodes == {User(w) : w \in Waiters} \cup {Forward(i) : i \in Indirect}
           \cup {Countdown(k) : k \in 1..Len(Group)} \cup {Last(k) : k \in 1..Len(Group)}

ASSUME NilAssumption == Nil \notin Values /\ Nil \notin Nodes

Available(v) == state[v] \notin Unavailable
Word(v) == <<head[v], state[v]>>

Idle(t) == stack[t] = <<>>
Top(t, op) == stack[t] # <<>> /\ Head(stack[t]).op = op

\* The current step of thread t is followed by these calls.
Then(t, calls) == stack' = [stack EXCEPT ![t] = calls \o Tail(@)]

Drop(v) == [op |-> "DropRef", av |-> v]

\* RunWaiterAndDeleteWaiterNode: run the callback, then drop what it captured.
RunWaiter(n) ==
    CASE n.kind = "user" -> <<[op |-> "call", w |-> n.of]>>
                              \o IF n.of \in Owning THEN <<Drop(n.av)>> ELSE <<>>
      [] n.kind = "forward" -> <<[op |-> "ForwardTo", av |-> n.of, to |-> n.av], Drop(n.of)>>
      [] n.kind = "countdown" -> <<[op |-> "fetch_sub", k |-> n.of]>>
      [] n.kind = "last" -> <<[op |-> "call", w |-> Callee]>>

Init ==
    /\ state = Born
    /\ head = [v \in Values |-> Nil]
    /\ next = [n \in Nodes |-> Nil]
    /\ value = [i \in Indirect |-> Nil]
    /\ payload = [v \in Concrete |-> IF Born[v] = "Unconstructed" THEN "none"
                                     ELSE IF Born[v] = "Error" THEN "error" ELSE "data"]
    /\ refcount = [v \in Values |-> Cardinality({t \in Threads : v \in Given[t]})]
    /\ freed = {}
    /\ counter = 0
    /\ stack = [t \in Threads |-> <<>>]
    /\ holds = Given
    /\ produced = {v \in Values : Born[v] = "Error"}
    /\ asked = {}
    /\ ran = [w \in Waiters \cup {Callee} |-> 0]

-----------------------------------------------------------------------------
(* Adding a waiter.                                                         *)

\* AndThen: load the word; run the waiter at once or try to enqueue it.
AndThen(t) ==
    /\ Top(t, "AndThen")
    /\ LET n == Head(stack[t]).node IN
       IF Available(n.av)
       THEN Then(t, RunWaiter(n)) /\ UNCHANGED next
       ELSE /\ Then(t, <<[op |-> "compare_exchange", node |-> n, expected |-> Word(n.av)]>>)
            /\ next' = [next EXCEPT ![n] = head[n.av]]
    /\ UNCHANGED <<state, head, value, payload, refcount, freed, counter, holds,
                   produced, asked, ran>>

\* Mutant of Relinked: the node keeps the link it had before the exchange failed.
RelinkedNever(n) == next

\* waiter->next points to the head of the list seen by the failed exchange.
Relinked(n) == [next EXCEPT ![n] = head[n.av]]

\* EnqueueWaiterListNode: one round of the compare-exchange loop.
EnqueueWaiterListNode(t) ==
    /\ Top(t, "compare_exchange")
    /\ LET call == Head(stack[t])
           n == call.node
           word == Word(n.av)
       IN \/ /\ word = call.expected
             /\ head' = [head EXCEPT ![n.av] = n]
             /\ Then(t, <<>>)
             /\ UNCHANGED next
          \/ /\ word # call.expected /\ Available(n.av)
             /\ Then(t, RunWaiter(n))
             /\ UNCHANGED <<head, next>>
          \/ /\ word # call.expected /\ ~Available(n.av)
             /\ Then(t, <<[call EXCEPT !.expected = word]>>)
             /\ next' = Relinked(n)
             /\ UNCHANGED head
    /\ UNCHANGED <<state, value, payload, refcount, freed, counter, holds,
                   produced, asked, ran>>

-----------------------------------------------------------------------------
(* Making a value available.                                                *)

\* EmplaceData or DataOrError::SetError: fill data_store_ before publishing.
Store(t) ==
    /\ Top(t, "store")
    /\ LET call == Head(stack[t]) IN
       payload' = [payload EXCEPT ![call.av] = IF call.s = "Error" THEN "error" ELSE "data"]
    /\ Then(t, <<>>)
    /\ UNCHANGED <<state, head, next, value, refcount, freed, counter, holds,
                   produced, asked, ran>>

\* The word NotifyAvailable puts in place of the old one.
Published(v, s) == <<Nil, s>>

\* NotifyAvailable: one exchange; then run the waiters of the list it got.
NotifyAvailable(t) ==
    /\ Top(t, "NotifyAvailable")
    /\ LET call == Head(stack[t])
           word == Published(call.av, call.s)
       IN /\ head' = [head EXCEPT ![call.av] = word[1]]
          /\ state' = [state EXCEPT ![call.av] = word[2]]
          /\ Then(t, <<[op |-> "RunWaiters", list |-> head[call.av]]>>)
    /\ UNCHANGED <<next, value, payload, refcount, freed, counter, holds,
                   produced, asked, ran>>

\* The node RunWaiters goes on with.
After(n) == next[n]

\* RunWaiters: the link is read before the node is run and deleted.
RunWaiters(t) ==
    /\ Top(t, "RunWaiters")
    /\ LET n == Head(stack[t]).list IN
       Then(t, IF n = Nil THEN <<>>
               ELSE RunWaiter(n) \o <<[op |-> "RunWaiters", list |-> After(n)]>>)
    /\ UNCHANGED <<state, head, next, value, payload, refcount, freed, counter,
                   holds, produced, asked, ran>>

\* A waiter's callback.
Call(t) ==
    /\ Top(t, "call")
    /\ ran' = [ran EXCEPT ![Head(stack[t]).w] = @ + 1]
    /\ Then(t, <<>>)
    /\ UNCHANGED <<state, head, next, value, payload, refcount, freed, counter,
                   holds, produced, asked>>

\* Mutant of Unwrap: the indirect value is dropped before the reference to the
\* concrete one is taken.
UnwrapDropsFirst(i, v, s) ==
    <<Drop(v), [op |-> "AddRef", av |-> value[v]],
      [op |-> "SetValue", av |-> i, to |-> value[v], s |-> s]>>

\* ForwardTo follows an available indirect value v to its concrete value.
Unwrap(i, v, s) ==
    <<[op |-> "AddRef", av |-> value[v]], Drop(v),
      [op |-> "SetValue", av |-> i, to |-> value[v], s |-> s]>>

\* ForwardTo(i, v), which owns a reference to v: forward now, or when v becomes
\* available, with a reference to i in the callback.
ForwardTo(t) ==
    /\ Top(t, "ForwardTo")
    /\ LET i == Head(stack[t]).av
           v == Head(stack[t]).to
           s == state[v]
       IN \/ /\ Available(v)
             /\ Then(t, IF v \in Indirect THEN Unwrap(i, v, s)
                        ELSE <<[op |-> "SetValue", av |-> i, to |-> v, s |-> s]>>)
             /\ UNCHANGED refcount
          \/ /\ ~Available(v)
             /\ refcount' = [refcount EXCEPT ![i] = @ + 1]
             /\ Then(t, <<[op |-> "AndThen", node |-> Forward(i)]>>)
    /\ UNCHANGED <<state, head, next, value, payload, freed, counter, holds,
                   produced, asked, ran>>

\* The rest of ForwardTo: value_, then NotifyAvailable.
SetValue(t) ==
    /\ Top(t, "SetValue")
    /\ LET call == Head(stack[t]) IN
       /\ value' = [value EXCEPT ![call.av] = call.to]
       /\ Then(t, <<[op |-> "NotifyAvailable", av |-> call.av, s |-> call.s]>>)
    /\ UNCHANGED <<state, head, next, payload, refcount, freed, counter, holds,
                   produced, asked, ran>>

-----------------------------------------------------------------------------
(* References.                                                              *)

AddRef(t) ==
    /\ Top(t, "AddRef")
    /\ refcount' = [refcount EXCEPT ![Head(stack[t]).av] = @ + 1]
    /\ Then(t, <<>>)
    /\ UNCHANGED <<state, head, next, value, payload, freed, counter, holds,
                   produced, asked, ran>>

\* Destroy: an indirect value drops its reference to value_.
Destroy(t, v) ==
    /\ freed' = freed \cup {v}
    /\ IF v \in Indirect /\ value[v] # Nil
       THEN Then(t, <<Drop(value[v])>>) /\ value' = [value EXCEPT ![v] = Nil]
       ELSE Then(t, <<>>) /\ UNCHANGED value

\* Mutant of IsLastRef: fetch_sub is taken to return the new count.
IsLastRefNewCount(before) == before = 0

\* fetch_sub returned the count that was dropped.
IsLastRef(before) == before = 1

\* DropRef: a reference that is seen to be the only one is not subtracted ...
DropRef(t) ==
    /\ Top(t, "DropRef")
    /\ LET v == Head(stack[t]).av IN
       IF refcount[v] = 1
       THEN /\ refcount' = [refcount EXCEPT ![v] = 0]
            /\ Destroy(t, v)
       ELSE /\ Then(t, <<[op |-> "DropRef_fetch_sub", av |-> v]>>)
            /\ UNCHANGED <<refcount, freed, value>>
    /\ UNCHANGED <<state, head, next, payload, counter, holds, produced, asked, ran>>

\* ... otherwise fetch_sub decides who was last.
DropRefSub(t) ==
    /\ Top(t, "DropRef_fetch_sub")
    /\ LET v == Head(stack[t]).av IN
       /\ refcount' = [refcount EXCEPT ![v] = @ - 1]
       /\ IF IsLastRef(refcount[v]) THEN Destroy(t, v)
          ELSE Then(t, <<>>) /\ UNCHANGED <<freed, value>>
    /\ UNCHANGED <<state, head, next, payload, counter, holds, produced, asked, ran>>

-----------------------------------------------------------------------------
(* RunWhenReady and BlockUntilReady.                                        *)

\* The scan of the span, one load after the other.
Scan(t) ==
    /\ Top(t, "scan")
    /\ LET call == Head(stack[t]) IN
       /\ call.k <= Len(Group)
       /\ Then(t, <<[call EXCEPT !.k = @ + 1,
                     !.unavailable = IF Available(Group[call.k]) THEN @
                                     ELSE Append(@, call.k)]>>)
    /\ UNCHANGED <<state, head, next, value, payload, refcount, freed, counter,
                   holds, produced, asked, ran>>

\* Mutant of StartCount: off by one.
StartCountShort(unavailable) == Len(unavailable) - 1

\* CounterAndCallee::counter starts at the number of values found unavailable.
StartCount(unavailable) == Len(unavailable)

\* After the scan: nothing to wait for, one value, or a counter.
EndScan(t) ==
    /\ Top(t, "scan")
    /\ LET call == Head(stack[t])
           un == call.unavailable
       IN /\ call.k > Len(Group)
          /\ counter' = IF Len(un) > 1 THEN StartCount(un) ELSE counter
          /\ Then(t, CASE Len(un) = 0 -> <<[op |-> "call", w |-> Callee]>>
                       [] Len(un) = 1 -> <<[op |-> "AndThen", node |-> Last(un[1])]>>
                       [] OTHER -> [k \in 1..Len(un) |->
                                      [op |-> "AndThen", node |-> Countdown(un[k])]])
    /\ UNCHANGED <<state, head, next, value, payload, refcount, freed, holds,
                   produced, asked, ran>>

\* The waiter of one value of the span: the last one runs the callee.
FetchSub(t) ==
    /\ Top(t, "fetch_sub")
    /\ counter' = counter - 1
    /\ Then(t, IF counter = 1 THEN <<[op |-> "call", w |-> Callee]>> ELSE <<>>)
    /\ UNCHANGED <<state, head, next, value, payload, refcount, freed, holds,
                   produced, asked, ran>>

\* WaitForNotification returns once the waiter has run.
Wake(t) ==
    /\ Top(t, "WaitForNotification")
    /\ ran[Head(stack[t]).w] > 0
    /\ Then(t, <<>>)
    /\ UNCHANGED <<state, head, next, value, payload, refcount, freed, counter,
                   holds, produced, asked, ran>>

-----------------------------------------------------------------------------
(* What clients do: each thread makes one call at a time, uses only values  *)
(* it has a reference to, and a producer keeps its reference until it has   *)
(* set the value.                                                           *)

Begin(t, calls) == Idle(t) /\ stack' = [stack EXCEPT ![t] = calls]

\* AndThen, or BlockUntilReady by a thread that has nothing left to produce.
Wait(t, w) ==
    /\ w \notin asked
    /\ On[w] \in holds[t]
    /\ w \in Blocking => {v \in Values : Producer[v] = t} \subseteq produced
    /\ asked' = asked \cup {w}
    /\ refcount' = IF w \in Owning THEN [refcount EXCEPT ![On[w]] = @ + 1] ELSE refcount
    /\ Begin(t, IF w \notin Blocking THEN <<[op |-> "AndThen", node |-> User(w)]>>
                ELSE IF Available(On[w]) THEN <<[op |-> "call", w |-> w]>>
                ELSE <<[op |-> "AndThen", node |-> User(w)],
                       [op |-> "WaitForNotification", w |-> w]>>)
    /\ UNCHANGED <<state, head, next, value, payload, freed, counter, holds,
                   produced, ran>>

RunWhenReady(t) ==
    /\ Callee \notin asked
    /\ Group # <<>>
    /\ \A k \in 1..Len(Group) : Group[k] \in holds[t]
    /\ asked' = asked \cup {Callee}
    /\ Begin(t, <<[op |-> "scan", k |-> 1, unavailable |-> <<>>]>>)
    /\ UNCHANGED <<state, head, next, value, payload, refcount, freed, counter,
                   holds, produced, ran>>

\* Mutant of Emplacement: the value is published before it is stored.
EmplacementPublishesFirst(v, s) ==
    <<[op |-> "NotifyAvailable", av |-> v, s |-> s], [op |-> "store", av |-> v, s |-> s]>>

\* emplace and SetError fill data_store_ and then notify.
Emplacement(v, s) ==
    <<[op |-> "store", av |-> v, s |-> s], [op |-> "NotifyAvailable", av |-> v, s |-> s]>>

\* emplace or SetError of a concrete value, or SetStateConcrete if it is constructed.
Set(t, v, s) ==
    /\ Producer[v] = t /\ v \in holds[t] \ produced
    /\ produced' = produced \cup {v}
    /\ Begin(t, IF s = "Error" \/ Born[v] = "Unconstructed" THEN Emplacement(v, s)
                ELSE <<[op |-> "NotifyAvailable", av |-> v, s |-> s]>>)
    /\ UNCHANGED <<state, head, next, value, payload, refcount, freed, counter,
                   holds, asked, ran>>

\* Thread t needs its reference to v to set what it has yet to set.
Needed(t, v) ==
    \E u \in Values \ produced :
        Producer[u] = t /\ (u = v \/ (u \in Indirect /\ Target[u] = v))

\* ForwardTo, or SetError of an indirect value, which forwards it to a new error
\* value.  The caller passes a reference of its own or a copy.
Resolve(t, i) ==
    /\ Producer[i] = t /\ i \in holds[t] \ produced
    /\ Target[i] \in holds[t]
    /\ produced' = produced \cup {i}
    /\ \/ /\ refcount' = [refcount EXCEPT ![Target[i]] = @ + 1]
          /\ UNCHANGED holds
       \/ /\ ~Needed(t, Target[i])'
          /\ holds' = [holds EXCEPT ![t] = @ \ {Target[i]}]
          /\ UNCHANGED refcount
    /\ Begin(t, <<[op |-> "ForwardTo", av |-> i, to |-> Target[i]]>>)
    /\ UNCHANGED <<state, head, next, value, payload, freed, counter, asked, ran>>

\* A thread gives up a reference it does not need.
Release(t, v) ==
    /\ v \in holds[t]
    /\ ~Needed(t, v)
    /\ holds' = [holds EXCEPT ![t] = @ \ {v}]
    /\ Begin(t, <<Drop(v)>>)
    /\ UNCHANGED <<state, head, next, value, payload, refcount, freed, counter,
                   produced, asked, ran>>

-----------------------------------------------------------------------------
Step(t) ==
    \/ AndThen(t) \/ EnqueueWaiterListNode(t) \/ RunWaiters(t) \/ Call(t)
    \/ Store(t) \/ NotifyAvailable(t) \/ ForwardTo(t) \/ SetValue(t)
    \/ AddRef(t) \/ DropRef(t) \/ DropRefSub(t)
    \/ Scan(t) \/ EndScan(t) \/ FetchSub(t) \/ Wake(t)

Client(t) ==
    \/ \E w \in Waiters : Wait(t, w)
    \/ RunWhenReady(t)
    \/ \E v \in Concrete, s \in {"Concrete", "Error"} : Set(t, v, s)
    \/ \E i \in Indirect : Resolve(t, i)
    \/ \E v \in Values : Release(t, v)

Next == \E t \in Threads : Step(t) \/ Client(t)

Spec == Init /\ [][Next]_vars

\* A thread that is inside a call goes on with it.
FairSpec == Spec /\ \A t \in Threads : WF_vars(Step(t))

-----------------------------------------------------------------------------
(* Properties.                                                              *)

\* The calls pending on any stack.
Pending == UNION {{stack[t][k] : k \in 1..Len(stack[t])} : t \in Threads}

\* The values a pending call will touch.
Touched ==
    {c.av : c \in {c \in Pending : "av" \in DOMAIN c}}
      \cup {c.to : c \in {c \in Pending : "to" \in DOMAIN c}}
      \cup {c.node.av : c \in {c \in Pending : "node" \in DOMAIN c}}

\* No thread is about to touch a value that was destroyed, and a live indirect
\* value does not point to a destroyed one.
NoUseAfterFree ==
    /\ Touched \cap freed = {}
    /\ \A i \in Indirect \ freed : value[i] \notin freed

\* A value that nobody can reach any more was destroyed.
NoLeak ==
    (\A t \in Threads : Idle(t) /\ holds[t] = {}) /\ produced = Values => freed = Values

\* The concrete value that v stands for.
Underlying(v) == IF v \in Concrete THEN v ELSE value[v]

\* A callback that is about to run finds the value it waited for alive, and what
\* it reads there is what the state says.
WaiterSeesValue ==
    \A c \in Pending : c.op = "call" /\ c.w \in Waiters =>
        LET v == On[c.w] IN
        /\ Available(v) /\ v \notin freed
        /\ Underlying(v) \in Concrete \ freed
        /\ payload[Underlying(v)] = IF state[v] = "Error" THEN "error" ELSE "data"

\* The abstract specification, and how the state stands for its state.
Needs(w) == IF w = Callee THEN {Group[k] : k \in 1..Len(Group)} ELSE {On[w]}

Promise == INSTANCE Promises WITH
    Waiters <- Waiters \cup {Callee},
    None <- "None",
    outcome <- [v \in Values |-> IF Available(v) THEN state[v] ELSE "None"],
    asked <- asked,
    done <- ran

\* Asynchronous values keep their promises: see module Promises.
KeepsPromises == Promise!Spec

\* Whoever waits for values that are available runs in the end, whatever the
\* order in which waiters were added and values set.
WaitersRun ==
    \A w \in Waiters \cup {Callee} :
        w \in asked /\ (\A v \in Needs(w) : Available(v)) ~> ran[w] > 0

=============================================================================
