----------------------------- MODULE Rendezvous -----------------------------
(***************************************************************************)
(* Rendezvous of the threads of a process (xla/service/rendezvous.h,       *)
(* rendezvous.cc): threads with the same key meet, the last one runs a     *)
(* function over the values of all, and all receive its result.  With a    *)
(* RendezvousFlag the meeting is skipped once it has taken place.          *)
(***************************************************************************)
EXTENDS Integers, FiniteSets

CONSTANTS
    Threads,
    MaxCalls,       \* bound: how often a thread calls Rendezvous
    Setups,         \* the ways in which the threads use it
    Skipped, Nil

\* RendezvousState objects.  One that no thread holds any more is free again.
States == 1..(Cardinality(Threads) + 1)

kCompleted == 1000       \* stands for the largest int32_t

ASSUME RendezvousAssumption ==
    /\ IsFiniteSet(Threads) /\ Threads # {}
    /\ MaxCalls \in Nat \ {0}
    /\ \A s \in Setups : /\ {s.hasResult, s.useFlag, s.terminates} \subseteq BOOLEAN
                          /\ DOMAIN s.key = Threads
    /\ Cardinality(Threads) < kCompleted

\* Nil is no state, no result and not what a call that is skipped returns.
ASSUME NilAssumption ==
    /\ Nil \notin States /\ Nil # Skipped
    /\ \A r \in SUBSET ((Threads \X (1..MaxCalls)) \cup {Nil}) : r # Nil

VARIABLES
    setup,      \* the one of this execution; it does not change
    map,        \* RendezvousMap::state_: key |-> the round in progress
    rounds,     \* state |-> [ack, rel, values, ready, result]
    held,       \* thread |-> the state it has a shared pointer to
    pc, id,     \* where each thread is in Rendezvous, and its variable id
    flag,       \* RendezvousFlag::state_
    seen,       \* thread |-> the flag it loaded before a compare-exchange
    call,       \* thread |-> how many calls it has begun
    got,        \* thread |-> what its calls returned, by call (history)
    aborted     \* LOG(FATAL)

vars == <<setup, map, rounds, held, pc, id, flag, seen, call, got, aborted>>

Key == setup.key                  \* thread |-> the key it uses
HasResult == setup.hasResult      \* FALSE: the barrier without a function (R is nullopt_t)
UseFlag == setup.useFlag          \* the calls go through one RendezvousFlag
Terminates == setup.terminates    \* terminate_timeout is finite

Group(t) == {u \in Threads : Key[u] = Key[t]}
Size(t) == Cardinality(Group(t))

Slots == 0..(Cardinality(Threads) - 1)

Fresh == [ack |-> 0, rel |-> 0, values |-> [k \in Slots |-> Nil], ready |-> FALSE,
          result |-> Nil]

Holders(s) == {t \in Threads : held[t] = s}

\* Thread t goes from one place to another.
Go(t, from, to) == pc[t] = from /\ ~aborted /\ pc' = [pc EXCEPT ![t] = to]

Init ==
    /\ setup \in Setups
    /\ map = [k \in {Key[t] : t \in Threads} |-> Nil]
    /\ rounds = [s \in States |-> Fresh]
    /\ held = [t \in Threads |-> Nil]
    /\ pc = [t \in Threads |-> "idle"]
    /\ id = [t \in Threads |-> 0]
    /\ flag = 0
    /\ seen = [t \in Threads |-> 0]
    /\ call = [t \in Threads |-> 0]
    /\ got = [t \in Threads |-> [n \in 1..MaxCalls |-> Nil]]
    /\ aborted = FALSE

-----------------------------------------------------------------------------
(* RendezvousFlag.                                                          *)

\* A call begins: with TryJoin's first load, or at once.
Begin(t) ==
    /\ call[t] < MaxCalls
    /\ Go(t, "idle", IF UseFlag THEN "TryJoin" ELSE "Join")
    /\ call' = [call EXCEPT ![t] = @ + 1]
    /\ UNCHANGED <<map, rounds, held, id, flag, seen, got, aborted>>

\* TryJoin: skip a rendezvous that was completed, otherwise load again ...
TryJoin(t) ==
    /\ \/ flag = kCompleted /\ Go(t, "TryJoin", "idle")
          /\ got' = [got EXCEPT ![t][call[t]] = Skipped]
       \/ flag # kCompleted /\ Go(t, "TryJoin", "load") /\ UNCHANGED got
    /\ UNCHANGED <<map, rounds, held, id, flag, seen, call, aborted>>

LoadFlag(t) ==
    /\ Go(t, "load", "increment")
    /\ seen' = [seen EXCEPT ![t] = flag]
    /\ UNCHANGED <<map, rounds, held, id, flag, call, got, aborted>>

\* ... and increment the flag unless it was completed meanwhile.
IncrementFlag(t) ==
    /\ \/ /\ seen[t] = kCompleted
          /\ Go(t, "increment", "idle")
          /\ got' = [got EXCEPT ![t][call[t]] = Skipped]
          /\ UNCHANGED <<flag, seen>>
       \/ /\ seen[t] # kCompleted /\ flag = seen[t]
          /\ Go(t, "increment", "Join")
          /\ flag' = flag + 1
          /\ UNCHANGED <<seen, got>>
       \/ /\ seen[t] # kCompleted /\ flag # seen[t]
          /\ Go(t, "increment", "increment")
          /\ seen' = [seen EXCEPT ![t] = flag]
          /\ UNCHANGED <<flag, got>>
    /\ UNCHANGED <<map, rounds, held, id, call, aborted>>

\* What ~InFlightRendezvous puts in place of s: the last one out completes it.
Exited(s) == IF s = 1 THEN kCompleted ELSE s - 1

\* ~InFlightRendezvous: a load, then a compare-exchange loop.
LoadExit(t) ==
    /\ Go(t, "exit", "decrement")
    /\ seen' = [seen EXCEPT ![t] = flag]
    /\ UNCHANGED <<map, rounds, held, id, flag, call, got, aborted>>

Exit(t) ==
    /\ \/ flag = seen[t] /\ Go(t, "decrement", "idle") /\ flag' = Exited(flag) /\ UNCHANGED seen
       \/ flag # seen[t] /\ Go(t, "decrement", "decrement")
          /\ seen' = [seen EXCEPT ![t] = flag] /\ UNCHANGED flag
    /\ UNCHANGED <<map, rounds, held, id, call, got, aborted>>

-----------------------------------------------------------------------------
(* Rendezvous.                                                              *)

\* A thread alone runs the function itself.
Alone(t) ==
    /\ Size(t) = 1
    /\ Go(t, "Join", IF UseFlag THEN "exit" ELSE "idle")
    /\ got' = [got EXCEPT ![t][call[t]] = {<<t, call[t]>>}]
    /\ UNCHANGED <<map, rounds, held, id, flag, seen, call, aborted>>

\* RendezvousMap::Join: expired entries are erased; join the round in progress or
\* start a new one.
Join(t) ==
    LET live == [k \in DOMAIN map |-> IF map[k] # Nil /\ Holders(map[k]) # {}
                                      THEN map[k] ELSE Nil]
        new == CHOOSE s \in States : Holders(s) = {}
        s == IF live[Key[t]] # Nil THEN live[Key[t]] ELSE new
    IN /\ Size(t) > 1
       /\ Go(t, "Join", "ack")
       /\ map' = [live EXCEPT ![Key[t]] = s]
       /\ held' = [held EXCEPT ![t] = s]
       /\ rounds' = IF live[Key[t]] # Nil THEN rounds ELSE [rounds EXCEPT ![s] = Fresh]
       /\ UNCHANGED <<id, flag, seen, call, got, aborted>>

\* ack.fetch_add hands out the slots.
Ack(t) ==
    LET s == held[t] IN
    /\ Go(t, "ack", "write")
    /\ id' = [id EXCEPT ![t] = rounds[s].ack]
    /\ rounds' = [rounds EXCEPT ![s].ack = @ + 1]
    /\ UNCHANGED <<map, held, flag, seen, call, got, aborted>>

\* Mutant of Woken: Signal instead of SignalAll.
WokenOne(asleep) == IF asleep = {} THEN {} ELSE {CHOOSE t \in asleep : TRUE}

\* The threads that SignalAll wakes.
Woken(asleep) == asleep

\* Thread t goes on after it has signalled the threads that sleep in its round.
SignalAll(t, from, to) ==
    /\ pc[t] = from /\ ~aborted
    /\ pc' = [u \in Threads |->
                 IF u = t THEN to
                 ELSE IF u \in Woken({x \in Holders(held[t]) : pc[x] = "asleep"})
                 THEN "wait" ELSE pc[u]]

\* The others are told of the arrival, and the value goes to its slot, without a lock.
Write(t) ==
    /\ SignalAll(t, "write", "rel")
    /\ rounds' = [rounds EXCEPT ![held[t]].values[id[t]] = <<t, call[t]>>]
    /\ UNCHANGED <<map, held, id, flag, seen, call, got, aborted>>

\* Mutant of LeaderId: the id of arrival decides also when values are read.
LeaderIdIsSlot(t) == id[t]

\* The id that decides who is the leader: where values are read, a second counter
\* that is incremented after the value was written.
LeaderId(t) == IF HasResult THEN rounds[held[t]].rel ELSE id[t]

\* rel.fetch_add; the last thread leads, the others wait.
Rel(t) ==
    /\ pc[t] = "rel"
    /\ rounds' = IF HasResult THEN [rounds EXCEPT ![held[t]].rel = @ + 1] ELSE rounds
    /\ \/ LeaderId(t) < Size(t) - 1 /\ Go(t, "rel", "wait")
       \/ LeaderId(t) >= Size(t) - 1 /\ Go(t, "rel", "Complete")
    /\ id' = [id EXCEPT ![t] = LeaderId(t)]
    /\ UNCHANGED <<map, held, flag, seen, call, got, aborted>>

\* Mutant of Erased: the finished round stays in the map.
ErasedNever(k) == map

\* RendezvousMap::Complete erases the key's round.
Erased(k) == [map EXCEPT ![k] = Nil]

Complete(t) ==
    /\ Go(t, "Complete", "invoke")
    /\ map' = Erased(Key[t])
    /\ UNCHANGED <<rounds, held, id, flag, seen, call, got, aborted>>

\* InvokeRendezvous: the function is applied to the values in the slots.
Invoke(t) ==
    LET s == held[t] IN
    /\ Go(t, "invoke", "ready")
    /\ rounds' = [rounds EXCEPT ![s].result =
                     {rounds[s].values[k] : k \in 0..(Size(t) - 1)}]
    /\ UNCHANGED <<map, held, id, flag, seen, call, got, aborted>>

\* The leader sets ready under the mutex ...
SetReady(t) ==
    /\ Go(t, "ready", "signal")
    /\ rounds' = [rounds EXCEPT ![held[t]].ready = TRUE]
    /\ UNCHANGED <<map, held, id, flag, seen, call, got, aborted>>

\* ... and wakes the others.
Signal(t) ==
    /\ SignalAll(t, "signal", "return")
    /\ UNCHANGED <<map, rounds, held, id, flag, seen, call, got, aborted>>

\* WaitForReadyWithTimeout: look at ready and go to sleep under one mutex.
Wait(t) ==
    /\ pc[t] = "wait"
    /\ \/ rounds[held[t]].ready /\ Go(t, "wait", "return")
       \/ ~rounds[held[t]].ready /\ Go(t, "wait", "asleep")
    /\ UNCHANGED <<map, rounds, held, id, flag, seen, call, got, aborted>>

\* AwaitAndLogIfStuck: terminate_timeout ends before the round is ready.
TimeOut(t) ==
    /\ Terminates /\ ~aborted
    /\ pc[t] = "asleep" /\ ~rounds[held[t]].ready
    /\ aborted' = TRUE
    /\ UNCHANGED <<map, rounds, held, pc, id, flag, seen, call, got>>

\* The result is returned and the state released.
Return(t) ==
    /\ Go(t, "return", IF UseFlag THEN "exit" ELSE "idle")
    /\ got' = [got EXCEPT ![t][call[t]] = rounds[held[t]].result]
    /\ held' = [held EXCEPT ![t] = Nil]
    /\ UNCHANGED <<map, rounds, id, flag, seen, call, aborted>>

-----------------------------------------------------------------------------
Step(t) ==
    /\ UNCHANGED setup
    /\ \/ TryJoin(t) \/ LoadFlag(t) \/ IncrementFlag(t) \/ LoadExit(t) \/ Exit(t)
       \/ Alone(t) \/ Join(t) \/ Ack(t) \/ Write(t) \/ Rel(t)
       \/ Complete(t) \/ Invoke(t) \/ SetReady(t) \/ Signal(t) \/ Wait(t) \/ Return(t)

Next == \E t \in Threads : Step(t) \/ (UNCHANGED setup /\ (Begin(t) \/ TimeOut(t)))

Spec == Init /\ [][Next]_vars

\* Threads inside a call run on; nothing makes a thread begin one.
FairSpec == Spec /\ \A t \in Threads : WF_vars(Step(t))

-----------------------------------------------------------------------------
(* Properties.                                                              *)

\* What a call returns was computed from the values that all threads of the group
\* gave in that very call: rounds do not mix, and the leader reads no slot before
\* it was written.
RoundsDoNotMix ==
    HasResult => \A t \in Threads : \A n \in 1..MaxCalls :
        got[t][n] \in {Nil, Skipped, {<<u, n>> : u \in Group(t)}}

\* The abstract specification: see module Rounds.  Behind a flag a thread may skip a
\* round and owes the others nothing.
Meeting == INSTANCE Rounds WITH
    group <- [t \in Threads |-> IF UseFlag THEN {t} ELSE Group(t)],
    arrived <- call,
    returned <- [t \in Threads |-> Cardinality({n \in 1..MaxCalls : got[t][n] # Nil})]

\* Nobody returns from a round before all have arrived at it.
RoundsImplemented == Meeting!Spec

\* A round at which all have arrived ends for all, unless a timeout ends the process:
\* nobody sleeps through it, and nobody waits for a thread that skips.
AllReturn ==
    []<>(aborted \/ \A t \in Threads : \A n \in 1..MaxCalls :
            (\A u \in Group(t) : call[u] >= n) => got[t][n] # Nil)

=============================================================================
