------------------------------- MODULE Rounds -------------------------------
(***************************************************************************)
(* What a rendezvous promises: threads that share a key make their calls   *)
(* in rounds, and nobody returns from a round before all have arrived at   *)
(* it.                                                                     *)
(***************************************************************************)
EXTENDS Naturals

CONSTANT Threads

VARIABLES
    group,               \* thread |-> the threads with its key
    arrived, returned    \* thread |-> the rounds it began and ended

vars == <<group, arrived, returned>>

Init ==
    /\ group \in [Threads -> SUBSET Threads]
    /\ arrived = [t \in Threads |-> 0]
    /\ returned = [t \in Threads |-> 0]

Arrive(t) ==
    /\ arrived[t] = returned[t]
    /\ arrived' = [arrived EXCEPT ![t] = @ + 1]
    /\ UNCHANGED <<group, returned>>

Return(t) ==
    /\ returned[t] < arrived[t]
    /\ \A u \in group[t] : arrived[u] >= arrived[t]
    /\ returned' = [returned EXCEPT ![t] = @ + 1]
    /\ UNCHANGED <<group, arrived>>

Next == \E t \in Threads : Arrive(t) \/ Return(t)

Spec == Init /\ [][Next]_vars

=============================================================================
