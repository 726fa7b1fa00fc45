-------------------------- MODULE OrderedExecution --------------------------
(***************************************************************************)
(* What the execution of a sequence of thunks promises, whatever runs it:  *)
(* a thunk starts once, after the thunks it conflicts with; the outcome is *)
(* set once, when nothing runs any more; it is an error when a thunk       *)
(* failed, and otherwise all thunks have run.                              *)
(***************************************************************************)
EXTENDS Integers

CONSTANT Nodes

Pending == -2
Ok == -1

VARIABLES
    waits,      \* thunk |-> those that must have succeeded before it starts
    follows,    \* thunk |-> those that must have started before it starts
    running, succeeded, failed,
    outcome     \* Pending, Ok, or a thunk whose error was reported

orderVars == <<waits, follows, running, succeeded, failed, outcome>>

Init ==
    /\ waits \in [Nodes -> SUBSET Nodes]
    /\ follows \in [Nodes -> SUBSET Nodes]
    /\ running = {} /\ succeeded = {} /\ failed = {}
    /\ outcome = Pending

Begun == running \cup succeeded \cup failed

Start(n) ==
    /\ outcome = Pending
    /\ n \notin Begun
    /\ waits[n] \subseteq succeeded
    /\ follows[n] \subseteq Begun
    /\ running' = running \cup {n}
    /\ UNCHANGED <<waits, follows, succeeded, failed, outcome>>

Complete(n) ==
    /\ n \in running
    /\ running' = running \ {n}
    /\ \/ succeeded' = succeeded \cup {n} /\ UNCHANGED failed
       \/ failed' = failed \cup {n} /\ UNCHANGED succeeded
    /\ UNCHANGED <<waits, follows, outcome>>

Finish ==
    /\ outcome = Pending
    /\ running = {}
    /\ \/ failed = {} /\ succeeded = Nodes /\ outcome' = Ok
       \/ outcome' \in failed
    /\ UNCHANGED <<waits, follows, running, succeeded, failed>>

Next == Finish \/ \E n \in Nodes : Start(n) \/ Complete(n)

Spec == Init /\ [][Next]_orderVars
=============================================================================
