------------------------------ MODULE Promises ------------------------------
(***************************************************************************)
(* What asynchronous values promise their clients: a value is resolved     *)
(* once, an indirect value takes the outcome of the value it forwards to,  *)
(* and a waiter runs once, after the values it waits for are resolved.     *)
(***************************************************************************)
CONSTANTS Values, Indirect, Target, Waiters, Needs(_), None

VARIABLES outcome,    \* value |-> "Concrete", "Error" or None
          asked,      \* the waiters that were handed over
          done        \* waiter |-> how often it ran

vars == <<outcome, asked, done>>

Resolved == {v \in Values : outcome[v] # None}

Init ==
    /\ outcome \in [Values -> {"Error", None}]
    /\ asked = {}
    /\ done = [w \in Waiters |-> 0]

Resolve(v, s) ==
    /\ v \notin Resolved
    /\ v \in Indirect => outcome[Target[v]] = s
    /\ outcome' = [outcome EXCEPT ![v] = s]
    /\ UNCHANGED <<asked, done>>

Ask(w) ==
    /\ w \notin asked
    /\ asked' = asked \cup {w}
    /\ UNCHANGED <<outcome, done>>

Run(w) ==
    /\ w \in asked /\ done[w] = 0
    /\ Needs(w) \subseteq Resolved
    /\ done' = [done EXCEPT ![w] = 1]
    /\ UNCHANGED <<outcome, asked>>

Next ==
    \/ \E v \in Values, s \in {"Concrete", "Error"} : Resolve(v, s)
    \/ \E w \in Waiters : Ask(w) \/ Run(w)

Spec == Init /\ [][Next]_vars

=============================================================================
