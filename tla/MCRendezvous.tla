---------------------------- MODULE MCRendezvous ----------------------------
(* Three threads meet to compute a value or without one, or two of them and one *)
(* that is alone with its key meet behind a RendezvousFlag.                     *)
EXTENDS Rendezvous

CONSTANTS a1, a2, a3, ka, kb

OneKey == [t \in Threads |-> ka]
TwoKeys == [t \in Threads |-> IF t = a3 THEN kb ELSE ka]

MCSetups ==
    {[key |-> OneKey, hasResult |-> TRUE, useFlag |-> FALSE, terminates |-> FALSE],
     [key |-> OneKey, hasResult |-> FALSE, useFlag |-> FALSE, terminates |-> TRUE],
     [key |-> TwoKeys, hasResult |-> TRUE, useFlag |-> TRUE, terminates |-> FALSE]}
=============================================================================
