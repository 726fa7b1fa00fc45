---------------------------- MODULE MCCountDown ----------------------------
(* Instances of CountDown: five calls, one of which counts two units. *)
EXTENDS CountDown, TLC

CONSTANTS t1, t2, t3, t4, t5

MCShare == (t1 :> {1}) @@ (t2 :> {2}) @@ (t3 :> {3, 4}) @@ (t4 :> {5}) @@ (t5 :> {6})
=============================================================================
