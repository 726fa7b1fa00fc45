---------------------------- MODULE MCAsyncValue ----------------------------
(* Value vc is set by thread t1; the indirect value vf is forwarded to vc, and vg *)
(* to vf, by thread t2.                                                          *)
EXTENDS AsyncValue

CONSTANTS t1, t2, vc, vf, vg, w1, w2

MCBorn == [v \in Values |-> "Unconstructed"]
MCTarget == [v \in Indirect |-> IF v = vf THEN vc ELSE vf]
MCProducer == [v \in Values |-> IF v = vc THEN t1 ELSE t2]
MCGiven == [t \in Threads |-> IF t = t1 THEN {vc} ELSE {vc, vf, vg}]
MCOn == [w \in Waiters |-> IF w = w1 THEN vc ELSE vf]
MCGroup == <<vc, vg>>

=============================================================================
