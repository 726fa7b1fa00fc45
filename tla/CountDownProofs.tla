--------------------------- MODULE CountDownProofs ---------------------------
(***************************************************************************)
(* Proofs about CountDown, for any number of calls and any shares.  What   *)
(* makes the argument work: the count is the number of units of the calls  *)
(* that have not dropped it, so a call that sees its own count has no      *)
(* other call left beside it, and every error was stored before.           *)
(***************************************************************************)
EXTENDS CountDown, FiniteSetTheorems, TLAPS

\* The calls that have not dropped the count, and their units.
Waiting == {t \in Threads : pc[t] \in {"called", "stored"}}

Left == UNION {Share[t] : t \in Waiting}

CountIsLeft == cnt = Cardinality(Left)

ErrorsStored ==
    /\ \A t \in Threads : pc[t] = "stored" => t \in Fails
    /\ \A t \in Fails : pc[t] # "called" => is_error
    /\ is_error => status \in Fails

LastIsAlone ==
    \A t \in Threads :
        pc[t] = "complete" =>
            ref = Unavailable /\ \A u \in Threads : u # t => pc[u] = "returned"

\* What every step preserves.
IInv == TypeOK /\ CountIsLeft /\ ErrorsStored /\ LastIsAlone /\ OutcomeRight

\* The units of some calls are a finite set.
LEMMA LeftFinite == IsFiniteSet(Left) /\ Left \subseteq Units
<1>1. Left \subseteq Units
  BY CountDownAssumption DEF Left, Waiting
<1> QED  BY <1>1, FS_Subset, CountDownAssumption

\* A call's units are a finite set of at least one.
LEMMA ShareFinite ==
    ASSUME NEW t \in Threads
    PROVE  IsFiniteSet(Share[t]) /\ Count(t) \in Nat \ {0}
<1>1. Share[t] \subseteq Units /\ Share[t] # {}
  BY CountDownAssumption
<1>2. IsFiniteSet(Share[t])
  BY <1>1, FS_Subset, CountDownAssumption
<1> QED  BY <1>1, <1>2, FS_EmptySet, FS_CardinalityType DEF Count

\* When a waiting call drops the count its units, and only those, leave.
LEMMA LeftShrinks ==
    ASSUME NEW t \in Waiting, pc \in [Threads -> {"called", "stored", "complete", "returned"}],
           NEW v \in {"complete", "returned"}, pc' = [pc EXCEPT ![t] = v]
    PROVE  /\ Left' = Left \ Share[t]
           /\ Cardinality(Left') = Cardinality(Left) - Count(t)
<1>1. t \in Threads
  BY DEF Waiting
<1>2. Waiting' = Waiting \ {t}
  BY <1>1 DEF Waiting
<1>3. Left' = UNION {Share[u] : u \in Waiting \ {t}}
  BY <1>2 DEF Left
<1>4. \A u \in Waiting \ {t} : Share[u] \cap Share[t] = {}
  BY CountDownAssumption, <1>1 DEF Waiting
<1>5. Left' = Left \ Share[t]
  BY <1>3, <1>4 DEF Left
<1>6. Left \cap Share[t] = Share[t]
  BY DEF Left
<1> QED
  BY <1>5, <1>6, FS_Difference, LeftFinite, ShareFinite, <1>1 DEF Count

\* A call that sees its own count is the only one that has not dropped it.
LEMMA LastIsTheOnlyOne ==
    ASSUME NEW t \in Waiting, CountIsLeft, IsComplete(t)
    PROVE  Waiting = {t}
<1>1. t \in Threads
  BY DEF Waiting
<1>2. Share[t] \subseteq Left
  BY DEF Left
<1>3. Left = Share[t]
  BY <1>2, FS_Subset, LeftFinite DEF IsComplete, CountIsLeft, Count
<1>4. ASSUME NEW u \in Waiting, u # t
      PROVE  FALSE
  <2>1. Share[u] \subseteq Share[t] /\ u \in Threads
    BY <1>3 DEF Left, Waiting
  <2> QED  BY <2>1, <1>1, <1>4, CountDownAssumption
<1> QED  BY <1>4

LEMMA InitIInv == Init => IInv
<1> SUFFICES ASSUME Init PROVE IInv
  OBVIOUS
<1>1. Waiting = Threads
  BY DEF Init, Waiting
<1>2. Left = Units
  BY <1>1, CountDownAssumption DEF Left
<1>3. Cardinality(Units) \in Nat
  BY FS_CardinalityType, CountDownAssumption
<1>4. TypeOK
  <2>1. cnt \in 0..Cardinality(Units)
    BY <1>3 DEF Init
  <2>2. answer \in [Observers -> BOOLEAN] /\ is_error \in BOOLEAN
    BY Zenon DEF Init
  <2>3. pc \in [Threads -> {"called", "stored", "complete", "returned"}]
    BY DEF Init
  <2>4. ref \in {Unavailable, Concrete, "error"}
    BY DEF Init
  <2> QED  BY <2>1, <2>2, <2>3, <2>4, Zenon DEF Init, TypeOK
<1>5. Units = {} => Threads = {} /\ Fails = {}
  BY CountDownAssumption
<1>6. OutcomeRight
  BY <1>5 DEF Init, OutcomeRight, Unavailable, Concrete
<1>7. ErrorsStored /\ LastIsAlone
  BY CountDownAssumption DEF Init, ErrorsStored, LastIsAlone
<1>8. CountIsLeft
  BY <1>2 DEF Init, CountIsLeft
<1> QED  BY <1>4, <1>6, <1>7, <1>8 DEF IInv

LEMMA StoreErrorIInv ==
    ASSUME IInv, NEW t \in Threads, StoreError(t)
    PROVE  IInv'
<1> USE DEF StoreError
<1>1. TypeOK'
  BY DEF IInv, TypeOK
<1>2. Waiting' = Waiting
  BY DEF IInv, TypeOK, Waiting
<1>3. CountIsLeft'
  BY <1>2 DEF IInv, CountIsLeft, Left
<1>4. ErrorsStored'
  BY CountDownAssumption DEF IInv, TypeOK, ErrorsStored
<1>5. LastIsAlone'
  BY DEF IInv, TypeOK, LastIsAlone
<1>6. OutcomeRight'
  BY DEF IInv, OutcomeRight
<1> QED  BY <1>1, <1>3, <1>4, <1>5, <1>6 DEF IInv

LEMMA FetchSubIInv ==
    ASSUME IInv, NEW t \in Threads, FetchSub(t)
    PROVE  IInv'
<1> DEFINE v == IF IsComplete(t) THEN "complete" ELSE "returned"
<1>1. t \in Waiting
  BY DEF FetchSub, ReadyToDrop, Waiting
<1>2. pc' = [pc EXCEPT ![t] = v] /\ v \in {"complete", "returned"}
  BY DEF FetchSub
<1> HIDE DEF v
<1>3. Cardinality(Left') = Cardinality(Left) - Count(t)
  BY <1>1, <1>2, LeftShrinks DEF IInv, TypeOK
<1>4. CountIsLeft'
  BY <1>3 DEF FetchSub, IInv, CountIsLeft
<1>5. ref = Unavailable
  BY <1>1 DEF IInv, OutcomeRight, Waiting
<1>6. \A u \in Threads : pc[u] # "complete"
  BY <1>1 DEF IInv, LastIsAlone, Waiting
<1>7. cnt' \in 0..Cardinality(Units)
  <2>1. cnt' \in Nat
    <3>1. IsFiniteSet(Left')
      BY <1>1, <1>2, LeftShrinks, LeftFinite, FS_Subset DEF IInv, TypeOK
    <3> QED  BY <3>1, <1>4, FS_CardinalityType DEF CountIsLeft
  <2>2. cnt' <= cnt
    BY <1>3, ShareFinite, <2>1 DEF FetchSub, IInv, TypeOK
  <2> QED  BY <2>1, <2>2, FS_CardinalityType, CountDownAssumption DEF IInv, TypeOK
<1>8. TypeOK'
  BY <1>2, <1>7 DEF FetchSub, IInv, TypeOK
<1>9. ErrorsStored'
  BY <1>2, CountDownAssumption DEF FetchSub, ReadyToDrop, IInv, TypeOK, ErrorsStored
<1>10. LastIsAlone'
  <2>1. CASE IsComplete(t)
    <3>1. Waiting = {t}
      BY <1>1, <2>1, LastIsTheOnlyOne DEF IInv
    <3>2. \A u \in Threads : u # t => pc[u] = "returned"
      BY <3>1, <1>6 DEF Waiting, IInv, TypeOK
    <3> QED  BY <3>2, <1>2, <1>5 DEF FetchSub, LastIsAlone, IInv, TypeOK
  <2>2. CASE ~IsComplete(t)
    <3>1. v = "returned"
      BY <2>2 DEF v
    <3> QED  BY <3>1, <1>2, <1>6 DEF LastIsAlone, IInv, TypeOK
  <2> QED  BY <2>1, <2>2
<1>11. OutcomeRight'
  BY <1>5 DEF FetchSub, OutcomeRight
<1> QED  BY <1>4, <1>8, <1>9, <1>10, <1>11 DEF IInv

LEMMA SetStateIInv ==
    ASSUME IInv, NEW t \in Threads, SetState(t)
    PROVE  IInv'
<1> USE DEF SetState
<1>1. \A u \in Threads : u # t => pc[u] = "returned"
  BY DEF IInv, LastIsAlone
<1>2. \A u \in Threads : pc'[u] = "returned"
  BY <1>1 DEF IInv, TypeOK
<1>3. Waiting = {} /\ Waiting' = {}
  BY <1>1, <1>2 DEF Waiting
<1>4. is_error <=> Fails # {}
  BY <1>1, CountDownAssumption DEF IInv, ErrorsStored
<1>5. TypeOK'
  BY DEF IInv, TypeOK, Concrete
<1>6. CountIsLeft'
  BY <1>3 DEF IInv, CountIsLeft, Left
<1>7. ErrorsStored'
  BY <1>2, <1>4, CountDownAssumption DEF IInv, ErrorsStored
<1>8. LastIsAlone'
  BY <1>2 DEF LastIsAlone
<1>9. OutcomeRight'
  BY <1>2, <1>4 DEF IInv, ErrorsStored, OutcomeRight, Concrete
<1> QED  BY <1>5, <1>6, <1>7, <1>8, <1>9 DEF IInv

LEMMA NextIInv == IInv /\ [Next]_vars => IInv'
<1> SUFFICES ASSUME IInv, [Next]_vars PROVE IInv'
  OBVIOUS
<1>1. ASSUME NEW t \in Threads, Step(t) PROVE IInv'
  BY <1>1, StoreErrorIInv, FetchSubIInv, SetStateIInv DEF Step
<1>2. ASSUME NEW o \in Observers, Observe(o) PROVE IInv'
  <2>1. TypeOK'
    BY <1>2 DEF Observe, IInv, TypeOK
  <2> QED
    BY <1>2, <2>1 DEF Observe, IInv, CountIsLeft, Left, Waiting, ErrorsStored, LastIsAlone,
       OutcomeRight
<1>3. CASE UNCHANGED vars
  BY <1>3 DEF vars, IInv, TypeOK, CountIsLeft, Left, Waiting, ErrorsStored, LastIsAlone,
     OutcomeRight
<1> QED  BY <1>1, <1>2, <1>3 DEF Next

LEMMA AlwaysIInv == Spec => []IInv
BY InitIInv, NextIInv, PTL DEF Spec

\* CountDown keeps its variables in their types: in particular the count is never
\* negative.
THEOREM TypeCorrect == Spec => []TypeOK
<1>1. IInv => TypeOK
  BY DEF IInv
<1> QED  BY <1>1, AlwaysIInv, PTL

\* The async value is set when all calls have counted down, and it is an error exactly
\* when one of them failed, for any number of calls and any counts.
THEOREM OutcomeCorrect == Spec => []OutcomeRight
<1>1. IInv => OutcomeRight
  BY DEF IInv
<1> QED  BY <1>1, AlwaysIInv, PTL

\* The async value is set once.
THEOREM SetOnlyOnce == Spec => SetOnce
<1>1. ASSUME IInv, [Next]_vars, ref # Unavailable
      PROVE  ref' = ref /\ error' = error /\ \A t \in Threads : ~SetState(t)
  <2>1. \A t \in Threads : pc[t] = "returned"
    BY <1>1 DEF IInv, OutcomeRight
  <2>2. \A t \in Threads : ~Step(t)
    BY <2>1 DEF Step, StoreError, FetchSub, ReadyToDrop, SetState
  <2>3. CASE \E o \in Observers : Observe(o)
    BY <2>2, <2>3 DEF Observe, Step
  <2>4. CASE UNCHANGED vars
    BY <2>2, <2>4 DEF vars, Step
  <2> QED  BY <1>1, <2>2, <2>3, <2>4 DEF Next
<1>2. IInv /\ [Next]_vars =>
        [ref # Unavailable => ref' = ref /\ error' = error /\ \A t \in Threads : ~SetState(t)]_vars
  BY <1>1
<1> QED  BY <1>2, AlwaysIInv, PTL DEF Spec, SetOnce
=============================================================================
