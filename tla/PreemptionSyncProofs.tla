------------------------ MODULE PreemptionSyncProofs ------------------------
(***************************************************************************)
(* Proofs about PreemptionSync, for any set of tasks, any number of steps   *)
(* and any number of failures.  What makes the argument work: a task is     *)
(* counted in at the barrier only after it has published its step, and it   *)
(* publishes once; so from the moment the barrier passes the published      *)
(* steps no longer change, and whoever reads them later computes the same   *)
(* sync point.  A task is not past it because it holds mu_ from publishing  *)
(* to the end of the protocol.                                             *)
(***************************************************************************)
EXTENDS PreemptionSync, FiniteSetTheorems, WellFoundedInduction, TLAPS

TypeOK ==
    /\ step \in [Tasks -> 0..MaxStep]
    /\ sync \in [Tasks -> Int]
    /\ mu \in [Tasks -> {"free", "protocol", "shutdown"}]
    /\ proto \in [Tasks -> {"listening", "sleeping", "lock", "insert", "wait", "read", "done"}]
    /\ app \in [Tasks -> {"running", "saved", "shutdown", "down"}]
    /\ notice \in BOOLEAN
    /\ counter \in [Tasks -> {Unset} \cup 0..MaxStep]
    /\ barrier \in [at: SUBSET Tasks, result: {"none", "OK", "ERROR"}]
    /\ faults \in Nat

\* The steps that have been published.
Steps == {counter[u] : u \in Tasks} \ {Unset}

\* Who is counted in at the barrier has published its step, and the barrier passes only
\* when everyone is.
CountedInHasPublished ==
    /\ \A t \in barrier.at : proto[t] \in {"wait", "read", "done"} /\ counter[t] # Unset
    /\ \A t \in Tasks : proto[t] = "wait" => counter[t] # Unset
    /\ \A t \in Tasks : proto[t] = "read" => barrier.result = "OK"
    /\ barrier.result = "OK" => barrier.at = Tasks

\* A sync point comes from the steps published when the barrier had passed.
SyncFromSteps ==
    \A t \in Tasks : sync[t] # Unset => barrier.result = "OK" /\ sync[t] = SyncPoint(Steps)

\* The protocol thread holds mu_ from publishing to the end, so that the application does
\* not step on in between.
LockHeld ==
    /\ \A t \in Tasks : mu[t] = "protocol" <=> proto[t] \in {"insert", "wait", "read"}
    /\ \A t \in Tasks : proto[t] \in {"wait", "read"} => counter[t] = step[t]

\* What every step preserves.
IInv == TypeOK /\ CountedInHasPublished /\ SyncFromSteps /\ LockHeld /\ NoneIsPast

-----------------------------------------------------------------------------
(* The largest of the published steps.                                      *)

\* A nonempty set of steps has a largest one, and Max is it.
LEMMA MaxIsLargest ==
  ASSUME NEW S \in SUBSET (0..MaxStep), S # {}
  PROVE  Max(S) \in S /\ \A s \in S : s <= Max(S)
<1> DEFINE T == {MaxStep - s : s \in S}
<1>0. MaxStep \in Nat /\ \A s \in S : s \in 0..MaxStep
  BY PreemptionAssumption
<1>1. T \subseteq Nat /\ T # {}
  <2>1. \A s \in S : MaxStep - s \in Nat
    BY <1>0
  <2> QED  BY <2>1
<1>2. PICK x \in T : \A y \in T : ~(<<y, x>> \in OpToRel(<, Nat))
  BY <1>1, WFMin, NatLessThanWellFounded
<1>3. \A y \in T : x <= y
  <2> SUFFICES ASSUME NEW y \in T PROVE x <= y
    OBVIOUS
  <2>1. x \in Nat /\ y \in Nat
    BY <1>1
  <2>2. y < x => <<y, x>> \in OpToRel(<, Nat)
    BY <2>1 DEF OpToRel
  <2>3. ~(y < x)
    BY <2>2, <1>2, Zenon
  <2> QED  BY <2>1, <2>3
<1>4. PICK m \in S : x = MaxStep - m
  OBVIOUS
<1>5. \A s \in S : m >= s
  <2>1. \A s \in S : MaxStep - m <= MaxStep - s
    BY <1>3, <1>4
  <2> QED  BY <2>1, <1>0
<1>6. \E z \in S : \A s \in S : z >= s
  BY <1>5
<1>7. Max(S) \in S /\ \A s \in S : Max(S) >= s
  BY <1>6 DEF Max
<1> QED  BY <1>7, <1>0

\* The sync point is a step, and it is after every published one.
LEMMA SyncPointIsLater ==
  ASSUME TypeOK, Steps # {}
  PROVE  /\ SyncPoint(Steps) \in Nat
         /\ \A s \in Steps : s < SyncPoint(Steps)
<1>1. Steps \in SUBSET (0..MaxStep)
  BY DEF TypeOK, Steps
<1>2. Max(Steps) \in Steps /\ \A s \in Steps : s <= Max(Steps)
  BY <1>1, MaxIsLargest
<1>3. \A s \in Steps : s \in Nat
  BY <1>1, PreemptionAssumption
<1> QED  BY <1>2, <1>3 DEF SyncPoint

-----------------------------------------------------------------------------
(* Every step keeps the invariant.                                          *)

LEMMA InitIInv == Init => IInv
<1> SUFFICES ASSUME Init PROVE IInv
  OBVIOUS
<1>1. TypeOK
  <2>1. /\ step \in [Tasks -> 0..MaxStep] /\ sync \in [Tasks -> Int]
        /\ counter \in [Tasks -> {Unset} \cup 0..MaxStep] /\ faults \in Nat
    BY PreemptionAssumption DEF Init, Unset
  <2>2. notice \in BOOLEAN /\ barrier \in [at: SUBSET Tasks, result: {"none", "OK", "ERROR"}]
    BY DEF Init
  <2> QED  BY <2>1, <2>2 DEF Init, TypeOK
<1>2. CountedInHasPublished /\ SyncFromSteps /\ LockHeld /\ NoneIsPast
  BY DEF Init, CountedInHasPublished, SyncFromSteps, LockHeld, NoneIsPast
<1> QED  BY <1>1, <1>2 DEF IInv

\* As long as no counter changes and a barrier that has passed stays so, the sync points
\* that were computed remain what the next task will compute.
LEMMA SyncKept ==
  ASSUME SyncFromSteps, UNCHANGED <<sync, counter>>,
         barrier.result = "OK" => barrier'.result = "OK"
  PROVE  SyncFromSteps'
<1>1. Steps' = Steps
  BY DEF Steps
<1> QED  BY <1>1 DEF SyncFromSteps, SyncPoint

\* A step of the application: with mu_ free, no protocol of this task is between
\* publishing and its end.
LEMMA ReachedSyncPointIInv ==
  ASSUME IInv, NEW t \in Tasks, ReachedSyncPoint(t)
  PROVE  IInv'
<1> USE DEF IInv, ReachedSyncPoint, service
<1>1. TypeOK'
  BY PreemptionAssumption DEF TypeOK
<1>2. CountedInHasPublished'
  BY DEF CountedInHasPublished
<1>3. SyncFromSteps'
  BY SyncKept
<1>4. LockHeld'
  BY DEF TypeOK, LockHeld
<1>5. NoneIsPast'
  BY PreemptionAssumption DEF TypeOK, NoneIsPast
<1> QED  BY <1>1, <1>2, <1>3, <1>4, <1>5

LEMMA ShutdownIInv ==
  ASSUME IInv, NEW t \in Tasks, Shutdown(t) \/ ShutdownReturns(t)
  PROVE  IInv'
<1> USE DEF IInv, Shutdown, ShutdownReturns, service
<1>1. TypeOK'
  BY DEF TypeOK, CountsFault
<1>2. CountedInHasPublished'
  BY DEF CountedInHasPublished
<1>3. SyncFromSteps'
  BY SyncKept
<1>4. LockHeld'
  BY DEF TypeOK, LockHeld
<1>5. NoneIsPast'
  BY DEF TypeOK, NoneIsPast
<1> QED  BY <1>1, <1>2, <1>3, <1>4, <1>5

\* A cancelled barrier has not passed and does not pass.
LEMMA CancelKeeps ==
  ASSUME TypeOK, NEW t \in Tasks, CancelPreemptionBarrier(t)
  PROVE  /\ barrier' \in [at: SUBSET Tasks, result: {"none", "OK", "ERROR"}]
         /\ barrier'.at = barrier.at
         /\ barrier'.result = "OK" <=> barrier.result = "OK"
BY DEF TypeOK, CancelPreemptionBarrier

\* The thread that is told of the preemption, or that ends before it has taken mu_,
\* publishes nothing and computes nothing.
LEMMA NoticeIInv ==
  ASSUME IInv, NEW t \in Tasks,
         (\E near \in BOOLEAN : NoticeArrives(t, near)) \/ NoticeFails(t) \/ SleepEnds(t)
  PROVE  IInv'
<1> USE DEF IInv, NoticeArrives, NoticeFails, SleepEnds, service
<1>1. /\ barrier' \in [at: SUBSET Tasks, result: {"none", "OK", "ERROR"}]
      /\ barrier'.at = barrier.at
      /\ barrier'.result = "OK" <=> barrier.result = "OK"
  BY CancelKeeps DEF TypeOK
<1>2. PICK p \in {"done", "lock", "sleeping"} : proto' = [proto EXCEPT ![t] = p]
  BY Zenon
<1>3. UNCHANGED <<step, sync, mu, app, counter, notice>>
  OBVIOUS
<1>4. faults' \in Nat
  BY DEF TypeOK, CountsFault
<1>5. proto[t] \in {"listening", "sleeping"}
  OBVIOUS
<1> HIDE DEF NoticeArrives, NoticeFails, SleepEnds
<1>6. TypeOK'
  BY <1>1, <1>2, <1>3, <1>4 DEF TypeOK
<1>7. CountedInHasPublished'
  BY <1>1, <1>2, <1>3, <1>5 DEF TypeOK, CountedInHasPublished
<1>8. SyncFromSteps'
  BY <1>1, <1>3, SyncKept
<1>9. LockHeld'
  BY <1>2, <1>3, <1>5 DEF TypeOK, LockHeld
<1>10. NoneIsPast'
  BY <1>3 DEF NoneIsPast
<1> QED  BY <1>6, <1>7, <1>8, <1>9, <1>10

LEMMA TakeLockIInv ==
  ASSUME IInv, NEW t \in Tasks, TakeLock(t)
  PROVE  IInv'
<1> USE DEF IInv, TakeLock, Held, service
<1>1. TypeOK'
  BY DEF TypeOK
<1>2. CountedInHasPublished'
  BY DEF TypeOK, CountedInHasPublished
<1>3. SyncFromSteps'
  BY SyncKept
<1>4. LockHeld'
  BY DEF TypeOK, LockHeld
<1>5. NoneIsPast'
  BY DEF TypeOK, NoneIsPast
<1> QED  BY <1>1, <1>2, <1>3, <1>4, <1>5

\* A step that is published while the barrier has not passed: with the barrier passed,
\* this task would have published before.
LEMMA InsertCounterIInv ==
  ASSUME IInv, NEW t \in Tasks, NEW served \in BOOLEAN, NEW heard \in BOOLEAN,
         InsertCounter(t, served, heard)
  PROVE  IInv'
<1> USE DEF IInv, InsertCounter, Published, Finish
<1>1. t \notin barrier.at /\ barrier.result # "OK"
  BY DEF CountedInHasPublished
<1>2. /\ barrier' \in [at: SUBSET Tasks, result: {"none", "OK", "ERROR"}]
      /\ barrier'.at = barrier.at
      /\ barrier'.result # "OK"
  BY <1>1, CancelKeeps DEF TypeOK
<1>3. faults' \in Nat
  BY DEF TypeOK, CountsFault
<1>4. TypeOK'
  BY <1>2, <1>3 DEF TypeOK
<1>5. CountedInHasPublished'
  BY <1>1, <1>2, PreemptionAssumption DEF TypeOK, CountedInHasPublished, Unset
<1>6. SyncFromSteps'
  BY <1>1 DEF SyncFromSteps
<1>7. LockHeld'
  BY DEF TypeOK, LockHeld
<1>8. NoneIsPast'
  BY DEF NoneIsPast
<1> QED  BY <1>4, <1>5, <1>6, <1>7, <1>8

\* The last task passes the barrier, which may also fail before.
LEMMA ReachBarrierIInv ==
  ASSUME IInv, NEW t \in Tasks, ReachBarrier(t) \/ BarrierFails
  PROVE  IInv'
<1> USE DEF IInv, ReachBarrier, BarrierFails, Everyone
<1>1. TypeOK'
  BY DEF TypeOK, CountsFault
<1>2. CountedInHasPublished'
  <2>1. CASE ReachBarrier(t)
    <3>1. UNCHANGED <<proto, counter>> /\ proto[t] = "wait"
      BY <2>1
    <3>2. /\ barrier'.at = barrier.at \cup {t}
          /\ barrier.result = "OK" => barrier'.result = "OK"
          /\ barrier'.result = "OK" => barrier.result = "OK" \/ barrier'.at = Tasks
      BY <2>1 DEF TypeOK
    <3> HIDE DEF ReachBarrier, BarrierFails
    <3> QED  BY <3>1, <3>2 DEF TypeOK, CountedInHasPublished
  <2>2. CASE BarrierFails
    BY <2>2 DEF TypeOK, CountedInHasPublished
  <2> QED  BY <2>1, <2>2
<1>3. SyncFromSteps'
  <2>1. ReachBarrier(t) => (barrier.result = "OK" => barrier'.result = "OK")
    BY DEF TypeOK
  <2>2. BarrierFails => (barrier.result = "OK" => barrier'.result = "OK")
    OBVIOUS
  <2>3. UNCHANGED <<sync, counter>>
    OBVIOUS
  <2> HIDE DEF ReachBarrier, BarrierFails
  <2> QED  BY <2>1, <2>2, <2>3, SyncKept
<1>4. LockHeld'
  BY DEF LockHeld
<1>5. NoneIsPast'
  BY DEF NoneIsPast
<1> QED  BY <1>1, <1>2, <1>3, <1>4, <1>5

LEMMA BarrierReturnsIInv ==
  ASSUME IInv, NEW t \in Tasks, NEW heard \in BOOLEAN, BarrierReturns(t, heard)
  PROVE  IInv'
<1> USE DEF IInv, BarrierReturns, Finish, service
<1>1. TypeOK'
  BY DEF TypeOK, CountsFault
<1>2. CountedInHasPublished'
  BY DEF TypeOK, CountedInHasPublished
<1>3. SyncFromSteps'
  BY SyncKept
<1>4. LockHeld'
  BY DEF TypeOK, LockHeld
<1>5. NoneIsPast'
  BY DEF NoneIsPast
<1> QED  BY <1>1, <1>2, <1>3, <1>4, <1>5

\* The task's own step is among the published ones, and it has not moved.
LEMMA ReadCountersIInv ==
  ASSUME IInv, NEW t \in Tasks, NEW heard \in BOOLEAN, ReadCounters(t, heard)
  PROVE  IInv'
<1> USE DEF IInv, ReadCounters, Finish, service
<1>1. barrier.result = "OK" /\ counter[t] = step[t] /\ step[t] \in Steps
  BY DEF CountedInHasPublished, LockHeld, Steps
<1>2. SyncPoint(Steps) \in Nat /\ step[t] < SyncPoint(Steps)
  BY <1>1, SyncPointIsLater
<1>3. sync' = sync \/ sync' = [sync EXCEPT ![t] = SyncPoint(Steps)]
  BY DEF Steps
<1>4. Steps' = Steps
  BY DEF Steps
<1>5. UNCHANGED <<step, app, service>> /\ Finish(t) /\ proto[t] = "read"
  OBVIOUS
<1>6. faults' \in Nat
  BY DEF TypeOK, CountsFault
<1> HIDE DEF ReadCounters
<1>7. TypeOK'
  BY <1>2, <1>3, <1>5, <1>6 DEF TypeOK
<1>8. CountedInHasPublished'
  BY <1>5, <1>1 DEF TypeOK, CountedInHasPublished
<1>9. SyncFromSteps'
  <2>1. SyncPoint(Steps)' = SyncPoint(Steps)
    BY <1>4 DEF SyncPoint
  <2> QED  BY <2>1, <1>1, <1>3, <1>5 DEF TypeOK, SyncFromSteps
<1>10. LockHeld'
  BY <1>5 DEF TypeOK, LockHeld
<1>11. NoneIsPast'
  BY <1>2, <1>3, <1>5 DEF TypeOK, NoneIsPast
<1> QED  BY <1>7, <1>8, <1>9, <1>10, <1>11

LEMMA NextIInv == IInv /\ [Next]_vars => IInv'
<1> SUFFICES ASSUME IInv, [Next]_vars PROVE IInv'
  OBVIOUS
<1>1. CASE WillBePreempted
  BY <1>1 DEF WillBePreempted, IInv, TypeOK, CountedInHasPublished, SyncFromSteps, Steps,
     LockHeld, NoneIsPast
<1>2. CASE BarrierFails
  BY <1>2, ReachBarrierIInv, PreemptionAssumption
<1>3. ASSUME NEW t \in Tasks, Protocol(t) PROVE IInv'
  BY <1>3, NoticeIInv, TakeLockIInv, InsertCounterIInv, ReachBarrierIInv, BarrierReturnsIInv,
     ReadCountersIInv DEF Protocol
<1>4. ASSUME NEW t \in Tasks,
             \/ ReachedSyncPoint(t) \/ Shutdown(t) \/ ShutdownReturns(t)
             \/ Arrival(t) \/ NoticeFails(t)
      PROVE  IInv'
  BY <1>4, ReachedSyncPointIInv, ShutdownIInv, NoticeIInv DEF Arrival
<1>5. CASE UNCHANGED vars
  BY <1>5 DEF vars, IInv, TypeOK, CountedInHasPublished, SyncFromSteps, Steps, LockHeld,
     NoneIsPast
<1> QED  BY <1>1, <1>2, <1>3, <1>4, <1>5 DEF Next

LEMMA AlwaysIInv == Spec => []IInv
BY InitIInv, NextIInv, PTL DEF Spec

-----------------------------------------------------------------------------
(* The theorems.                                                            *)

\* All tasks that learn a sync point learn the same one: RPCs may fail before or after
\* they are served, the barrier may time out or be cancelled, tasks may shut down.
THEOREM AllAgree == Spec => []Agreement
<1>1. IInv => Agreement
  BY DEF IInv, SyncFromSteps, Agreement
<1> QED  BY <1>1, AlwaysIInv, PTL

\* No task that is still running is at or past its sync point: ReachedSyncPoint will
\* return true at it.
THEOREM SyncPointIsAhead == Spec => []NoneIsPast
<1>1. IInv => NoneIsPast
  BY DEF IInv
<1> QED  BY <1>1, AlwaysIInv, PTL

=============================================================================
