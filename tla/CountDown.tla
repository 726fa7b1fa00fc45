------------------------------ MODULE CountDown ------------------------------
(***************************************************************************)
(* CountDownAsyncValueRef (xla/tsl/concurrency/async_value_ref.h): threads *)
(* drop a shared count, each by its share and with a status, and the one   *)
(* that drops it to zero makes the async value available or an error.      *)
(***************************************************************************)
EXTENDS Integers, FiniteSets

CONSTANTS
    Threads,        \* the calls of CountDown with a count above zero
    Units,          \* what is counted: the constructor's cnt is its size
    Share,          \* thread |-> the units it counts down, its argument count
    Fails,          \* the threads whose status is not ok
    Observers       \* the calls of CountDown(0), which only look

Unavailable == "unavailable"
Concrete == "concrete"

CONSTANT OkStatus   \* stands for the status of a call that did not fail

ASSUME CountDownAssumption ==
    /\ IsFiniteSet(Units)
    /\ Share \in [Threads -> SUBSET Units]
    /\ \A t \in Threads : Share[t] # {}
    /\ \A t, u \in Threads : t # u => Share[t] \cap Share[u] = {}
    /\ UNION {Share[t] : t \in Threads} = Units
    /\ Fails \subseteq Threads
    /\ OkStatus \notin Threads
    /\ Threads \cap Observers = {}

VARIABLES
    ref,        \* the state of the async value: Unavailable, Concrete, "error"
    error,      \* the error it carries, OkStatus if none
    cnt, is_error, status,
    pc,         \* where each call is
    answer      \* what the calls of CountDown(0) returned

vars == <<ref, error, cnt, is_error, status, pc, answer>>

Count(t) == Cardinality(Share[t])

Init ==
    /\ ref = IF Units = {} THEN Concrete ELSE Unavailable
    /\ error = OkStatus
    /\ cnt = Cardinality(Units)
    /\ is_error = FALSE /\ status = OkStatus
    /\ pc = [t \in Threads |-> "called"]
    /\ answer = [o \in Observers |-> FALSE]

\* An error is stored under the mutex; of several the last one stays.
StoreError(t) ==
    /\ pc[t] = "called" /\ t \in Fails
    /\ is_error' = TRUE
    /\ status' = t
    /\ pc' = [pc EXCEPT ![t] = "stored"]
    /\ UNCHANGED <<ref, error, cnt, answer>>

\* Mutant of ReadyToDrop: the count is dropped before the error is stored.
ReadyToDropAnyway(t) == pc[t] \in {"called", "stored"}

\* The count is dropped after the error has been stored.
ReadyToDrop(t) == pc[t] = IF t \in Fails THEN "stored" ELSE "called"

\* fetch_sub returned the count of this call: it was the last one.
IsComplete(t) == cnt = Count(t)

FetchSub(t) ==
    /\ ReadyToDrop(t)
    /\ cnt' = cnt - Count(t)
    /\ pc' = [pc EXCEPT ![t] = IF IsComplete(t) THEN "complete" ELSE "returned"]
    /\ UNCHANGED <<ref, error, is_error, status, answer>>

SetState(t) ==
    /\ pc[t] = "complete"
    /\ ref' = IF is_error THEN "error" ELSE Concrete
    /\ error' = IF is_error THEN status ELSE OkStatus
    /\ pc' = [pc EXCEPT ![t] = "returned"]
    /\ UNCHANGED <<cnt, is_error, status, answer>>

\* CountDown(0) answers whether the count is zero.
Observe(o) ==
    /\ answer' = [answer EXCEPT ![o] = cnt = 0]
    /\ UNCHANGED <<ref, error, cnt, is_error, status, pc>>

Step(t) == StoreError(t) \/ FetchSub(t) \/ SetState(t)

Next == (\E t \in Threads : Step(t)) \/ (\E o \in Observers : Observe(o))

Spec == Init /\ [][Next]_vars

\* A thread that has entered CountDown runs on.
FairSpec == Spec /\ \A t \in Threads : WF_vars(Step(t))

-----------------------------------------------------------------------------
(* Properties *)

\* The variables have their types: the count never goes below zero (the DCHECK of
\* CountDown on the old count).
TypeOK ==
    /\ ref \in {Unavailable, Concrete, "error"}
    /\ error \in Fails \cup {OkStatus}
    /\ cnt \in 0..Cardinality(Units)
    /\ is_error \in BOOLEAN
    /\ status \in Fails \cup {OkStatus}
    /\ pc \in [Threads -> {"called", "stored", "complete", "returned"}]
    /\ answer \in [Observers -> BOOLEAN]

\* The async value becomes available only after every call has dropped its count, and
\* it is an error, one that a call reported, exactly when some call failed: an error
\* is never lost to a concurrent last count down.
OutcomeRight ==
    ref # Unavailable =>
        /\ \A t \in Threads : pc[t] = "returned"
        /\ ref = IF Fails = {} THEN Concrete ELSE "error"
        /\ Fails # {} => error \in Fails

\* The value is set once: no step changes it, or sets it again, once it is available.
SetOnce ==
    [][ref # Unavailable => ref' = ref /\ error' = error /\ \A t \in Threads : ~SetState(t)]_vars

=============================================================================
