---------------------------- MODULE KeyValueStore ----------------------------
(***************************************************************************)
(* The in-memory key-value store of the coordination service               *)
(* (xla/tsl/distributed_runtime/coordination/key_value_store.{h,cc}) and    *)
(* the service operations built on it (coordination_service.cc, InsertKey-  *)
(* Value ... DeleteKeyValue).                                              *)
(*                                                                         *)
(* Every method of the store holds its mutex mu_ from the first line to the *)
(* last, so each is one action.  CoordinationService::DeleteKeyValue makes  *)
(* two calls to the store (Delete, then DeletePrefix) and holds no lock     *)
(* between them: it is two actions of a deleter.                           *)
(*                                                                         *)
(* A value is either an integer, standing for its decimal text, or the     *)
(* constant Word, standing for any text SimpleAtoi rejects.                *)
(***************************************************************************)
EXTENDS Integers, FiniteSets

CONSTANTS
    Keys,        \* normalized keys
    Under(_),    \* Under(d): the keys that have d followed by "/" as prefix
    Callers,     \* one identity per GetKeyValueAsync call
    Deleters,    \* threads that run DeleteKeyValue
    Word,        \* a value that is not the text of an integer
    None,        \* absent
    Cancelled,   \* the CANCELLED status ~KeyValueStore passes to a callback
    IntMax,      \* INT_MAX: SimpleAtoi parses into an `int`
    Ints,        \* the integers a client passes to Put
    Increments,  \* the increments a client passes to IncrementBy
    MaxAbs       \* bound of the model: no increment beyond this magnitude

ASSUME KeysAssumption ==
    \A d \in Keys : Under(d) \subseteq Keys \ {d}

ASSUME ValuesAssumption ==
    /\ IntMax \in Nat
    /\ MaxAbs \in Nat
    /\ Ints \subseteq Int
    /\ Increments \subseteq Int
    /\ Word \notin Int
    /\ None \notin Int \cup {Word, Cancelled}
    /\ Cancelled \notin Int \cup {Word}

Values == Int \cup {Word}

VARIABLES
    data,       \* data_: key -> value, None when the key is absent
    callbacks,  \* callbacks_: key -> the callers waiting for it
    answer,     \* what each caller's callback was invoked with, None if not yet
    issued,     \* the callers whose GetKeyValueAsync has been received
    deleting,   \* deleter -> the key whose prefix it has still to delete, or None
    alive       \* FALSE once the destructor has run

vars == <<data, callbacks, answer, issued, deleting, alive>>

\* Keys hold texts, callers get texts or CANCELLED.
TypeOK ==
    /\ data \in [Keys -> Values \cup {None}]
    /\ callbacks \in [Keys -> SUBSET Callers]
    /\ answer \in [Callers -> Values \cup {None, Cancelled}]
    /\ issued \in SUBSET Callers
    /\ deleting \in [Deleters -> Keys \cup {None}]
    /\ alive \in BOOLEAN

Init ==
    /\ data = [k \in Keys |-> None]
    /\ callbacks = [k \in Keys |-> {}]
    /\ answer = [c \in Callers |-> None]
    /\ issued = {}
    /\ deleting = [d \in Deleters |-> None]
    /\ alive = TRUE

-----------------------------------------------------------------------------
\* Mutant of NotifyCallbacksForKey: the entry of the key is not erased.
NotifyCallbacksForKeyKeepsEntry(k, v) ==
    /\ answer' = [c \in Callers |-> IF c \in callbacks[k] THEN v ELSE answer[c]]
    /\ UNCHANGED callbacks

\* NotifyCallbacksForKey(key, value): every waiting callback is called, then
\* the entry of the key is erased.
NotifyCallbacksForKey(k, v) ==
    /\ answer' = [c \in Callers |-> IF c \in callbacks[k] THEN v ELSE answer[c]]
    /\ callbacks' = [callbacks EXCEPT ![k] = {}]

\* Put with allow_overwrite, or of an absent key.
PutStores(k, v) ==
    /\ data' = [data EXCEPT ![k] = v]
    /\ NotifyCallbacksForKey(k, v)
    /\ UNCHANGED <<issued, deleting, alive>>

\* KeyValueStore::Put, behind CoordinationService::InsertKeyValue.  Without
\* allow_overwrite an existing key is left alone (ALREADY_EXISTS).
Put(k, v, allow_overwrite) ==
    /\ alive
    /\ \/ /\ allow_overwrite \/ data[k] = None
          /\ PutStores(k, v)
       \/ /\ ~allow_overwrite /\ data[k] # None
          /\ UNCHANGED vars

\* absl::SimpleAtoi(text, &val) with `int val`: the text of an integer that
\* fits in an int, and nothing else.
SimpleAtoi(v) == v # Word /\ v \in -(IntMax + 1)..IntMax

\* KeyValueStore::IncrementBy.  try_emplace(key, "0") first; when the stored
\* text does not parse, FAILED_PRECONDITION and nothing is notified.
IncrementBy(k, increment) ==
    LET stored == IF data[k] = None THEN 0 ELSE data[k] IN
    /\ alive
    /\ \/ /\ SimpleAtoi(stored)
          /\ stored + increment \in -MaxAbs..MaxAbs
          /\ PutStores(k, stored + increment)
       \/ /\ ~SimpleAtoi(stored)
          /\ UNCHANGED vars

\* Mutant of AddCallbackForKey: queued even when the key exists.
AddCallbackForKeyAlwaysQueues(k, c) ==
    /\ alive
    /\ c \notin issued
    /\ issued' = issued \cup {c}
    /\ callbacks' = [callbacks EXCEPT ![k] = @ \cup {c}]
    /\ UNCHANGED <<answer, data, deleting, alive>>

\* KeyValueStore::AddCallbackForKey, behind GetKeyValueAsync: called at once
\* when the key exists, queued otherwise.
AddCallbackForKey(k, c) ==
    /\ alive
    /\ c \notin issued
    /\ issued' = issued \cup {c}
    /\ \/ /\ data[k] # None
          /\ answer' = [answer EXCEPT ![c] = data[k]]
          /\ UNCHANGED callbacks
       \/ /\ data[k] = None
          /\ callbacks' = [callbacks EXCEPT ![k] = @ \cup {c}]
          /\ UNCHANGED answer
    /\ UNCHANGED <<data, deleting, alive>>

\* First half of CoordinationService::DeleteKeyValue: store_.Delete(key).
Delete(d, k) ==
    /\ alive
    /\ deleting[d] = None
    /\ data' = [data EXCEPT ![k] = None]
    /\ deleting' = [deleting EXCEPT ![d] = k]
    /\ UNCHANGED <<callbacks, answer, issued, alive>>

\* Second half: store_.DeletePrefix(key + "/").
DeletePrefix(d) ==
    /\ alive
    /\ deleting[d] # None
    /\ data' = [k \in Keys |-> IF k \in Under(deleting[d]) THEN None ELSE data[k]]
    /\ deleting' = [deleting EXCEPT ![d] = None]
    /\ UNCHANGED <<callbacks, answer, issued, alive>>

\* ~KeyValueStore: every callback still waiting is called with CANCELLED.  No
\* method runs concurrently with the destructor.
Destruct ==
    /\ alive
    /\ \A d \in Deleters : deleting[d] = None
    /\ alive' = FALSE
    /\ answer' = [c \in Callers |->
                    IF \E k \in Keys : c \in callbacks[k] THEN Cancelled ELSE answer[c]]
    /\ callbacks' = [k \in Keys |-> {}]
    /\ UNCHANGED <<data, issued, deleting>>

Next ==
    \/ \E k \in Keys, v \in Ints \cup {Word}, o \in BOOLEAN : Put(k, v, o)
    \/ \E k \in Keys, i \in Increments : IncrementBy(k, i)
    \/ \E k \in Keys, c \in Callers : AddCallbackForKey(k, c)
    \/ \E d \in Deleters, k \in Keys : Delete(d, k)
    \/ \E d \in Deleters : DeletePrefix(d)
    \/ Destruct

Spec == Init /\ [][Next]_vars

-----------------------------------------------------------------------------
\* No GetKeyValueAsync waits for a key that is in the store: a put that races
\* the registration of the callback is never missed (key_value_store.cc,
\* AddCallbackForKey against Put and IncrementBy).
NoLostWakeup ==
    \A k \in Keys : callbacks[k] # {} => data[k] = None

\* Every GetKeyValueAsync received is in exactly one place: waiting at one key
\* or answered.  No callback is dropped by a put, a delete or the destructor,
\* and none is queued after it was called.
CallbackAccounting ==
    \A c \in Callers :
        LET waits == {k \in Keys : c \in callbacks[k]} IN
        /\ \A k, l \in waits : k = l
        /\ c \in issued <=> (waits # {} \/ answer[c] # None)
        /\ ~(waits # {} /\ answer[c] # None)

\* A callback is called once: what it was called with never changes.
AnsweredOnce ==
    [][\A c \in Callers : answer[c] # None => answer'[c] = answer[c]]_vars

\* A destroyed store leaves no caller blocked (the loop of ~KeyValueStore).
DestructAnswersAll ==
    ~alive => \A c \in issued : answer[c] # None
=============================================================================
