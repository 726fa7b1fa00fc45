--------------------------- MODULE PreemptionSync ---------------------------
(***************************************************************************)
(* PreemptionSyncManager                                                    *)
(* (xla/tsl/distributed_runtime/preemption/preemption_sync_manager.{h,cc}): *)
(* the tasks of a job agree, when one of them is about to be preempted, on  *)
(* a step at which all save their work.                                    *)
(*                                                                         *)
(* Every task has an application thread, which calls ReachedSyncPoint once  *)
(* per step and Shutdown at the end, and a protocol thread, which holds mu_ *)
(* from the moment it publishes the task's step until it is done.  The      *)
(* coordination service is what the agent's calls show of it: keys, and one *)
(* barrier over all tasks that passes when all have come and otherwise      *)
(* fails; RPCs may fail before or after the service has served them.  Of an *)
(* agent, only what CancelBarrierAsync looks at is kept: whether it has     *)
(* ever waited at the barrier.                                             *)
(***************************************************************************)
EXTENDS Integers, FiniteSets, FiniteSetsExt

CONSTANTS
    Tasks,
    MaxFaults,  \* bound of the model: how often an RPC, the barrier or the notice fails
                \* or a manager shuts down
    MaxStep     \* bound of the model: the steps of the job

ASSUME PreemptionAssumption ==
    /\ IsFiniteSet(Tasks) /\ Tasks # {}
    /\ MaxFaults \in Nat
    /\ MaxStep \in Nat

Unset == -1   \* kPreemptionSyncUnsetCounter

VARIABLES
    step,     \* task -> call_counter_
    sync,     \* task -> preemption_sync_counter_
    mu,       \* task -> the thread that holds mu_
    proto,    \* task -> where the protocol thread is
    app,      \* task -> where the application thread is
    notice,   \* kPreemptionNoticeKey is set
    counter,  \* task -> its key under kPreemptionCounterDirKey, or Unset
    barrier,  \* kPreemptionBarrier in the service
    faults    \* the failures and shutdowns so far

vars == <<step, sync, mu, proto, app, notice, counter, barrier, faults>>
service == <<notice, counter, barrier>>

Init ==
    /\ step = [t \in Tasks |-> 0]
    /\ sync = [t \in Tasks |-> Unset]
    /\ mu = [t \in Tasks |-> "free"]
    /\ proto = [t \in Tasks |-> "listening"]
    /\ app = [t \in Tasks |-> "running"]
    /\ notice = FALSE
    /\ counter = [t \in Tasks |-> Unset]
    /\ barrier = [at |-> {}, result |-> "none"]
    /\ faults = 0

\* A step that is a fault counts itself; the bound holds for the model only.
CountsFault(fault) ==
    IF fault THEN faults < MaxFaults /\ faults' = faults + 1 ELSE UNCHANGED faults

ShutDown(t) == app[t] \in {"shutdown", "down"}

-----------------------------------------------------------------------------
(* The application.                                                         *)

\* ReachedSyncPoint, called with the next step; the job saves when it returns true.
ReachedSyncPoint(t) ==
    /\ app[t] = "running"
    /\ mu[t] = "free"
    /\ step[t] < MaxStep
    /\ step' = [step EXCEPT ![t] = @ + 1]
    /\ app' = IF sync[t] = step'[t] THEN [app EXCEPT ![t] = "saved"] ELSE app
    /\ UNCHANGED <<sync, mu, proto, service, faults>>

\* Shutdown: it takes mu_ and keeps it while it joins the protocol thread.  The
\* pending GetKeyValue is cancelled, so a thread that is not there will not start.
Shutdown(t) ==
    /\ CountsFault(TRUE)
    /\ app[t] \in {"running", "saved"}
    /\ mu[t] = "free"
    /\ mu' = [mu EXCEPT ![t] = "shutdown"]
    /\ app' = [app EXCEPT ![t] = "shutdown"]
    /\ UNCHANGED <<step, sync, proto, service>>

ShutdownReturns(t) ==
    /\ app[t] = "shutdown"
    /\ proto[t] \in {"listening", "done"}
    /\ mu' = [mu EXCEPT ![t] = "free"]
    /\ app' = [app EXCEPT ![t] = "down"]
    /\ UNCHANGED <<step, sync, proto, service, faults>>

-----------------------------------------------------------------------------
(* The notice.                                                              *)

\* WillBePreemptedAtAsync calls back: the key is inserted if it is not there.
WillBePreempted ==
    /\ ~notice
    /\ notice' = TRUE
    /\ UNCHANGED <<step, sync, mu, proto, app, counter, barrier, faults>>

\* CancelPreemptionBarrier.  CancelBarrierAsync refuses an id its agent has not waited
\* at or whose call has ended.
CancelPreemptionBarrier(t) ==
    barrier' = IF proto[t] = "wait" /\ t \in barrier.at /\ barrier.result = "none"
               THEN [barrier EXCEPT !.result = "ERROR"] ELSE barrier

\* The callback of GetKeyValueAsync with the death time, near or far.
NoticeArrives(t, near) ==
    /\ notice
    /\ proto[t] = "listening"
    /\ mu[t] = "free"
    /\ proto' = [proto EXCEPT ![t] = IF ShutDown(t) THEN "done"
                                     ELSE IF near THEN "lock" ELSE "sleeping"]
    /\ UNCHANGED <<step, sync, mu, app, service, faults>>

\* The callback of GetKeyValueAsync with an error that is not a cancellation, or with
\* a death time that cannot be parsed.
NoticeFails(t) ==
    /\ CountsFault(TRUE)
    /\ proto[t] = "listening"
    /\ ~ShutDown(t)
    /\ CancelPreemptionBarrier(t)
    /\ proto' = [proto EXCEPT ![t] = "done"]
    /\ UNCHANGED <<step, sync, mu, app, notice, counter>>

-----------------------------------------------------------------------------
(* ComputeSyncCallCounter.                                                  *)

\* 1. The sleep ends, or Shutdown ends it.
SleepEnds(t) ==
    /\ proto[t] = "sleeping"
    /\ IF ShutDown(t)
       THEN /\ CancelPreemptionBarrier(t)
            /\ proto' = [proto EXCEPT ![t] = "done"]
       ELSE /\ proto' = [proto EXCEPT ![t] = "lock"]
            /\ UNCHANGED barrier
    /\ UNCHANGED <<step, sync, mu, app, notice, counter, faults>>

\* 2. mu_ is taken ...
\* Mutant: it is not held during the protocol.
HeldNotAtAll(t) == UNCHANGED mu
Held(t) == mu' = [mu EXCEPT ![t] = "protocol"]

TakeLock(t) ==
    /\ proto[t] = "lock"
    /\ mu[t] = "free"
    /\ Held(t)
    /\ proto' = [proto EXCEPT ![t] = "insert"]
    /\ UNCHANGED <<step, sync, app, service, faults>>

Finish(t) ==
    /\ proto' = [proto EXCEPT ![t] = "done"]
    /\ mu' = [mu EXCEPT ![t] = "free"]

\* ... and the task's step is published.
Published(t) == step[t]

InsertCounter(t, served, heard) ==
    /\ proto[t] = "insert"
    /\ CountsFault(~(served /\ heard))
    /\ counter' = IF served THEN [counter EXCEPT ![t] = Published(t)] ELSE counter
    /\ IF served /\ heard
       THEN /\ proto' = [proto EXCEPT ![t] = "wait"]
            /\ UNCHANGED <<mu, barrier>>
       ELSE CancelPreemptionBarrier(t) /\ Finish(t)
    /\ UNCHANGED <<step, sync, app, notice>>

\* 3. WaitAtBarrier: the service counts the task in and passes the barrier when none is
\* missing.  leave_barriers_on_recoverable_agent_restart has its default, off: with it the
\* check thread passes barriers without the tasks that have restarted.
\* Mutant: the barrier passes when one task is missing.
EveryoneButOne(T) == Cardinality(T) + 1 >= Cardinality(Tasks)
Everyone(T) == T = Tasks

ReachBarrier(t) ==
    /\ proto[t] = "wait"
    /\ t \notin barrier.at
    /\ barrier' = [at |-> barrier.at \cup {t},
                   result |-> IF barrier.result = "none" /\ Everyone(barrier.at \cup {t})
                              THEN "OK" ELSE barrier.result]
    /\ UNCHANGED <<step, sync, mu, proto, app, notice, counter, faults>>

\* The service fails the barrier: its deadline passes, or a task that takes part dies.
BarrierFails ==
    /\ CountsFault(TRUE)
    /\ barrier.at # {}
    /\ barrier.result = "none"
    /\ barrier' = [barrier EXCEPT !.result = "ERROR"]
    /\ UNCHANGED <<step, sync, mu, proto, app, notice, counter>>

\* WaitAtBarrier returns, with the result or with an error of the RPC.
BarrierReturns(t, heard) ==
    /\ proto[t] = "wait"
    /\ heard => t \in barrier.at /\ barrier.result # "none"
    /\ CountsFault(~heard)
    /\ IF heard /\ barrier.result = "OK"
       THEN proto' = [proto EXCEPT ![t] = "read"] /\ UNCHANGED mu
       ELSE Finish(t)
    /\ UNCHANGED <<step, sync, app, service>>

\* 5 and 6. The sync point is the step after the largest of the published ones.
\* Mutant: it is the largest.
SyncPointAtMax(steps) == Max(steps)
SyncPoint(steps) == Max(steps) + 1

\* 4. GetKeyValueDir, and the sync point is set.
ReadCounters(t, heard) ==
    LET steps == {counter[u] : u \in Tasks} \ {Unset}
    IN /\ proto[t] = "read"
       /\ CountsFault(~heard)
       /\ sync' = IF heard /\ steps # {} THEN [sync EXCEPT ![t] = SyncPoint(steps)] ELSE sync
       /\ Finish(t)
       /\ UNCHANGED <<step, app, service>>

-----------------------------------------------------------------------------
(* The specification.                                                       *)

Protocol(t) ==
    \/ SleepEnds(t)
    \/ TakeLock(t)
    \/ \E served, heard \in BOOLEAN : InsertCounter(t, served, heard)
    \/ ReachBarrier(t)
    \/ \E heard \in BOOLEAN : BarrierReturns(t, heard) \/ ReadCounters(t, heard)

Arrival(t) == \E near \in BOOLEAN : NoticeArrives(t, near)

Next ==
    \/ WillBePreempted
    \/ BarrierFails
    \/ \E t \in Tasks :
          \/ ReachedSyncPoint(t) \/ Shutdown(t) \/ ShutdownReturns(t)
          \/ Arrival(t) \/ NoticeFails(t)
          \/ Protocol(t)

Spec == Init /\ [][Next]_vars

\* Threads run, answers arrive, and the application goes on stepping; no fault is ever due.
FairSpec ==
    /\ Spec
    /\ \A t \in Tasks :
          /\ WF_vars(Protocol(t) /\ UNCHANGED faults)
          /\ SF_vars(Arrival(t))
          /\ WF_vars(ReachedSyncPoint(t))
          /\ WF_vars(ShutdownReturns(t))

-----------------------------------------------------------------------------
(* Properties.                                                              *)

\* Tasks that have a sync point have the same one, whatever failed on the way.
Agreement ==
    \A t, u \in Tasks : sync[t] # Unset /\ sync[u] # Unset => sync[t] = sync[u]

\* No task is past the sync point when it learns of it, and none gets past it without
\* saving: mu_ is held from the publication of the step on.
NoneIsPast ==
    \A t \in Tasks : sync[t] # Unset /\ app[t] = "running" => step[t] < sync[t]

\* As long as nothing fails and nobody shuts down, a task that learns the sync point is
\* not alone, and every task that has steps enough left saves there.
AllSave ==
    (\E u \in Tasks : sync[u] # Unset) ~>
        \/ faults > 0
        \/ \A t \in Tasks : sync[t] # Unset /\ (sync[t] <= MaxStep => app[t] = "saved")

=============================================================================
