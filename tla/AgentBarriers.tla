---------------------------- MODULE AgentBarriers ----------------------------
(***************************************************************************)
(* The barriers of the coordination service as its agents use them:         *)
(* CoordinationServiceAgent::WaitAtBarrierAsync and CancelBarrierAsync      *)
(* (coordination_service_agent.cc) composed with CoordinationService over   *)
(* RPCs that may be slow, whose answers may come after the agent has given  *)
(* the call up, and agents that restart with their counters lost.           *)
(*                                                                         *)
(* A service handler is the action of CoordinationService, together with    *)
(* the answers it sends: a done_callback that leaves the service's table is *)
(* an answer on its way.  Agents start registered (Connect has returned);   *)
(* an agent in ERROR makes no calls, which is one of the choices here.      *)
(*                                                                         *)
(* The composition is of a service with the flag                            *)
(* leave_barriers_on_recoverable_agent_restart at its default, off, and no  *)
(* shutdown barrier (DefaultFlags).  With the flag on, the check thread     *)
(* erases callbacks that it does not call and passes barriers without a     *)
(* task; the run out_of_sync of CoordinationService is about that.          *)
(***************************************************************************)
EXTENDS CoordinationService

CONSTANTS
    MaxCalls,        \* bound of the model: barrier calls of a task; a shutdown counts as one
    MaxInterrupted,  \* bound of the model: tasks that restart or are shut down
    Cancellers,      \* bound of the model: tasks that cancel barriers
    Quitters         \* bound of the model: tasks whose agents are shut down

\* Agents start in incarnation 1.
ASSUME CallsAssumption ==
    /\ MaxCalls \in Nat /\ MaxInterrupted \in Nat /\ MaxIncarnation > 0
    /\ Cancellers \subseteq Tasks /\ Quitters \subseteq Tasks

\* The configuration of the service that this module is about.
DefaultFlags == ~LeaveOnRestart /\ ~ShutdownWithBarrier

VARIABLES
    agent,     \* task -> the members of its agent that barriers use
    requests,  \* BarrierRequests on their way to the service
    cancels,   \* CancelBarrierRequests on their way to the service
    holder,    \* task -> barrier -> the call whose done_callback the service keeps, or 0
    answers,   \* answers on their way to the agents
    made,      \* task -> the calls made so far, over all lives
    sent       \* history: [task, barrier, counter] of every request sent

agentVars == <<agent, made, sent>>
net == <<requests, cancels, holder, answers>>
allVars == <<vars, agentVars, net>>

CallIds == 0..MaxCalls

\* ongoing_barriers_, barrier_counter_, the identity of the call in flight (0: none), and
\* whether cancellation_manager_ has been cancelled.
FreshAgent ==
    [ongoing |-> {}, counter |-> [b \in UserBarriers |-> -1],
     call |-> [b \in UserBarriers |-> 0], cancelled |-> FALSE]

ConnectedTask(t) ==
    [FreshTask EXCEPT !.state = "CONNECTED", !.incarnation = 1,
                      !.recoverable = t \in RecoverableTasks]

AgentsInit ==
    /\ svc = [cluster |-> [t \in Tasks |-> ConnectedTask(t)],
              barriers |-> [b \in BarrierIds |-> FreshBarrier],
              ongoing |-> {}, captured |-> [t \in Tasks |-> 0],
              polling |-> FALSE, responded |-> FALSE, polls |-> {},
              unsynced |-> {}, shutdownTasks |-> {}, aliveness |-> {},
              stopped |-> FALSE]
    /\ snapshot = NoSnapshot
    /\ shutdownArgs = [t \in Tasks |-> {}]
    /\ agent = [t \in Tasks |-> FreshAgent]
    /\ requests = {} /\ cancels = {} /\ answers = {} /\ sent = {}
    /\ holder = [t \in Tasks |-> [b \in UserBarriers |-> 0]]
    /\ made = [t \in Tasks |-> 0]

-----------------------------------------------------------------------------
(* Agents.                                                                  *)

\* Mutant of RequestCounter: the counter of the instance that ended is sent again.
RequestCounterRepeats(t, b) == IF agent[t].counter[b] = -1 THEN 0 ELSE agent[t].counter[b]

\* The instance a call asks for: one past the last one the agent knows to have ended.
RequestCounter(t, b) == agent[t].counter[b] + 1

\* WaitAtBarrierAsync up to the RPC: one call for an id at a time.
WaitAtBarrierAsync(t, b) ==
    LET call == made[t] + 1
        counter == RequestCounter(t, b)
    IN /\ b \notin agent[t].ongoing
       /\ ~agent[t].cancelled
       /\ call \in CallIds /\ counter \in Counters
       /\ agent' = [agent EXCEPT ![t].ongoing = @ \cup {b}, ![t].call[b] = call]
       /\ requests' = requests \cup
             {[task |-> t, barrier |-> b, call |-> call, counter |-> counter]}
       /\ made' = [made EXCEPT ![t] = call]
       /\ sent' = sent \cup {<<t, b, counter>>}
       /\ UNCHANGED <<vars, cancels, holder, answers>>

\* WaitAtBarrierAsync of an agent that has been shut down: it returns CANCELLED without an
\* RPC, and the id stays in ongoing_barriers_.
WaitAtBarrierCancelled(t, b) ==
    /\ b \notin agent[t].ongoing
    /\ agent[t].cancelled
    /\ agent' = [agent EXCEPT ![t].ongoing = @ \cup {b}, ![t].call[b] = 0]
    /\ UNCHANGED <<vars, made, sent, net>>

\* What the callback of WaitAtBarrierAsync makes of the counter: an answer that
\* names an instance moves it there, an error of the RPC layer leaves it.
CounterAfter(counter, m) == IF m.payload THEN m.counter ELSE counter

CallReturns(t, b, m) ==
    agent' = [agent EXCEPT ![t].ongoing = @ \ {b},
                           ![t].counter[b] = CounterAfter(@, m)]

\* The call in flight of t at b.
IsCurrent(m) ==
    m.barrier \in agent[m.task].ongoing /\ agent[m.task].call[m.barrier] = m.call

\* An answer arrives; the answer to a call the agent has given up goes nowhere.
ReceiveAnswer(m) ==
    /\ m \in answers
    /\ IF IsCurrent(m) THEN CallReturns(m.task, m.barrier, m) ELSE UNCHANGED agent
    /\ answers' = answers \ {m}
    /\ UNCHANGED <<vars, made, sent, requests, cancels, holder>>

\* The RPC layer gives a call up (deadline, connection lost, cancelled), whatever has
\* become of the request.
RpcFails(t, b) ==
    /\ b \in agent[t].ongoing /\ agent[t].call[b] # 0
    /\ CallReturns(t, b, [payload |-> FALSE, counter |-> 0])
    /\ UNCHANGED <<vars, made, sent, net>>

\* The counter field of a CancelBarrierRequest, which CancelBarrierAsync does not set.
CancelRequestCounter(t, b) == 0

\* CancelBarrierAsync.  Bound of the model: one cancel request is on its way at a time.
CancelBarrierAsync(t, b) ==
    /\ b \in agent[t].ongoing
    /\ t \in Cancellers /\ cancels = {}
    /\ cancels' = cancels \cup
          {[task |-> t, barrier |-> b, counter |-> CancelRequestCounter(t, b)]}
    /\ UNCHANGED <<vars, agentVars, requests, holder, answers>>

-----------------------------------------------------------------------------
(* The service.                                                             *)

\* The callbacks that leave the table.
Erased(kept) ==
    {x \in Tasks \X UserBarriers :
        kept[x[1]][x[2]] # 0 /\ x[1] \notin svc'.barriers[x[2]].calls}

\* With the callbacks `kept` in the service's table before a handler runs, the ones
\* that are not there any more have been called: with the result of the barrier, or
\* with CANCELLED when the task alone has left it.  Every place that takes callbacks out
\* calls them, but one that DefaultFlags excludes (CheckBarrierStatusWithRecoverableTasks).
Answered(kept) ==
    {[task |-> x[1], barrier |-> x[2], call |-> kept[x[1]][x[2]],
      code |-> IF svc'.barriers[x[2]].passed THEN svc'.barriers[x[2]].result
               ELSE "CANCELLED",
      counter |-> svc'.barriers[x[2]].counter, payload |-> TRUE] : x \in Erased(kept)}

Keep(kept) ==
    holder' = [t \in Tasks |-> [b \in UserBarriers |->
                 IF t \in svc'.barriers[b].calls THEN kept[t][b] ELSE 0]]

\* AddBarrierCallback: an earlier call of the same task is answered CANCELLED, with no
\* counter.
Superseded(r) ==
    {[task |-> r.task, barrier |-> r.barrier, call |-> k, code |-> "CANCELLED",
      counter |-> 0, payload |-> FALSE] :
        k \in {holder[r.task][r.barrier]} \ {0}}

HandleBarrier(r) ==
    LET kept == [holder EXCEPT ![r.task][r.barrier] = r.call]
    IN /\ r \in requests
       /\ \E args \in BarrierArgs : BarrierAsync(r.task, r.barrier, r.counter, args)
       /\ requests' = requests \ {r}
       /\ answers' = answers \cup Superseded(r) \cup Answered(kept)
       /\ Keep(kept)
       /\ UNCHANGED <<agentVars, cancels>>

\* CancelBarrier of the service, or its refusal.
HandleCancel(m) ==
    /\ m \in cancels
    /\ \/ CancelBarrier(m.barrier, m.counter)
       \/ /\ ~ENABLED CancelBarrier(m.barrier, m.counter)
          /\ UNCHANGED vars
    /\ cancels' = cancels \ {m}
    /\ answers' = answers \cup Answered(holder)
    /\ Keep(holder)
    /\ UNCHANGED <<agentVars, requests>>

\* Steps of the service that no barrier call asks for: the check thread, which under
\* DefaultFlags discounts no task, and registrations, repeated by Connect until they
\* succeed.
ServiceStep ==
    /\ \/ \E X \in SUBSET UserBarriers : CheckBarrierTimeout(X, {})
       \/ \E S \in SUBSET Tasks : CheckHeartbeatTimeout(S)
       \/ \E t \in Tasks : RegisterTaskAsync(t, svc.cluster[t].incarnation)
    /\ svc' # svc
    /\ answers' = answers \cup Answered(holder)
    /\ Keep(holder)
    /\ UNCHANGED <<agentVars, requests, cancels>>

\* The tasks that have restarted or whose agents have been shut down.
Interrupted ==
    {t \in Tasks : svc.cluster[t].incarnation > 1 \/ agent[t].cancelled}

\* The process of t dies and a new one registers: the agent's members are lost, what
\* is in the network and in the service is not.
Restart(t) ==
    /\ svc.cluster[t].incarnation < MaxIncarnation
    /\ Cardinality(Interrupted) < MaxInterrupted
    /\ RegisterTaskAsync(t, svc.cluster[t].incarnation + 1)
    /\ agent' = [agent EXCEPT ![t] = FreshAgent]
    /\ answers' = answers \cup Answered(holder)
    /\ Keep(holder)
    /\ UNCHANGED <<made, sent, requests, cancels>>

\* ShutdownInternal: the ShutdownTask RPC, unless the agent is not connected or the RPC
\* fails, and then cancellation_manager_ is cancelled, for good, and with it the RPCs in
\* flight, which RpcFails ends.  One step: calls that another thread begins between the
\* two, after an answer to the first, are left out.
ShutdownInternal(t) ==
    /\ t \in Quitters /\ made[t] < MaxCalls /\ ~agent[t].cancelled
    /\ Cardinality(Interrupted) < MaxInterrupted
    /\ ShutdownTaskAsync(t) \/ UNCHANGED vars
    /\ agent' = [agent EXCEPT ![t].cancelled = TRUE]
    /\ answers' = answers \cup Answered(holder)
    /\ Keep(holder)
    /\ UNCHANGED <<made, sent, requests, cancels>>

-----------------------------------------------------------------------------
(* The specification.                                                       *)

AgentsNext ==
    \/ \E t \in Tasks, b \in UserBarriers :
          \/ WaitAtBarrierAsync(t, b) \/ WaitAtBarrierCancelled(t, b)
          \/ RpcFails(t, b) \/ CancelBarrierAsync(t, b)
    \/ \E m \in answers : ReceiveAnswer(m)
    \/ \E r \in requests : HandleBarrier(r)
    \/ \E m \in cancels : HandleCancel(m)
    \/ ServiceStep
    \/ \E t \in Tasks : Restart(t) \/ ShutdownInternal(t)

AgentsSpec == AgentsInit /\ [][AgentsNext]_allVars

-----------------------------------------------------------------------------
(* Properties.                                                              *)

\* An agent whose call returns OK for an instance can rely on it: every task has
\* called for that very instance, though calls are given up and made again, requests
\* arrive late and tasks restart with their counters lost.  A request for instance 0 of
\* a recoverable task counts for whichever instance is in progress when it arrives: the
\* service takes it for the first one after a restart, which it need not be.
OkMeansAllCalled ==
    [][\A m \in answers : IsCurrent(m) /\ m.code = "OK" /\ ReceiveAnswer(m)
         => \A t \in svc.barriers[m.barrier].tasks :
               \E c \in {m.counter} \cup IF t \in RecoverableTasks THEN {0} ELSE {} :
                  <<t, m.barrier, c>> \in sent]_allVars

\* No instance is used twice: an OK that a call returns is for a later instance than the
\* ones the process has seen end, so that two calls in a row are never answered by one
\* meeting of the tasks.
OkIsNew ==
    [][\A m \in answers : IsCurrent(m) /\ m.code = "OK" /\ ReceiveAnswer(m)
         => m.counter > agent[m.task].counter[m.barrier]]_allVars
=============================================================================
