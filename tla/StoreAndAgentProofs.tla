------------------------- MODULE StoreAndAgentProofs -------------------------
(***************************************************************************)
(* Proofs about KeyValueStore, for every set of keys, callers and deleters, *)
(* and about the life of one agent (CoordinationAgent), for any number of   *)
(* sessions.                                                               *)
(*                                                                         *)
(* For the store the inductive invariant is IInv: a callback waits at one   *)
(* key only, only while that key is absent, and a caller is waiting or      *)
(* answered exactly when its request was received.                         *)
(***************************************************************************)
EXTENDS KeyValueStore, CoordinationAgent, TLAPS

\* The inductive invariant.
IInv == TypeOK /\ NoLostWakeup /\ CallbackAccounting /\ DestructAnswersAll

\* The invariant holds initially.
LEMMA InitIInv == Init => IInv
  BY DEF Init, IInv, TypeOK, NoLostWakeup, CallbackAccounting, DestructAnswersAll, Values

\* What Put and IncrementBy do to a key keeps the invariant: all who waited for the
\* key are answered and none is left behind.
LEMMA PutStoresIInv ==
  ASSUME IInv, alive, NEW k \in Keys, NEW v \in Values, PutStores(k, v)
  PROVE  IInv'
  <1> USE DEF IInv
  <1>0. v # None
    BY ValuesAssumption DEF Values
  <1>1. TypeOK'
    BY DEF TypeOK, PutStores, NotifyCallbacksForKey
  <1>2. NoLostWakeup'
    BY DEF TypeOK, NoLostWakeup, PutStores, NotifyCallbacksForKey
  <1>3. CallbackAccounting'
    <2> SUFFICES ASSUME NEW c \in Callers
                 PROVE  LET waits == {l \in Keys : c \in callbacks'[l]} IN
                        /\ \A l, m \in waits : l = m
                        /\ c \in issued' <=> (waits # {} \/ answer'[c] # None)
                        /\ ~(waits # {} /\ answer'[c] # None)
      BY DEF CallbackAccounting
    <2>1. CASE c \in callbacks[k]
      BY <1>0, <2>1 DEF TypeOK, CallbackAccounting, PutStores, NotifyCallbacksForKey
    <2>2. CASE c \notin callbacks[k]
      <3>1. {l \in Keys : c \in callbacks'[l]} = {l \in Keys : c \in callbacks[l]}
        BY <2>2 DEF TypeOK, PutStores, NotifyCallbacksForKey
      <3>. QED
        BY <2>2, <3>1 DEF TypeOK, CallbackAccounting, PutStores, NotifyCallbacksForKey
    <2>. QED
      BY <2>1, <2>2
  <1>4. DestructAnswersAll'
    BY DEF DestructAnswersAll, PutStores
  <1>. QED
    BY <1>1, <1>2, <1>3, <1>4

\* AddCallbackForKey keeps the invariant: the caller is new, so it waits nowhere
\* and has no answer.
LEMMA AddCallbackIInv ==
  ASSUME IInv, NEW k \in Keys, NEW c \in Callers, AddCallbackForKey(k, c)
  PROVE  IInv'
  <1> USE DEF IInv
  <1>0. /\ c \notin issued
        /\ answer[c] = None
        /\ \A l \in Keys : c \notin callbacks[l]
    BY DEF AddCallbackForKey, CallbackAccounting
  <1>1. TypeOK'
    BY DEF TypeOK, AddCallbackForKey
  <1>2. NoLostWakeup'
    BY DEF TypeOK, NoLostWakeup, AddCallbackForKey
  <1>3. CallbackAccounting'
    <2> SUFFICES ASSUME NEW e \in Callers
                 PROVE  LET waits == {l \in Keys : e \in callbacks'[l]} IN
                        /\ \A l, m \in waits : l = m
                        /\ e \in issued' <=> (waits # {} \/ answer'[e] # None)
                        /\ ~(waits # {} /\ answer'[e] # None)
      BY DEF CallbackAccounting
    <2>1. CASE e = c
      BY <1>0, <2>1 DEF TypeOK, AddCallbackForKey
    <2>2. CASE e # c
      <3>1. /\ {l \in Keys : e \in callbacks'[l]} = {l \in Keys : e \in callbacks[l]}
            /\ answer'[e] = answer[e]
            /\ e \in issued' <=> e \in issued
        BY <2>2 DEF TypeOK, AddCallbackForKey
      <3>. QED
        BY <3>1 DEF CallbackAccounting
    <2>. QED
      BY <2>1, <2>2
  <1>4. DestructAnswersAll'
    BY DEF DestructAnswersAll, AddCallbackForKey
  <1>. QED
    BY <1>1, <1>2, <1>3, <1>4

\* The destructor keeps the invariant: whoever waited is answered.
LEMMA DestructIInv ==
  ASSUME IInv, Destruct
  PROVE  IInv'
  <1> USE DEF IInv
  <1>1. TypeOK'
    BY DEF TypeOK, Destruct
  <1>2. NoLostWakeup'
    BY DEF NoLostWakeup, Destruct
  <1>3. CallbackAccounting'
    BY ValuesAssumption DEF TypeOK, CallbackAccounting, Destruct
  <1>4. DestructAnswersAll'
    BY ValuesAssumption DEF TypeOK, DestructAnswersAll, CallbackAccounting, Destruct
  <1>. QED
    BY <1>1, <1>2, <1>3, <1>4

\* Every step keeps the invariant.
LEMMA NextIInv == IInv /\ [Next]_vars => IInv'
  <1> SUFFICES ASSUME IInv, [Next]_vars PROVE IInv'
    OBVIOUS
  <1> USE DEF IInv
  <1>1. ASSUME NEW k \in Keys, NEW v \in Ints \cup {Word}, NEW o \in BOOLEAN, Put(k, v, o)
        PROVE  IInv'
    <2>1. v \in Values
      BY ValuesAssumption DEF Values
    <2>2. CASE PutStores(k, v)
      BY <1>1, <2>1, <2>2, PutStoresIInv DEF Put
    <2>3. CASE UNCHANGED vars
      BY <2>3 DEF vars, TypeOK, NoLostWakeup, CallbackAccounting, DestructAnswersAll
    <2>. QED
      BY <1>1, <2>2, <2>3 DEF Put
  <1>2. ASSUME NEW k \in Keys, NEW i \in Increments, IncrementBy(k, i)
        PROVE  IInv'
    <2> DEFINE stored == IF data[k] = None THEN 0 ELSE data[k]
    <2>2. CASE SimpleAtoi(stored) /\ PutStores(k, stored + i)
      <3>1. stored + i \in Values
        BY <2>2, ValuesAssumption DEF SimpleAtoi, Values
      <3>. QED
        BY <1>2, <2>2, <3>1, PutStoresIInv DEF IncrementBy
    <2>3. CASE UNCHANGED vars
      BY <2>3 DEF vars, TypeOK, NoLostWakeup, CallbackAccounting, DestructAnswersAll
    <2>. QED
      BY <1>2, <2>2, <2>3 DEF IncrementBy
  <1>3. ASSUME NEW k \in Keys, NEW c \in Callers, AddCallbackForKey(k, c)
        PROVE  IInv'
    BY <1>3, AddCallbackIInv
  <1>4. ASSUME NEW d \in Deleters, NEW k \in Keys, Delete(d, k)
        PROVE  IInv'
    BY <1>4 DEF Delete, TypeOK, NoLostWakeup, CallbackAccounting, DestructAnswersAll
  <1>5. ASSUME NEW d \in Deleters, DeletePrefix(d)
        PROVE  IInv'
    BY <1>5 DEF DeletePrefix, TypeOK, NoLostWakeup, CallbackAccounting, DestructAnswersAll
  <1>6. CASE Destruct
    BY <1>6, DestructIInv
  <1>7. CASE UNCHANGED vars
    BY <1>7 DEF vars, TypeOK, NoLostWakeup, CallbackAccounting, DestructAnswersAll
  <1>. QED
    BY <1>1, <1>2, <1>3, <1>4, <1>5, <1>6, <1>7 DEF Next

\* Whatever puts, increments, deletes and gets race each other, no get waits for a
\* key that is there, each get received is waiting at one key or answered, and the
\* destructor leaves nobody waiting.
THEOREM StoreCorrect ==
    Spec => [](TypeOK /\ NoLostWakeup /\ CallbackAccounting /\ DestructAnswersAll)
  <1>1. QED BY InitIInv, NextIInv, PTL DEF Spec, IInv

\* A put or an increment that races the registration of a callback is never missed: no
\* get waits for a key that is in the store.
THEOREM NoWakeupIsLost == Spec => []NoLostWakeup
  <1>1. IInv => NoLostWakeup
    BY DEF IInv
  <1>. QED BY <1>1, InitIInv, NextIInv, PTL DEF Spec

\* A step never answers a caller for the second time: callbacks wait only while they
\* are unanswered.
LEMMA NextAnswersOnce ==
  ASSUME IInv, [Next]_vars, NEW c \in Callers, answer[c] # None
  PROVE  answer'[c] = answer[c]
  <1>1. \A k \in Keys : c \notin callbacks[k]
    BY DEF IInv, CallbackAccounting
  <1>2. ASSUME NEW k \in Keys, NEW v, PutStores(k, v)
        PROVE  answer'[c] = answer[c]
    BY <1>1, <1>2 DEF PutStores, NotifyCallbacksForKey
  <1>3. ASSUME NEW k \in Keys, NEW e \in Callers, AddCallbackForKey(k, e)
        PROVE  answer'[c] = answer[c]
    <2>1. c # e
      BY <1>3 DEF AddCallbackForKey, IInv, CallbackAccounting
    <2>. QED
      BY <1>3, <2>1 DEF AddCallbackForKey, IInv, TypeOK
  <1>4. CASE Destruct
    BY <1>1, <1>4 DEF Destruct
  <1>5. CASE UNCHANGED answer
    BY <1>5
  <1>. QED
    BY <1>2, <1>3, <1>4, <1>5 DEF Next, Put, IncrementBy, Delete, DeletePrefix, vars

\* Each GetKeyValueAsync callback is called at most once, with a value that stands.
THEOREM CalledOnce == Spec => AnsweredOnce
  <1>1. IInv /\ [Next]_vars =>
          [\A c \in Callers : answer[c] # None => answer'[c] = answer[c]]_vars
    BY NextAnswersOnce
  <1>. QED BY <1>1, InitIInv, NextIInv, PTL DEF Spec, AnsweredOnce

-----------------------------------------------------------------------------
(* The life of one agent: module CoordinationAgent.                         *)

NoHeartbeats == hb \in {"none", "exited"}

\* No thread sends heartbeats before StartThreads, and a session begins without one.  A
\* task that the service has connected for the present process is registered under it.
LifeInv ==
    /\ agent \in [state : {"UNINITIALIZED", "DISCONNECTED", "CONNECTED", "ERROR"},
                 shuttingDown : BOOLEAN, leader : Nat, incarnation : Nat]
    /\ srv \in [state : {"DISCONNECTED", "CONNECTED", "ERROR"},
               status : {"OK", "UNAVAILABLE", "OTHER"}, incarnation : Nat, leader : Nat,
               known : SUBSET Nat]
    /\ srv.state = "CONNECTED" /\ agent.incarnation \in srv.known =>
          srv.incarnation = agent.incarnation
    /\ \A i \in srv.known : i <= agent.incarnation
    /\ agent.state \in {"UNINITIALIZED", "DISCONNECTED"} => NoHeartbeats
    /\ app \in {"connecting", "registered"} => NoHeartbeats
    /\ app = "registered" => agent.state \in {"CONNECTED", "ERROR"}
    /\ app = "connecting" => agent.state # "UNINITIALIZED"

\* A step of the agent or of the service keeps it.
LEMMA LifeStep ==
    ASSUME LifeInv, [AgentNext]_lifeVars
    PROVE  LifeInv'
<1>1. CASE UNCHANGED lifeVars
  BY <1>1 DEF lifeVars, LifeInv, NoHeartbeats
<1>2. CASE Calls
  BY <1>2 DEF LifeInv, NoHeartbeats, Calls, Initialize, Connect, WaitForAllTasks,
       ReportError, Shutdown, Reset, SetError
<1>3. CASE AppSteps
  <2>1. CASE \E heard \in BOOLEAN : RegisterTask(heard)
    <3>1. srv' = ConnectTask(srv, agent.incarnation) \/ srv' = SetTaskError(srv, "OTHER")
      BY <2>1 DEF RegisterTask, Registered
    <3>2. agent' = agent \/ agent' = Connected(agent, srv.leader)
      BY <2>1 DEF RegisterTask
    <3>3. /\ app = "connecting" /\ app' \in {"connecting", "registered"} /\ hb' = hb
          /\ app' = "registered" => agent' = Connected(agent, srv.leader)
      BY <2>1 DEF RegisterTask
    <3> DEFINE inc == agent.incarnation
               more == srv.known \cup {inc}
    <3>4. inc \in Nat /\ more \in SUBSET Nat /\ \A i \in more : i <= inc
      BY DEF LifeInv
    <3>5. ConnectTask(srv, inc) = [srv EXCEPT !.state = "CONNECTED", !.status = "OK",
                                              !.incarnation = inc, !.known = more]
      BY DEF ConnectTask
    <3>6. agent'.incarnation = inc
      BY <3>2 DEF LifeInv, Connected
    <3> HIDE DEF inc, more
    <3>7. /\ srv' \in [state : {"DISCONNECTED", "CONNECTED", "ERROR"},
                      status : {"OK", "UNAVAILABLE", "OTHER"}, incarnation : Nat, leader : Nat,
                      known : SUBSET Nat]
          /\ srv'.state = "CONNECTED" => srv'.incarnation = inc
          /\ \A i \in srv'.known : i <= inc
      <4>1. CASE srv' = ConnectTask(srv, inc)
        BY <3>4, <3>5, <4>1 DEF LifeInv
      <4>2. CASE srv' = SetTaskError(srv, "OTHER")
        BY <4>2 DEF LifeInv, SetTaskError, inc
      <4> QED
        BY <3>1, <4>1, <4>2 DEF inc
    <3>8. /\ agent' \in [state : {"UNINITIALIZED", "DISCONNECTED", "CONNECTED", "ERROR"},
                        shuttingDown : BOOLEAN, leader : Nat, incarnation : Nat]
          /\ agent'.state # "UNINITIALIZED"
          /\ app' = "registered" => agent'.state = "CONNECTED"
      BY <3>2, <3>3 DEF LifeInv, Connected
    <3>9. hb' \in {"none", "exited"}
      BY <3>3 DEF LifeInv, NoHeartbeats
    <3> QED
      BY <3>3, <3>6, <3>7, <3>8, <3>9 DEF LifeInv, NoHeartbeats
  <2>2. CASE ConnectTimesOut \/ (\E ok \in BOOLEAN : WaitForAllTasksReturns(ok))
    BY <2>2 DEF LifeInv, NoHeartbeats, ConnectTimesOut, WaitForAllTasksReturns, SetError
  <2>3. CASE StartThreads
    BY <2>3 DEF LifeInv, NoHeartbeats, StartThreads
  <2>4. CASE \E served \in BOOLEAN, code \in {"UNAVAILABLE", "OTHER"} :
                ErrorReported(served, code)
    BY <2>4 DEF LifeInv, NoHeartbeats, ErrorReported, SetTaskError
  <2>5. CASE \E served, heard \in BOOLEAN : ShutdownTask(served, heard)
    BY <2>5 DEF LifeInv, NoHeartbeats, ShutdownTask, Disconnected, SetError
  <2>6. CASE \E served, heard \in BOOLEAN : ResetTask(served, heard)
    BY <2>6 DEF LifeInv, NoHeartbeats, ResetTask, Disconnected
  <2>7. CASE StopHeartbeat
    BY <2>7 DEF LifeInv, NoHeartbeats, StopHeartbeat
  <2>8. CASE ShutdownReturns
    BY <2>8 DEF LifeInv, NoHeartbeats, ShutdownReturns, Joined
  <2>9. CASE ResetReturns
    BY <2>9 DEF LifeInv, NoHeartbeats, ResetReturns, Joined, ResetAgent
  <2> QED
    BY <1>3, <2>1, <2>2, <2>3, <2>4, <2>5, <2>6, <2>7, <2>8, <2>9 DEF AppSteps
<1>4. CASE HeartbeatSteps
  <2>1. ASSUME NEW served \in BOOLEAN, NEW a, Heartbeat(served, a)
        PROVE  LifeInv'
    BY <2>1 DEF LifeInv, NoHeartbeats, Heartbeat, HeartbeatRecorded, SetTaskError
  <2>2. CASE JudgeError \/ NextHeartbeat
    BY <2>2 DEF LifeInv, NoHeartbeats, JudgeError, NextHeartbeat
  <2>3. CASE HeartbeatSetsError
    BY <2>3 DEF LifeInv, NoHeartbeats, HeartbeatSetsError, SetError
  <2> QED
    BY <1>4, <2>1, <2>2, <2>3 DEF HeartbeatSteps
<1>5. CASE PollSteps
  <2>1. PICK p \in Polls :
           PollReturns(p) \/ \E how \in {"error", "cancelled"} : PollEnds(p, how)
    BY <1>5 DEF PollSteps
  <2>2. CASE PollReturns(p)
    BY <2>2 DEF LifeInv, NoHeartbeats, PollReturns, SetError
  <2>3. CASE \E how \in {"error", "cancelled"} : PollEnds(p, how)
    BY <2>3 DEF LifeInv, NoHeartbeats, PollEnds
  <2> QED
    BY <2>1, <2>2, <2>3
<1>6. CASE ServiceSeesFailure
  BY <1>6 DEF LifeInv, NoHeartbeats, ServiceSeesFailure, SetTaskError
<1>7. CASE ServiceRestarts
  BY <1>7 DEF LifeInv, NoHeartbeats, ServiceRestarts, FreshService
<1>8. CASE ProcessRestarts
  BY <1>8 DEF LifeInv, NoHeartbeats, ProcessRestarts, FreshAgent
<1> QED
  BY <1>1, <1>2, <1>3, <1>4, <1>5, <1>6, <1>7, <1>8 DEF AgentNext

\* In every reachable state.
THEOREM LifeIsSound == AgentSpec => []LifeInv
<1>1. AgentInit => LifeInv
  BY DEF AgentInit, LifeInv, NoHeartbeats, FreshAgent, FreshService
<1>2. LifeInv /\ [AgentNext]_lifeVars => LifeInv'
  BY LifeStep
<1> QED
  BY <1>1, <1>2, PTL DEF AgentSpec

\* The heartbeat thread of a session is joined before Shutdown or Reset leaves the agent
\* disconnected, whatever fails on the way.
THEOREM NoHeartbeatOutlives == AgentSpec => []HeartbeatsEndWithSession
<1>1. LifeInv => HeartbeatsEndWithSession
  BY DEF LifeInv, NoHeartbeats, HeartbeatsEndWithSession
<1> QED
  BY <1>1, LifeIsSound, PTL

\* A process that the service has connected is never refused as a duplicate of itself,
\* however often answers are lost and sessions, service and process begin again.
THEOREM RepeatsAreNoDuplicates == AgentSpec => NoSelfDuplicate
<1>1. ASSUME LifeInv, NEW heard \in BOOLEAN, RegisterTask(heard),
             srv.state = "CONNECTED", agent.incarnation \in srv.known
      PROVE  srv'.state = "CONNECTED"
  <2>1. MayRepeat(srv, agent.incarnation)
    BY <1>1 DEF LifeInv, MayRepeat
  <2> QED
    BY <1>1, <2>1 DEF LifeInv, RegisterTask, Registered, Accepts, ConnectTask
<1>2. LifeInv /\ [AgentNext]_lifeVars =>
        [\A heard \in BOOLEAN :
           /\ RegisterTask(heard)
           /\ srv.state = "CONNECTED" /\ agent.incarnation \in srv.known
           => srv'.state = "CONNECTED"]_lifeVars
  BY <1>1
<1> QED
  BY <1>2, LifeIsSound, PTL DEF AgentSpec, NoSelfDuplicate

=============================================================================
