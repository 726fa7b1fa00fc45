-------------------------- MODULE CoordinationAgent --------------------------
(***************************************************************************)
(* The life of one CoordinationServiceAgent                                 *)
(* (xla/tsl/distributed_runtime/coordination/coordination_service_agent.cc):*)
(* the application thread in Connect, ReportError, Reset or Shutdown, the   *)
(* heartbeat thread, and the long-running error poll with its cancellation  *)
(* manager, against a service that sees one task and RPCs that fail before  *)
(* or after the service has served them.  The process may die and another   *)
(* one, with an incarnation of its own, take its place.                     *)
(*                                                                         *)
(* A step is what happens between two releases of state_mu_, of             *)
(* shutdown_mu_, or between two RPCs.  Time is not counted: an RPC may fail *)
(* at any moment and Connect may find its deadline passed after any         *)
(* attempt.  The service part is what coordination_service.cc does with the *)
(* state of this task (without a register barrier); barriers are in         *)
(* AgentBarriers.                                                          *)
(***************************************************************************)
EXTENDS Integers, FiniteSets

CONSTANTS
    PollAtStartup,   \* config.poll_for_error_from_service_at_startup
    Recoverable,     \* CoordinatedTask.recoverable of the task
    AllowReconnect,  \* config.allow_new_incarnation_to_reconnect
    MaxSessions,     \* bound of the model: calls of Connect, over all processes
    MaxIncarnation,  \* bound of the model: processes of the task
    MaxLeader        \* bound of the model: incarnations of the service

ASSUME AgentAssumption ==
    /\ PollAtStartup \in BOOLEAN /\ Recoverable \in BOOLEAN /\ AllowReconnect \in BOOLEAN
    /\ MaxSessions \in Nat /\ MaxIncarnation \in Nat /\ MaxLeader \in Nat

VARIABLES
    agent,    \* state_, shutting_down_, leader_incarnation_, incarnation_id_
    app,      \* where the application thread is
    hb,       \* where the heartbeat thread is
    manager,  \* *error_polling_cancellation_manager_: callbacks[k] is the poll registered
              \* under token k, or 0
    polls,    \* poll -> its RPC, the token it holds, whether its cancellation was asked for
    srv,      \* what the service knows of the task, its own incarnation, and as history
              \* `known`: the processes of the task that it has connected
    sessions  \* calls of Connect so far

lifeVars == <<agent, app, hb, manager, polls, srv, sessions>>

Polls == 1..MaxSessions

FreshManager == [callbacks |-> [k \in 0..MaxSessions |-> 0], next |-> 0, cancelled |-> FALSE]

\* The agent of process i of the task: incarnation_id_ is drawn when it is constructed.
FreshAgent(i) ==
    [state |-> "UNINITIALIZED", shuttingDown |-> FALSE, leader |-> 0, incarnation |-> i]

\* Incarnation l of the service has not heard of the task.
FreshService(l) ==
    [state |-> "DISCONNECTED", status |-> "OK", incarnation |-> 0, leader |-> l, known |-> {}]

NoPolls == [p \in Polls |-> [at |-> "none", token |-> 0, asked |-> FALSE]]

AgentInit ==
    /\ agent = FreshAgent(1)
    /\ app = "idle"
    /\ hb = "none"
    /\ manager = FreshManager
    /\ polls = NoPolls
    /\ srv = FreshService(1)
    /\ sessions = 0

\* SetError: nothing happens in ERROR; from every other state the agent moves there.
SetError(a) == [a EXCEPT !.state = "ERROR"]

-----------------------------------------------------------------------------
(* The service's side of the RPCs: the new `srv` and whether it answers OK.  *)

\* SetTaskError: nothing happens to a task in error.
SetTaskError(s, code) ==
    IF s.state = "ERROR" THEN s ELSE [s EXCEPT !.state = "ERROR", !.status = code]

\* A disconnected task may connect, and one that lost its connection may come back
\* if it is recoverable or the service is configured to let it.
MayConnect(s) ==
    \/ s.state = "DISCONNECTED"
    \/ (AllowReconnect \/ Recoverable) /\ s.status = "UNAVAILABLE"

\* A connected task repeats its registration; a recoverable one may have restarted.
MayRepeat(s, inc) ==
    s.state = "CONNECTED" /\ (s.incarnation = inc \/ Recoverable)

Accepts(s, inc) == MayConnect(s) \/ MayRepeat(s, inc)

\* Mutant of ConnectTask: the incarnation is not recorded.
ConnectTaskOnly(s, inc) ==
    [s EXCEPT !.state = "CONNECTED", !.status = "OK", !.known = @ \cup {inc}]

\* ConnectTask.
ConnectTask(s, inc) ==
    [s EXCEPT !.state = "CONNECTED", !.status = "OK", !.incarnation = inc,
              !.known = @ \cup {inc}]

\* RegisterTaskAsync: who may not connect is taken for a second process, or is in error
\* already.
Registered(s, inc) ==
    IF Accepts(s, inc) THEN ConnectTask(s, inc) ELSE SetTaskError(s, "OTHER")

\* DisconnectTask, for ShutdownTaskAsync and ResetTask: refused when disconnected.
Disconnects(s) == s.state # "DISCONNECTED"
Disconnected(s) == [s EXCEPT !.state = "DISCONNECTED", !.status = "OK"]

\* RecordHeartbeat: a task in error is refused, a disconnected one after its grace
\* period, and a connected one when it is not recoverable and has another incarnation.
HeartbeatAnswers(s, inc) ==
    CASE s.state = "CONNECTED" ->
           IF s.incarnation = inc \/ Recoverable THEN {"OK"} ELSE {"bad"}
      [] s.state = "ERROR" -> {"bad"}
      [] s.state = "DISCONNECTED" -> {"OK", "bad"}

\* The part of it that changes the service: another incarnation takes a connected task to
\* error.  One that is disconnected is in its grace period only with the incarnation of the
\* process that beats: a process dies with its heartbeat thread, and the next one beats
\* after it has registered.
HeartbeatRecorded(s, inc) ==
    IF s.state = "CONNECTED" /\ s.incarnation # inc /\ ~Recoverable
    THEN SetTaskError(s, "OTHER") ELSE s

\* The polls the service ends when it disconnects a task (error_polling_state_.RemoveTask).
RemoveTask ==
    [p \in Polls |-> IF polls[p].at = "pending" THEN [polls[p] EXCEPT !.at = "cancelled"]
                     ELSE polls[p]]

\* The service sets the task to error, for a heartbeat it missed.
ServiceSeesFailure ==
    /\ srv.state = "CONNECTED"
    /\ srv' = SetTaskError(srv, "UNAVAILABLE")
    /\ UNCHANGED <<agent, app, hb, manager, polls, sessions>>

\* The service restarts, with no memory of the task.
ServiceRestarts ==
    /\ srv.leader < MaxLeader
    /\ srv' = FreshService(srv.leader + 1)
    /\ UNCHANGED <<agent, app, hb, manager, polls, sessions>>

\* The process of the task dies with its threads and RPCs, and another one starts.
ProcessRestarts ==
    /\ agent.incarnation < MaxIncarnation
    /\ agent' = FreshAgent(agent.incarnation + 1)
    /\ app' = "idle"
    /\ hb' = "none"
    /\ manager' = FreshManager
    /\ polls' = NoPolls
    /\ UNCHANGED <<srv, sessions>>

-----------------------------------------------------------------------------
(* The application thread.                                                  *)

Initialize ==
    /\ app = "idle"
    /\ agent.state = "UNINITIALIZED"
    /\ agent' = [agent EXCEPT !.state = "DISCONNECTED"]
    /\ UNCHANGED <<app, hb, manager, polls, srv, sessions>>

Connect ==
    /\ app = "idle"
    /\ agent.state = "DISCONNECTED"
    /\ sessions < MaxSessions
    /\ sessions' = sessions + 1
    /\ app' = "connecting"
    /\ UNCHANGED <<agent, hb, manager, polls, srv>>

Connected(a, leader) == [a EXCEPT !.state = "CONNECTED", !.leader = leader]

\* One attempt that the service serves.  The RPC callback connects the agent; an answer
\* that is lost, and ABORTED, are retried.
RegisterTask(heard) ==
    /\ app = "connecting"
    /\ srv' = Registered(srv, agent.incarnation)
    /\ IF Accepts(srv, agent.incarnation) /\ heard
       THEN /\ agent' = Connected(agent, srv.leader)
            /\ app' = "registered"
       ELSE UNCHANGED <<agent, app>>
    /\ UNCHANGED <<hb, manager, polls, sessions>>

\* An attempt fails after the deadline.
ConnectTimesOut ==
    /\ app = "connecting"
    /\ agent' = SetError(agent)
    /\ app' = "idle"
    /\ UNCHANGED <<hb, manager, polls, srv, sessions>>

\* PollForErrorAsync of StartPollingForError, with RegisterCallback of its
\* cancellation: a poll under a cancelled manager is over at once, and so is one of an
\* agent in ERROR (ValidateRunningAgent).
Poll(p) ==
    IF agent.state = "ERROR" \/ manager.cancelled
    THEN UNCHANGED <<manager, polls>>
    ELSE /\ manager' = [manager EXCEPT !.callbacks[manager.next] = p, !.next = @ + 1]
         /\ polls' = [polls EXCEPT ![p] =
                         [at |-> "pending", token |-> manager.next, asked |-> FALSE]]

\* The end of Connect: the heartbeat thread and the error poll start.
StartThreads ==
    /\ app = "registered"
    /\ hb' = "call"
    /\ IF PollAtStartup THEN Poll(sessions) ELSE UNCHANGED <<manager, polls>>
    /\ app' = "idle"
    /\ UNCHANGED <<agent, srv, sessions>>

\* WaitForAllTasks, allowed when connected; an error of its RPC is the agent's.
WaitForAllTasks ==
    /\ app = "idle"
    /\ agent.state = "CONNECTED"
    /\ app' = "waiting"
    /\ UNCHANGED <<agent, hb, manager, polls, srv, sessions>>

WaitForAllTasksReturns(ok) ==
    /\ app = "waiting"
    /\ agent' = IF ok THEN agent ELSE SetError(agent)
    /\ app' = "idle"
    /\ UNCHANGED <<hb, manager, polls, srv, sessions>>

ReportError ==
    /\ app = "idle"
    /\ agent.state \in {"DISCONNECTED", "CONNECTED"}
    /\ agent' = SetError(agent)
    /\ app' = "reporting"
    /\ UNCHANGED <<hb, manager, polls, srv, sessions>>

\* The RPC of ReportError; ReportTaskError refuses a task that is not connected.
ErrorReported(served, code) ==
    /\ app = "reporting"
    /\ srv' = IF served /\ srv.state = "CONNECTED" THEN SetTaskError(srv, code) ELSE srv
    /\ app' = "idle"
    /\ UNCHANGED <<agent, hb, manager, polls, sessions>>

\* ShutdownInternal, of Shutdown or the destructor: only a connected agent tells the
\* service.
Shutdown ==
    /\ app = "idle"
    /\ agent.state # "UNINITIALIZED"
    /\ app' = IF agent.state = "CONNECTED" THEN "shutdown" ELSE "teardown"
    /\ UNCHANGED <<agent, hb, manager, polls, srv, sessions>>

ShutdownTask(served, heard) ==
    /\ app = "shutdown"
    /\ IF served /\ Disconnects(srv)
       THEN srv' = Disconnected(srv) /\ polls' = RemoveTask
       ELSE UNCHANGED <<srv, polls>>
    /\ agent' = IF served /\ heard /\ Disconnects(srv) THEN agent ELSE SetError(agent)
    /\ app' = "teardown"
    /\ UNCHANGED <<hb, manager, sessions>>

Reset ==
    /\ app = "idle"
    /\ agent.state = "ERROR"
    /\ app' = "resetting"
    /\ UNCHANGED <<agent, hb, manager, polls, srv, sessions>>

\* The RPC of Reset, which gives up when it is not answered OK.
ResetTask(served, heard) ==
    /\ app = "resetting"
    /\ IF served /\ Disconnects(srv)
       THEN srv' = Disconnected(srv) /\ polls' = RemoveTask
       ELSE UNCHANGED <<srv, polls>>
    /\ app' = IF served /\ heard /\ Disconnects(srv) THEN "resetTeardown" ELSE "idle"
    /\ UNCHANGED <<agent, hb, manager, sessions>>

\* StopHeartbeat sets shutting_down_ and then destroys the thread object, which joins it.
StopHeartbeat ==
    /\ app \in {"teardown", "resetTeardown"}
    /\ agent' = [agent EXCEPT !.shuttingDown = TRUE]
    /\ app' = IF app = "teardown" THEN "join" ELSE "resetJoin"
    /\ UNCHANGED <<hb, manager, polls, srv, sessions>>

\* Mutant: the thread is detached.
JoinedDetached == TRUE
Joined == hb \in {"none", "exited"}

\* StopErrorPolling: StartCancel of the manager cancels the RPCs registered with it.
CancelledPolls ==
    [p \in Polls |-> IF \E k \in DOMAIN manager.callbacks : manager.callbacks[k] = p
                     THEN [polls[p] EXCEPT !.asked = TRUE] ELSE polls[p]]

\* The rest of ShutdownInternal.  shutting_down_ stays set and the manager cancelled.
ShutdownReturns ==
    /\ app = "join"
    /\ Joined
    /\ polls' = CancelledPolls
    /\ manager' = [FreshManager EXCEPT !.next = manager.next, !.cancelled = TRUE]
    /\ agent' = [agent EXCEPT !.state = "DISCONNECTED"]
    /\ app' = "down"
    /\ UNCHANGED <<hb, srv, sessions>>

ResetAgent(a) == [a EXCEPT !.state = "DISCONNECTED", !.shuttingDown = FALSE]

\* The rest of Reset.  ResetCancellationManager: the tokens of the new manager start
\* again from 0.
ResetReturns ==
    /\ app = "resetJoin"
    /\ Joined
    /\ polls' = CancelledPolls
    /\ manager' = FreshManager
    /\ agent' = ResetAgent(agent)
    /\ app' = "idle"
    /\ UNCHANGED <<hb, srv, sessions>>

-----------------------------------------------------------------------------
(* The heartbeat thread.                                                    *)

\* A service that has restarted answers with another incarnation.
\* Mutant: a heartbeat that fails is tried again and forgotten.
AfterHeartbeatForgets(answer) ==
    IF answer = "OK" /\ srv.leader # agent.leader THEN "mismatch" ELSE "pause"
AfterHeartbeat(answer) ==
    CASE answer = "bad" -> "bad"
      [] answer = "OK" /\ srv.leader # agent.leader -> "mismatch"
      [] OTHER -> "pause"

\* The RPC: it is served and answered, or fails.
Heartbeat(served, answer) ==
    /\ hb = "call"
    /\ srv' = IF served THEN HeartbeatRecorded(srv, agent.incarnation) ELSE srv
    /\ hb' = AfterHeartbeat(answer)
    /\ UNCHANGED <<agent, app, manager, polls, sessions>>

\* After a second, errors are ignored when the agent is shutting down.
JudgeError ==
    /\ hb = "bad"
    /\ hb' = IF agent.shuttingDown THEN "exited" ELSE "setError"
    /\ UNCHANGED <<agent, app, manager, polls, srv, sessions>>

HeartbeatSetsError ==
    /\ hb \in {"mismatch", "setError"}
    /\ agent' = SetError(agent)
    /\ hb' = "pause"
    /\ UNCHANGED <<app, manager, polls, srv, sessions>>

\* The pause between heartbeats ends early when the agent is shutting down.
NextHeartbeat ==
    /\ hb = "pause"
    /\ hb' = IF agent.shuttingDown THEN "exited" ELSE "call"
    /\ UNCHANGED <<agent, app, manager, polls, srv, sessions>>

-----------------------------------------------------------------------------
(* The error poll.                                                          *)

\* The RPC ends: with an error of the service or of the connection, or cancelled.
PollEnds(p, how) ==
    /\ polls[p].at = "pending"
    /\ how = "cancelled" => polls[p].asked
    /\ polls' = [polls EXCEPT ![p].at = how]
    /\ UNCHANGED <<agent, app, hb, manager, srv, sessions>>

\* Its callback: TryDeregisterCallback on the manager the agent has now, then the
\* callback of StartPollingForError, which ignores a cancellation.
PollReturns(p) ==
    /\ polls[p].at \in {"error", "cancelled"}
    /\ manager' = IF manager.cancelled THEN manager
                  ELSE [manager EXCEPT !.callbacks[polls[p].token] = 0]
    /\ agent' = IF polls[p].at = "error" THEN SetError(agent) ELSE agent
    /\ polls' = [polls EXCEPT ![p].at = "done"]
    /\ UNCHANGED <<app, hb, srv, sessions>>

-----------------------------------------------------------------------------
(* The specification.                                                       *)

Calls == Initialize \/ Connect \/ WaitForAllTasks \/ ReportError \/ Shutdown \/ Reset

AppSteps ==
    \/ \E heard \in BOOLEAN : RegisterTask(heard)
    \/ ConnectTimesOut
    \/ StartThreads
    \/ \E ok \in BOOLEAN : WaitForAllTasksReturns(ok)
    \/ \E served \in BOOLEAN, code \in {"UNAVAILABLE", "OTHER"} : ErrorReported(served, code)
    \/ \E served, heard \in BOOLEAN : ShutdownTask(served, heard) \/ ResetTask(served, heard)
    \/ StopHeartbeat
    \/ ShutdownReturns
    \/ ResetReturns

HeartbeatSteps ==
    \/ \E answer \in HeartbeatAnswers(srv, agent.incarnation) : Heartbeat(TRUE, answer)
    \/ \E served \in BOOLEAN : Heartbeat(served, "bad")
    \/ JudgeError
    \/ HeartbeatSetsError
    \/ NextHeartbeat

PollSteps ==
    \E p \in Polls : PollReturns(p) \/ \E how \in {"error", "cancelled"} : PollEnds(p, how)

AgentNext ==
    \/ Calls
    \/ AppSteps
    \/ HeartbeatSteps
    \/ PollSteps
    \/ ServiceSeesFailure
    \/ ServiceRestarts
    \/ ProcessRestarts

AgentSpec == AgentInit /\ [][AgentNext]_lifeVars

\* The heartbeat thread runs: its RPCs have a deadline and its waits a timeout.
FairSpec == AgentSpec /\ WF_lifeVars(HeartbeatSteps)

-----------------------------------------------------------------------------
(* Properties.                                                              *)

\* No heartbeat thread outlives its session: an agent that has been shut down or reset
\* has none, so no heartbeat error of the old session reaches it.
HeartbeatsEndWithSession ==
    agent.state = "DISCONNECTED" => hb \in {"none", "exited"}

\* A process is not taken for its own duplicate: once the service has connected it, a
\* registration that it repeats, because the answer was lost or in a later session, does
\* not take the connected task to error, also when the process is not the first one.
NoSelfDuplicate ==
    [][\A heard \in BOOLEAN :
         /\ RegisterTask(heard)
         /\ srv.state = "CONNECTED" /\ agent.incarnation \in srv.known
         => srv'.state = "CONNECTED"]_lifeVars

\* The service has set the task to error, or has restarted and forgotten it.
SessionIsOver == srv.state = "ERROR" \/ srv.leader # agent.leader

\* A connected agent finds out from its heartbeats, with or without error polling, that
\* the service has set the task to error or is not the one it registered with.
FailureIsNoticed ==
    SessionIsOver /\ agent.state = "CONNECTED" /\ app = "idle"
      ~> ~SessionIsOver \/ agent.state # "CONNECTED" \/ app # "idle"
=============================================================================
