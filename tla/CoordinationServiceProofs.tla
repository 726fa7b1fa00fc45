---------------------- MODULE CoordinationServiceProofs ----------------------
(***************************************************************************)
(* Theorems about CoordinationService and AgentBarriers, for any number of  *)
(* tasks and barriers and every configuration.  The first part is about the *)
(* records of the barriers (TypeOK, BarrierBooks), the second, which builds *)
(* on it, about failed tasks, liveness queries, registration and what an OK *)
(* result means, the third about single steps, and the last about the calls *)
(* of the agents (AgentBarriers).                                           *)
(***************************************************************************)
EXTENDS AgentBarriers, FiniteSetTheorems, TLAPS

\* What is left of Book(s, b) while a handler is working on b.
Frame(s, b) ==
    LET x == s.barriers[b] IN
    /\ \A t \in Tasks : b \in s.cluster[t].ongoing => t \in x.tasks
    /\ x.at \subseteq x.tasks
    /\ ~x.named => x.counter = 0 /\ x.pending = 0 /\ x.tasks = {}

\* The inductive invariant, of a service state.
Good(s) == s \in Service /\ \A b \in BarrierIds : Book(s, b)

\* The invariant while a handler is working on the barriers of F.
GoodExcept(s, F) ==
    /\ s \in Service
    /\ \A b \in BarrierIds \ F : Book(s, b)
    /\ \A b \in BarrierIds \cap F : Frame(s, b)

\* The records of a barrier that agree also meet the weaker frame.
LEMMA BookFrame ==
    ASSUME NEW s, NEW b, Book(s, b)
    PROVE  Frame(s, b)
BY DEF Book, Frame

\* A state whose records all agree may be taken with any barriers singled out.
LEMMA GoodIsGoodExcept ==
    ASSUME NEW s, NEW F, Good(s)
    PROVE  GoodExcept(s, F)
BY BookFrame DEF Good, GoodExcept

\* PassBarrier puts in order the records of the barriers it ends and leaves the
\* others as they were.
LEMMA EndBarriersGood ==
    ASSUME NEW s, NEW F \in SUBSET BarrierIds, NEW result \in BarrierCodes,
           GoodExcept(s, F)
    PROVE  Good(EndBarriers(s, F, result))
<1> DEFINE r == EndBarriers(s, F, result)
           bs == [b \in BarrierIds |->
                    IF b \in F
                    THEN [s.barriers[b] EXCEPT !.passed = TRUE, !.result = result,
                                               !.calls = {}]
                    ELSE s.barriers[b]]
           cs == [t \in Tasks |->
                    [s.cluster[t] EXCEPT
                       !.ongoing = @ \ {b \in F : t \in s.barriers[b].tasks}]]
<1>1. s \in Service
  BY DEF GoodExcept
<1>2. ASSUME NEW b \in BarrierIds
      PROVE  s.barriers[b] \in BarrierState
  BY <1>1 DEF Service
<1>3. ASSUME NEW t \in Tasks
      PROVE  s.cluster[t] \in TaskState
  BY <1>1 DEF Service
<1>4. ASSUME NEW b \in F
      PROVE  /\ bs[b] \in BarrierState
             /\ bs[b].passed /\ bs[b].calls = {}
             /\ \A f \in {"named", "counter", "pending", "tasks", "at"} :
                   bs[b][f] = s.barriers[b][f]
  BY <1>2 DEF BarrierState
<1>5. ASSUME NEW b \in BarrierIds \ F
      PROVE  bs[b] = s.barriers[b]
  OBVIOUS
<1>6. ASSUME NEW t \in Tasks
      PROVE  /\ cs[t] \in TaskState
             /\ cs[t].ongoing = s.cluster[t].ongoing \ {b \in F : t \in s.barriers[b].tasks}
  BY <1>3 DEF TaskState
<1>7. bs \in [BarrierIds -> BarrierState] /\ cs \in [Tasks -> TaskState]
  BY <1>2, <1>4, <1>5, <1>6
<1>8. s.ongoing \ F \in SUBSET BarrierIds
  BY <1>1 DEF Service
<1>9. r = [s EXCEPT !.barriers = bs, !.cluster = cs, !.ongoing = s.ongoing \ F]
  BY DEF EndBarriers
<1> HIDE DEF bs, cs, r
<1>10. r \in Service /\ r.barriers = bs /\ r.cluster = cs /\ r.ongoing = s.ongoing \ F
  BY <1>1, <1>7, <1>8, <1>9 DEF Service
<1>11. ASSUME NEW b \in F
       PROVE  Book(r, b)
  <2>1. Frame(s, b)
    BY DEF GoodExcept
  <2> QED
    BY <1>2, <1>4, <1>6, <1>10, <2>1 DEF Frame, Book, BarrierState
<1>12. ASSUME NEW b \in BarrierIds \ F
       PROVE  Book(r, b)
  <2>1. Book(s, b)
    BY DEF GoodExcept
  <2> QED
    BY <1>5, <1>6, <1>10, <2>1 DEF Book
<1> QED
  BY <1>10, <1>11, <1>12 DEF Good, r

\* A service state that differs from s only in what Book does not look at.
Similar(r, s) ==
    /\ r \in Service
    /\ r.barriers = s.barriers
    /\ r.ongoing = s.ongoing
    /\ \A t \in Tasks : r.cluster[t].ongoing = s.cluster[t].ongoing

\* Changing what the records of the barriers do not mention keeps them in agreement.
LEMMA SimilarGood ==
    ASSUME NEW s, NEW r, NEW F, Similar(r, s)
    PROVE  /\ Good(s) => Good(r)
           /\ GoodExcept(s, F) => GoodExcept(r, F)
BY DEF Similar, Good, GoodExcept, Book, Frame

\* Updating the tasks, but not the barriers they are in, leaves the records alone.
LEMMA TaskUpdateSimilar ==
    ASSUME NEW s \in Service, NEW cs \in [Tasks -> TaskState],
           \A t \in Tasks : cs[t].ongoing = s.cluster[t].ongoing
    PROVE  Similar([s EXCEPT !.cluster = cs], s)
BY DEF Similar, Service

\* RefreshAliveness does not touch the records of the barriers.
LEMMA RefreshAlivenessSimilar ==
    ASSUME NEW s \in Service
    PROVE  Similar(RefreshAliveness(s), s)
<1> DEFINE a == {x \in s.aliveness : ~(AliveTasks(s, x.tasks) \subseteq x.in_barrier)}
<1>1. a \in SUBSET AlivenessState
  BY DEF Service
<1>2. RefreshAliveness(s) = [s EXCEPT !.aliveness = a]
  BY DEF RefreshAliveness
<1> HIDE DEF a
<1> QED
  BY <1>1, <1>2 DEF Similar, Service

\* SendErrorPollingResponse does not touch the records of the barriers.
LEMMA SendErrorPollingResponseSimilar ==
    ASSUME NEW s \in Service
    PROVE  Similar(SendErrorPollingResponse(s), s)
BY DEF SendErrorPollingResponse, Similar, Service

\* Cardinality of the tasks a barrier still waits for after `leaving` have left.
LEMMA LeavingCount ==
    ASSUME NEW tasks \in SUBSET Tasks, NEW at \in SUBSET tasks,
           NEW leaving \in SUBSET Tasks
    PROVE  /\ Cardinality(leaving \cap at) \in Nat
           /\ Cardinality(tasks \ (at \ leaving)) =
                Cardinality(tasks \ at) + Cardinality(leaving \cap at)
<1> DEFINE A == tasks \ at
           B == leaving \cap at
<1>1. IsFiniteSet(A) /\ IsFiniteSet(B)
  BY TasksAssumption, FS_Subset
<1>2. A \cap B = {} /\ tasks \ (at \ leaving) = A \cup B
  OBVIOUS
<1> HIDE DEF A, B
<1>3. Cardinality(A \cup B) = Cardinality(A) + Cardinality(B) - Cardinality(A \cap B)
  BY <1>1, FS_Union
<1>4. Cardinality(A \cap B) = 0
  BY <1>2, FS_EmptySet
<1>5. Cardinality(A) \in Nat /\ Cardinality(B) \in Nat
  BY <1>1, FS_CardinalityType
<1>6. Cardinality(A \cup B) = Cardinality(A) + Cardinality(B)
  BY <1>3, <1>4, <1>5
<1> QED
  BY <1>2, <1>5, <1>6 DEF A, B

\* LeaveOngoingBarriers of recoverable tasks keeps the records in agreement: the
\* tasks that come off tasks_at_barrier are added to num_pending_tasks.
LEMMA LeaveRecoverableGood ==
    ASSUME NEW s, NEW R \in SUBSET Tasks, Good(s)
    PROVE  /\ Good(LeaveRecoverable(s, R))
           /\ LeaveRecoverable(s, R).cluster = s.cluster
<1> DEFINE r == LeaveRecoverable(s, R)
           leaving(b) == {t \in R : b \in s.cluster[t].ongoing}
           n(b) == Cardinality(leaving(b) \cap s.barriers[b].at)
           y(b) == LET x == s.barriers[b] IN
                   [x EXCEPT
                      !.calls = @ \ leaving(b),
                      !.restarted = IF LeaveOnRestart THEN @ \cup (leaving(b) \cap x.tasks)
                                    ELSE @,
                      !.at = IF LeaveOnRestart THEN @ ELSE @ \ leaving(b),
                      !.pending = IF LeaveOnRestart THEN @
                                  ELSE @ + Cardinality(leaving(b) \cap x.at)]
           bs == [b \in BarrierIds |-> y(b)]
<1>1. s \in Service /\ \A b \in BarrierIds : Book(s, b)
  BY DEF Good
<1>2. ASSUME NEW b \in BarrierIds
      PROVE  /\ s.barriers[b] \in BarrierState
             /\ s.barriers[b].at \in SUBSET s.barriers[b].tasks
             /\ s.barriers[b].tasks \in SUBSET Tasks
             /\ leaving(b) \in SUBSET Tasks
  BY <1>1 DEF Service, BarrierState, Book
<1>3. ASSUME NEW b \in BarrierIds
      PROVE  /\ n(b) \in Nat
             /\ Cardinality(s.barriers[b].tasks \ (s.barriers[b].at \ leaving(b))) =
                  Cardinality(s.barriers[b].tasks \ s.barriers[b].at) + n(b)
  <2> HIDE DEF leaving
  <2> QED
    BY <1>2, LeavingCount
<1>4. ASSUME NEW b \in BarrierIds
      PROVE  /\ y(b) \in BarrierState
             /\ y(b).calls = s.barriers[b].calls \ leaving(b)
             /\ \A f \in {"named", "counter", "passed", "tasks", "result"} :
                   y(b)[f] = s.barriers[b][f]
             /\ LeaveOnRestart => /\ y(b).at = s.barriers[b].at
                                  /\ y(b).pending = s.barriers[b].pending
             /\ ~LeaveOnRestart =>
                  /\ y(b).at = s.barriers[b].at \ leaving(b)
                  /\ y(b).pending = s.barriers[b].pending + n(b)
  <2> DEFINE x == s.barriers[b]
             cl == x.calls \ leaving(b)
             rs == IF LeaveOnRestart THEN x.restarted \cup (leaving(b) \cap x.tasks)
                   ELSE x.restarted
             at == IF LeaveOnRestart THEN x.at ELSE x.at \ leaving(b)
             pd == IF LeaveOnRestart THEN x.pending
                   ELSE x.pending + n(b)
  <2>1. y(b) = [x EXCEPT !.calls = cl, !.restarted = rs, !.at = at, !.pending = pd]
    OBVIOUS
  <2>2. /\ x \in BarrierState /\ cl \in SUBSET Tasks /\ rs \in SUBSET Tasks
        /\ at \in SUBSET Tasks
    BY <1>2 DEF BarrierState
  <2>3. pd \in Int
    <3>1. n(b) \in Nat
      BY <1>3
    <3>2. x.pending \in Int
      BY <1>2 DEF BarrierState
    <3> HIDE DEF n, x
    <3> QED
      BY <3>1, <3>2
  <2>4. /\ LeaveOnRestart => at = x.at /\ pd = x.pending
        /\ ~LeaveOnRestart => /\ at = x.at \ leaving(b)
                              /\ pd = x.pending + n(b)
        /\ cl = x.calls \ leaving(b)
    OBVIOUS
  <2> HIDE DEF y, x, cl, rs, at, pd, leaving, n
  <2>5. /\ y(b) \in BarrierState /\ y(b).calls = cl /\ y(b).at = at /\ y(b).pending = pd
        /\ \A f \in {"named", "counter", "passed", "tasks", "result"} : y(b)[f] = x[f]
    BY <2>1, <2>2, <2>3 DEF BarrierState
  <2> QED
    BY <2>4, <2>5 DEF x
<1>5. r = [s EXCEPT !.barriers = bs]
  BY DEF LeaveRecoverable
<1>6. bs \in [BarrierIds -> BarrierState] /\ \A b \in BarrierIds : bs[b] = y(b)
  <2> HIDE DEF y
  <2> QED
    BY <1>4
<1> HIDE DEF bs, y, r
<1>7. r \in Service /\ r.barriers = bs /\ r.cluster = s.cluster /\ r.ongoing = s.ongoing
  BY <1>1, <1>5, <1>6 DEF Service
<1>8. ASSUME NEW b \in BarrierIds
      PROVE  Book(r, b)
  <2>1. Book(s, b)
    BY <1>1
  <2>2. r.barriers[b] = y(b)
    BY <1>6, <1>7
  <2>3. b \notin s.ongoing => leaving(b) = {}
    BY <2>1, <1>1 DEF Book
  <2> HIDE DEF leaving
  <2>4. CASE LeaveOnRestart
    <3>1. /\ y(b).calls \subseteq s.barriers[b].calls
          /\ y(b).at = s.barriers[b].at /\ y(b).pending = s.barriers[b].pending
          /\ y(b).named = s.barriers[b].named /\ y(b).counter = s.barriers[b].counter
          /\ y(b).passed = s.barriers[b].passed /\ y(b).tasks = s.barriers[b].tasks
      BY <1>4, <2>4
    <3> QED
      BY <1>7, <2>1, <2>2, <3>1 DEF Book
  <2>5. CASE ~LeaveOnRestart /\ b \in s.ongoing
    <3> HIDE DEF n
    <3>1. /\ y(b).calls = s.barriers[b].calls \ leaving(b)
          /\ y(b).at = s.barriers[b].at \ leaving(b)
          /\ y(b).pending = s.barriers[b].pending + n(b)
          /\ y(b).named = s.barriers[b].named /\ y(b).counter = s.barriers[b].counter
          /\ y(b).passed = s.barriers[b].passed /\ y(b).tasks = s.barriers[b].tasks
      BY <1>4, <2>5
    <3>2. s.barriers[b].pending = Cardinality(s.barriers[b].tasks \ s.barriers[b].at)
      BY <2>1, <2>5 DEF Book
    <3>3. y(b).pending = Cardinality(y(b).tasks \ y(b).at)
      BY <1>3, <3>1, <3>2
    <3>4. y(b).tasks # y(b).at /\ y(b).calls \subseteq y(b).at /\ y(b).at \subseteq y(b).tasks
      BY <2>1, <2>5, <3>1 DEF Book
    <3> QED
      BY <1>7, <2>1, <2>2, <2>5, <3>1, <3>3, <3>4 DEF Book
  <2>6. CASE ~LeaveOnRestart /\ b \notin s.ongoing
    <3>1. y(b).at = s.barriers[b].at /\ y(b).calls = s.barriers[b].calls
      BY <1>4, <2>3, <2>6
    <3>2. y(b).pending = s.barriers[b].pending
      <4>1. leaving(b) \cap s.barriers[b].at = {}
        BY <2>3, <2>6
      <4>2. n(b) = 0
        BY <4>1, FS_EmptySet
      <4>3. s.barriers[b].pending \in Int
        BY <1>2 DEF BarrierState
      <4> HIDE DEF n
      <4>4. y(b).pending = s.barriers[b].pending + n(b)
        BY <1>4, <2>6
      <4> QED
        BY <4>2, <4>3, <4>4
    <3> QED
      BY <1>4, <1>7, <2>1, <2>2, <3>1, <3>2, <2>6 DEF Book
  <2> QED
    BY <2>4, <2>5, <2>6
<1> QED
  BY <1>7, <1>8 DEF Good, r

\* LeaveOngoingBarriers keeps the records in agreement.
LEMMA LeaveOngoingBarriersGood ==
    ASSUME NEW s, NEW E \in SUBSET Tasks, Good(s)
    PROVE  Good(LeaveOngoingBarriers(s, E))
<1> DEFINE R == E \ NonRecoverable(s)
<1>1. R \in SUBSET Tasks
  OBVIOUS
<1>2. Failing(s, E) \in SUBSET BarrierIds
  BY DEF Good, Service, TaskState, Failing, NonRecoverable
<1>3. Good(LeaveRecoverable(s, R))
  BY <1>1, LeaveRecoverableGood
<1> HIDE DEF R
<1>4. Good(EndBarriers(LeaveRecoverable(s, R), Failing(s, E), "INTERNAL"))
  BY <1>2, <1>3, GoodIsGoodExcept, EndBarriersGood DEF BarrierCodes
<1> QED
  BY <1>4 DEF LeaveOngoingBarriers, R

\* Setting any tasks to error keeps the records in agreement.
LEMMA ErrorWaveGood ==
    ASSUME NEW s, NEW E \in SUBSET Tasks, NEW code \in TaskCodes, Good(s)
    PROVE  Good(ErrorWave(s, E, code))
<1> DEFINE failed == E \ InState(s, "ERROR")
           cs == [t \in Tasks |->
                    IF t \in failed
                    THEN [s.cluster[t] EXCEPT !.state = "ERROR", !.status = code]
                    ELSE s.cluster[t]]
           marked == [s EXCEPT !.cluster = cs]
           left == LeaveOngoingBarriers(marked, failed)
<1>1. s \in Service /\ \A t \in Tasks : s.cluster[t] \in TaskState
  BY DEF Good, Service
<1>2. cs \in [Tasks -> TaskState] /\ \A t \in Tasks : cs[t].ongoing = s.cluster[t].ongoing
  BY <1>1 DEF TaskState
<1>3. failed \in SUBSET Tasks
  OBVIOUS
<1>4. ErrorWave(s, E, code) = RefreshAliveness(left)
  BY DEF ErrorWave
<1> HIDE DEF cs, failed
<1>5. Good(marked)
  BY <1>1, <1>2, TaskUpdateSimilar, SimilarGood
<1> HIDE DEF marked
<1>6. Good(left)
  BY <1>3, <1>5, LeaveOngoingBarriersGood
<1> HIDE DEF left
<1> QED
  BY <1>4, <1>6, RefreshAlivenessSimilar, SimilarGood DEF Good

\* The hooks run after a failed register or shutdown barrier keep the records in
\* agreement.
LEMMA AfterFailureGood ==
    ASSUME NEW s, NEW F, Good(s)
    PROVE  Good(AfterFailure(s, F))
<1> DEFINE wave == ErrorWave(s, Tasks, "OTHER")
<1>1. Good(wave)
  BY ErrorWaveGood DEF TaskCodes
<1> HIDE DEF wave
<1>2. Good(TellShutdownError(wave))
  BY <1>1, SendErrorPollingResponseSimilar, SimilarGood DEF TellShutdownError, Good
<1> QED
  BY <1>1, <1>2 DEF AfterFailure, wave

\* SetTaskError keeps the records in agreement.
LEMMA SetTaskErrorGood ==
    ASSUME NEW s, NEW E \in SUBSET Tasks, NEW code \in TaskCodes, Good(s)
    PROVE  Good(SetTaskError(s, E, code))
BY ErrorWaveGood, AfterFailureGood DEF SetTaskError

\* PropagateError keeps the records in agreement.
LEMMA PropagateErrorGood ==
    ASSUME NEW s, NEW E, Good(s)
    PROVE  Good(PropagateError(s, E))
<1>1. Good(SendErrorPollingResponse(s))
  BY SendErrorPollingResponseSimilar, SimilarGood DEF Good
<1>2. Good(SetTaskError(s, Tasks, "OTHER"))
  BY SetTaskErrorGood DEF TaskCodes
<1> QED
  BY <1>1, <1>2 DEF PropagateError

\* The error path of the handlers keeps the records in agreement.
LEMMA FailTasksGood ==
    ASSUME NEW s, NEW E \in SUBSET Tasks, NEW code \in TaskCodes, Good(s)
    PROVE  Good(FailTasks(s, E, code))
BY SetTaskErrorGood, PropagateErrorGood DEF FailTasks

\* DisconnectTask keeps the records in agreement.
LEMMA DisconnectTasksGood ==
    ASSUME NEW s, NEW D \in SUBSET Tasks, Good(s)
    PROVE  Good(DisconnectTasks(s, D))
<1> DEFINE gone == D \ InState(s, "DISCONNECTED")
           cs == [t \in Tasks |->
                    IF t \in gone
                    THEN [s.cluster[t] EXCEPT !.state = "DISCONNECTED",
                                              !.status = "OK", !.grace = TRUE]
                    ELSE s.cluster[t]]
           marked == [s EXCEPT !.cluster = cs]
           left == AfterFailure(LeaveOngoingBarriers(marked, gone), Failing(s, gone))
           fresh == RefreshAliveness(left)
<1>1. s \in Service /\ \A t \in Tasks : s.cluster[t] \in TaskState
  BY DEF Good, Service
<1>2. cs \in [Tasks -> TaskState] /\ \A t \in Tasks : cs[t].ongoing = s.cluster[t].ongoing
  BY <1>1 DEF TaskState, TaskCodes
<1>3. gone \in SUBSET Tasks
  OBVIOUS
<1>4. DisconnectTasks(s, D) = [fresh EXCEPT !.polls = @ \ gone]
  BY DEF DisconnectTasks
<1> HIDE DEF cs, gone
<1>5. Good(marked)
  BY <1>1, <1>2, TaskUpdateSimilar, SimilarGood
<1> HIDE DEF marked
<1>6. Good(left)
  BY <1>3, <1>5, LeaveOngoingBarriersGood, AfterFailureGood
<1> HIDE DEF left
<1>7. Good(fresh)
  BY <1>6, RefreshAlivenessSimilar, SimilarGood DEF Good
<1> HIDE DEF fresh
<1>8. Similar([fresh EXCEPT !.polls = @ \ gone], fresh)
  BY <1>7 DEF Similar, Good, Service
<1> QED
  BY <1>4, <1>7, <1>8, SimilarGood

\* Connecting tasks keeps the records in agreement.
LEMMA ConnectTasksGood ==
    ASSUME NEW s, NEW C, Good(s)
    PROVE  Good(ConnectTasks(s, C))
<1> DEFINE cs == [t \in Tasks |->
                    IF t \in C
                    THEN [s.cluster[t] EXCEPT !.state = "CONNECTED", !.status = "OK"]
                    ELSE s.cluster[t]]
<1>1. s \in Service /\ \A t \in Tasks : s.cluster[t] \in TaskState
  BY DEF Good, Service
<1>2. cs \in [Tasks -> TaskState] /\ \A t \in Tasks : cs[t].ongoing = s.cluster[t].ongoing
  BY <1>1 DEF TaskState, TaskCodes
<1>3. ConnectTasks(s, C) = [s EXCEPT !.cluster = cs]
  BY DEF ConnectTasks
<1> HIDE DEF cs
<1> QED
  BY <1>1, <1>2, <1>3, TaskUpdateSimilar, SimilarGood

\* PassBarrier(b, OK) brings the records into agreement.
LEMMA PassBarrierOkGood ==
    ASSUME NEW s, NEW b \in BarrierIds, GoodExcept(s, {b})
    PROVE  Good(PassBarrierOk(s, b))
<1> DEFINE ended == EndBarriers(s, {b}, "OK")
<1>1. Good(ended)
  BY EndBarriersGood DEF BarrierCodes
<1> HIDE DEF ended
<1>2. Good(ConnectAfterBarrierPasses(ended, s.barriers[b].calls))
  BY <1>1, ConnectTasksGood DEF ConnectAfterBarrierPasses
<1>3. NonRecoverable(s) \in SUBSET Tasks
  BY DEF NonRecoverable
<1>4. Good(DisconnectTasks(ended, NonRecoverable(s)))
  BY <1>1, <1>3, DisconnectTasksGood
<1> QED
  BY <1>1, <1>2, <1>4 DEF PassBarrierOk, ended

\* PassBarrier(b, error) brings the records into agreement.
LEMMA PassBarrierErrorGood ==
    ASSUME NEW s, NEW b \in BarrierIds, NEW result \in BarrierCodes, GoodExcept(s, {b})
    PROVE  Good(PassBarrierError(s, b, result))
BY EndBarriersGood, AfterFailureGood DEF PassBarrierError

\* r is s with y for the state of barrier b.
Replaces(r, s, b, y) ==
    /\ r \in Service
    /\ r.ongoing = s.ongoing
    /\ r.cluster = s.cluster
    /\ r.aliveness = s.aliveness
    /\ r.captured = s.captured
    /\ r.barriers[b] = y
    /\ \A c \in BarrierIds \ {b} : r.barriers[c] = s.barriers[c]

\* When only the state of b is replaced, only the records of b need a second look.
LEMMA ReplacesGood ==
    ASSUME NEW s, NEW r, NEW b \in BarrierIds, NEW y, Replaces(r, s, b, y), Good(s)
    PROVE  /\ Frame(r, b) => GoodExcept(r, {b})
           /\ Book(r, b) => Good(r)
<1>1. \A c \in BarrierIds \ {b} : Book(r, c)
  BY DEF Replaces, Good, Book
<1> QED
  BY <1>1 DEF Replaces, Good, GoodExcept

\* AddBarrierCallback changes the state of its barrier and nothing else.
LEMMA AddBarrierCallbackReplaces ==
    ASSUME NEW s \in Service, NEW t \in Tasks, NEW b \in BarrierIds
    PROVE  Replaces(AddBarrierCallback(s, t, b), s, b,
                    [s.barriers[b] EXCEPT !.calls = @ \cup {t}])
<1> DEFINE y == [s.barriers[b] EXCEPT !.calls = @ \cup {t}]
           bs == [s.barriers EXCEPT ![b] = y]
<1>1. s.barriers \in [BarrierIds -> BarrierState] /\ s.barriers[b] \in BarrierState
  BY DEF Service
<1>2. y \in BarrierState
  BY <1>1 DEF BarrierState
<1>3. AddBarrierCallback(s, t, b) = [s EXCEPT !.barriers = bs]
  BY <1>1 DEF AddBarrierCallback, Service, BarrierState
<1> HIDE DEF y
<1>4. bs \in [BarrierIds -> BarrierState] /\ bs[b] = y
      /\ \A c \in BarrierIds \ {b} : bs[c] = s.barriers[c]
  BY <1>1, <1>2
<1> HIDE DEF bs
<1>5. Replaces([s EXCEPT !.barriers = bs], s, b, y)
  BY <1>4 DEF Replaces, Service
<1> QED
  BY <1>3, <1>5 DEF y

\* After AddBarrierCallback the records agree but for those of the barrier called.
LEMMA AddBarrierCallbackGood ==
    ASSUME NEW s, NEW t \in Tasks, NEW b \in BarrierIds, Good(s)
    PROVE  GoodExcept(AddBarrierCallback(s, t, b), {b})
<1> DEFINE r == AddBarrierCallback(s, t, b)
           y == [s.barriers[b] EXCEPT !.calls = @ \cup {t}]
<1>1. s \in Service /\ s.barriers[b] \in BarrierState /\ Book(s, b)
  BY DEF Good, Service
<1>2. Replaces(r, s, b, y)
  BY <1>1, AddBarrierCallbackReplaces
<1>3. \A f \in {"named", "counter", "pending", "tasks", "at"} : y[f] = s.barriers[b][f]
  BY <1>1 DEF BarrierState
<1> HIDE DEF y, r
<1>4. Frame(r, b)
  BY <1>1, <1>2, <1>3 DEF Replaces, Book, Frame
<1> QED
  BY <1>2, <1>4, ReplacesGood DEF r

\* The tasks a barrier still waits for after t has arrived are one fewer, and none
\* are left exactly if t was the only one.
LEMMA ArrivalCount ==
    ASSUME NEW tasks \in SUBSET Tasks, NEW at \in SUBSET tasks, NEW t \in tasks \ at
    PROVE  /\ Cardinality(tasks \ at) \in Nat
           /\ Cardinality(tasks \ (at \cup {t})) = Cardinality(tasks \ at) - 1
           /\ tasks = at \cup {t} => Cardinality(tasks \ at) = 1
<1> DEFINE A == tasks \ at
<1>1. IsFiniteSet(A) /\ t \in A
  BY TasksAssumption, FS_Subset
<1>2. tasks \ (at \cup {t}) = A \ {t}
  OBVIOUS
<1>3. tasks = at \cup {t} => A \ {t} = {}
  OBVIOUS
<1> HIDE DEF A
<1>4. Cardinality(A) \in Nat /\ Cardinality(A \ {t}) = Cardinality(A) - 1
  BY <1>1, FS_CardinalityType, FS_RemoveElement
<1>5. A \ {t} = {} => Cardinality(A \ {t}) = 0
  BY FS_EmptySet
<1>6. A \ {t} = {} => Cardinality(A) = 1
  BY <1>4, <1>5
<1> QED
  BY <1>2, <1>3, <1>4, <1>6 DEF A

\* A participant's call to an ongoing barrier keeps the records in agreement,
\* whether it is a repeated call, one of several or the last.
LEMMA ReachBarrierGood ==
    ASSUME NEW s, NEW t \in Tasks, NEW b \in BarrierIds, Good(s),
           b \in s.ongoing, t \in s.barriers[b].tasks
    PROVE  Good(ReachBarrier(AddBarrierCallback(s, t, b), t, b))
<1> DEFINE r == AddBarrierCallback(s, t, b)
           x == s.barriers[b]
           y == [x EXCEPT !.calls = @ \cup {t}]
           z == [y EXCEPT !.at = @ \cup {t}, !.pending = @ - 1]
           bs == [r.barriers EXCEPT ![b] = z]
           arrived == [r EXCEPT !.barriers = bs]
           synced == [arrived EXCEPT !.unsynced = @ \ y.tasks]
<1>1. s \in Service /\ x \in BarrierState /\ Book(s, b)
  BY DEF Good, Service
<1>2. Replaces(r, s, b, y)
  BY <1>1, AddBarrierCallbackReplaces
<1>3. /\ y \in BarrierState
      /\ y.calls = x.calls \cup {t}
      /\ \A f \in {"named", "counter", "passed", "pending", "tasks", "at"} : y[f] = x[f]
  BY <1>1 DEF BarrierState
<1>4. /\ z \in BarrierState
      /\ z.calls = y.calls /\ z.at = y.at \cup {t} /\ z.pending = y.pending - 1
      /\ \A f \in {"named", "counter", "passed", "tasks"} : z[f] = y[f]
  <2> DEFINE at == y.at \cup {t}
             pd == y.pending - 1
  <2> HIDE DEF y
  <2>1. at \in SUBSET Tasks /\ pd \in Int
    BY <1>3 DEF BarrierState
  <2>2. z = [y EXCEPT !.at = at, !.pending = pd]
    BY DEF z
  <2> HIDE DEF at, pd, z
  <2>3. /\ z \in BarrierState /\ z.calls = y.calls /\ z.at = at /\ z.pending = pd
        /\ \A f \in {"named", "counter", "passed", "tasks"} : z[f] = y[f]
    BY <1>3, <2>1, <2>2 DEF BarrierState
  <2> QED
    BY <2>3 DEF at, pd
<1>5. r \in Service /\ r.barriers \in [BarrierIds -> BarrierState] /\ r.barriers[b] = y
  BY <1>2 DEF Replaces, Service
<1>6. ReachBarrier(r, t, b) = IF t \in y.at THEN r
                              ELSE IF y.pending # 1 THEN arrived
                              ELSE PassBarrierOk(synced, b)
  BY <1>5 DEF ReachBarrier, Service, BarrierState
<1> HIDE DEF z, y
<1>7. /\ bs \in [BarrierIds -> BarrierState] /\ bs[b] = z
      /\ \A c \in BarrierIds \ {b} : bs[c] = r.barriers[c]
  BY <1>4, <1>5
<1> HIDE DEF bs, r
<1>8. Replaces(arrived, s, b, z)
  BY <1>2, <1>5, <1>7 DEF Replaces, Service
<1>9. /\ x.at \in SUBSET x.tasks /\ x.tasks \in SUBSET Tasks
      /\ x.pending = Cardinality(x.tasks \ x.at)
  BY <1>1 DEF Book, BarrierState
<1>10. CASE t \in y.at
  <2>1. r.ongoing = s.ongoing /\ r.cluster = s.cluster /\ r.barriers[b] = y
    BY <1>2 DEF Replaces
  <2>2. /\ y.named = x.named /\ y.counter = x.counter /\ y.passed = x.passed
        /\ y.pending = x.pending /\ y.tasks = x.tasks /\ y.at = x.at
        /\ y.calls = x.calls \cup {t} /\ t \in x.at
    BY <1>3, <1>10
  <2>3. Book(r, b)
    BY <1>1, <2>1, <2>2 DEF Book
  <2> QED
    BY <1>2, <1>6, <1>10, <2>3, ReplacesGood DEF r
<1>11. ASSUME t \notin y.at
       PROVE  /\ z.pending = Cardinality(z.tasks \ z.at)
              /\ z.at \subseteq z.tasks
              /\ y.pending # 1 => z.tasks # z.at
  <2>1. t \in x.tasks \ x.at
    BY <1>3, <1>11
  <2> HIDE DEF x
  <2>2. /\ Cardinality(x.tasks \ (x.at \cup {t})) = x.pending - 1
        /\ x.tasks = x.at \cup {t} => x.pending = 1
    BY <1>9, <2>1, ArrivalCount
  <2>3. z.tasks = x.tasks /\ z.at = x.at \cup {t} /\ z.pending = x.pending - 1
        /\ y.pending = x.pending
    BY <1>3, <1>4
  <2> QED
    BY <1>9, <2>1, <2>2, <2>3
<1> HIDE DEF arrived
<1>12. CASE t \notin y.at /\ y.pending # 1
  <2>1. Book(arrived, b)
    BY <1>1, <1>3, <1>4, <1>8, <1>11, <1>12 DEF Replaces, Book
  <2> QED
    BY <1>6, <1>8, <1>12, <2>1, ReplacesGood DEF r
<1>13. CASE t \notin y.at /\ y.pending = 1
  <2>1. Frame(arrived, b)
    BY <1>1, <1>3, <1>4, <1>8, <1>11, <1>13 DEF Replaces, Book, Frame
  <2>2. GoodExcept(arrived, {b})
    BY <1>8, <2>1, ReplacesGood
  <2>3. Similar(synced, arrived)
    BY <1>8 DEF Replaces, Similar, Service
  <2>4. GoodExcept(synced, {b})
    BY <2>2, <2>3, SimilarGood
  <2> HIDE DEF synced
  <2> QED
    BY <1>6, <1>13, <2>4, PassBarrierOkGood DEF r
<1> QED
  BY <1>10, <1>12, <1>13 DEF r

\* The participants of a new instance are configured tasks, and there are some
\* unless the call named an unknown task.
LEMMA InitializeTasksAtBarrierMembers ==
    ASSUME NEW x \in BarrierState, NEW args \in SUBSET (Tasks \cup {Stranger}),
           NEW before \in SUBSET Tasks, Tasks # {}
    PROVE  /\ InitializeTasksAtBarrier(x, args, before) \in SUBSET Tasks
           /\ ~(x.tasks = {} /\ Stranger \in args) =>
                 InitializeTasksAtBarrier(x, args, before) # {}
<1>1. x.tasks \in SUBSET Tasks
  BY DEF BarrierState
<1> QED
  BY <1>1 DEF InitializeTasksAtBarrier

\* What InitializeBarrier makes of barrier b before it decides whether the new
\* instance can begin.
IsFresh(fresh, s, b, counter, members) ==
    LET z == fresh.barriers[b] IN
    /\ Replaces(fresh, s, b, z)
    /\ GoodExcept(fresh, {b})
    /\ z.named /\ ~z.passed /\ z.result = "UNKNOWN" /\ z.counter = counter
    /\ z.calls = {} /\ z.at = {} /\ z.tasks = members

\* The new instance of b has begun: b is in the books of the service and its members.
HasBegun(ready, fresh, s, b, members) ==
    /\ ready \in Service
    /\ ready.barriers = fresh.barriers
    /\ ready.ongoing = s.ongoing \cup {b}
    /\ ready.aliveness = s.aliveness
    /\ ready.captured = s.captured
    /\ \A t \in Tasks :
         /\ ready.cluster[t].ongoing = IF t \in members THEN s.cluster[t].ongoing \cup {b}
                                       ELSE s.cluster[t].ongoing
         /\ \A f \in {"state", "status", "recoverable", "incarnation"} :
              ready.cluster[t][f] = s.cluster[t][f]

\* InitializeBarrier sets up a fresh instance, which fails at once or begins.
LEMMA InitializeBarrierForm ==
    ASSUME NEW s, NEW b \in BarrierIds, NEW counter \in Counters,
           NEW args \in SUBSET (Tasks \cup {Stranger}), NEW before \in SUBSET Tasks,
           Tasks # {}, Good(s), b \notin s.ongoing
    PROVE  LET x == s.barriers[b]
               members == InitializeTasksAtBarrier(x, args, before)
               unknown == x.tasks = {} /\ Stranger \in args
               broken == members \cap NonRecoverable(s) \cap InState(s, "ERROR")
               result == InitializeBarrier(s, b, counter, args, before)
           IN /\ members \in SUBSET Tasks
              /\ \E fresh :
                   /\ IsFresh(fresh, s, b, counter, members)
                   /\ \/ unknown /\ result = PassBarrierError(fresh, b, "INVALID_ARGUMENT")
                      \/ broken # {} /\ result = PassBarrierError(fresh, b, "INTERNAL")
                      \/ /\ broken = {} /\ members # {}
                         /\ fresh.barriers[b].pending = Cardinality(members)
                         /\ HasBegun(result, fresh, s, b, members)
<1> DEFINE x == s.barriers[b]
           members == InitializeTasksAtBarrier(x, args, before)
           unknown == x.tasks = {} /\ Stranger \in args
           pd == IF unknown THEN x.pending ELSE Cardinality(members)
           z == [x EXCEPT !.named = TRUE, !.counter = counter, !.passed = FALSE,
                          !.result = "UNKNOWN", !.calls = {}, !.tasks = members,
                          !.at = {}, !.pending = pd]
           bs == [s.barriers EXCEPT ![b] = z]
           fresh == [s EXCEPT !.barriers = bs]
           broken == members \cap NonRecoverable(s) \cap InState(s, "ERROR")
           cs == [t \in Tasks |->
                    IF t \in members THEN [s.cluster[t] EXCEPT !.ongoing = @ \cup {b}]
                    ELSE s.cluster[t]]
           og == s.ongoing \cup {b}
           ready == [fresh EXCEPT !.ongoing = og, !.cluster = cs]
           result == InitializeBarrier(s, b, counter, args, before)
<1>1. /\ s \in Service /\ s.barriers \in [BarrierIds -> BarrierState]
      /\ x \in BarrierState /\ Book(s, b)
  BY DEF Good, Service
<1>2. members \in SUBSET Tasks /\ (~unknown => members # {})
  BY <1>1, InitializeTasksAtBarrierMembers
<1>3. result = IF unknown THEN PassBarrierError(fresh, b, "INVALID_ARGUMENT")
               ELSE IF broken # {} THEN PassBarrierError(fresh, b, "INTERNAL")
               ELSE ready
  <2> HIDE DEF InitializeTasksAtBarrier, NonRecoverable, InState
  <2>1. /\ s.barriers[b] = x /\ s.barriers[b].pending = x.pending
        /\ fresh.ongoing = s.ongoing
    BY <1>1 DEF Service
  <2> QED
    BY <1>1, <2>1 DEF InitializeBarrier, Service
<1>4. pd \in Int /\ (~unknown => pd = Cardinality(members))
  <2>1. IsFiniteSet(members)
    BY <1>2, TasksAssumption, FS_Subset
  <2> HIDE DEF members, unknown
  <2>2. Cardinality(members) \in Nat
    BY <2>1, FS_CardinalityType
  <2>3. x.pending \in Int
    BY <1>1 DEF BarrierState
  <2> HIDE DEF x
  <2> QED
    BY <2>2, <2>3
<1> HIDE DEF pd, members, unknown
<1>5. /\ z \in BarrierState
      /\ z.named /\ ~z.passed /\ z.calls = {} /\ z.at = {} /\ z.tasks = members
      /\ z.pending = pd /\ z.result = "UNKNOWN" /\ z.counter = counter
  <2> HIDE DEF x
  <2> QED
    BY <1>1, <1>2, <1>4 DEF BarrierState, BarrierCodes
<1> HIDE DEF z
<1>6. /\ bs \in [BarrierIds -> BarrierState] /\ bs[b] = z
      /\ \A c \in BarrierIds \ {b} : bs[c] = s.barriers[c]
  BY <1>1, <1>5
<1> HIDE DEF bs
<1>7. Replaces(fresh, s, b, z) /\ fresh.barriers[b] = z /\ fresh.barriers = bs
  BY <1>1, <1>6 DEF Replaces, Service
<1>8. \A t \in Tasks : b \notin s.cluster[t].ongoing
  BY <1>1 DEF Book
<1>9. IsFresh(fresh, s, b, counter, members)
  <2>1. Frame(fresh, b)
    BY <1>5, <1>7, <1>8 DEF Frame, Replaces
  <2>2. GoodExcept(fresh, {b})
    BY <1>7, <2>1, ReplacesGood
  <2> HIDE DEF fresh
  <2> QED
    BY <1>5, <1>7, <2>2 DEF IsFresh
<1>10. HasBegun(ready, fresh, s, b, members)
  <2>2. \A t \in Tasks : s.cluster[t] \in TaskState
    BY <1>1 DEF Service
  <2>3. /\ cs \in [Tasks -> TaskState]
        /\ \A t \in Tasks :
             /\ cs[t].ongoing = IF t \in members THEN s.cluster[t].ongoing \cup {b}
                                ELSE s.cluster[t].ongoing
             /\ \A f \in {"state", "status", "recoverable", "incarnation"} :
                  cs[t][f] = s.cluster[t][f]
    BY <2>2 DEF TaskState
  <2>4. og \in SUBSET BarrierIds
    BY <1>1 DEF Service
  <2> HIDE DEF cs
  <2>5. /\ ready \in Service /\ ready.barriers = bs /\ ready.cluster = cs
        /\ ready.ongoing = s.ongoing \cup {b}
        /\ ready.aliveness = s.aliveness /\ ready.captured = s.captured
    BY <1>1, <1>6, <2>3, <2>4 DEF Service
  <2> HIDE DEF ready, fresh
  <2> QED
    BY <1>7, <2>3, <2>5 DEF HasBegun
<1> HIDE DEF fresh, ready, broken, result
<1>11. \/ unknown /\ result = PassBarrierError(fresh, b, "INVALID_ARGUMENT")
       \/ broken # {} /\ result = PassBarrierError(fresh, b, "INTERNAL")
       \/ /\ broken = {} /\ members # {}
          /\ fresh.barriers[b].pending = Cardinality(members)
          /\ HasBegun(result, fresh, s, b, members)
  BY <1>2, <1>3, <1>4, <1>5, <1>7, <1>10
<1> QED
  BY <1>2, <1>9, <1>11 DEF members, unknown, broken, result

\* InitializeBarrier keeps the records in agreement: the new instance has not begun,
\* so no task has it in its books.
LEMMA InitializeBarrierGood ==
    ASSUME NEW s, NEW b \in BarrierIds, NEW counter \in Counters,
           NEW args \in SUBSET (Tasks \cup {Stranger}), NEW before \in SUBSET Tasks,
           Tasks # {}, Good(s), b \notin s.ongoing
    PROVE  Good(InitializeBarrier(s, b, counter, args, before))
<1> DEFINE members == InitializeTasksAtBarrier(s.barriers[b], args, before)
           unknown == s.barriers[b].tasks = {} /\ Stranger \in args
           broken == members \cap NonRecoverable(s) \cap InState(s, "ERROR")
           result == InitializeBarrier(s, b, counter, args, before)
<1>1. PICK fresh :
         /\ IsFresh(fresh, s, b, counter, members)
         /\ \/ unknown /\ result = PassBarrierError(fresh, b, "INVALID_ARGUMENT")
            \/ broken # {} /\ result = PassBarrierError(fresh, b, "INTERNAL")
            \/ /\ broken = {} /\ members # {}
               /\ fresh.barriers[b].pending = Cardinality(members)
               /\ HasBegun(result, fresh, s, b, members)
  BY InitializeBarrierForm, Zenon
<1> HIDE DEF members, unknown, broken, result
<1>2. GoodExcept(fresh, {b})
  BY <1>1 DEF IsFresh
<1>3. /\ Good(PassBarrierError(fresh, b, "INVALID_ARGUMENT"))
      /\ Good(PassBarrierError(fresh, b, "INTERNAL"))
  BY <1>2, PassBarrierErrorGood DEF BarrierCodes
<1>4. ASSUME members # {}, fresh.barriers[b].pending = Cardinality(members),
             HasBegun(result, fresh, s, b, members)
      PROVE  Good(result)
  <2> DEFINE z == fresh.barriers[b]
  <2>1. /\ result.barriers[b] = z /\ result.ongoing = s.ongoing \cup {b}
        /\ z.named /\ ~z.passed /\ z.calls = {} /\ z.at = {} /\ z.tasks = members
    BY <1>1, <1>4 DEF IsFresh, HasBegun
  <2>2. z.pending = Cardinality(z.tasks \ z.at)
    <3>1. members \ {} = members
      OBVIOUS
    <3> QED
      BY <1>4, <2>1, <3>1
  <2>3. Book(s, b)
    BY DEF Good
  <2>4. \A t \in Tasks : b \in result.cluster[t].ongoing <=> t \in members
    BY <1>4, <2>3 DEF Book, HasBegun
  <2>5. Book(result, b)
    BY <1>4, <2>1, <2>2, <2>4 DEF Book
  <2>6. ASSUME NEW c \in BarrierIds \ {b}
        PROVE  Book(result, c)
    <3>1. Book(s, c) /\ result.barriers[c] = s.barriers[c]
      BY <1>1, <1>4 DEF Good, IsFresh, Replaces, HasBegun
    <3>2. \A t \in Tasks : c \in result.cluster[t].ongoing <=> c \in s.cluster[t].ongoing
      BY <1>4 DEF HasBegun
    <3>3. c \in result.ongoing <=> c \in s.ongoing
      BY <2>1
    <3> QED
      BY <3>1, <3>2, <3>3 DEF Book
  <2> QED
    BY <1>4, <2>5, <2>6 DEF Good, HasBegun
<1> QED
  BY <1>1, <1>3, <1>4 DEF result

\* ConnectAfterBarrierPasses keeps the records in agreement.
LEMMA ConnectAfterBarrierPassesGood ==
    ASSUME NEW s, NEW S, Good(s)
    PROVE  Good(ConnectAfterBarrierPasses(s, S))
BY ConnectTasksGood DEF ConnectAfterBarrierPasses

\* RepeatBarrierResult keeps the records in agreement.
LEMMA RepeatBarrierResultGood ==
    ASSUME NEW s, NEW t \in Tasks, NEW b \in BarrierIds, Good(s)
    PROVE  Good(RepeatBarrierResult(s, t, b))
<1>1. Good(DisconnectTasks(s, {t})) /\ Good(ConnectAfterBarrierPasses(s, {t}))
  BY DisconnectTasksGood, ConnectAfterBarrierPassesGood
<1> QED
  BY <1>1 DEF RepeatBarrierResult

\* A call to a barrier that is set up keeps the records in agreement: a call that
\* validates and finds the barrier not passed is a participant's, and the barrier is
\* ongoing.
LEMMA JoinBarrierGood ==
    ASSUME NEW s, NEW t \in Tasks, NEW b \in BarrierIds, NEW counter, NEW args,
           NEW isNew, Good(s)
    PROVE  Good(JoinBarrier(s, t, b, counter, args, isNew))
<1> DEFINE called == AddBarrierCallback(s, t, b)
           x == called.barriers[b]
           mismatch == ~isNew /\ counter # x.counter /\ ~(t \in RecoverableTasks /\ counter = 0)
           valid == ValidateTaskArgs(x, t, args)
<1>1. s \in Service /\ s.barriers[b] \in BarrierState /\ Book(s, b)
  BY DEF Good, Service
<1>2. Replaces(called, s, b, [s.barriers[b] EXCEPT !.calls = @ \cup {t}])
  BY <1>1, AddBarrierCallbackReplaces
<1>3. GoodExcept(called, {b})
  BY AddBarrierCallbackGood
<1>4. \A f \in {"named", "passed", "tasks"} : x[f] = s.barriers[b][f]
  BY <1>1, <1>2 DEF Replaces, BarrierState
<1>5. JoinBarrier(s, t, b, counter, args, isNew) =
        CASE mismatch -> PassBarrierError(called, b, "INTERNAL")
          [] ~mismatch /\ ~valid -> PassBarrierError(called, b, "INVALID_ARGUMENT")
          [] ~mismatch /\ valid /\ x.passed -> RepeatBarrierResult(s, t, b)
          [] OTHER -> ReachBarrier(called, t, b)
  BY DEF JoinBarrier
<1>6. /\ Good(PassBarrierError(called, b, "INTERNAL"))
      /\ Good(PassBarrierError(called, b, "INVALID_ARGUMENT"))
      /\ Good(RepeatBarrierResult(s, t, b))
  BY <1>3, PassBarrierErrorGood, RepeatBarrierResultGood DEF BarrierCodes
<1>7. valid /\ ~x.passed => Good(ReachBarrier(called, t, b))
  <2>1. valid => t \in x.tasks
    BY DEF ValidateTaskArgs
  <2> HIDE DEF valid
  <2>2. valid /\ ~x.passed => t \in s.barriers[b].tasks /\ b \in s.ongoing
    BY <1>1, <1>4, <2>1 DEF Book
  <2> QED
    BY <2>2, ReachBarrierGood
<1> HIDE DEF called, x, mismatch, valid
<1> QED
  BY <1>5, <1>6, <1>7

\* BarrierAsyncLocked keeps the records in agreement: an instance is only initialized
\* when the one before has ended.
LEMMA BarrierAsyncLockedGood ==
    ASSUME NEW s, NEW t \in Tasks, NEW b \in BarrierIds, NEW counter \in Counters,
           NEW args \in SUBSET (Tasks \cup {Stranger}), NEW before \in SUBSET Tasks,
           Good(s),
           StartsAfterRestart(s, t, b, counter) => s.barriers[b].counter < MaxCounter
    PROVE  Good(BarrierAsyncLocked(s, t, b, counter, args, before))
<1> DEFINE c == IF StartsAfterRestart(s, t, b, counter) THEN s.barriers[b].counter + 1
                ELSE counter
           new == InitializeBarrier(s, b, c, args, before)
<1>1. s.barriers[b] \in BarrierState /\ Book(s, b)
  BY DEF Good, Service
<1>2. c \in Counters
  BY <1>1, ConfigAssumption DEF BarrierState, Counters
<1>3. ShouldInitialize(s, t, b, counter) => b \notin s.ongoing
  BY <1>1 DEF ShouldInitialize, BarrierIsUninitialized, StartsAfterRestart, Book
<1> HIDE DEF c
<1>4. ShouldInitialize(s, t, b, counter) => Good(new)
  BY <1>2, <1>3, InitializeBarrierGood
<1>5. Good(JoinBarrier(s, t, b, counter, args, FALSE))
  BY JoinBarrierGood
<1> HIDE DEF new
<1>6. Good(new) => Good(JoinBarrier(new, t, b, c, args, TRUE))
  BY JoinBarrierGood
<1> QED
  BY <1>4, <1>5, <1>6 DEF BarrierAsyncLocked, c, new

\* Setting a field of one task leaves the records of the barriers alone.
LEMMA TaskFieldSimilar ==
    ASSUME NEW s \in Service, NEW t \in Tasks
    PROVE  /\ \A v \in BOOLEAN : Similar([s EXCEPT !.cluster[t].recoverable = v], s)
           /\ \A v \in Incarnations \cup {0} : Similar([s EXCEPT !.cluster[t].incarnation = v], s)
           /\ Similar([s EXCEPT !.cluster[t].grace = FALSE], s)
<1>1. s.cluster \in [Tasks -> TaskState] /\ s.cluster[t] \in TaskState
  BY DEF Service
<1>2. ASSUME NEW x \in TaskState, x.ongoing = s.cluster[t].ongoing
      PROVE  Similar([s EXCEPT !.cluster[t] = x], s)
  <2> DEFINE cs == [s.cluster EXCEPT ![t] = x]
  <2>1. cs \in [Tasks -> TaskState] /\ \A u \in Tasks : cs[u].ongoing = s.cluster[u].ongoing
    BY <1>1, <1>2
  <2>2. [s EXCEPT !.cluster[t] = x] = [s EXCEPT !.cluster = cs]
    BY DEF Service
  <2> HIDE DEF cs
  <2> QED
    BY <2>1, <2>2, TaskUpdateSimilar
<1>3. ASSUME NEW v \in BOOLEAN
      PROVE  Similar([s EXCEPT !.cluster[t].recoverable = v], s)
  <2> DEFINE x == [s.cluster[t] EXCEPT !.recoverable = v]
  <2>1. x \in TaskState /\ x.ongoing = s.cluster[t].ongoing
    BY <1>1 DEF TaskState
  <2>2. [s EXCEPT !.cluster[t].recoverable = v] = [s EXCEPT !.cluster[t] = x]
    OBVIOUS
  <2> QED
    BY <1>2, <2>1, <2>2
<1>4. ASSUME NEW v \in Incarnations \cup {0}
      PROVE  Similar([s EXCEPT !.cluster[t].incarnation = v], s)
  <2> DEFINE x == [s.cluster[t] EXCEPT !.incarnation = v]
  <2>1. x \in TaskState /\ x.ongoing = s.cluster[t].ongoing
    BY <1>1 DEF TaskState
  <2>2. [s EXCEPT !.cluster[t].incarnation = v] = [s EXCEPT !.cluster[t] = x]
    OBVIOUS
  <2> QED
    BY <1>2, <2>1, <2>2
<1>5. Similar([s EXCEPT !.cluster[t].grace = FALSE], s)
  <2> DEFINE x == [s.cluster[t] EXCEPT !.grace = FALSE]
  <2>1. x \in TaskState /\ x.ongoing = s.cluster[t].ongoing
    BY <1>1 DEF TaskState
  <2>2. [s EXCEPT !.cluster[t].grace = FALSE] = [s EXCEPT !.cluster[t] = x]
    OBVIOUS
  <2> QED
    BY <1>2, <2>1, <2>2
<1> QED
  BY <1>3, <1>4, <1>5

\* ConnectTask keeps the records in agreement.
LEMMA ConnectTaskGood ==
    ASSUME NEW s, NEW t \in Tasks, NEW inc \in Incarnations \cup {0}, Good(s)
    PROVE  Good(ConnectTask(s, t, inc))
<1> DEFINE renamed == [s EXCEPT !.cluster[t].incarnation = inc]
           connected == ConnectTasks(renamed, {t})
           left == LeaveRecoverable(connected, {t})
           us == IF LeaveOnRestart THEN left.unsynced \cup {t} ELSE left.unsynced
<1>1. Good(renamed)
  BY TaskFieldSimilar, SimilarGood DEF Good
<1>2. ConnectTask(s, t, inc) = IF ~s.cluster[t].recoverable THEN connected
                               ELSE [left EXCEPT !.unsynced = us]
  BY DEF ConnectTask
<1> HIDE DEF renamed
<1>3. Good(connected)
  BY <1>1, ConnectTasksGood
<1> HIDE DEF connected
<1>4. Good(left)
  BY <1>3, LeaveRecoverableGood
<1> HIDE DEF left
<1>5. us \in SUBSET Tasks
  BY <1>4 DEF Good, Service
<1> HIDE DEF us
<1>6. Similar([left EXCEPT !.unsynced = us], left)
  BY <1>4, <1>5 DEF Similar, Good, Service
<1> QED
  BY <1>2, <1>3, <1>4, <1>6, SimilarGood

\* Registering at the register barrier keeps the records in agreement.
LEMMA RegisterAtBarrierGood ==
    ASSUME NEW s, NEW t \in Tasks, NEW inc \in Incarnations \cup {0}, Good(s)
    PROVE  Good(RegisterAtBarrier(s, t, inc))
<1> DEFINE isLate == s.cluster[t].recoverable /\ LeaveOnRestart /\ s.barriers[Register].passed
           us == IF isLate THEN s.unsynced \cup {t} ELSE s.unsynced
           cp == [s.captured EXCEPT ![t] = inc]
           renamed == [s EXCEPT !.cluster[t].incarnation = inc]
           r == [renamed EXCEPT !.captured = cp, !.unsynced = us]
<1>1. Good(renamed) /\ renamed.captured = s.captured /\ renamed.unsynced = s.unsynced
  BY TaskFieldSimilar, SimilarGood DEF Good, Service
<1>2. cp \in [Tasks -> Incarnations \cup {0}] /\ us \in SUBSET Tasks
  BY DEF Good, Service
<1>3. RegisterAtBarrier(s, t, inc) = BarrierAsyncLocked(r, t, Register, 0, {}, {})
  BY <1>1 DEF RegisterAtBarrier, Good, Service
<1> HIDE DEF renamed, us, cp
<1>4. Similar(r, renamed)
  BY <1>1, <1>2 DEF Similar, Good, Service
<1> HIDE DEF r
<1>5. Good(r)
  BY <1>1, <1>4, SimilarGood
<1>6. Register \in BarrierIds /\ 0 \in Counters /\ ~StartsAfterRestart(r, t, Register, 0)
  BY ConfigAssumption DEF BarrierIds, Special, Counters, StartsAfterRestart
<1> QED
  BY <1>3, <1>5, <1>6, BarrierAsyncLockedGood

-----------------------------------------------------------------------------

\* The inductive invariant.
IInv == TypeOK /\ BarrierBooks

\* The invariant is a statement about the service state ...
LEMMA IInvGood == IInv => Good(svc)
BY DEF IInv, TypeOK, BarrierBooks, Good

\* ... and follows from it and the types of the other variables.
LEMMA GoodIInv ==
    ASSUME Good(svc'), (snapshot \in [held : BOOLEAN, count : [BarrierIds -> Nat]])',
           (shutdownArgs \in [Tasks -> SUBSET Tasks])'
    PROVE  IInv'
BY DEF IInv, TypeOK, BarrierBooks, Good

\* A service without barriers has its records in agreement.
LEMMA FreshServiceGood ==
    /\ [t \in Tasks |-> FreshTask] \in [Tasks -> TaskState]
    /\ [b \in BarrierIds |-> FreshBarrier] \in [BarrierIds -> BarrierState]
    /\ \A s \in Service : s.cluster = [t \in Tasks |-> FreshTask]
                          /\ s.barriers = [b \in BarrierIds |-> FreshBarrier]
                          /\ s.ongoing = {} => Good(s)
<1>1. FreshTask \in TaskState
  BY DEF FreshTask, TaskState, TaskCodes
<1>2. FreshBarrier \in BarrierState
  BY ConfigAssumption DEF FreshBarrier, BarrierState, BarrierCodes, Counters
<1>3. ASSUME NEW s \in Service, s.cluster = [t \in Tasks |-> FreshTask],
             s.barriers = [b \in BarrierIds |-> FreshBarrier], s.ongoing = {},
             NEW b \in BarrierIds
      PROVE  Book(s, b)
  BY <1>3 DEF Book, FreshTask, FreshBarrier
<1> QED
  BY <1>1, <1>2, <1>3 DEF Good

\* The invariant holds initially.
LEMMA InitIInv == Init => IInv
<1> SUFFICES ASSUME Init PROVE IInv
  OBVIOUS
<1>1. svc \in Service
  BY FreshServiceGood DEF Init, Service
<1>2. Good(svc)
  BY <1>1, FreshServiceGood DEF Init
<1>3. /\ snapshot \in [held : BOOLEAN, count : [BarrierIds -> Nat]]
      /\ shutdownArgs \in [Tasks -> SUBSET Tasks]
  BY DEF Init, NoSnapshot
<1> QED
  BY <1>2, <1>3 DEF IInv, TypeOK, BarrierBooks, Good

\* RegisterTaskAsync keeps the records in agreement.
LEMMA RegisterTaskAsyncGood ==
    ASSUME NEW t \in Tasks, NEW inc \in Incarnations \cup {0}, Good(svc), RegisterTaskAsync(t, inc)
    PROVE  Good(svc')
<1> DEFINE v == t \in RecoverableTasks
           s == [svc EXCEPT !.cluster[t].recoverable = v]
<1>1. Good(s)
  <2>1. v \in BOOLEAN /\ svc \in Service
    BY DEF Good
  <2> HIDE DEF v
  <2>2. Similar(s, svc)
    BY <2>1, TaskFieldSimilar
  <2> HIDE DEF s
  <2> QED
    BY <2>2, SimilarGood
<1>2. \/ svc' = RegisterAtBarrier(s, t, inc)
      \/ svc' = ConnectTask(s, t, inc)
      \/ svc' = FailTasks(s, {t}, "OTHER")
  BY DEF RegisterTaskAsync
<1> HIDE DEF s
<1>3. Good(RegisterAtBarrier(s, t, inc)) /\ Good(ConnectTask(s, t, inc))
  BY <1>1, RegisterAtBarrierGood, ConnectTaskGood
<1>4. Good(FailTasks(s, {t}, "OTHER"))
  BY <1>1, FailTasksGood DEF TaskCodes
<1> QED
  BY <1>2, <1>3, <1>4

\* BarrierAsync keeps the records in agreement.
LEMMA BarrierAsyncGood ==
    ASSUME NEW t \in Tasks, NEW b \in UserBarriers, NEW counter \in Counters,
           NEW args \in BarrierArgs, Good(svc), BarrierAsync(t, b, counter, args)
    PROVE  Good(svc')
<1>1. PICK before \in SUBSET Tasks :
         svc' = BarrierAsyncLocked(svc, t, b, counter, args, before)
  BY DEF BarrierAsync
<1>2. b \in BarrierIds /\ args \in SUBSET (Tasks \cup {Stranger})
  BY TasksAssumption DEF BarrierIds
<1>3. StartsAfterRestart(svc, t, b, counter) => svc.barriers[b].counter < MaxCounter
  BY DEF BarrierAsync
<1> QED
  BY <1>1, <1>2, <1>3, BarrierAsyncLockedGood

\* A call to the shutdown barrier keeps the records in agreement.
LEMMA ShutdownBarrierGood ==
    ASSUME NEW t \in Tasks, Good(svc), shutdownArgs \in [Tasks -> SUBSET Tasks],
           ShutdownBarrier(t)
    PROVE  Good(svc')
<1>1. svc' = BarrierAsyncLocked(svc, t, Shutdown, 0, shutdownArgs[t], {})
  BY DEF ShutdownBarrier
<1>2. /\ Shutdown \in BarrierIds /\ 0 \in Counters
      /\ ~StartsAfterRestart(svc, t, Shutdown, 0)
      /\ shutdownArgs[t] \in SUBSET (Tasks \cup {Stranger})
  BY ConfigAssumption DEF BarrierIds, Special, Counters, StartsAfterRestart
<1> QED
  BY <1>1, <1>2, BarrierAsyncLockedGood

\* PollForErrorAsync keeps the records in agreement.
LEMMA PollForErrorAsyncGood ==
    ASSUME NEW t \in Tasks, Good(svc), PollForErrorAsync(t)
    PROVE  Good(svc')
<1>1. PICK ps \in SUBSET Tasks : svc' = [svc EXCEPT !.polling = TRUE, !.polls = ps]
  <2> DEFINE accepted == /\ ~IsDisconnectedBeyondGracePeriod(t)
                         /\ svc.cluster[t].state # "ERROR"
                         /\ ~svc.responded
             ps == IF accepted THEN svc.polls \cup {t} ELSE svc.polls
  <2>1. ps \in SUBSET Tasks
    BY DEF Good, Service
  <2>2. svc' = [svc EXCEPT !.polling = TRUE, !.polls = ps]
    BY DEF PollForErrorAsync
  <2> QED
    BY <2>1, <2>2
<1>2. Similar(svc', svc)
  BY <1>1 DEF Similar, Good, Service
<1> QED
  BY <1>2, SimilarGood

\* GetAliveTasksAsync keeps the records in agreement.
LEMMA GetAliveTasksAsyncGood ==
    ASSUME NEW t \in Tasks, NEW T \in AliveArgs, Good(svc), GetAliveTasksAsync(t, T)
    PROVE  Good(svc')
<1> DEFINE same == {a \in svc.aliveness : a.tasks = T}
           ib == {t} \cup UNION {a.in_barrier : a \in same}
           joined == [tasks |-> T, in_barrier |-> ib]
           isDone == AliveTasks(svc, T) \subseteq joined.in_barrier
           al == (svc.aliveness \ same) \cup IF isDone THEN {} ELSE {joined}
<1>1. svc \in Service /\ svc.aliveness \in SUBSET AlivenessState
  BY DEF Good, Service
<1>2. ib \in SUBSET Tasks /\ T \in SUBSET Tasks
  BY <1>1, TasksAssumption DEF AlivenessState
<1>3. svc' = [svc EXCEPT !.aliveness = al]
  BY DEF GetAliveTasksAsync
<1> HIDE DEF ib
<1>4. joined \in AlivenessState
  BY <1>2 DEF AlivenessState
<1> HIDE DEF joined, isDone
<1>5. al \in SUBSET AlivenessState
  BY <1>1, <1>4
<1> HIDE DEF al
<1>6. Similar(svc', svc)
  BY <1>1, <1>3, <1>5 DEF Similar, Service
<1> QED
  BY <1>6, SimilarGood

\* Reading the participants of the shutdown barrier keeps the records in agreement.
LEMMA GetTasksForShutdownBarrierGood ==
    ASSUME NEW t \in Tasks, Good(svc), shutdownArgs \in [Tasks -> SUBSET Tasks],
           GetTasksForShutdownBarrier(t)
    PROVE  Good(svc') /\ shutdownArgs' \in [Tasks -> SUBSET Tasks]
<1> DEFINE tasks == IF svc.shutdownTasks = {} THEN NonRecoverable(svc) ELSE svc.shutdownTasks
<1>1. tasks \in SUBSET Tasks
  BY DEF Good, Service, NonRecoverable
<1>2. svc' = [svc EXCEPT !.shutdownTasks = tasks]
      /\ shutdownArgs' = [shutdownArgs EXCEPT ![t] = tasks]
  BY DEF GetTasksForShutdownBarrier
<1> HIDE DEF tasks
<1>3. Similar(svc', svc)
  BY <1>1, <1>2 DEF Similar, Good, Service
<1> QED
  BY <1>1, <1>2, <1>3, SimilarGood

\* Stop keeps the records in agreement.
LEMMA StopGood ==
    ASSUME Good(svc), Stop
    PROVE  Good(svc')
<1> DEFINE bs == [b \in BarrierIds |-> FreshBarrier]
           cs == [t \in Tasks |-> FreshTask]
           rs == svc.polling \/ svc.responded
           ps == IF svc.polling THEN {} ELSE svc.polls
           al == IF svc.ongoing \cap Special = {} THEN svc.aliveness ELSE {}
<1>1. svc \in Service
  BY DEF Good
<1>2. rs \in BOOLEAN /\ ps \in SUBSET Tasks /\ al \in SUBSET AlivenessState
  BY <1>1 DEF Service
<1>3. bs \in [BarrierIds -> BarrierState] /\ cs \in [Tasks -> TaskState]
  BY FreshServiceGood
<1>4. svc' = [svc EXCEPT !.stopped = TRUE, !.barriers = bs, !.ongoing = {}, !.cluster = cs,
                         !.responded = rs, !.polls = ps, !.aliveness = al]
  BY DEF Stop
<1> HIDE DEF bs, cs, rs, ps, al
<1>5. svc' \in Service /\ svc'.cluster = cs /\ svc'.barriers = bs /\ svc'.ongoing = {}
  BY <1>1, <1>2, <1>3, <1>4 DEF Service
<1> QED
  BY <1>5, FreshServiceGood DEF bs, cs

\* CheckBarrierTimeout keeps the records in agreement, whichever expired barriers it
\* visits after a register or shutdown barrier.
LEMMA CheckBarrierTimeoutGood ==
    ASSUME NEW X \in SUBSET BarrierIds, NEW late \in SUBSET X, Good(svc),
           CheckBarrierTimeout(X, late)
    PROVE  Good(svc')
<1> DEFINE first == EndBarriers(svc, X \ late, "DEADLINE_EXCEEDED")
           failed == AfterFailure(first, X \ late)
<1>1. svc' = EndBarriers(failed, late, "DEADLINE_EXCEEDED")
  BY DEF CheckBarrierTimeout
<1>2. Good(first)
  BY GoodIsGoodExcept, EndBarriersGood DEF BarrierCodes
<1> HIDE DEF first
<1>3. Good(failed)
  BY <1>2, AfterFailureGood
<1> HIDE DEF failed
<1>4. GoodExcept(failed, late) /\ late \in SUBSET BarrierIds
  BY <1>3, GoodIsGoodExcept
<1> QED
  BY <1>1, <1>4, EndBarriersGood DEF BarrierCodes

\* The check thread counts natural numbers of out-of-sync tasks.
LEMMA OutOfSyncCountType ==
    ASSUME Good(svc), GetCountOfOutOfSyncTasksPerBarrier
    PROVE  snapshot' \in [held : BOOLEAN, count : [BarrierIds -> Nat]]
<1> DEFINE waited(b) == (svc.barriers[b].tasks \ svc.barriers[b].at) \cap svc.unsynced
           n(b) == Cardinality(waited(b))
           cn == [b \in BarrierIds |-> IF b \notin svc.ongoing THEN 0 ELSE n(b)]
<1>1. ASSUME NEW b \in BarrierIds
      PROVE  n(b) \in Nat
  <2>1. waited(b) \in SUBSET Tasks
    BY DEF Good, Service
  <2> HIDE DEF waited
  <2>2. IsFiniteSet(waited(b))
    BY <2>1, TasksAssumption, FS_Subset
  <2> QED
    BY <2>2, FS_CardinalityType
<1>2. snapshot' = [held |-> TRUE, count |-> cn]
  BY DEF GetCountOfOutOfSyncTasksPerBarrier
<1> HIDE DEF n
<1>3. cn \in [BarrierIds -> Nat]
  BY <1>1
<1> HIDE DEF cn
<1> QED
  BY <1>2, <1>3

\* svc once the tasks that restarted during a ready barrier have been taken out of it.
Excluded ==
    [svc EXCEPT !.barriers = [b \in BarrierIds |->
        IF b \in ReadyBarriers
        THEN [svc.barriers[b] EXCEPT
                !.pending = svc.barriers[b].pending
                              - Cardinality(svc.barriers[b].restarted \ svc.barriers[b].at),
                !.calls = svc.barriers[b].calls \ svc.barriers[b].restarted,
                !.restarted = {}]
        ELSE svc.barriers[b]]]

\* Taking them out touches the records of the ready barriers only.
LEMMA ExcludedGood ==
    ASSUME Good(svc)
    PROVE  GoodExcept(Excluded, ReadyBarriers)
<1> DEFINE P == ReadyBarriers
           pd(b) == svc.barriers[b].pending
                      - Cardinality(svc.barriers[b].restarted \ svc.barriers[b].at)
           cl(b) == svc.barriers[b].calls \ svc.barriers[b].restarted
           y(b) == [svc.barriers[b] EXCEPT !.pending = pd(b), !.calls = cl(b), !.restarted = {}]
           bs == [b \in BarrierIds |-> IF b \in P THEN y(b) ELSE svc.barriers[b]]
           excluded == [svc EXCEPT !.barriers = bs]
<1>1. svc \in Service /\ \A b \in BarrierIds : svc.barriers[b] \in BarrierState /\ Book(svc, b)
  BY DEF Good, Service
<1>2. P \in SUBSET BarrierIds /\ P \subseteq svc.ongoing
  BY <1>1 DEF ReadyBarriers, Service
<1>5. ASSUME NEW b \in BarrierIds
      PROVE  pd(b) \in Int /\ cl(b) \in SUBSET Tasks
  <2> DEFINE away == svc.barriers[b].restarted \ svc.barriers[b].at
  <2>1. away \in SUBSET Tasks /\ svc.barriers[b].pending \in Int
    BY <1>1 DEF BarrierState
  <2>2. cl(b) \in SUBSET Tasks
    BY <1>1 DEF BarrierState
  <2>3. pd(b) = svc.barriers[b].pending - Cardinality(away)
    OBVIOUS
  <2> HIDE DEF away, pd
  <2>4. Cardinality(away) \in Nat
    BY <2>1, TasksAssumption, FS_Subset, FS_CardinalityType
  <2> QED
    BY <2>1, <2>2, <2>3, <2>4
<1> HIDE DEF P, pd, cl
<1>6. ASSUME NEW b \in BarrierIds
      PROVE  /\ y(b) \in BarrierState
             /\ \A f \in {"named", "counter", "tasks", "at"} : y(b)[f] = svc.barriers[b][f]
  BY <1>1, <1>5 DEF BarrierState
<1> HIDE DEF y
<1>7. bs \in [BarrierIds -> BarrierState]
      /\ \A b \in BarrierIds : bs[b] = IF b \in P THEN y(b) ELSE svc.barriers[b]
  BY <1>1, <1>6
<1> HIDE DEF bs
<1>8. /\ excluded \in Service /\ excluded.barriers = bs
      /\ excluded.cluster = svc.cluster /\ excluded.ongoing = svc.ongoing
  BY <1>1, <1>7 DEF Service
<1> HIDE DEF excluded
<1>9. GoodExcept(excluded, P)
  <2>1. ASSUME NEW b \in BarrierIds \ P
        PROVE  Book(excluded, b)
    BY <1>1, <1>7, <1>8 DEF Book
  <2>2. ASSUME NEW b \in BarrierIds \cap P
        PROVE  Frame(excluded, b)
    <3>1. Book(svc, b) /\ b \in svc.ongoing /\ excluded.barriers[b] = y(b)
      BY <1>1, <1>2, <1>7, <1>8
    <3>2. /\ y(b).named = svc.barriers[b].named /\ y(b).tasks = svc.barriers[b].tasks
          /\ y(b).at = svc.barriers[b].at
      BY <1>6
    <3> QED
      BY <1>8, <3>1, <3>2 DEF Book, Frame
  <2> QED
    BY <1>8, <2>1, <2>2 DEF GoodExcept
<1> QED
  BY <1>9 DEF P, excluded, bs, y, cl, pd, Excluded

\* CheckBarrierStatusWithRecoverableTasks keeps the records in agreement, however old
\* its counts are.
LEMMA CheckBarrierStatusGood ==
    ASSUME Good(svc), CheckBarrierStatusWithRecoverableTasks
    PROVE  Good(svc')
<1> DEFINE P == ReadyBarriers
           ended == EndBarriers(Excluded, P, "OK")
<1>1. P \in SUBSET BarrierIds
  BY DEF ReadyBarriers, Good, Service
<1>2. GoodExcept(Excluded, P)
  BY ExcludedGood
<1>3. svc' = IF Shutdown \in P THEN DisconnectTasks(ended, NonRecoverable(svc)) ELSE ended
  BY DEF CheckBarrierStatusWithRecoverableTasks, Excluded
<1> HIDE DEF P
<1>4. Good(ended)
  BY <1>1, <1>2, EndBarriersGood DEF BarrierCodes
<1> HIDE DEF ended
<1>5. Good(DisconnectTasks(ended, NonRecoverable(svc)))
  BY <1>4, DisconnectTasksGood DEF NonRecoverable
<1> QED
  BY <1>3, <1>4, <1>5

\* Every step preserves the inductive invariant, action by action.
LEMMA NextIInv == IInv /\ [Next]_vars => IInv'
<1> SUFFICES ASSUME IInv, [Next]_vars PROVE IInv'
  OBVIOUS
<1>1. Good(svc)
  BY IInvGood
<1>2. /\ snapshot \in [held : BOOLEAN, count : [BarrierIds -> Nat]]
      /\ shutdownArgs \in [Tasks -> SUBSET Tasks]
  BY DEF IInv, TypeOK
<1>3. ASSUME Good(svc'), UNCHANGED <<snapshot, shutdownArgs>>
      PROVE  IInv'
  BY <1>2, <1>3, GoodIInv
<1>4. ASSUME NEW t \in Tasks, NEW inc \in Incarnations, RegisterTaskAsync(t, inc)
      PROVE  IInv'
  <2>1. Good(svc')
    BY <1>1, <1>4, RegisterTaskAsyncGood
  <2> QED
    BY <1>3, <1>4, <2>1 DEF RegisterTaskAsync
<1>5. ASSUME NEW t \in Tasks, NEW inc \in Incarnations, RecordHeartbeat(t, inc)
      PROVE  IInv'
  <2>1. Good(FailTasks(svc, {t}, "OTHER"))
    BY <1>1, FailTasksGood DEF TaskCodes
  <2> QED
    BY <1>3, <1>5, <2>1 DEF RecordHeartbeat
<1>6. ASSUME NEW t \in Tasks, NEW b \in UserBarriers, NEW c \in Counters,
             NEW args \in BarrierArgs, BarrierAsync(t, b, c, args)
      PROVE  IInv'
  <2>1. Good(svc')
    BY <1>1, <1>6, BarrierAsyncGood
  <2> QED
    BY <1>3, <1>6, <2>1 DEF BarrierAsync
<1>7. ASSUME NEW t \in Tasks, ShutdownTaskAsync(t) \/ ResetTask(t)
      PROVE  IInv'
  <2>1. Good(DisconnectTasks(svc, {t}))
    BY <1>1, DisconnectTasksGood
  <2> QED
    BY <1>3, <1>7, <2>1 DEF ShutdownTaskAsync, ResetTask
<1>8. ASSUME NEW t \in Tasks, GetTasksForShutdownBarrier(t)
      PROVE  IInv'
  <2>1. Good(svc') /\ shutdownArgs' \in [Tasks -> SUBSET Tasks]
    BY <1>1, <1>2, <1>8, GetTasksForShutdownBarrierGood
  <2>2. UNCHANGED snapshot
    BY <1>8 DEF GetTasksForShutdownBarrier
  <2> QED
    BY <1>2, <2>1, <2>2, GoodIInv
<1>9. ASSUME NEW t \in Tasks, ShutdownBarrier(t)
      PROVE  IInv'
  <2>1. Good(svc')
    BY <1>1, <1>2, <1>9, ShutdownBarrierGood
  <2>2. UNCHANGED snapshot /\ shutdownArgs' = [shutdownArgs EXCEPT ![t] = {}]
    BY <1>9 DEF ShutdownBarrier
  <2>3. shutdownArgs' \in [Tasks -> SUBSET Tasks]
    BY <1>2, <2>2
  <2> QED
    BY <1>2, <2>1, <2>2, <2>3, GoodIInv
<1>10. ASSUME NEW t \in Tasks, NEW code \in {"UNAVAILABLE", "OTHER"}, ReportTaskError(t, code)
       PROVE  IInv'
  <2>1. Good(FailTasks(svc, {t}, code))
    BY <1>1, FailTasksGood DEF TaskCodes
  <2> QED
    BY <1>3, <1>10, <2>1 DEF ReportTaskError
<1>11. ASSUME NEW t \in Tasks, PollForErrorAsync(t)
       PROVE  IInv'
  <2>1. Good(svc')
    BY <1>1, <1>11, PollForErrorAsyncGood
  <2> QED
    BY <1>3, <1>11, <2>1 DEF PollForErrorAsync
<1>12. ASSUME NEW t \in Tasks, NEW T \in AliveArgs, GetAliveTasksAsync(t, T)
       PROVE  IInv'
  <2>1. Good(svc')
    BY <1>1, <1>12, GetAliveTasksAsyncGood
  <2> QED
    BY <1>3, <1>12, <2>1 DEF GetAliveTasksAsync
<1>13. ASSUME NEW t \in Tasks, GracePeriodEnds(t)
       PROVE  IInv'
  <2>1. Good([svc EXCEPT !.cluster[t].grace = FALSE])
    BY <1>1, TaskFieldSimilar, SimilarGood DEF Good
  <2> QED
    BY <1>3, <1>13, <2>1 DEF GracePeriodEnds
<1>14. ASSUME NEW S \in SUBSET Tasks, CheckHeartbeatTimeout(S)
       PROVE  IInv'
  <2>1. Good(FailTasks(svc, S, "UNAVAILABLE"))
    BY <1>1, FailTasksGood DEF TaskCodes
  <2> QED
    BY <1>3, <1>14, <2>1 DEF CheckHeartbeatTimeout
<1>15. ASSUME NEW X \in SUBSET BarrierIds, NEW late \in SUBSET X, CheckBarrierTimeout(X, late)
       PROVE  IInv'
  <2>1. Good(svc')
    BY <1>1, <1>15, CheckBarrierTimeoutGood
  <2> QED
    BY <1>3, <1>15, <2>1 DEF CheckBarrierTimeout
<1>16. ASSUME GetCountOfOutOfSyncTasksPerBarrier
       PROVE  IInv'
  <2>1. snapshot' \in [held : BOOLEAN, count : [BarrierIds -> Nat]]
    BY <1>1, <1>16, OutOfSyncCountType
  <2>2. UNCHANGED <<svc, shutdownArgs>>
    BY <1>16 DEF GetCountOfOutOfSyncTasksPerBarrier
  <2>3. Good(svc')
    BY <1>1, <2>2
  <2> QED
    BY <1>2, <2>1, <2>2, <2>3, GoodIInv
<1>17. ASSUME CheckBarrierStatusWithRecoverableTasks
       PROVE  IInv'
  <2>1. Good(svc')
    BY <1>1, <1>2, <1>17, CheckBarrierStatusGood
  <2>2. snapshot' = NoSnapshot /\ UNCHANGED shutdownArgs
    BY <1>17 DEF CheckBarrierStatusWithRecoverableTasks
  <2>3. snapshot' \in [held : BOOLEAN, count : [BarrierIds -> Nat]]
    BY <2>2 DEF NoSnapshot
  <2> QED
    BY <1>2, <2>1, <2>2, <2>3, GoodIInv
<1>18. ASSUME NEW b \in UserBarriers, NEW c \in Counters, CancelBarrier(b, c)
       PROVE  IInv'
  <2>1. b \in BarrierIds /\ GoodExcept(svc, {b})
    BY <1>1, GoodIsGoodExcept DEF BarrierIds
  <2>2. Good(PassBarrierError(svc, b, "CANCELLED"))
    BY <2>1, PassBarrierErrorGood DEF BarrierCodes
  <2> QED
    BY <1>3, <1>18, <2>2 DEF CancelBarrier
<1>19. ASSUME Stop
       PROVE  IInv'
  <2>1. Good(svc')
    BY <1>1, <1>19, StopGood
  <2> QED
    BY <1>3, <1>19, <2>1 DEF Stop
<1>20. ASSUME UNCHANGED vars
       PROVE  IInv'
  BY <1>1, <1>3, <1>20 DEF vars
<1>21. ASSUME NEW t \in Tasks, TaskCalls(t)
       PROVE  IInv'
  BY <1>4, <1>5, <1>6, <1>7, <1>8, <1>9, <1>10, <1>11, <1>12, <1>21 DEF TaskCalls
<1>22. ASSUME ServiceSteps
       PROVE  IInv'
  BY <1>13, <1>14, <1>15, <1>16, <1>17, <1>18, <1>19, <1>22 DEF ServiceSteps
<1> QED
  BY <1>20, <1>21, <1>22 DEF Next

\* The state of the service always has its type.
THEOREM ServiceTyped == Spec => []TypeOK
<1>1. IInv => TypeOK
  BY DEF IInv
<1> QED
  BY <1>1, InitIInv, NextIInv, PTL DEF Spec

\* The service's three records of its barriers always agree (ongoing_barriers_,
\* the tasks' ongoing sets, and the participants and counts of the barriers): no
\* interleaving of calls, failures, restarts, timeouts, cancellations and the
\* check thread makes num_pending_tasks drift from the tasks really missing, keeps
\* a finished barrier in a task's books, or leaves a caller waiting at a barrier
\* that has ended.
THEOREM BooksAgree == Spec => []BarrierBooks
<1>1. IInv => BarrierBooks
  BY DEF IInv
<1> QED
  BY <1>1, InitIInv, NextIInv, PTL DEF Spec

-----------------------------------------------------------------------------
(* What else holds of a service state between handlers.                     *)

\* Every liveness query that is pending waits for a task that is alive.
QueriesWait(s) == \A a \in s.aliveness : ~(AliveTasks(s, a.tasks) \subseteq a.in_barrier)

\* Only tasks whose agents say so are recoverable.
Flagged(s) == \A t \in Tasks : s.cluster[t].recoverable => t \in RecoverableTasks

\* A non-recoverable task in error takes part in no barrier.
AllLeft(s) ==
    \A t \in Tasks : s.cluster[t].state = "ERROR" /\ ~s.cluster[t].recoverable =>
        s.cluster[t].ongoing = {}

\* The register barrier has one instance, of all tasks, and none unless the service is
\* configured to use it; then tasks are connected only if it passed.
OneRegister(s) ==
    LET x == s.barriers[Register] IN
    /\ x.counter = 0
    /\ x.named => x.tasks = Tasks
    /\ x.passed => x.named
    /\ ~RegisterWithBarrier => ~x.named
    /\ RegisterWithBarrier /\ (\E t \in Tasks : s.cluster[t].state = "CONNECTED") =>
          x.passed /\ x.result = "OK"

\* A registration that waits is that of the task's newest incarnation.
Newest(s) ==
    \A t \in s.barriers[Register].calls : s.captured[t] = s.cluster[t].incarnation

\* A barrier whose result is OK has passed, with every participant at it unless
\* out-of-sync tasks are discounted.
Arrived(s) ==
    \A b \in BarrierIds : s.barriers[b].result = "OK" =>
        /\ s.barriers[b].passed
        /\ LeaveOnRestart \/ s.barriers[b].tasks = s.barriers[b].at

\* The part of it that does not wait for RefreshAliveness ...
Steady(s) == Flagged(s) /\ AllLeft(s) /\ OneRegister(s) /\ Newest(s) /\ Arrived(s)

\* ... and all of it.
Settled(s) == Steady(s) /\ QueriesWait(s)

\* Barrier b ends between s and r.
Ends(r, s, b) ==
    /\ r.barriers[b].passed
    /\ r.barriers[b].result = "OK" =>
          LeaveOnRestart \/ r.barriers[b].tasks = r.barriers[b].at
    /\ b = Register => ~s.barriers[b].passed /\ s.barriers[b].named

\* Barrier b has the same result in r as in s.
Stands(r, s, b) ==
    /\ r.barriers[b].passed = s.barriers[b].passed
    /\ r.barriers[b].result = s.barriers[b].result
    /\ s.barriers[b].passed => r.barriers[b].at = s.barriers[b].at

\* r is s after some barriers have ended or were left, and nothing more.
Calmer(r, s) ==
    /\ r \in Service
    /\ r.aliveness = s.aliveness
    /\ r.captured = s.captured
    /\ \A t \in Tasks :
         /\ r.cluster[t].state = s.cluster[t].state
         /\ r.cluster[t].recoverable = s.cluster[t].recoverable
         /\ r.cluster[t].incarnation = s.cluster[t].incarnation
         /\ r.cluster[t].ongoing \subseteq s.cluster[t].ongoing
    /\ \A b \in BarrierIds :
         /\ r.barriers[b].named = s.barriers[b].named
         /\ r.barriers[b].counter = s.barriers[b].counter
         /\ r.barriers[b].tasks = s.barriers[b].tasks
         /\ r.barriers[b].calls \subseteq s.barriers[b].calls
         /\ Ends(r, s, b) \/ Stands(r, s, b)

\* The register barrier is a barrier.
LEMMA RegisterIsBarrier == Register \in BarrierIds
BY DEF BarrierIds, Special

\* The alive tasks of a query depend on the states of the tasks only.
LEMMA AliveTasksSame ==
    ASSUME NEW r, NEW s, NEW T,
           \A t \in Tasks : r.cluster[t].state = s.cluster[t].state
    PROVE  AliveTasks(r, T) = AliveTasks(s, T)
BY DEF AliveTasks, InState

\* Ending and leaving barriers keeps each part of the invariant.
LEMMA CalmerKeeps ==
    ASSUME NEW r, NEW s, Calmer(r, s)
    PROVE  /\ QueriesWait(s) => QueriesWait(r)
           /\ Flagged(s) => Flagged(r)
           /\ AllLeft(s) => AllLeft(r)
           /\ OneRegister(s) => OneRegister(r)
           /\ Newest(s) => Newest(r)
           /\ Arrived(s) => Arrived(r)
<1>1. QueriesWait(s) => QueriesWait(r)
  <2>1. \A a \in r.aliveness : AliveTasks(r, a.tasks) = AliveTasks(s, a.tasks)
    BY AliveTasksSame DEF Calmer
  <2> QED
    BY <2>1 DEF QueriesWait, Calmer
<1>2. Flagged(s) => Flagged(r)
  BY DEF Flagged, Calmer
<1>3. AllLeft(s) => AllLeft(r)
  BY DEF AllLeft, Calmer
<1>4. OneRegister(s) => OneRegister(r)
  <2> SUFFICES ASSUME OneRegister(s) PROVE OneRegister(r)
    OBVIOUS
  <2> DEFINE x == s.barriers[Register]
             y == r.barriers[Register]
  <2>1. /\ y.named = x.named /\ y.counter = x.counter /\ y.tasks = x.tasks
        /\ y.calls \subseteq x.calls
        /\ \/ y.passed /\ ~x.passed /\ x.named
           \/ y.passed = x.passed /\ y.result = x.result
    BY RegisterIsBarrier DEF Calmer, Ends, Stands
  <2>2. (\E t \in Tasks : r.cluster[t].state = "CONNECTED") =>
           \E t \in Tasks : s.cluster[t].state = "CONNECTED"
    BY DEF Calmer
  <2> QED
    BY <2>1, <2>2 DEF OneRegister
<1>5. Newest(s) => Newest(r)
  <2>1. r.barriers[Register].calls \subseteq s.barriers[Register].calls
    BY RegisterIsBarrier DEF Calmer
  <2>2. r.barriers[Register].calls \subseteq Tasks
    BY RegisterIsBarrier DEF Calmer, Service, BarrierState
  <2> QED
    BY <2>1, <2>2 DEF Calmer, Newest
<1>6. Arrived(s) => Arrived(r)
  <2> SUFFICES ASSUME Arrived(s), NEW b \in BarrierIds, r.barriers[b].result = "OK"
               PROVE  /\ r.barriers[b].passed
                      /\ LeaveOnRestart \/ r.barriers[b].tasks = r.barriers[b].at
    BY DEF Arrived
  <2>1. /\ r.barriers[b].tasks = s.barriers[b].tasks
        /\ Ends(r, s, b) \/ Stands(r, s, b)
    BY DEF Calmer
  <2>2. CASE Ends(r, s, b)
    BY <2>2 DEF Ends
  <2>3. CASE Stands(r, s, b)
    BY <2>1, <2>3 DEF Stands, Arrived
  <2> QED
    BY <2>1, <2>2, <2>3
<1> QED
  BY <1>1, <1>2, <1>3, <1>4, <1>5, <1>6

\* In particular it keeps the whole of it.
LEMMA CalmerSettled ==
    ASSUME NEW r, NEW s, Calmer(r, s)
    PROVE  /\ Steady(s) => Steady(r)
           /\ Settled(s) => Settled(r)
BY CalmerKeeps DEF Steady, Settled

\* PassBarrier ends the barriers of F, and their participants exit them.
LEMMA EndBarriersCalmer ==
    ASSUME NEW s, NEW F \in SUBSET BarrierIds, NEW result \in BarrierCodes,
           GoodExcept(s, F),
           Register \in F => ~s.barriers[Register].passed /\ s.barriers[Register].named,
           \A b \in F : result = "OK" =>
              LeaveOnRestart \/ s.barriers[b].tasks = s.barriers[b].at
    PROVE  /\ Calmer(EndBarriers(s, F, result), s)
           /\ \A t \in Tasks : EndBarriers(s, F, result).cluster[t].ongoing =
                 s.cluster[t].ongoing \ {b \in F : t \in s.barriers[b].tasks}
           /\ \A b \in F : /\ EndBarriers(s, F, result).barriers[b].passed
                          /\ EndBarriers(s, F, result).barriers[b].result = result
<1> DEFINE r == EndBarriers(s, F, result)
           bs == [b \in BarrierIds |->
                    IF b \in F
                    THEN [s.barriers[b] EXCEPT !.passed = TRUE, !.result = result,
                                               !.calls = {}]
                    ELSE s.barriers[b]]
           cs == [t \in Tasks |->
                    [s.cluster[t] EXCEPT
                       !.ongoing = @ \ {b \in F : t \in s.barriers[b].tasks}]]
<1>1. /\ s \in Service
      /\ \A b \in BarrierIds : s.barriers[b] \in BarrierState
      /\ \A t \in Tasks : s.cluster[t] \in TaskState
  BY DEF GoodExcept, Service
<1>2. r \in Service
  BY EndBarriersGood DEF Good
<1>3. ASSUME NEW b \in F
      PROVE  /\ bs[b].passed /\ bs[b].calls = {} /\ bs[b].result = result
             /\ bs[b].named = s.barriers[b].named /\ bs[b].counter = s.barriers[b].counter
             /\ bs[b].tasks = s.barriers[b].tasks /\ bs[b].at = s.barriers[b].at
  BY <1>1 DEF BarrierState
<1>4. ASSUME NEW b \in BarrierIds \ F
      PROVE  bs[b] = s.barriers[b]
  OBVIOUS
<1>5. ASSUME NEW t \in Tasks
      PROVE  /\ cs[t].state = s.cluster[t].state
             /\ cs[t].recoverable = s.cluster[t].recoverable
             /\ cs[t].incarnation = s.cluster[t].incarnation
             /\ cs[t].ongoing = s.cluster[t].ongoing \ {b \in F : t \in s.barriers[b].tasks}
  BY <1>1 DEF TaskState
<1>6. r = [s EXCEPT !.barriers = bs, !.cluster = cs, !.ongoing = s.ongoing \ F]
  BY DEF EndBarriers
<1> HIDE DEF bs, cs, r
<1>7. /\ r.barriers = bs /\ r.cluster = cs /\ r.aliveness = s.aliveness
      /\ r.captured = s.captured
  BY <1>1, <1>6 DEF Service
<1>8. ASSUME NEW b \in BarrierIds
      PROVE  /\ r.barriers[b].named = s.barriers[b].named
             /\ r.barriers[b].counter = s.barriers[b].counter
             /\ r.barriers[b].tasks = s.barriers[b].tasks
             /\ r.barriers[b].calls \subseteq s.barriers[b].calls
             /\ Ends(r, s, b) \/ Stands(r, s, b)
  <2>1. CASE b \in F
    BY <1>3, <1>7, <2>1 DEF Ends
  <2>2. CASE b \notin F
    BY <1>4, <1>7, <2>2 DEF Stands
  <2> QED
    BY <2>1, <2>2
<1>9. Calmer(r, s)
  BY <1>2, <1>5, <1>7, <1>8 DEF Calmer
<1> QED
  BY <1>3, <1>5, <1>7, <1>9 DEF r

\* Recoverable tasks leave barriers that go on.
LEMMA LeaveRecoverableCalmer ==
    ASSUME NEW s, NEW R \in SUBSET Tasks, Good(s)
    PROVE  Calmer(LeaveRecoverable(s, R), s)
<1> DEFINE r == LeaveRecoverable(s, R)
           leaving(b) == {t \in R : b \in s.cluster[t].ongoing}
           y(b) == LET x == s.barriers[b] IN
                   [x EXCEPT
                      !.calls = @ \ leaving(b),
                      !.restarted = IF LeaveOnRestart THEN @ \cup (leaving(b) \cap x.tasks)
                                    ELSE @,
                      !.at = IF LeaveOnRestart THEN @ ELSE @ \ leaving(b),
                      !.pending = IF LeaveOnRestart THEN @
                                  ELSE @ + Cardinality(leaving(b) \cap x.at)]
           bs == [b \in BarrierIds |-> y(b)]
<1>1. s \in Service /\ \A b \in BarrierIds : Book(s, b) /\ s.barriers[b] \in BarrierState
  BY DEF Good, Service
<1>2. r \in Service /\ r.cluster = s.cluster
  BY LeaveRecoverableGood DEF Good
<1>3. ASSUME NEW b \in BarrierIds
      PROVE  /\ y(b).calls = s.barriers[b].calls \ leaving(b)
             /\ y(b).at = IF LeaveOnRestart THEN s.barriers[b].at
                          ELSE s.barriers[b].at \ leaving(b)
             /\ \A f \in {"named", "counter", "passed", "tasks", "result"} :
                   y(b)[f] = s.barriers[b][f]
  <2> HIDE DEF leaving
  <2> QED
    BY <1>1 DEF BarrierState
<1>4. r = [s EXCEPT !.barriers = bs]
  BY DEF LeaveRecoverable
<1>5. \A b \in BarrierIds : bs[b] = y(b)
  <2> HIDE DEF y
  <2> QED
    OBVIOUS
<1> HIDE DEF bs, y, r
<1>6. r.barriers = bs /\ r.aliveness = s.aliveness /\ r.captured = s.captured
  BY <1>1, <1>4 DEF Service
<1>7. ASSUME NEW b \in BarrierIds
      PROVE  /\ r.barriers[b].named = s.barriers[b].named
             /\ r.barriers[b].counter = s.barriers[b].counter
             /\ r.barriers[b].tasks = s.barriers[b].tasks
             /\ r.barriers[b].calls \subseteq s.barriers[b].calls
             /\ Stands(r, s, b)
  <2>1. r.barriers[b] = y(b)
    BY <1>5, <1>6
  <2>2. s.barriers[b].passed => leaving(b) = {}
    BY <1>1 DEF Book
  <2> HIDE DEF leaving
  <2> QED
    BY <1>3, <2>1, <2>2 DEF Stands
<1> QED
  BY <1>2, <1>6, <1>7 DEF Calmer, r

\* LeaveOngoingBarriers ends or leaves barriers: its non-recoverable tasks take part
\* in none any more.
LEMMA LeaveOngoingBarriersCalmer ==
    ASSUME NEW s, NEW E \in SUBSET Tasks, Good(s)
    PROVE  /\ QueriesWait(s) => QueriesWait(LeaveOngoingBarriers(s, E))
           /\ Flagged(s) => Flagged(LeaveOngoingBarriers(s, E))
           /\ AllLeft(s) => AllLeft(LeaveOngoingBarriers(s, E))
           /\ OneRegister(s) => OneRegister(LeaveOngoingBarriers(s, E))
           /\ Newest(s) => Newest(LeaveOngoingBarriers(s, E))
           /\ Arrived(s) => Arrived(LeaveOngoingBarriers(s, E))
           /\ \A t \in Tasks :
                LET task == LeaveOngoingBarriers(s, E).cluster[t] IN
                /\ task.state = s.cluster[t].state
                /\ task.recoverable = s.cluster[t].recoverable
                /\ task.ongoing \subseteq s.cluster[t].ongoing
                /\ t \in E \cap NonRecoverable(s) => task.ongoing = {}
           /\ \A b \in BarrierIds : s.barriers[b].passed =>
                 LeaveOngoingBarriers(s, E).barriers[b].passed
<1> DEFINE R == E \ NonRecoverable(s)
           F == Failing(s, E)
           m == LeaveRecoverable(s, R)
           r == EndBarriers(m, F, "INTERNAL")
<1>1. s \in Service /\ R \in SUBSET Tasks /\ (\A b \in BarrierIds : Book(s, b))
  BY DEF Good
<1>2. F \in SUBSET BarrierIds
  BY DEF Good, Service, TaskState, Failing, NonRecoverable
<1>3. F \subseteq s.ongoing
  <2> SUFFICES ASSUME NEW b \in F PROVE b \in s.ongoing
    OBVIOUS
  <2>1. PICK t \in Tasks : b \in s.cluster[t].ongoing
    BY DEF Failing, NonRecoverable
  <2>2. Book(s, b)
    BY <1>1, <1>2
  <2> QED
    BY <2>1, <2>2 DEF Book
<1>4. r = LeaveOngoingBarriers(s, E)
  BY DEF LeaveOngoingBarriers
<1>5. \A t \in E \cap NonRecoverable(s) : s.cluster[t].ongoing \subseteq F
  BY DEF Failing
<1> HIDE DEF R, F
<1>6. Good(m) /\ Calmer(m, s) /\ m.cluster = s.cluster
  BY <1>1, LeaveRecoverableGood, LeaveRecoverableCalmer
<1>7. m.ongoing = s.ongoing
  BY <1>1 DEF LeaveRecoverable, Service
<1> HIDE DEF m
<1>8. Register \in F => ~m.barriers[Register].passed /\ m.barriers[Register].named
  BY <1>3, <1>6, <1>7, RegisterIsBarrier DEF Good, Book
<1>9. GoodExcept(m, F)
  BY <1>6, GoodIsGoodExcept
<1>10. /\ Calmer(r, m)
       /\ \A t \in Tasks : r.cluster[t].ongoing =
             m.cluster[t].ongoing \ {b \in F : t \in m.barriers[b].tasks}
  BY <1>2, <1>8, <1>9, EndBarriersCalmer DEF BarrierCodes
<1> HIDE DEF r
<1>11. /\ QueriesWait(s) => QueriesWait(r)
       /\ Flagged(s) => Flagged(r)
       /\ AllLeft(s) => AllLeft(r)
       /\ OneRegister(s) => OneRegister(r)
       /\ Newest(s) => Newest(r)
       /\ Arrived(s) => Arrived(r)
  BY <1>6, <1>10, CalmerKeeps
<1>12. ASSUME NEW t \in Tasks
       PROVE  /\ r.cluster[t].state = s.cluster[t].state
              /\ r.cluster[t].recoverable = s.cluster[t].recoverable
              /\ r.cluster[t].ongoing \subseteq s.cluster[t].ongoing
  BY <1>6, <1>10 DEF Calmer
<1>13. ASSUME NEW t \in E \cap NonRecoverable(s)
       PROVE  r.cluster[t].ongoing = {}
  <2>1. t \in Tasks /\ s.cluster[t].ongoing \subseteq F
    BY <1>5
  <2>2. \A b \in s.cluster[t].ongoing : b \in BarrierIds /\ t \in m.barriers[b].tasks
    BY <1>2, <1>6, <2>1 DEF Good, Book
  <2> QED
    BY <1>6, <1>10, <2>1, <2>2
<1>14. ASSUME NEW b \in BarrierIds, s.barriers[b].passed
       PROVE  r.barriers[b].passed
  BY <1>6, <1>10, <1>14 DEF Calmer, Ends, Stands
<1> QED
  BY <1>4, <1>11, <1>12, <1>13, <1>14

\* RefreshAliveness leaves no query that could be answered, and changes nothing else.
LEMMA RefreshAlivenessSettled ==
    ASSUME NEW s \in Service
    PROVE  /\ QueriesWait(RefreshAliveness(s))
           /\ Steady(s) => Settled(RefreshAliveness(s))
           /\ RefreshAliveness(s).barriers = s.barriers
<1> DEFINE al == {a \in s.aliveness : ~(AliveTasks(s, a.tasks) \subseteq a.in_barrier)}
           r == RefreshAliveness(s)
<1>1. r = [s EXCEPT !.aliveness = al]
  BY DEF RefreshAliveness
<1>2. \A a \in al : ~(AliveTasks(s, a.tasks) \subseteq a.in_barrier)
  OBVIOUS
<1> HIDE DEF al, r
<1>3. /\ r.aliveness = al /\ r.cluster = s.cluster /\ r.barriers = s.barriers
      /\ r.captured = s.captured
  BY <1>1 DEF Service
<1>4. \A a \in al : AliveTasks(r, a.tasks) = AliveTasks(s, a.tasks)
  BY <1>3, AliveTasksSame
<1>5. QueriesWait(r)
  BY <1>2, <1>3, <1>4 DEF QueriesWait
<1>6. Steady(s) => Steady(r)
  BY <1>3 DEF Steady, Flagged, AllLeft, OneRegister, Newest, Arrived
<1> QED
  BY <1>3, <1>5, <1>6 DEF Settled, r

\* Putting tasks in other states than CONNECTED keeps all but QueriesWait and AllLeft.
LEMMA MarkedSteady ==
    ASSUME NEW s \in Service, NEW cs \in [Tasks -> TaskState],
           \A t \in Tasks :
             /\ cs[t].recoverable = s.cluster[t].recoverable
             /\ cs[t].incarnation = s.cluster[t].incarnation
             /\ cs[t].state = "CONNECTED" => s.cluster[t].state = "CONNECTED",
           Steady(s)
    PROVE  LET r == [s EXCEPT !.cluster = cs]
           IN /\ Flagged(r) /\ OneRegister(r) /\ Newest(r) /\ Arrived(r)
              /\ r.cluster = cs /\ r.barriers = s.barriers
<1> DEFINE r == [s EXCEPT !.cluster = cs]
<1>1. r.cluster = cs /\ r.barriers = s.barriers /\ r.captured = s.captured
  BY DEF Service
<1>2. s.barriers[Register].calls \subseteq Tasks
  BY RegisterIsBarrier DEF Service, BarrierState
<1> HIDE DEF r
<1>3. Flagged(r)
  BY <1>1 DEF Steady, Flagged
<1>4. OneRegister(r)
  BY <1>1 DEF Steady, OneRegister
<1>5. Newest(r)
  BY <1>1, <1>2 DEF Steady, Newest
<1>6. Arrived(r)
  BY <1>1 DEF Steady, Arrived
<1> QED
  BY <1>1, <1>3, <1>4, <1>5, <1>6 DEF r

\* Setting tasks to error settles the service: they leave their barriers and the
\* queries that waited for them are answered.
LEMMA ErrorWaveSettled ==
    ASSUME NEW s, NEW E \in SUBSET Tasks, NEW code \in TaskCodes, Good(s), Steady(s)
    PROVE  /\ Settled(ErrorWave(s, E, code))
           /\ \A b \in BarrierIds : s.barriers[b].passed =>
                 ErrorWave(s, E, code).barriers[b].passed
<1> DEFINE failed == E \ InState(s, "ERROR")
           cs == [t \in Tasks |->
                    IF t \in failed
                    THEN [s.cluster[t] EXCEPT !.state = "ERROR", !.status = code]
                    ELSE s.cluster[t]]
           marked == [s EXCEPT !.cluster = cs]
           left == LeaveOngoingBarriers(marked, failed)
<1>1. s \in Service /\ \A t \in Tasks : s.cluster[t] \in TaskState
  BY DEF Good, Service
<1>2. /\ cs \in [Tasks -> TaskState]
      /\ \A t \in Tasks :
           /\ cs[t].ongoing = s.cluster[t].ongoing
           /\ cs[t].recoverable = s.cluster[t].recoverable
           /\ cs[t].incarnation = s.cluster[t].incarnation
           /\ cs[t].state = IF t \in failed THEN "ERROR" ELSE s.cluster[t].state
  BY <1>1 DEF TaskState
<1>3. failed \in SUBSET Tasks
  OBVIOUS
<1>4. ErrorWave(s, E, code) = RefreshAliveness(left)
  BY DEF ErrorWave
<1> HIDE DEF cs, failed
<1>5. Good(marked)
  BY <1>1, <1>2, TaskUpdateSimilar, SimilarGood
<1>6. /\ Flagged(marked) /\ OneRegister(marked) /\ Newest(marked) /\ Arrived(marked)
      /\ marked.cluster = cs /\ marked.barriers = s.barriers
  BY <1>1, <1>2, MarkedSteady
<1> HIDE DEF marked
<1>7. Good(left)
  BY <1>3, <1>5, LeaveOngoingBarriersGood
<1>8. /\ Flagged(left) /\ OneRegister(left) /\ Newest(left) /\ Arrived(left)
      /\ \A t \in Tasks :
           /\ left.cluster[t].state = cs[t].state
           /\ left.cluster[t].recoverable = cs[t].recoverable
           /\ left.cluster[t].ongoing \subseteq cs[t].ongoing
           /\ t \in failed \cap NonRecoverable(marked) => left.cluster[t].ongoing = {}
      /\ \A b \in BarrierIds : s.barriers[b].passed => left.barriers[b].passed
  BY <1>3, <1>5, <1>6, LeaveOngoingBarriersCalmer
<1> HIDE DEF left
<1>9. AllLeft(left)
  <2> SUFFICES ASSUME NEW t \in Tasks, left.cluster[t].state = "ERROR",
                      ~left.cluster[t].recoverable
               PROVE  left.cluster[t].ongoing = {}
    BY DEF AllLeft
  <2>1. CASE t \in failed
    BY <1>6, <1>8, <2>1 DEF NonRecoverable
  <2>2. CASE t \notin failed
    BY <1>2, <1>8, <2>2 DEF Steady, AllLeft
  <2> QED
    BY <2>1, <2>2
<1>10. Steady(left) /\ left \in Service
  BY <1>7, <1>8, <1>9 DEF Steady, Good
<1> QED
  BY <1>4, <1>8, <1>10, RefreshAlivenessSettled

\* Answering the polls changes nothing the invariant is about.
LEMMA SendErrorPollingResponseSettled ==
    ASSUME NEW s \in Service
    PROVE  /\ Settled(s) => Settled(SendErrorPollingResponse(s))
           /\ SendErrorPollingResponse(s).barriers = s.barriers
<1> DEFINE r == SendErrorPollingResponse(s)
<1>1. /\ r \in Service /\ r.barriers = s.barriers /\ r.cluster = s.cluster
      /\ r.aliveness = s.aliveness /\ r.captured = s.captured
  BY DEF SendErrorPollingResponse, Service
<1> HIDE DEF r
<1>2. Calmer(r, s)
  BY <1>1 DEF Calmer, Stands
<1> QED
  BY <1>1, <1>2, CalmerSettled DEF r

\* The hooks run after a failed register or shutdown barrier keep the invariant.
LEMMA AfterFailureSettled ==
    ASSUME NEW s, NEW F, Good(s), Steady(s)
    PROVE  /\ Steady(AfterFailure(s, F))
           /\ QueriesWait(s) => Settled(AfterFailure(s, F))
           /\ \A b \in BarrierIds : s.barriers[b].passed => AfterFailure(s, F).barriers[b].passed
<1> DEFINE wave == ErrorWave(s, Tasks, "OTHER")
<1>1. Good(wave) /\ wave \in Service
  BY ErrorWaveGood DEF TaskCodes, Good
<1>2. Settled(wave) /\ \A b \in BarrierIds : s.barriers[b].passed => wave.barriers[b].passed
  BY ErrorWaveSettled DEF TaskCodes
<1> HIDE DEF wave
<1>3. /\ Settled(TellShutdownError(wave))
      /\ TellShutdownError(wave).barriers = wave.barriers
  BY <1>1, <1>2, SendErrorPollingResponseSettled DEF TellShutdownError
<1>4. \/ AfterFailure(s, F) = s
      \/ AfterFailure(s, F) = wave
      \/ AfterFailure(s, F) = TellShutdownError(wave)
  BY DEF AfterFailure, wave
<1> QED
  BY <1>2, <1>3, <1>4 DEF Settled

\* SetTaskError settles the service.
LEMMA SetTaskErrorSettled ==
    ASSUME NEW s, NEW E \in SUBSET Tasks, NEW code \in TaskCodes, Good(s), Steady(s)
    PROVE  Settled(SetTaskError(s, E, code))
<1> DEFINE wave == ErrorWave(s, E, code)
<1>1. Good(wave) /\ Settled(wave)
  BY ErrorWaveGood, ErrorWaveSettled
<1>2. SetTaskError(s, E, code) = AfterFailure(wave, Failing(s, E \ InState(s, "ERROR")))
  BY DEF SetTaskError
<1> HIDE DEF wave
<1> QED
  BY <1>1, <1>2, AfterFailureSettled DEF Settled

\* The error path of the handlers settles the service.
LEMMA FailTasksSettled ==
    ASSUME NEW s, NEW E \in SUBSET Tasks, NEW code \in TaskCodes, Good(s), Steady(s)
    PROVE  Settled(FailTasks(s, E, code))
<1> DEFINE r == SetTaskError(s, E, code)
<1>1. Good(r) /\ Settled(r) /\ r \in Service
  BY SetTaskErrorGood, SetTaskErrorSettled DEF Good
<1> HIDE DEF r
<1>2. Settled(SendErrorPollingResponse(r)) /\ Settled(SetTaskError(r, Tasks, "OTHER"))
  BY <1>1, SendErrorPollingResponseSettled, SetTaskErrorSettled DEF TaskCodes, Settled
<1>3. FailTasks(s, E, code) = PropagateError(r, E)
  BY DEF FailTasks, r
<1> QED
  BY <1>1, <1>2, <1>3 DEF PropagateError

\* DisconnectTask settles the service.
LEMMA DisconnectTasksSettled ==
    ASSUME NEW s, NEW D \in SUBSET Tasks, Good(s), Steady(s)
    PROVE  Settled(DisconnectTasks(s, D))
<1> DEFINE gone == D \ InState(s, "DISCONNECTED")
           cs == [t \in Tasks |->
                    IF t \in gone
                    THEN [s.cluster[t] EXCEPT !.state = "DISCONNECTED",
                                              !.status = "OK", !.grace = TRUE]
                    ELSE s.cluster[t]]
           marked == [s EXCEPT !.cluster = cs]
           left == LeaveOngoingBarriers(marked, gone)
           after == AfterFailure(left, Failing(s, gone))
           fresh == RefreshAliveness(after)
           r == [fresh EXCEPT !.polls = @ \ gone]
<1>1. s \in Service /\ \A t \in Tasks : s.cluster[t] \in TaskState
  BY DEF Good, Service
<1>2. /\ cs \in [Tasks -> TaskState]
      /\ \A t \in Tasks :
           /\ cs[t].ongoing = s.cluster[t].ongoing
           /\ cs[t].recoverable = s.cluster[t].recoverable
           /\ cs[t].incarnation = s.cluster[t].incarnation
           /\ cs[t].state = IF t \in gone THEN "DISCONNECTED" ELSE s.cluster[t].state
  BY <1>1 DEF TaskState, TaskCodes
<1>3. gone \in SUBSET Tasks
  OBVIOUS
<1>4. DisconnectTasks(s, D) = r
  BY DEF DisconnectTasks
<1> HIDE DEF cs, gone
<1>5. Good(marked)
  BY <1>1, <1>2, TaskUpdateSimilar, SimilarGood
<1>6. /\ Flagged(marked) /\ OneRegister(marked) /\ Newest(marked) /\ Arrived(marked)
      /\ marked.cluster = cs
  BY <1>1, <1>2, MarkedSteady
<1> HIDE DEF marked
<1>7. AllLeft(marked)
  BY <1>2, <1>6 DEF Steady, AllLeft
<1>8. Good(left) /\ Steady(left)
  BY <1>3, <1>5, <1>6, <1>7, LeaveOngoingBarriersGood, LeaveOngoingBarriersCalmer DEF Steady
<1> HIDE DEF left
<1>9. Good(after) /\ Steady(after) /\ after \in Service
  BY <1>8, AfterFailureGood, AfterFailureSettled DEF Good
<1> HIDE DEF after
<1>10. Settled(fresh) /\ fresh \in Service
  BY <1>9, RefreshAlivenessSettled, RefreshAlivenessSimilar DEF Similar
<1> HIDE DEF fresh
<1>11. /\ r \in Service /\ r.barriers = fresh.barriers /\ r.cluster = fresh.cluster
       /\ r.aliveness = fresh.aliveness /\ r.captured = fresh.captured
  BY <1>10 DEF Service
<1> HIDE DEF r
<1>12. Calmer(r, fresh)
  BY <1>11 DEF Calmer, Stands
<1> QED
  BY <1>4, <1>10, <1>12, CalmerSettled

\* Connecting tasks keeps the invariant, if the register barrier allows it.
LEMMA ConnectTasksSettled ==
    ASSUME NEW s, NEW C, Good(s), Settled(s),
           RegisterWithBarrier =>
              s.barriers[Register].passed /\ s.barriers[Register].result = "OK"
    PROVE  Settled(ConnectTasks(s, C))
<1> DEFINE cs == [t \in Tasks |->
                    IF t \in C
                    THEN [s.cluster[t] EXCEPT !.state = "CONNECTED", !.status = "OK"]
                    ELSE s.cluster[t]]
           r == ConnectTasks(s, C)
<1>1. s \in Service /\ \A t \in Tasks : s.cluster[t] \in TaskState
  BY DEF Good, Service
<1>2. \A t \in Tasks :
           /\ cs[t].ongoing = s.cluster[t].ongoing
           /\ cs[t].recoverable = s.cluster[t].recoverable
           /\ cs[t].incarnation = s.cluster[t].incarnation
           /\ cs[t].state = IF t \in C THEN "CONNECTED" ELSE s.cluster[t].state
  BY <1>1 DEF TaskState
<1>3. r = [s EXCEPT !.cluster = cs]
  BY DEF ConnectTasks
<1> HIDE DEF cs, r
<1>4. /\ r.cluster = cs /\ r.barriers = s.barriers /\ r.captured = s.captured
      /\ r.aliveness = s.aliveness
  BY <1>1, <1>3 DEF Service
<1>5. s.barriers[Register].calls \subseteq Tasks
  BY <1>1, RegisterIsBarrier DEF Service, BarrierState
<1>6. Flagged(r) /\ AllLeft(r)
  BY <1>2, <1>4 DEF Settled, Steady, Flagged, AllLeft
<1>7. OneRegister(r)
  BY <1>4 DEF Settled, Steady, OneRegister
<1>8. Newest(r)
  BY <1>2, <1>4, <1>5 DEF Settled, Steady, Newest
<1>9. Arrived(r)
  BY <1>4 DEF Settled, Steady, Arrived
<1>10. \A T : AliveTasks(s, T) \subseteq AliveTasks(r, T)
  BY <1>2, <1>4 DEF AliveTasks, InState
<1>11. QueriesWait(r)
  BY <1>4, <1>10 DEF Settled, QueriesWait
<1> QED
  BY <1>6, <1>7, <1>8, <1>9, <1>11 DEF Settled, Steady, r

\* PassBarrier(b, OK) keeps the invariant, if everybody has arrived.
LEMMA PassBarrierOkSettled ==
    ASSUME NEW s, NEW b \in BarrierIds, GoodExcept(s, {b}), Settled(s),
           b = Register => ~s.barriers[b].passed /\ s.barriers[b].named,
           s.barriers[b].tasks = s.barriers[b].at
    PROVE  Settled(PassBarrierOk(s, b))
<1> DEFINE ended == EndBarriers(s, {b}, "OK")
<1>1. Good(ended)
  BY EndBarriersGood DEF BarrierCodes
<1>2. Calmer(ended, s) /\ ended.barriers[b].passed /\ ended.barriers[b].result = "OK"
  BY EndBarriersCalmer DEF BarrierCodes
<1> HIDE DEF ended
<1>3. Settled(ended)
  BY <1>2, CalmerSettled
<1>4. NonRecoverable(s) \in SUBSET Tasks
  BY DEF NonRecoverable
<1>5. Settled(DisconnectTasks(ended, NonRecoverable(s)))
  BY <1>1, <1>3, <1>4, DisconnectTasksSettled DEF Settled
<1>6. b = Register => Settled(ConnectAfterBarrierPasses(ended, s.barriers[b].calls))
  BY <1>1, <1>2, <1>3, ConnectTasksSettled DEF ConnectAfterBarrierPasses
<1> QED
  BY <1>3, <1>5, <1>6 DEF PassBarrierOk, ended

\* PassBarrier(b, error) keeps the invariant, and b has passed.
LEMMA PassBarrierErrorSettled ==
    ASSUME NEW s, NEW b \in BarrierIds, NEW result \in BarrierCodes \ {"OK"},
           GoodExcept(s, {b}), Settled(s),
           b = Register => ~s.barriers[b].passed /\ s.barriers[b].named
    PROVE  /\ Settled(PassBarrierError(s, b, result))
           /\ PassBarrierError(s, b, result).barriers[b].passed
<1> DEFINE ended == EndBarriers(s, {b}, result)
<1>1. Good(ended)
  BY EndBarriersGood
<1>2. Calmer(ended, s) /\ ended.barriers[b].passed
  BY EndBarriersCalmer
<1>3. PassBarrierError(s, b, result) = AfterFailure(ended, {b})
  BY DEF PassBarrierError
<1> HIDE DEF ended
<1>4. Settled(ended)
  BY <1>2, CalmerSettled
<1> QED
  BY <1>1, <1>2, <1>3, <1>4, AfterFailureSettled DEF Settled

\* A state y that barrier b may be put in.
Fits(s, b, y) ==
    /\ y.result = "OK" => y.passed /\ (LeaveOnRestart \/ y.tasks = y.at)
    /\ b = Register =>
         /\ y.counter = 0
         /\ y.named => y.tasks = Tasks
         /\ y.passed => y.named
         /\ ~RegisterWithBarrier => ~y.named
         /\ RegisterWithBarrier /\ (\E t \in Tasks : s.cluster[t].state = "CONNECTED") =>
              y.passed /\ y.result = "OK"
         /\ \A t \in y.calls : s.captured[t] = s.cluster[t].incarnation

\* Replacing the state of one barrier by one that fits keeps the invariant.
LEMMA ReplacesSettled ==
    ASSUME NEW r, NEW s, NEW b \in BarrierIds, NEW y, Replaces(r, s, b, y), Settled(s),
           Fits(s, b, y)
    PROVE  Settled(r)
<1>1. /\ r.cluster = s.cluster /\ r.aliveness = s.aliveness /\ r.captured = s.captured
      /\ r.barriers[b] = y /\ \A c \in BarrierIds \ {b} : r.barriers[c] = s.barriers[c]
  BY DEF Replaces
<1>2. Flagged(r) /\ AllLeft(r)
  BY <1>1 DEF Settled, Steady, Flagged, AllLeft
<1>3. OneRegister(r) /\ Newest(r)
  <2>1. CASE b = Register
    BY <1>1, <2>1 DEF Fits, OneRegister, Newest
  <2>2. CASE b # Register
    BY <1>1, <2>2, RegisterIsBarrier DEF Settled, Steady, OneRegister, Newest
  <2> QED
    BY <2>1, <2>2
<1>4. Arrived(r)
  BY <1>1 DEF Fits, Settled, Steady, Arrived
<1>5. \A a \in r.aliveness : AliveTasks(r, a.tasks) = AliveTasks(s, a.tasks)
  BY <1>1, AliveTasksSame
<1>6. QueriesWait(r)
  BY <1>1, <1>5 DEF Settled, QueriesWait
<1> QED
  BY <1>2, <1>3, <1>4, <1>6 DEF Settled, Steady

\* Task t may call barrier b: the register barrier is called with the newest
\* incarnation of the task.
MayCall(s, t, b) ==
    b = Register =>
      /\ RegisterWithBarrier
      /\ s.barriers[b].named
      /\ s.captured[t] = s.cluster[t].incarnation

\* AddBarrierCallback keeps the invariant.
LEMMA AddBarrierCallbackSettled ==
    ASSUME NEW s, NEW t \in Tasks, NEW b \in BarrierIds, Good(s), Settled(s),
           MayCall(s, t, b)
    PROVE  Settled(AddBarrierCallback(s, t, b))
<1> DEFINE x == s.barriers[b]
           y == [x EXCEPT !.calls = @ \cup {t}]
           r == AddBarrierCallback(s, t, b)
<1>1. s \in Service /\ x \in BarrierState
  BY DEF Good, Service
<1>2. Replaces(r, s, b, y)
  BY <1>1, AddBarrierCallbackReplaces
<1>3. /\ y.calls = x.calls \cup {t} /\ y.named = x.named /\ y.counter = x.counter
      /\ y.passed = x.passed /\ y.result = x.result /\ y.tasks = x.tasks /\ y.at = x.at
  BY <1>1 DEF BarrierState
<1> HIDE DEF y, r
<1>4. Fits(s, b, y)
  <2>1. y.result = "OK" => y.passed /\ (LeaveOnRestart \/ y.tasks = y.at)
    BY <1>3 DEF Settled, Steady, Arrived
  <2>2. CASE b = Register
    BY <1>3, <2>1, <2>2 DEF Settled, Steady, OneRegister, Newest, MayCall, Fits
  <2>3. CASE b # Register
    BY <2>1, <2>3 DEF Fits
  <2> QED
    BY <2>2, <2>3
<1> QED
  BY <1>2, <1>4, ReplacesSettled DEF r

\* The tasks are in r what they are in s but for the barriers they take part in, and the
\* shutdown barrier has passed in r, with the same result, if it has in s.
Quiet(r, s) ==
    /\ \A t \in Tasks : \A f \in {"state", "status", "incarnation", "recoverable"} :
          r.cluster[t][f] = s.cluster[t][f]
    /\ r.barriers[Shutdown].passed = s.barriers[Shutdown].passed
    /\ s.barriers[Shutdown].passed =>
          r.barriers[Shutdown].result = s.barriers[Shutdown].result

\* Barrier b is about to pass in q, with everybody there.
Complete(q, b) ==
    /\ GoodExcept(q, {b}) /\ Settled(q)
    /\ q.barriers[b].named /\ ~q.barriers[b].passed
    /\ q.barriers[b].tasks = q.barriers[b].at

\* Replacing a barrier by one that has passed only if it had, with the same result, is
\* quiet.
LEMMA ReplacesQuiet ==
    ASSUME NEW r, NEW s, NEW b \in BarrierIds, NEW y, Replaces(r, s, b, y),
           y.passed = s.barriers[b].passed,
           s.barriers[b].passed => y.result = s.barriers[b].result
    PROVE  Quiet(r, s)
<1>1. Shutdown \in BarrierIds
  BY DEF BarrierIds, Special
<1>2. /\ r.cluster = s.cluster /\ r.barriers[b] = y
      /\ \A c \in BarrierIds \ {b} : r.barriers[c] = s.barriers[c]
  BY DEF Replaces
<1> QED
  BY <1>1, <1>2 DEF Quiet

\* A participant's call to an ongoing barrier: when the last one arrives, everybody is
\* there and the barrier passes.
LEMMA ReachBarrierForm ==
    ASSUME NEW s, NEW t \in Tasks, NEW b \in BarrierIds, Good(s), Settled(s),
           b \in s.ongoing, t \in s.barriers[b].tasks, MayCall(s, t, b)
    PROVE  LET r == ReachBarrier(AddBarrierCallback(s, t, b), t, b) IN
           \/ Settled(r) /\ Quiet(r, s)
           \/ \E q : r = PassBarrierOk(q, b) /\ Complete(q, b) /\ Quiet(q, s)
<1> DEFINE r == AddBarrierCallback(s, t, b)
           x == s.barriers[b]
           y == [x EXCEPT !.calls = @ \cup {t}]
           at == y.at \cup {t}
           pd == y.pending - 1
           z == [y EXCEPT !.at = at, !.pending = pd]
           bs == [r.barriers EXCEPT ![b] = z]
           arrived == [r EXCEPT !.barriers = bs]
           us == r.unsynced \ y.tasks
           synced == [arrived EXCEPT !.unsynced = us]
<1>1. s \in Service /\ x \in BarrierState /\ Book(s, b)
  BY DEF Good, Service
<1>2. Replaces(r, s, b, y) /\ Settled(r)
  BY <1>1, AddBarrierCallbackReplaces, AddBarrierCallbackSettled
<1>3. /\ y \in BarrierState
      /\ y.calls = x.calls \cup {t} /\ y.named = x.named /\ y.counter = x.counter
      /\ y.passed = x.passed /\ y.result = x.result /\ y.tasks = x.tasks
      /\ y.at = x.at /\ y.pending = x.pending
  BY <1>1 DEF BarrierState
<1>4. r \in Service /\ r.barriers \in [BarrierIds -> BarrierState] /\ r.barriers[b] = y
  BY <1>2 DEF Replaces, Service
<1>5. ReachBarrier(r, t, b) = IF t \in y.at THEN r
                              ELSE IF y.pending # 1 THEN arrived
                              ELSE PassBarrierOk(synced, b)
  BY <1>4 DEF ReachBarrier, Service, BarrierState
<1> HIDE DEF y
<1>6. at \in SUBSET Tasks /\ pd \in Int /\ us \in SUBSET Tasks
  BY <1>3, <1>4 DEF BarrierState, Service
<1> HIDE DEF at, pd, us
<1>7. /\ z \in BarrierState /\ z.calls = y.calls /\ z.at = at /\ z.pending = pd
      /\ z.named = y.named /\ z.counter = y.counter /\ z.passed = y.passed
      /\ z.result = y.result /\ z.tasks = y.tasks
  BY <1>3, <1>6 DEF BarrierState
<1> HIDE DEF z
<1>8. /\ bs \in [BarrierIds -> BarrierState] /\ bs[b] = z
      /\ \A c \in BarrierIds \ {b} : bs[c] = r.barriers[c]
  BY <1>4, <1>7
<1> HIDE DEF bs, r
<1>9. Replaces(arrived, r, b, z)
  BY <1>4, <1>8 DEF Replaces, Service
<1>10. Replaces(arrived, s, b, z)
  BY <1>2, <1>9 DEF Replaces
<1>11. /\ synced \in Service /\ synced.barriers = arrived.barriers
       /\ synced.ongoing = arrived.ongoing /\ synced.cluster = arrived.cluster
       /\ synced.aliveness = arrived.aliveness /\ synced.captured = arrived.captured
  BY <1>6, <1>9 DEF Replaces, Service
<1> HIDE DEF arrived, synced
<1>12. ~z.passed /\ z.named /\ z.result # "OK"
  BY <1>1, <1>3, <1>7 DEF Book, Settled, Steady, Arrived
<1>13. Settled(arrived)
  <2>1. b = Register =>
          /\ z.calls = r.barriers[b].calls /\ r.barriers[b].counter = 0 /\ z.counter = 0
          /\ z.tasks = Tasks
          /\ RegisterWithBarrier
          /\ ~ \E u \in Tasks : r.cluster[u].state = "CONNECTED"
    BY <1>2, <1>4, <1>7, <1>12 DEF Settled, Steady, OneRegister, MayCall
  <2>2. Fits(r, b, z)
    BY <1>2, <1>12, <2>1 DEF Fits, Settled, Steady, OneRegister, Newest
  <2> QED
    BY <1>2, <1>9, <2>2, ReplacesSettled
<1>14. Quiet(r, s) /\ Quiet(arrived, s) /\ Quiet(synced, s)
  <2>1. Quiet(r, s) /\ Quiet(arrived, s)
    BY <1>2, <1>3, <1>7, <1>10, ReplacesQuiet
  <2> QED
    BY <1>11, <2>1 DEF Quiet
<1>15. CASE t \in y.at \/ y.pending # 1
  BY <1>2, <1>5, <1>13, <1>15, <1>14 DEF r
<1>16. CASE t \notin y.at /\ y.pending = 1
  <2>1. x.tasks \ (x.at \cup {t}) = {}
    <3>1. /\ x.at \in SUBSET x.tasks /\ x.tasks \in SUBSET Tasks /\ t \in x.tasks \ x.at
          /\ Cardinality(x.tasks \ x.at) = 1
      BY <1>1, <1>3, <1>16 DEF Book, BarrierState
    <3> DEFINE A == x.tasks \ (x.at \cup {t})
    <3>2. Cardinality(A) = 0
      BY <3>1, ArrivalCount
    <3>3. IsFiniteSet(A)
      BY <3>1, TasksAssumption, FS_Subset
    <3> HIDE DEF A
    <3>4. A = {}
      BY <3>2, <3>3, FS_EmptySet
    <3> QED
      BY <3>4 DEF A
  <2>2. z.tasks = z.at
    BY <1>1, <1>3, <1>7, <2>1 DEF Book, at
  <2>3. Frame(arrived, b)
    <3>1. arrived.cluster = s.cluster /\ arrived.barriers[b] = z
      BY <1>10 DEF Replaces
    <3> QED
      BY <1>1, <1>3, <1>7, <1>12, <2>2, <3>1 DEF Book, Frame
  <2>4. GoodExcept(arrived, {b})
    BY <1>10, <2>3, ReplacesGood
  <2>5. Similar(synced, arrived)
    BY <1>11 DEF Similar
  <2>6. GoodExcept(synced, {b})
    BY <2>4, <2>5, SimilarGood
  <2>7. Calmer(synced, arrived)
    BY <1>11 DEF Calmer, Stands
  <2>8. Settled(synced)
    BY <1>13, <2>7, CalmerSettled
  <2>9. synced.barriers[b] = z
    BY <1>10, <1>11 DEF Replaces
  <2>10. Complete(synced, b)
    BY <1>12, <2>2, <2>6, <2>8, <2>9 DEF Complete
  <2> QED
    BY <1>5, <1>16, <1>14, <2>10 DEF r
<1> QED
  BY <1>15, <1>16

\* A participant's call to an ongoing barrier keeps the invariant.
LEMMA ReachBarrierSettled ==
    ASSUME NEW s, NEW t \in Tasks, NEW b \in BarrierIds, Good(s), Settled(s),
           b \in s.ongoing, t \in s.barriers[b].tasks, MayCall(s, t, b)
    PROVE  Settled(ReachBarrier(AddBarrierCallback(s, t, b), t, b))
<1> DEFINE r == ReachBarrier(AddBarrierCallback(s, t, b), t, b)
<1>1. Settled(r) \/ \E q : r = PassBarrierOk(q, b) /\ Complete(q, b)
  BY ReachBarrierForm
<1> HIDE DEF r
<1>2. \A q : Complete(q, b) => Settled(PassBarrierOk(q, b))
  BY PassBarrierOkSettled DEF Complete
<1>3. Settled(r)
  BY <1>1, <1>2
<1> QED
  BY <1>3 DEF r

\* Unless barrier b has passed in r, it is named, and neither the tasks nor the other
\* barriers have changed.
Unfailed(r, s, b) ==
    \/ r.barriers[b].passed
    \/ /\ r.barriers[b].named
       /\ r.captured = s.captured
       /\ \A t \in Tasks : \A f \in {"state", "status", "incarnation", "recoverable"} :
             r.cluster[t][f] = s.cluster[t][f]
       /\ \A c \in BarrierIds \ {b} : r.barriers[c] = s.barriers[c]

\* InitializeBarrier keeps the invariant; unless the new instance has failed already,
\* it is named and no task has changed.
LEMMA InitializeBarrierSettled ==
    ASSUME NEW s, NEW b \in BarrierIds, NEW counter \in Counters,
           NEW args \in SUBSET (Tasks \cup {Stranger}), NEW before \in SUBSET Tasks,
           Tasks # {}, Good(s), Settled(s), b \notin s.ongoing,
           b = Register =>
             RegisterWithBarrier /\ counter = 0 /\ args = {} /\ ~s.barriers[b].passed
    PROVE  /\ Settled(InitializeBarrier(s, b, counter, args, before))
           /\ Unfailed(InitializeBarrier(s, b, counter, args, before), s, b)
<1> DEFINE members == InitializeTasksAtBarrier(s.barriers[b], args, before)
           unknown == s.barriers[b].tasks = {} /\ Stranger \in args
           broken == members \cap NonRecoverable(s) \cap InState(s, "ERROR")
           r == InitializeBarrier(s, b, counter, args, before)
<1>1. PICK fresh :
         /\ IsFresh(fresh, s, b, counter, members)
         /\ \/ unknown /\ r = PassBarrierError(fresh, b, "INVALID_ARGUMENT")
            \/ broken # {} /\ r = PassBarrierError(fresh, b, "INTERNAL")
            \/ /\ broken = {} /\ members # {}
               /\ fresh.barriers[b].pending = Cardinality(members)
               /\ HasBegun(r, fresh, s, b, members)
  BY InitializeBarrierForm, Zenon
<1>2. b = Register => members = Tasks
  <2>1. Book(s, b)
    BY DEF Good
  <2> QED
    BY <2>1 DEF Settled, Steady, OneRegister, Book, InitializeTasksAtBarrier
<1>3. members \subseteq Tasks
  BY InitializeTasksAtBarrierMembers DEF Good, Service
<1> DEFINE z == fresh.barriers[b]
<1>4. /\ Replaces(fresh, s, b, z) /\ GoodExcept(fresh, {b})
      /\ z.named /\ ~z.passed /\ z.result = "UNKNOWN" /\ z.counter = counter
      /\ z.calls = {} /\ z.at = {} /\ z.tasks = members
  BY <1>1 DEF IsFresh
<1> HIDE DEF members, unknown, r, z
<1>5. Settled(fresh)
  <2>1. b = Register => ~(RegisterWithBarrier /\ \E t \in Tasks : s.cluster[t].state = "CONNECTED")
    BY DEF Settled, Steady, OneRegister
  <2>2. Fits(s, b, z)
    BY <1>2, <1>4, <2>1 DEF Fits
  <2> QED
    BY <1>4, <2>2, ReplacesSettled
<1>6. ASSUME NEW result \in BarrierCodes \ {"OK"}, r = PassBarrierError(fresh, b, result)
      PROVE  Settled(r) /\ r.barriers[b].passed
  BY <1>4, <1>5, <1>6, PassBarrierErrorSettled DEF z
<1>7. ASSUME broken = {}, HasBegun(r, fresh, s, b, members)
      PROVE  Settled(r) /\ Unfailed(r, s, b)
  <2>1. /\ r \in Service /\ r.barriers = fresh.barriers /\ r.captured = s.captured
        /\ r.aliveness = s.aliveness
        /\ \A t \in Tasks :
             /\ r.cluster[t].ongoing = IF t \in members THEN s.cluster[t].ongoing \cup {b}
                                       ELSE s.cluster[t].ongoing
             /\ r.cluster[t].state = s.cluster[t].state
             /\ r.cluster[t].recoverable = s.cluster[t].recoverable
             /\ r.cluster[t].incarnation = s.cluster[t].incarnation
    BY <1>7 DEF HasBegun
  <2>2. fresh.cluster = s.cluster /\ fresh.captured = s.captured /\ fresh.aliveness = s.aliveness
    BY <1>4 DEF Replaces
  <2>3. r.barriers[Register].calls \subseteq Tasks
    BY <2>1, RegisterIsBarrier DEF Service, BarrierState
  <2>4. Flagged(r)
    BY <1>5, <2>1, <2>2 DEF Settled, Steady, Flagged
  <2>5. AllLeft(r)
    <3>1. \A t \in members : ~(s.cluster[t].state = "ERROR" /\ ~s.cluster[t].recoverable)
      BY <1>3, <1>7 DEF NonRecoverable, InState
    <3> QED
      BY <2>1, <3>1 DEF Settled, Steady, AllLeft
  <2>6. OneRegister(r)
    BY <1>5, <2>1, <2>2 DEF Settled, Steady, OneRegister
  <2>7. Newest(r)
    <3>1. /\ \A t \in Tasks : r.cluster[t].incarnation = fresh.cluster[t].incarnation
          /\ r.captured = fresh.captured /\ r.barriers[Register] = fresh.barriers[Register]
      BY <2>1, <2>2
    <3> QED
      BY <1>5, <2>3, <3>1 DEF Settled, Steady, Newest
  <2>8. Arrived(r)
    BY <1>5, <2>1 DEF Settled, Steady, Arrived
  <2>9. \A a \in r.aliveness : AliveTasks(r, a.tasks) = AliveTasks(s, a.tasks)
    <3>1. \A t \in Tasks : r.cluster[t].state = s.cluster[t].state
      BY <2>1
    <3> QED
      BY <3>1, AliveTasksSame
  <2>10. QueriesWait(r)
    BY <2>1, <2>9 DEF Settled, QueriesWait
  <2>11. Unfailed(r, s, b)
    <3>1. r.barriers[b].named /\ \A c \in BarrierIds \ {b} : r.barriers[c] = s.barriers[c]
      BY <1>4, <2>1 DEF Replaces, z
    <3>2. \A t \in Tasks : \A f \in {"state", "status", "incarnation", "recoverable"} :
             r.cluster[t][f] = s.cluster[t][f]
      BY <1>7 DEF HasBegun
    <3> QED
      BY <2>1, <3>1, <3>2 DEF Unfailed
  <2> QED
    BY <2>4, <2>5, <2>6, <2>7, <2>8, <2>10, <2>11 DEF Settled, Steady
<1> HIDE DEF broken
<1> QED
  BY <1>1, <1>6, <1>7 DEF BarrierCodes, Unfailed, r

\* RepeatBarrierResult keeps the invariant: only an OK result connects the task.
LEMMA RepeatBarrierResultSettled ==
    ASSUME NEW s, NEW t \in Tasks, NEW b \in BarrierIds, Good(s), Settled(s),
           s.barriers[b].passed
    PROVE  Settled(RepeatBarrierResult(s, t, b))
<1>1. Settled(DisconnectTasks(s, {t}))
  BY DisconnectTasksSettled DEF Settled
<1>2. b = Register /\ s.barriers[b].result = "OK" =>
         Settled(ConnectAfterBarrierPasses(s, {t}))
  BY ConnectTasksSettled DEF ConnectAfterBarrierPasses
<1> QED
  BY <1>1, <1>2 DEF RepeatBarrierResult

\* A call to a barrier that is set up keeps the invariant.  A call to the register
\* barrier is never refused: it has one instance, of all tasks.
LEMMA JoinBarrierSettled ==
    ASSUME NEW s, NEW t \in Tasks, NEW b \in BarrierIds, NEW counter, NEW args,
           NEW isNew, Good(s), Settled(s), MayCall(s, t, b),
           b = Register => counter = 0 /\ args = {}
    PROVE  Settled(JoinBarrier(s, t, b, counter, args, isNew))
<1> DEFINE called == AddBarrierCallback(s, t, b)
           x == called.barriers[b]
           mismatch == ~isNew /\ counter # x.counter /\ ~(t \in RecoverableTasks /\ counter = 0)
           valid == ValidateTaskArgs(x, t, args)
<1>1. s \in Service /\ s.barriers[b] \in BarrierState /\ Book(s, b)
  BY DEF Good, Service
<1>2. Replaces(called, s, b, [s.barriers[b] EXCEPT !.calls = @ \cup {t}])
  BY <1>1, AddBarrierCallbackReplaces
<1>3. GoodExcept(called, {b}) /\ Settled(called)
  BY AddBarrierCallbackGood, AddBarrierCallbackSettled
<1>4. /\ x.named = s.barriers[b].named /\ x.passed = s.barriers[b].passed
      /\ x.tasks = s.barriers[b].tasks /\ x.counter = s.barriers[b].counter
  BY <1>1, <1>2 DEF Replaces, BarrierState
<1>5. JoinBarrier(s, t, b, counter, args, isNew) =
        CASE mismatch -> PassBarrierError(called, b, "INTERNAL")
          [] ~mismatch /\ ~valid -> PassBarrierError(called, b, "INVALID_ARGUMENT")
          [] ~mismatch /\ valid /\ x.passed -> RepeatBarrierResult(s, t, b)
          [] OTHER -> ReachBarrier(called, t, b)
  BY DEF JoinBarrier
<1>6. b = Register => ~mismatch /\ valid
  <2>1. b = Register => x.counter = 0 /\ x.tasks = Tasks
    BY <1>4 DEF MayCall, Settled, Steady, OneRegister
  <2> HIDE DEF x
  <2> QED
    BY <2>1 DEF ValidateTaskArgs
<1>7. b # Register =>
         /\ Settled(PassBarrierError(called, b, "INTERNAL"))
         /\ Settled(PassBarrierError(called, b, "INVALID_ARGUMENT"))
  BY <1>3, PassBarrierErrorSettled DEF BarrierCodes
<1>8. x.passed => Settled(RepeatBarrierResult(s, t, b))
  BY <1>4, RepeatBarrierResultSettled
<1>9. valid /\ ~x.passed => Settled(ReachBarrier(called, t, b))
  <2>1. valid => t \in x.tasks
    BY DEF ValidateTaskArgs
  <2> HIDE DEF valid
  <2>2. valid /\ ~x.passed => t \in s.barriers[b].tasks /\ b \in s.ongoing
    BY <1>1, <1>4, <2>1 DEF Book
  <2> QED
    BY <2>2, ReachBarrierSettled
<1> HIDE DEF called, x, mismatch, valid
<1> QED
  BY <1>5, <1>6, <1>7, <1>8, <1>9

\* BarrierAsyncLocked keeps the invariant.
LEMMA BarrierAsyncLockedSettled ==
    ASSUME NEW s, NEW t \in Tasks, NEW b \in BarrierIds, NEW counter \in Counters,
           NEW args \in SUBSET (Tasks \cup {Stranger}), NEW before \in SUBSET Tasks,
           Good(s), Settled(s),
           StartsAfterRestart(s, t, b, counter) => s.barriers[b].counter < MaxCounter,
           b = Register => /\ RegisterWithBarrier /\ counter = 0 /\ args = {}
                           /\ s.captured[t] = s.cluster[t].incarnation
    PROVE  Settled(BarrierAsyncLocked(s, t, b, counter, args, before))
<1> DEFINE c == IF StartsAfterRestart(s, t, b, counter) THEN s.barriers[b].counter + 1
                ELSE counter
           new == InitializeBarrier(s, b, c, args, before)
<1>1. s.barriers[b] \in BarrierState /\ Book(s, b)
  BY DEF Good, Service
<1>2. c \in Counters
  BY <1>1, ConfigAssumption DEF BarrierState, Counters
<1>3. ShouldInitialize(s, t, b, counter) => b \notin s.ongoing
  BY <1>1 DEF ShouldInitialize, BarrierIsUninitialized, StartsAfterRestart, Book
<1>4. b = Register =>
         /\ c = 0
         /\ ShouldInitialize(s, t, b, counter) => ~s.barriers[b].passed
         /\ ~ShouldInitialize(s, t, b, counter) => s.barriers[b].named
  <2>1. b = Register => ~StartsAfterRestart(s, t, b, counter)
    BY DEF StartsAfterRestart, Special
  <2> QED
    BY <1>1, <2>1 DEF ShouldInitialize, BarrierIsUninitialized, Settled, Steady,
                      OneRegister, Book
<1> HIDE DEF c
<1>5. CASE ~ShouldInitialize(s, t, b, counter)
  <2>1. MayCall(s, t, b)
    BY <1>4, <1>5 DEF MayCall
  <2> QED
    BY <1>5, <2>1, JoinBarrierSettled DEF BarrierAsyncLocked
<1>6. CASE ShouldInitialize(s, t, b, counter)
  <2>1. Good(new)
    BY <1>2, <1>3, <1>6, InitializeBarrierGood
  <2>2. Settled(new) /\ Unfailed(new, s, b)
    <3>1. b \notin s.ongoing /\ Tasks # {}
      BY <1>3, <1>6
    <3>2. b = Register =>
            RegisterWithBarrier /\ c = 0 /\ args = {} /\ ~s.barriers[b].passed
      BY <1>4, <1>6
    <3> QED
      BY <1>2, <3>1, <3>2, InitializeBarrierSettled
  <2> HIDE DEF new
  <2>3. new.barriers[b].passed \/ MayCall(new, t, b)
    BY <2>2 DEF MayCall, Unfailed
  <2>4. new.barriers[b].passed \/ Settled(JoinBarrier(new, t, b, c, args, TRUE))
    BY <1>4, <2>1, <2>2, <2>3, JoinBarrierSettled
  <2> QED
    BY <1>6, <2>2, <2>4 DEF BarrierAsyncLocked, c, new
<1> QED
  BY <1>5, <1>6

\* r is s with x for task t, and nothing else the invariant is about.
TaskReplaces(r, s, t, x) ==
    /\ r.barriers = s.barriers
    /\ r.aliveness = s.aliveness
    /\ r.cluster[t] = x
    /\ \A u \in Tasks \ {t} : r.cluster[u] = s.cluster[u] /\ r.captured[u] = s.captured[u]

\* Such a change keeps the invariant if the task's state stays and its other fields fit.
LEMMA TaskReplacesSettled ==
    ASSUME NEW s \in Service, NEW r, NEW t \in Tasks, NEW x, TaskReplaces(r, s, t, x),
           Settled(s),
           x.state = s.cluster[t].state,
           x.recoverable => t \in RecoverableTasks,
           x.state = "ERROR" /\ ~x.recoverable => x.ongoing = {},
           t \in s.barriers[Register].calls => r.captured[t] = x.incarnation
    PROVE  Settled(r)
<1>1. s.barriers[Register].calls \subseteq Tasks
  BY RegisterIsBarrier DEF Service, BarrierState
<1>2. \A u \in Tasks : r.cluster[u].state = s.cluster[u].state
  BY DEF TaskReplaces
<1>3. Flagged(r)
  BY DEF Settled, Steady, Flagged, TaskReplaces
<1>4. AllLeft(r)
  BY DEF Settled, Steady, AllLeft, TaskReplaces
<1>5. OneRegister(r)
  BY <1>2 DEF Settled, Steady, OneRegister, TaskReplaces
<1>6. Newest(r)
  BY <1>1 DEF Settled, Steady, Newest, TaskReplaces
<1>7. Arrived(r)
  BY DEF Settled, Steady, Arrived, TaskReplaces
<1>8. \A a \in r.aliveness : AliveTasks(r, a.tasks) = AliveTasks(s, a.tasks)
  BY <1>2, AliveTasksSame
<1>9. QueriesWait(r)
  BY <1>8 DEF Settled, QueriesWait, TaskReplaces
<1> QED
  BY <1>3, <1>4, <1>5, <1>6, <1>7, <1>9 DEF Settled, Steady

\* ConnectTask keeps the invariant, if nobody waits at the register barrier and, with
\* such a barrier, it has passed.
LEMMA ConnectTaskSettled ==
    ASSUME NEW s, NEW t \in Tasks, NEW inc \in Incarnations, Good(s), Settled(s),
           s.barriers[Register].calls = {},
           RegisterWithBarrier =>
              s.barriers[Register].passed /\ s.barriers[Register].result = "OK"
    PROVE  Settled(ConnectTask(s, t, inc))
<1> DEFINE x == [s.cluster[t] EXCEPT !.incarnation = inc]
           renamed == [s EXCEPT !.cluster[t].incarnation = inc]
           connected == ConnectTasks(renamed, {t})
           left == LeaveRecoverable(connected, {t})
           us == IF LeaveOnRestart THEN left.unsynced \cup {t} ELSE left.unsynced
           r == [left EXCEPT !.unsynced = us]
<1>1. s \in Service /\ s.cluster[t] \in TaskState /\ s.cluster \in [Tasks -> TaskState]
  BY DEF Good, Service
<1>2. Good(renamed)
  BY TaskFieldSimilar, SimilarGood DEF Good
<1>3. ConnectTask(s, t, inc) = IF ~s.cluster[t].recoverable THEN connected ELSE r
  BY DEF ConnectTask
<1>4. TaskReplaces(renamed, s, t, x)
  BY <1>1 DEF TaskReplaces, Service
<1>5. /\ x.state = s.cluster[t].state /\ x.recoverable = s.cluster[t].recoverable
      /\ x.ongoing = s.cluster[t].ongoing
  BY <1>1 DEF TaskState
<1> HIDE DEF renamed, x
<1>6. Settled(renamed)
  BY <1>1, <1>4, <1>5, TaskReplacesSettled DEF Settled, Steady, Flagged, AllLeft
<1>7. renamed.barriers = s.barriers
  BY <1>4 DEF TaskReplaces
<1>8. Good(connected) /\ Settled(connected)
  BY <1>2, <1>6, <1>7, ConnectTasksGood, ConnectTasksSettled
<1> HIDE DEF connected
<1>9. Good(left) /\ Settled(left)
  BY <1>8, LeaveRecoverableGood, LeaveRecoverableCalmer, CalmerSettled
<1> HIDE DEF left
<1>10. left \in Service /\ us \in SUBSET Tasks
  BY <1>9 DEF Good, Service
<1> HIDE DEF us
<1>11. /\ r \in Service /\ r.barriers = left.barriers /\ r.cluster = left.cluster
       /\ r.aliveness = left.aliveness /\ r.captured = left.captured
  BY <1>10 DEF Service
<1> HIDE DEF r
<1>12. Calmer(r, left)
  BY <1>11 DEF Calmer, Stands
<1> QED
  BY <1>3, <1>8, <1>9, <1>12, CalmerSettled

\* Registering at the register barrier keeps the invariant.
LEMMA RegisterAtBarrierSettled ==
    ASSUME NEW s, NEW t \in Tasks, NEW inc \in Incarnations, Good(s), Settled(s),
           RegisterWithBarrier
    PROVE  Settled(RegisterAtBarrier(s, t, inc))
<1> DEFINE isLate == s.cluster[t].recoverable /\ LeaveOnRestart /\ s.barriers[Register].passed
           us == IF isLate THEN s.unsynced \cup {t} ELSE s.unsynced
           cp == [s.captured EXCEPT ![t] = inc]
           x == [s.cluster[t] EXCEPT !.incarnation = inc]
           renamed == [s EXCEPT !.cluster[t].incarnation = inc]
           r == [renamed EXCEPT !.captured = cp, !.unsynced = us]
<1>1. s \in Service /\ s.cluster[t] \in TaskState /\ s.cluster \in [Tasks -> TaskState]
      /\ s.captured \in [Tasks -> Incarnations \cup {0}]
  BY DEF Good, Service
<1>2. /\ Good(renamed) /\ renamed.captured = s.captured /\ renamed.unsynced = s.unsynced
      /\ renamed.barriers = s.barriers /\ renamed.aliveness = s.aliveness
      /\ renamed.cluster[t] = x
      /\ \A u \in Tasks \ {t} : renamed.cluster[u] = s.cluster[u]
  BY <1>1, TaskFieldSimilar, SimilarGood DEF Good, Service
<1>3. /\ cp \in [Tasks -> Incarnations \cup {0}] /\ us \in SUBSET Tasks
      /\ cp[t] = inc /\ \A u \in Tasks \ {t} : cp[u] = s.captured[u]
  BY <1>1 DEF Service
<1>4. RegisterAtBarrier(s, t, inc) = BarrierAsyncLocked(r, t, Register, 0, {}, {})
  BY <1>2 DEF RegisterAtBarrier, Good, Service
<1>5. /\ x.state = s.cluster[t].state /\ x.recoverable = s.cluster[t].recoverable
      /\ x.ongoing = s.cluster[t].ongoing /\ x.incarnation = inc
  BY <1>1 DEF TaskState
<1> HIDE DEF renamed, us, cp, x
<1>6. /\ Similar(r, renamed) /\ r.cluster = renamed.cluster /\ r.captured = cp
      /\ r.barriers = renamed.barriers /\ r.aliveness = renamed.aliveness
  BY <1>2, <1>3 DEF Similar, Good, Service
<1> HIDE DEF r
<1>7. Good(r)
  BY <1>2, <1>6, SimilarGood
<1>8. TaskReplaces(r, s, t, x) /\ r.captured[t] = inc
  BY <1>2, <1>3, <1>6 DEF TaskReplaces
<1>9. Settled(r)
  BY <1>1, <1>5, <1>8, TaskReplacesSettled DEF Settled, Steady, Flagged, AllLeft
<1>10. Register \in BarrierIds /\ 0 \in Counters /\ ~StartsAfterRestart(r, t, Register, 0)
  BY ConfigAssumption DEF BarrierIds, Special, Counters, StartsAfterRestart
<1>11. r.captured[t] = r.cluster[t].incarnation
  BY <1>5, <1>8 DEF TaskReplaces
<1> QED
  BY <1>4, <1>7, <1>9, <1>10, <1>11, BarrierAsyncLockedSettled

-----------------------------------------------------------------------------

\* The invariant with all its parts.  Stop leaves liveness queries unanswered.  The
\* check thread counts out-of-sync tasks only if restarted tasks leave barriers.
SInv ==
    /\ IInv
    /\ Steady(svc)
    /\ svc.stopped \/ QueriesWait(svc)
    /\ snapshot.held => LeaveOnRestart

\* A fresh service is steady.
LEMMA FreshServiceSteady ==
    ASSUME NEW s, s.cluster = [t \in Tasks |-> FreshTask],
           s.barriers = [b \in BarrierIds |-> FreshBarrier]
    PROVE  Steady(s)
<1>1. \A t \in Tasks : s.cluster[t] = FreshTask
  OBVIOUS
<1>2. \A b \in BarrierIds : s.barriers[b] = FreshBarrier
  OBVIOUS
<1>3. /\ FreshTask.state = "DISCONNECTED" /\ ~FreshTask.recoverable
      /\ FreshBarrier.counter = 0 /\ ~FreshBarrier.named /\ ~FreshBarrier.passed
      /\ FreshBarrier.calls = {} /\ FreshBarrier.result = "UNKNOWN"
  BY DEF FreshTask, FreshBarrier
<1>4. Flagged(s) /\ AllLeft(s)
  BY <1>1, <1>3 DEF Flagged, AllLeft
<1>5. OneRegister(s) /\ Newest(s) /\ Arrived(s)
  BY <1>1, <1>2, <1>3, RegisterIsBarrier DEF OneRegister, Newest, Arrived
<1> QED
  BY <1>4, <1>5 DEF Steady

\* The invariant holds initially.
LEMMA InitSInv == Init => SInv
<1> SUFFICES ASSUME Init PROVE SInv
  OBVIOUS
<1>1. IInv
  BY InitIInv
<1>2. /\ svc.cluster = [t \in Tasks |-> FreshTask]
      /\ svc.barriers = [b \in BarrierIds |-> FreshBarrier]
      /\ svc.aliveness = {} /\ ~snapshot.held
  BY DEF Init, NoSnapshot
<1>3. Steady(svc)
  BY <1>2, FreshServiceSteady
<1>4. QueriesWait(svc)
  BY <1>2 DEF QueriesWait
<1> QED
  BY <1>1, <1>2, <1>3, <1>4 DEF SInv

\* RegisterTaskAsync keeps the invariant.
LEMMA RegisterTaskAsyncSettled ==
    ASSUME NEW t \in Tasks, NEW inc \in Incarnations, Good(svc), Settled(svc),
           RegisterTaskAsync(t, inc)
    PROVE  Settled(svc')
<1> DEFINE v == t \in RecoverableTasks
           x == [svc.cluster[t] EXCEPT !.recoverable = v]
           s == [svc EXCEPT !.cluster[t].recoverable = v]
<1>1. /\ svc \in Service /\ svc.cluster[t] \in TaskState
      /\ svc.cluster \in [Tasks -> TaskState] /\ Book(svc, Register)
  BY RegisterIsBarrier DEF Good, Service
<1>2. v \in BOOLEAN
  OBVIOUS
<1>3. \/ RegisterWithBarrier /\ svc' = RegisterAtBarrier(s, t, inc)
      \/ /\ s.cluster[t].state = "CONNECTED" \/ ~RegisterWithBarrier
         /\ svc' = ConnectTask(s, t, inc)
      \/ svc' = FailTasks(s, {t}, "OTHER")
  BY DEF RegisterTaskAsync, MayRepeat
<1>4. v => t \in RecoverableTasks
  OBVIOUS
<1>5. svc.cluster[t].recoverable => v
  BY DEF Settled, Steady, Flagged
<1> HIDE DEF v
<1>6. Good(s)
  BY <1>1, <1>2, TaskFieldSimilar, SimilarGood
<1>7. TaskReplaces(s, svc, t, x) /\ s.captured = svc.captured
  BY <1>1 DEF TaskReplaces, Service
<1>8. /\ x.state = svc.cluster[t].state /\ x.recoverable = v
      /\ x.ongoing = svc.cluster[t].ongoing /\ x.incarnation = svc.cluster[t].incarnation
  BY <1>1 DEF TaskState
<1> HIDE DEF s, x
<1>9. Settled(s)
  <2>1. x.state = "ERROR" /\ ~x.recoverable => x.ongoing = {}
    BY <1>5, <1>8 DEF Settled, Steady, AllLeft
  <2>2. t \in svc.barriers[Register].calls => s.captured[t] = x.incarnation
    BY <1>7, <1>8 DEF Settled, Steady, Newest
  <2> QED
    BY <1>1, <1>4, <1>7, <1>8, <2>1, <2>2, TaskReplacesSettled
<1>10. CASE RegisterWithBarrier /\ svc' = RegisterAtBarrier(s, t, inc)
  BY <1>6, <1>9, <1>10, RegisterAtBarrierSettled
<1>11. CASE /\ s.cluster[t].state = "CONNECTED" \/ ~RegisterWithBarrier
            /\ svc' = ConnectTask(s, t, inc)
  <2>1. RegisterWithBarrier =>
          s.barriers[Register].passed /\ s.barriers[Register].result = "OK"
    BY <1>9, <1>11 DEF Settled, Steady, OneRegister
  <2>2. Book(s, Register)
    BY <1>6, RegisterIsBarrier DEF Good
  <2>3. s.barriers[Register].calls = {}
    BY <1>9, <2>1, <2>2 DEF Settled, Steady, OneRegister, Book
  <2> QED
    BY <1>6, <1>9, <1>11, <2>1, <2>3, ConnectTaskSettled
<1>12. CASE svc' = FailTasks(s, {t}, "OTHER")
  BY <1>6, <1>9, <1>12, FailTasksSettled DEF TaskCodes, Settled
<1> QED
  BY <1>3, <1>10, <1>11, <1>12

\* BarrierAsync keeps the invariant.
LEMMA BarrierAsyncSettled ==
    ASSUME NEW t \in Tasks, NEW b \in UserBarriers, NEW counter \in Counters,
           NEW args \in BarrierArgs, Good(svc), Settled(svc),
           BarrierAsync(t, b, counter, args)
    PROVE  Settled(svc')
<1>1. PICK before \in SUBSET Tasks :
         svc' = BarrierAsyncLocked(svc, t, b, counter, args, before)
  BY DEF BarrierAsync
<1>2. b \in BarrierIds /\ args \in SUBSET (Tasks \cup {Stranger}) /\ b # Register
  BY TasksAssumption, BarriersAssumption DEF BarrierIds, Special
<1>3. StartsAfterRestart(svc, t, b, counter) => svc.barriers[b].counter < MaxCounter
  BY DEF BarrierAsync
<1> QED
  BY <1>1, <1>2, <1>3, BarrierAsyncLockedSettled

\* A call to the shutdown barrier keeps the invariant.
LEMMA ShutdownBarrierSettled ==
    ASSUME NEW t \in Tasks, Good(svc), Settled(svc),
           shutdownArgs \in [Tasks -> SUBSET Tasks], ShutdownBarrier(t)
    PROVE  Settled(svc')
<1>1. svc' = BarrierAsyncLocked(svc, t, Shutdown, 0, shutdownArgs[t], {})
  BY DEF ShutdownBarrier
<1>2. /\ Shutdown \in BarrierIds /\ 0 \in Counters /\ Shutdown # Register
      /\ ~StartsAfterRestart(svc, t, Shutdown, 0)
      /\ shutdownArgs[t] \in SUBSET (Tasks \cup {Stranger})
  BY ConfigAssumption, BarriersAssumption DEF BarrierIds, Special, Counters, StartsAfterRestart
<1> QED
  BY <1>1, <1>2, BarrierAsyncLockedSettled

\* CheckBarrierTimeout keeps the invariant.
LEMMA CheckBarrierTimeoutSettled ==
    ASSUME NEW X \in SUBSET BarrierIds, NEW late \in SUBSET X, Good(svc), Settled(svc),
           CheckBarrierTimeout(X, late)
    PROVE  Settled(svc')
<1> DEFINE first == EndBarriers(svc, X \ late, "DEADLINE_EXCEEDED")
           failed == AfterFailure(first, X \ late)
<1>1. /\ svc' = EndBarriers(failed, late, "DEADLINE_EXCEEDED")
      /\ X \subseteq svc.ongoing /\ Register \notin late
  BY DEF CheckBarrierTimeout, Special
<1>2. Register \in X => ~svc.barriers[Register].passed /\ svc.barriers[Register].named
  BY <1>1 DEF Good, Book
<1>3. GoodExcept(svc, X \ late) /\ X \ late \in SUBSET BarrierIds
  BY GoodIsGoodExcept
<1>4. Good(first) /\ Calmer(first, svc)
  BY <1>2, <1>3, EndBarriersGood, EndBarriersCalmer DEF BarrierCodes
<1> HIDE DEF first
<1>5. Good(failed) /\ Settled(failed)
  BY <1>4, CalmerSettled, AfterFailureGood, AfterFailureSettled DEF Settled
<1> HIDE DEF failed
<1>6. GoodExcept(failed, late) /\ late \in SUBSET BarrierIds
  BY <1>5, GoodIsGoodExcept
<1>7. Calmer(svc', failed)
  BY <1>1, <1>6, EndBarriersCalmer DEF BarrierCodes
<1> QED
  BY <1>5, <1>7, CalmerSettled

\* CheckBarrierStatusWithRecoverableTasks: once the tasks that restarted are excluded, the
\* barriers that are ready pass.
LEMMA CheckBarrierStatusForm ==
    ASSUME Good(svc), LeaveOnRestart, CheckBarrierStatusWithRecoverableTasks
    PROVE  \E q :
             /\ GoodExcept(q, ReadyBarriers) /\ Calmer(q, svc) /\ Quiet(q, svc)
             /\ ReadyBarriers \in SUBSET BarrierIds
             /\ Register \in ReadyBarriers =>
                  ~q.barriers[Register].passed /\ q.barriers[Register].named
             /\ svc' = LET ended == EndBarriers(q, ReadyBarriers, "OK") IN
                       IF Shutdown \in ReadyBarriers
                       THEN DisconnectTasks(ended, NonRecoverable(svc)) ELSE ended
<1> DEFINE P == ReadyBarriers
           pd(b) == svc.barriers[b].pending
                      - Cardinality(svc.barriers[b].restarted \ svc.barriers[b].at)
           cl(b) == svc.barriers[b].calls \ svc.barriers[b].restarted
           y(b) == [svc.barriers[b] EXCEPT !.pending = pd(b), !.calls = cl(b), !.restarted = {}]
           bs == [b \in BarrierIds |-> IF b \in P THEN y(b) ELSE svc.barriers[b]]
           excluded == Excluded
           ended == EndBarriers(excluded, P, "OK")
<1>1. P \in SUBSET BarrierIds /\ P \subseteq svc.ongoing
  BY DEF ReadyBarriers, Good, Service
<1>2. svc' = IF Shutdown \in P THEN DisconnectTasks(ended, NonRecoverable(svc)) ELSE ended
  BY DEF CheckBarrierStatusWithRecoverableTasks, Excluded
<1>3. GoodExcept(excluded, P)
  BY ExcludedGood
<1>4. svc \in Service /\ \A b \in BarrierIds : svc.barriers[b] \in BarrierState /\ Book(svc, b)
  BY DEF Good, Service
<1>5. excluded = [svc EXCEPT !.barriers = bs]
  BY DEF Excluded
<1> HIDE DEF P, pd, cl
<1>6. ASSUME NEW b \in BarrierIds
      PROVE  /\ y(b).calls = cl(b)
             /\ \A f \in {"named", "counter", "passed", "result", "tasks", "at"} :
                   y(b)[f] = svc.barriers[b][f]
  BY <1>4 DEF BarrierState
<1> HIDE DEF y
<1>7. \A b \in BarrierIds : bs[b] = IF b \in P THEN y(b) ELSE svc.barriers[b]
  OBVIOUS
<1> HIDE DEF bs
<1>8. /\ excluded \in Service /\ excluded.barriers = bs
      /\ excluded.cluster = svc.cluster /\ excluded.aliveness = svc.aliveness
      /\ excluded.captured = svc.captured
  BY <1>3, <1>4, <1>5 DEF Service, GoodExcept
<1> HIDE DEF excluded
<1>9. ASSUME NEW b \in BarrierIds
      PROVE  /\ excluded.barriers[b].named = svc.barriers[b].named
             /\ excluded.barriers[b].counter = svc.barriers[b].counter
             /\ excluded.barriers[b].tasks = svc.barriers[b].tasks
             /\ excluded.barriers[b].calls \subseteq svc.barriers[b].calls
             /\ excluded.barriers[b].passed = svc.barriers[b].passed
             /\ Stands(excluded, svc, b)
  BY <1>6, <1>7, <1>8 DEF Stands, cl
<1>10. Calmer(excluded, svc)
  BY <1>8, <1>9 DEF Calmer
<1>11. Register \in P => ~excluded.barriers[Register].passed /\ excluded.barriers[Register].named
  BY <1>1, <1>4, <1>9 DEF Book
<1>12. Quiet(excluded, svc)
  <2>1. Shutdown \in BarrierIds
    BY DEF BarrierIds, Special
  <2> QED
    BY <1>8, <1>9, <2>1 DEF Quiet, Stands
<1> QED
  BY <1>1, <1>2, <1>3, <1>10, <1>11, <1>12 DEF P

\* CheckBarrierStatusWithRecoverableTasks keeps the invariant.
LEMMA CheckBarrierStatusSettled ==
    ASSUME Good(svc), Settled(svc), LeaveOnRestart, CheckBarrierStatusWithRecoverableTasks
    PROVE  Settled(svc')
<1> DEFINE P == ReadyBarriers
<1>1. PICK q :
         /\ GoodExcept(q, P) /\ Calmer(q, svc)
         /\ P \in SUBSET BarrierIds
         /\ Register \in P => ~q.barriers[Register].passed /\ q.barriers[Register].named
         /\ svc' = LET ended == EndBarriers(q, P, "OK") IN
                   IF Shutdown \in P THEN DisconnectTasks(ended, NonRecoverable(svc)) ELSE ended
  BY CheckBarrierStatusForm
<1> DEFINE ended == EndBarriers(q, P, "OK")
<1>2. svc' = IF Shutdown \in P THEN DisconnectTasks(ended, NonRecoverable(svc)) ELSE ended
  BY <1>1
<1> HIDE DEF P
<1>3. Good(ended) /\ Calmer(ended, q)
  BY <1>1, EndBarriersGood, EndBarriersCalmer DEF BarrierCodes
<1> HIDE DEF ended
<1>4. Settled(ended)
  BY <1>1, <1>3, CalmerSettled
<1>5. Settled(DisconnectTasks(ended, NonRecoverable(svc)))
  BY <1>3, <1>4, DisconnectTasksSettled DEF NonRecoverable, Settled
<1> QED
  BY <1>2, <1>4, <1>5

\* Changing what the invariant does not mention keeps it.
LEMMA UntouchedSettled ==
    ASSUME NEW r \in Service, NEW s, r.barriers = s.barriers, r.cluster = s.cluster,
           r.aliveness = s.aliveness, r.captured = s.captured, Settled(s)
    PROVE  Settled(r)
<1>1. Calmer(r, s)
  BY DEF Calmer, Stands
<1> QED
  BY <1>1, CalmerSettled

\* GetAliveTasksAsync keeps the invariant: a query that can be answered is.
LEMMA GetAliveTasksAsyncSettled ==
    ASSUME NEW t \in Tasks, NEW T \in AliveArgs, svc \in Service, GetAliveTasksAsync(t, T)
    PROVE  /\ Steady(svc) => Steady(svc')
           /\ QueriesWait(svc) => QueriesWait(svc')
           /\ svc'.stopped = svc.stopped
<1> DEFINE same == {a \in svc.aliveness : a.tasks = T}
           ib == {t} \cup UNION {a.in_barrier : a \in same}
           joined == [tasks |-> T, in_barrier |-> ib]
           isDone == AliveTasks(svc, T) \subseteq joined.in_barrier
           al == (svc.aliveness \ same) \cup IF isDone THEN {} ELSE {joined}
<1>1. svc' = [svc EXCEPT !.aliveness = al]
  BY DEF GetAliveTasksAsync
<1>2. \A a \in al : a \in svc.aliveness \/ ~(AliveTasks(svc, a.tasks) \subseteq a.in_barrier)
  BY DEF al
<1> HIDE DEF al
<1>3. /\ svc'.aliveness = al /\ svc'.cluster = svc.cluster /\ svc'.barriers = svc.barriers
      /\ svc'.captured = svc.captured /\ svc'.stopped = svc.stopped
  BY <1>1 DEF Service
<1>4. \A a \in al : AliveTasks(svc', a.tasks) = AliveTasks(svc, a.tasks)
  BY <1>3, AliveTasksSame
<1>5. QueriesWait(svc) => QueriesWait(svc')
  BY <1>2, <1>3, <1>4 DEF QueriesWait
<1>6. Steady(svc) => Steady(svc')
  BY <1>3 DEF Steady, Flagged, AllLeft, OneRegister, Newest, Arrived
<1> QED
  BY <1>3, <1>5, <1>6

\* The end of a grace period keeps the invariant.
LEMMA GracePeriodEndsSettled ==
    ASSUME NEW t \in Tasks, svc \in Service, GracePeriodEnds(t)
    PROVE  /\ Steady(svc) => Steady(svc')
           /\ QueriesWait(svc) => QueriesWait(svc')
           /\ svc'.stopped = svc.stopped
<1> DEFINE x == [svc.cluster[t] EXCEPT !.grace = FALSE]
           cs == [svc.cluster EXCEPT ![t] = x]
<1>1. svc.cluster \in [Tasks -> TaskState] /\ svc.cluster[t] \in TaskState
  BY DEF Service
<1>2. svc' = [svc EXCEPT !.cluster = cs]
  BY DEF GracePeriodEnds, Service
<1>3. \A f \in {"state", "recoverable", "incarnation", "ongoing"} : x[f] = svc.cluster[t][f]
  BY <1>1 DEF TaskState
<1>4. x \in TaskState
  BY <1>1 DEF TaskState
<1> HIDE DEF x
<1>5. /\ cs \in [Tasks -> TaskState]
      /\ \A u \in Tasks : /\ cs[u].state = svc.cluster[u].state
                          /\ cs[u].recoverable = svc.cluster[u].recoverable
                          /\ cs[u].incarnation = svc.cluster[u].incarnation
                          /\ cs[u].ongoing = svc.cluster[u].ongoing
  BY <1>1, <1>3, <1>4
<1> HIDE DEF cs
<1>6. /\ svc' \in Service /\ svc'.cluster = cs /\ svc'.barriers = svc.barriers
      /\ svc'.aliveness = svc.aliveness /\ svc'.captured = svc.captured
      /\ svc'.stopped = svc.stopped
  BY <1>2, <1>5 DEF Service
<1>7. Calmer(svc', svc)
  BY <1>5, <1>6 DEF Calmer, Stands
<1> QED
  BY <1>6, <1>7, CalmerSettled, CalmerKeeps

\* Every step preserves the invariant, action by action.
LEMMA NextSInv == SInv /\ [Next]_vars => SInv'
<1> SUFFICES ASSUME SInv, [Next]_vars PROVE SInv'
  OBVIOUS
<1>1. IInv' /\ IInv /\ Good(svc) /\ Good(svc') /\ svc \in Service /\ svc' \in Service
  <2>1. IInv /\ IInv'
    BY NextIInv DEF SInv
  <2> QED
    BY <2>1, IInvGood DEF IInv, TypeOK, BarrierBooks, Good
<1>2. ~svc.stopped => Settled(svc)
  BY DEF SInv, Settled
<1>3. ASSUME Settled(svc'), UNCHANGED snapshot
      PROVE  SInv'
  BY <1>1, <1>3 DEF SInv, Settled
<1>4. ASSUME NEW t \in Tasks, NEW inc \in Incarnations, RegisterTaskAsync(t, inc)
      PROVE  SInv'
  <2>1. ~svc.stopped /\ UNCHANGED snapshot
    BY <1>4 DEF RegisterTaskAsync
  <2> QED
    BY <1>1, <1>2, <1>3, <1>4, <2>1, RegisterTaskAsyncSettled
<1>5. ASSUME NEW E \in SUBSET Tasks, NEW code \in TaskCodes, ~svc.stopped,
             svc' = FailTasks(svc, E, code), UNCHANGED snapshot
      PROVE  SInv'
  BY <1>1, <1>2, <1>3, <1>5, FailTasksSettled DEF Settled
<1>6. ASSUME NEW t \in Tasks, NEW b \in UserBarriers, NEW c \in Counters,
             NEW args \in BarrierArgs, BarrierAsync(t, b, c, args)
      PROVE  SInv'
  <2>1. ~svc.stopped /\ UNCHANGED snapshot
    BY <1>6 DEF BarrierAsync
  <2> QED
    BY <1>1, <1>2, <1>3, <1>6, <2>1, BarrierAsyncSettled
<1>7. ASSUME NEW t \in Tasks, ShutdownTaskAsync(t) \/ ResetTask(t)
      PROVE  SInv'
  <2>1. ~svc.stopped /\ UNCHANGED snapshot /\ svc' = DisconnectTasks(svc, {t})
    BY <1>7 DEF ShutdownTaskAsync, ResetTask
  <2> QED
    BY <1>1, <1>2, <1>3, <2>1, DisconnectTasksSettled DEF Settled
<1>8. ASSUME NEW t \in Tasks, GetTasksForShutdownBarrier(t)
      PROVE  SInv'
  <2>1. ~svc.stopped /\ UNCHANGED snapshot
    BY <1>8 DEF GetTasksForShutdownBarrier
  <2>2. /\ svc'.barriers = svc.barriers /\ svc'.cluster = svc.cluster
        /\ svc'.aliveness = svc.aliveness /\ svc'.captured = svc.captured
    BY <1>1, <1>8 DEF GetTasksForShutdownBarrier, Service
  <2> QED
    BY <1>1, <1>2, <1>3, <2>1, <2>2, UntouchedSettled
<1>9. ASSUME NEW t \in Tasks, ShutdownBarrier(t)
      PROVE  SInv'
  <2>1. ~svc.stopped /\ UNCHANGED snapshot
    BY <1>9 DEF ShutdownBarrier
  <2>2. shutdownArgs \in [Tasks -> SUBSET Tasks]
    BY <1>1 DEF IInv, TypeOK
  <2> QED
    BY <1>1, <1>2, <1>3, <1>9, <2>1, <2>2, ShutdownBarrierSettled
<1>10. ASSUME NEW t \in Tasks, NEW inc \in Incarnations, RecordHeartbeat(t, inc)
       PROVE  SInv'
  BY <1>5, <1>10 DEF RecordHeartbeat, TaskCodes
<1>11. ASSUME NEW t \in Tasks, NEW code \in {"UNAVAILABLE", "OTHER"}, ReportTaskError(t, code)
       PROVE  SInv'
  BY <1>5, <1>11 DEF ReportTaskError, TaskCodes
<1>12. ASSUME NEW S \in SUBSET Tasks, CheckHeartbeatTimeout(S)
       PROVE  SInv'
  BY <1>5, <1>12 DEF CheckHeartbeatTimeout, TaskCodes
<1>13. ASSUME NEW t \in Tasks, PollForErrorAsync(t)
       PROVE  SInv'
  <2>1. ~svc.stopped /\ UNCHANGED snapshot
    BY <1>13 DEF PollForErrorAsync
  <2>2. /\ svc'.barriers = svc.barriers /\ svc'.cluster = svc.cluster
        /\ svc'.aliveness = svc.aliveness /\ svc'.captured = svc.captured
    BY <1>1, <1>13 DEF PollForErrorAsync, Service
  <2> QED
    BY <1>1, <1>2, <1>3, <2>1, <2>2, UntouchedSettled
<1>14. ASSUME UNCHANGED snapshot, Steady(svc) => Steady(svc'), QueriesWait(svc) => QueriesWait(svc'),
              svc'.stopped = svc.stopped
       PROVE  SInv'
  BY <1>1, <1>14 DEF SInv
<1>15. ASSUME NEW t \in Tasks, NEW T \in AliveArgs, GetAliveTasksAsync(t, T)
       PROVE  SInv'
  <2>1. UNCHANGED snapshot
    BY <1>15 DEF GetAliveTasksAsync
  <2> QED
    BY <1>1, <1>14, <1>15, <2>1, GetAliveTasksAsyncSettled
<1>16. ASSUME NEW t \in Tasks, GracePeriodEnds(t)
       PROVE  SInv'
  <2>1. UNCHANGED snapshot
    BY <1>16 DEF GracePeriodEnds
  <2> QED
    BY <1>1, <1>14, <1>16, <2>1, GracePeriodEndsSettled
<1>17. ASSUME NEW X \in SUBSET BarrierIds, NEW late \in SUBSET X, CheckBarrierTimeout(X, late)
       PROVE  SInv'
  <2>1. ~svc.stopped /\ UNCHANGED snapshot
    BY <1>17 DEF CheckBarrierTimeout
  <2> QED
    BY <1>1, <1>2, <1>3, <1>17, <2>1, CheckBarrierTimeoutSettled
<1>18. ASSUME GetCountOfOutOfSyncTasksPerBarrier
       PROVE  SInv'
  <2>1. LeaveOnRestart /\ UNCHANGED svc
    BY <1>18 DEF GetCountOfOutOfSyncTasksPerBarrier
  <2> QED
    BY <1>1, <2>1 DEF SInv
<1>19. ASSUME CheckBarrierStatusWithRecoverableTasks
       PROVE  SInv'
  <2>1. ~svc.stopped /\ LeaveOnRestart /\ ~snapshot'.held
    BY <1>19 DEF CheckBarrierStatusWithRecoverableTasks, NoSnapshot, SInv
  <2>2. Settled(svc')
    BY <1>1, <1>2, <1>19, <2>1, CheckBarrierStatusSettled
  <2> QED
    BY <1>1, <2>1, <2>2 DEF SInv, Settled
<1>20. ASSUME NEW b \in UserBarriers, NEW c \in Counters, CancelBarrier(b, c)
       PROVE  SInv'
  <2>1. b \in BarrierIds /\ GoodExcept(svc, {b}) /\ b # Register
    BY <1>1, GoodIsGoodExcept, BarriersAssumption DEF BarrierIds, Special
  <2>2. ~svc.stopped /\ UNCHANGED snapshot /\ svc' = PassBarrierError(svc, b, "CANCELLED")
    BY <1>20 DEF CancelBarrier
  <2> QED
    BY <1>2, <1>3, <2>1, <2>2, PassBarrierErrorSettled DEF BarrierCodes
<1>21. ASSUME Stop
       PROVE  SInv'
  <2>1. /\ svc'.stopped /\ svc'.cluster = [t \in Tasks |-> FreshTask]
        /\ svc'.barriers = [b \in BarrierIds |-> FreshBarrier] /\ UNCHANGED snapshot
    BY <1>1, <1>21 DEF Stop, Service
  <2>2. Steady(svc')
    BY <2>1, FreshServiceSteady
  <2> QED
    BY <1>1, <2>1, <2>2 DEF SInv
<1>22. ASSUME UNCHANGED vars
       PROVE  SInv'
  BY <1>1, <1>14, <1>22 DEF vars
<1>23. ASSUME NEW t \in Tasks, TaskCalls(t)
       PROVE  SInv'
  BY <1>4, <1>6, <1>7, <1>8, <1>9, <1>10, <1>11, <1>13, <1>15, <1>23 DEF TaskCalls
<1>24. ASSUME ServiceSteps
       PROVE  SInv'
  BY <1>12, <1>16, <1>17, <1>18, <1>19, <1>20, <1>21, <1>24 DEF ServiceSteps
<1> QED
  BY <1>22, <1>23, <1>24 DEF Next

\* The invariant always holds.
LEMMA AlwaysSInv == Spec => []SInv
BY InitSInv, NextSInv, PTL DEF Spec

\* A pending GetAliveTasks call always waits for a task that is still alive and has
\* not joined it: whatever takes the last such task out of CONNECTED (an error, a
\* lost heartbeat, a failed register or shutdown barrier, a disconnection) answers it.
THEOREM NoQueryIsStuck == Spec => []AlivenessNotStuck
<1>1. SInv => AlivenessNotStuck
  BY DEF SInv, QueriesWait, AlivenessNotStuck
<1> QED
  BY <1>1, AlwaysSInv, PTL

\* No barrier ever waits for a non-recoverable task that is in error: SetTaskError
\* fails the barriers of the task, InitializeBarrier refuses it as a participant, and
\* a task in error cannot lose its recoverable flag.
THEOREM NobodyWaitsForFailedTask == Spec => []NoWaitForFailedTask
<1>1. SInv => NoWaitForFailedTask
  <2> SUFFICES ASSUME SInv, NEW b \in svc.ongoing, NEW t \in svc.barriers[b].tasks,
                      svc.cluster[t].state = "ERROR", ~svc.cluster[t].recoverable
               PROVE  FALSE
    BY DEF NoWaitForFailedTask
  <2>1. Good(svc)
    BY IInvGood DEF SInv
  <2>2. b \in BarrierIds /\ Book(svc, b) /\ t \in Tasks
    BY <2>1 DEF Good, Service, BarrierState
  <2> QED
    BY <2>2 DEF Book, SInv, Steady, AllLeft
<1> QED
  BY <1>1, AlwaysSInv, PTL

\* With a register barrier, tasks are connected only if it has passed OK: no restart,
\* reconnection or late registration lets a task in while others are missing or after
\* the registration has failed.
THEOREM TasksConnectTogether == Spec => []ConnectedTogether
<1>1. SInv => ConnectedTogether
  BY DEF SInv, Steady, OneRegister, ConnectedTogether, InState
<1> QED
  BY <1>1, AlwaysSInv, PTL

\* The registration that waits at the register barrier is always that of the task's
\* newest incarnation, so that a task that restarted while it waited is the one
\* connected when the barrier passes.
THEOREM NewestRegistrationWaits == Spec => []NewestIncarnationWaits
<1>1. SInv => NewestIncarnationWaits
  BY DEF SInv, Steady, Newest, NewestIncarnationWaits
<1> QED
  BY <1>1, AlwaysSInv, PTL

\* Unless restarted tasks are configured to leave barriers out of sync, a barrier that
\* has passed OK has all its participants at it: none that left, and none that calls
\* twice, is counted for another.
THEOREM OkNeedsEveryone ==
    ASSUME ~LeaveOnRestart
    PROVE  Spec => []OkMeansEveryoneArrived
<1>1. SInv => OkMeansEveryoneArrived
  BY DEF SInv, Steady, Arrived, OkMeansEveryoneArrived
<1> QED
  BY <1>1, AlwaysSInv, PTL

-----------------------------------------------------------------------------
(* What a handler does to the tasks and to the shutdown barrier: the action *)
(* properties.  Here r is the state of the service after s.                 *)

AllFailed(r) == \A t \in Tasks : r.cluster[t].state = "ERROR"

\* The tasks are the same incarnations, and none is connected with an error status
\* unless it was.
SameTasks(r, s) ==
    \A t \in Tasks :
        /\ r.cluster[t].incarnation = s.cluster[t].incarnation
        /\ r.cluster[t].recoverable = s.cluster[t].recoverable
        /\ r.cluster[t].state = "CONNECTED" =>
              \/ r.cluster[t].status = "OK"
              \/ s.cluster[t].state = "CONNECTED" /\ r.cluster[t].status = s.cluster[t].status

\* The shutdown barrier has not come to pass OK.
NotOk(r, s) ==
    LET x == s.barriers[Shutdown]
        y == r.barriers[Shutdown]
    IN /\ x.passed => y.passed
       /\ y.passed /\ y.result = "OK" => x.passed /\ x.result = "OK"

\* Failures are contained: only tasks of E have failed and the shutdown barrier has not
\* passed, or else all tasks are in error.
Contained(r, s, E) ==
    \/ AllFailed(r)
    \/ /\ \A t \in Tasks \ E : r.cluster[t].state = "ERROR" => s.cluster[t].state = "ERROR"
       /\ r.barriers[Shutdown].passed = s.barriers[Shutdown].passed

\* What holds of all of the error path.
Errs(r, s, E) ==
    SameTasks(r, s) /\ NotOk(r, s) /\ Contained(r, s, E) /\ (AllFailed(s) => AllFailed(r))

\* The shutdown barrier is a barrier.
LEMMA ShutdownIsBarrier == Shutdown \in BarrierIds
BY DEF BarrierIds, Special

\* Two parts of the error path, one after the other.
LEMMA ErrsTransitive ==
    ASSUME NEW q, NEW r, NEW s, NEW D, NEW E, Errs(r, s, D), Errs(q, r, E)
    PROVE  Errs(q, s, D \cup E)
<1>1. SameTasks(q, s)
  BY DEF Errs, SameTasks
<1>2. NotOk(q, s)
  BY DEF Errs, NotOk
<1>3. Contained(q, s, D \cup E)
  BY DEF Errs, Contained
<1> QED
  BY <1>1, <1>2, <1>3 DEF Errs

\* PassBarrier with an error changes no task but for the barriers it is in.
LEMMA EndBarriersNotOk ==
    ASSUME NEW s \in Service, NEW F \in SUBSET BarrierIds, NEW result \in BarrierCodes
    PROVE  LET r == EndBarriers(s, F, result)
               y == r.barriers[Shutdown]
           IN /\ \A t \in Tasks :
                   /\ r.cluster[t].state = s.cluster[t].state
                   /\ r.cluster[t].status = s.cluster[t].status
              /\ SameTasks(r, s)
              /\ result # "OK" => NotOk(r, s)
              /\ Shutdown \notin F => y = s.barriers[Shutdown]
              /\ Shutdown \in F => y.passed /\ y.result = result
<1> DEFINE r == EndBarriers(s, F, result)
           bs == [b \in BarrierIds |->
                    IF b \in F
                    THEN [s.barriers[b] EXCEPT !.passed = TRUE, !.result = result,
                                               !.calls = {}]
                    ELSE s.barriers[b]]
           cs == [t \in Tasks |->
                    [s.cluster[t] EXCEPT
                       !.ongoing = @ \ {b \in F : t \in s.barriers[b].tasks}]]
<1>1. /\ \A b \in BarrierIds : s.barriers[b] \in BarrierState
      /\ \A t \in Tasks : s.cluster[t] \in TaskState
  BY DEF Service
<1>2. ASSUME NEW t \in Tasks
      PROVE  \A f \in {"state", "status", "incarnation", "recoverable"} :
                cs[t][f] = s.cluster[t][f]
  BY <1>1 DEF TaskState
<1>3. Shutdown \in F => bs[Shutdown].passed /\ bs[Shutdown].result = result
  BY <1>1 DEF BarrierState
<1>4. Shutdown \notin F => bs[Shutdown] = s.barriers[Shutdown]
  BY ShutdownIsBarrier
<1>5. r = [s EXCEPT !.barriers = bs, !.cluster = cs, !.ongoing = s.ongoing \ F]
  BY DEF EndBarriers
<1> HIDE DEF bs, cs, r
<1>6. r.barriers = bs /\ r.cluster = cs
  BY <1>5 DEF Service
<1>7. SameTasks(r, s)
  BY <1>2, <1>6 DEF SameTasks
<1>8. result # "OK" => NotOk(r, s)
  BY <1>3, <1>4, <1>6 DEF NotOk
<1> QED
  BY <1>2, <1>3, <1>4, <1>6, <1>7, <1>8 DEF r

\* Recoverable tasks that leave their barriers end none.
LEMMA LeaveRecoverableNotOk ==
    ASSUME NEW s, NEW R \in SUBSET Tasks, Good(s)
    PROVE  LET r == LeaveRecoverable(s, R) IN
           /\ r.cluster = s.cluster
           /\ r.barriers[Shutdown].passed = s.barriers[Shutdown].passed
           /\ r.barriers[Shutdown].result = s.barriers[Shutdown].result
<1> DEFINE r == LeaveRecoverable(s, R)
           leaving(b) == {t \in R : b \in s.cluster[t].ongoing}
           y(b) == LET x == s.barriers[b] IN
                   [x EXCEPT
                      !.calls = @ \ leaving(b),
                      !.restarted = IF LeaveOnRestart THEN @ \cup (leaving(b) \cap x.tasks)
                                    ELSE @,
                      !.at = IF LeaveOnRestart THEN @ ELSE @ \ leaving(b),
                      !.pending = IF LeaveOnRestart THEN @
                                  ELSE @ + Cardinality(leaving(b) \cap x.at)]
<1>1. s \in Service /\ s.barriers[Shutdown] \in BarrierState
  BY ShutdownIsBarrier DEF Good, Service
<1>2. r.cluster = s.cluster
  BY LeaveRecoverableGood
<1>3. r = [s EXCEPT !.barriers = [b \in BarrierIds |-> y(b)]]
  BY DEF LeaveRecoverable
<1>4. r.barriers = [b \in BarrierIds |-> y(b)]
  BY <1>1, <1>3 DEF Service
<1>5. r.barriers[Shutdown] = y(Shutdown)
  BY <1>4, ShutdownIsBarrier
<1>6. /\ y(Shutdown).passed = s.barriers[Shutdown].passed
      /\ y(Shutdown).result = s.barriers[Shutdown].result
  BY <1>1 DEF BarrierState
<1> QED
  BY <1>2, <1>5, <1>6

\* LeaveOngoingBarriers ends the shutdown barrier, with an error, only if it is one of
\* those that fail.
LEMMA LeaveOngoingBarriersNotOk ==
    ASSUME NEW s, NEW E \in SUBSET Tasks, Good(s)
    PROVE  LET r == LeaveOngoingBarriers(s, E)
               x == s.barriers[Shutdown]
               y == r.barriers[Shutdown]
           IN /\ \A t \in Tasks :
                   /\ r.cluster[t].state = s.cluster[t].state
                   /\ r.cluster[t].status = s.cluster[t].status
              /\ SameTasks(r, s) /\ NotOk(r, s)
              /\ Shutdown \notin Failing(s, E) => y.passed = x.passed /\ y.result = x.result
<1> DEFINE R == E \ NonRecoverable(s)
           F == Failing(s, E)
           m == LeaveRecoverable(s, R)
           r == EndBarriers(m, F, "INTERNAL")
<1>1. F \in SUBSET BarrierIds
  BY DEF Good, Service, TaskState, Failing, NonRecoverable
<1>2. r = LeaveOngoingBarriers(s, E)
  BY DEF LeaveOngoingBarriers
<1>3. Good(m) /\ m \in Service
  BY LeaveRecoverableGood DEF Good
<1>4. /\ m.cluster = s.cluster
      /\ m.barriers[Shutdown].passed = s.barriers[Shutdown].passed
      /\ m.barriers[Shutdown].result = s.barriers[Shutdown].result
  BY LeaveRecoverableNotOk
<1> HIDE DEF m, F
<1>5. /\ \A t \in Tasks :
           /\ r.cluster[t].state = m.cluster[t].state
           /\ r.cluster[t].status = m.cluster[t].status
      /\ SameTasks(r, m) /\ NotOk(r, m)
      /\ Shutdown \notin F => r.barriers[Shutdown] = m.barriers[Shutdown]
  BY <1>1, <1>3, EndBarriersNotOk DEF BarrierCodes
<1> HIDE DEF r
<1>6. SameTasks(r, s) /\ NotOk(r, s)
  BY <1>4, <1>5 DEF SameTasks, NotOk
<1> QED
  BY <1>2, <1>4, <1>5, <1>6 DEF F

\* What setting tasks to error does to the tasks.
LEMMA ErrorWaveErrs ==
    ASSUME NEW s, NEW E \in SUBSET Tasks, NEW code \in TaskCodes, Good(s)
    PROVE  LET r == ErrorWave(s, E, code) IN
           /\ \A t \in Tasks : r.cluster[t].state = IF t \in E THEN "ERROR"
                                                    ELSE s.cluster[t].state
           /\ SameTasks(r, s) /\ NotOk(r, s)
           /\ Shutdown \notin Failing(s, E \ InState(s, "ERROR")) =>
                 r.barriers[Shutdown].passed = s.barriers[Shutdown].passed
<1> DEFINE failed == E \ InState(s, "ERROR")
           cs == [t \in Tasks |->
                    IF t \in failed
                    THEN [s.cluster[t] EXCEPT !.state = "ERROR", !.status = code]
                    ELSE s.cluster[t]]
           marked == [s EXCEPT !.cluster = cs]
           left == LeaveOngoingBarriers(marked, failed)
           r == RefreshAliveness(left)
<1>1. s \in Service /\ \A t \in Tasks : s.cluster[t] \in TaskState
  BY DEF Good, Service
<1>2. /\ cs \in [Tasks -> TaskState]
      /\ \A t \in Tasks :
           /\ cs[t].ongoing = s.cluster[t].ongoing
           /\ cs[t].recoverable = s.cluster[t].recoverable
           /\ cs[t].incarnation = s.cluster[t].incarnation
           /\ cs[t].state = IF t \in failed THEN "ERROR" ELSE s.cluster[t].state
           /\ t \notin failed => cs[t].status = s.cluster[t].status
  BY <1>1 DEF TaskState
<1>3. failed \in SUBSET Tasks
  OBVIOUS
<1>4. ErrorWave(s, E, code) = r
  BY DEF ErrorWave
<1>5. \A t \in Tasks : (IF t \in failed THEN "ERROR" ELSE s.cluster[t].state) =
                       IF t \in E THEN "ERROR" ELSE s.cluster[t].state
  BY DEF InState
<1> HIDE DEF cs, failed
<1>6. Good(marked)
  BY <1>1, <1>2, TaskUpdateSimilar, SimilarGood
<1>7. marked.cluster = cs /\ marked.barriers = s.barriers
  BY <1>1 DEF Service
<1>8. Failing(marked, failed) = Failing(s, failed)
  BY <1>2, <1>3, <1>7 DEF Failing, NonRecoverable
<1> HIDE DEF marked
<1>9. Good(left) /\ left \in Service
  BY <1>3, <1>6, LeaveOngoingBarriersGood DEF Good
<1>10. /\ \A t \in Tasks :
            /\ left.cluster[t].state = cs[t].state
            /\ left.cluster[t].status = cs[t].status
       /\ SameTasks(left, marked) /\ NotOk(left, marked)
       /\ Shutdown \notin Failing(s, failed) =>
             left.barriers[Shutdown].passed = s.barriers[Shutdown].passed
  BY <1>3, <1>6, <1>7, <1>8, LeaveOngoingBarriersNotOk
<1> HIDE DEF left
<1>11. r.cluster = left.cluster /\ r.barriers = left.barriers
  BY <1>9 DEF RefreshAliveness, Service
<1> HIDE DEF r
<1>12. SameTasks(r, s)
  <2> SUFFICES ASSUME NEW t \in Tasks
               PROVE  /\ r.cluster[t].incarnation = s.cluster[t].incarnation
                      /\ r.cluster[t].recoverable = s.cluster[t].recoverable
                      /\ r.cluster[t].state = "CONNECTED" =>
                           /\ s.cluster[t].state = "CONNECTED"
                           /\ r.cluster[t].status = s.cluster[t].status
    BY DEF SameTasks
  <2> QED
    BY <1>2, <1>7, <1>10, <1>11 DEF SameTasks
<1>13. NotOk(r, s)
  BY <1>7, <1>10, <1>11 DEF NotOk
<1>14. \A t \in Tasks : r.cluster[t].state = IF t \in E THEN "ERROR" ELSE s.cluster[t].state
  BY <1>2, <1>5, <1>10, <1>11
<1> QED
  BY <1>4, <1>10, <1>11, <1>12, <1>13, <1>14 DEF failed

\* The hooks run after a failed register or shutdown barrier take all tasks to error.
LEMMA AfterFailureErrs ==
    ASSUME NEW s, NEW F, Good(s)
    PROVE  /\ SameTasks(AfterFailure(s, F), s) /\ NotOk(AfterFailure(s, F), s)
           /\ F \cap Special = {} => AfterFailure(s, F) = s
           /\ F \cap Special # {} => AllFailed(AfterFailure(s, F))
<1> DEFINE wave == ErrorWave(s, Tasks, "OTHER")
<1>1. wave \in Service
  BY ErrorWaveGood DEF TaskCodes, Good
<1>2. AllFailed(wave) /\ SameTasks(wave, s) /\ NotOk(wave, s)
  BY ErrorWaveErrs DEF TaskCodes, AllFailed
<1> HIDE DEF wave
<1>3. /\ TellShutdownError(wave).cluster = wave.cluster
      /\ TellShutdownError(wave).barriers = wave.barriers
  BY <1>1 DEF TellShutdownError, SendErrorPollingResponse, Service
<1>4. /\ AllFailed(TellShutdownError(wave)) /\ SameTasks(TellShutdownError(wave), s)
      /\ NotOk(TellShutdownError(wave), s)
  BY <1>2, <1>3 DEF AllFailed, SameTasks, NotOk
<1>5. SameTasks(s, s) /\ NotOk(s, s)
  BY DEF SameTasks, NotOk
<1>6. IF F \cap Special = {} THEN AfterFailure(s, F) = s
      ELSE AfterFailure(s, F) \in {wave, TellShutdownError(wave)}
  BY DEF AfterFailure, wave
<1> QED
  BY <1>2, <1>4, <1>5, <1>6

\* SetTaskError takes its tasks to error; if it takes others, then all.
LEMMA SetTaskErrorErrs ==
    ASSUME NEW s, NEW E \in SUBSET Tasks, NEW code \in TaskCodes, Good(s)
    PROVE  LET r == SetTaskError(s, E, code) IN
           /\ Errs(r, s, E)
           /\ \A t \in E : r.cluster[t].state = "ERROR"
<1> DEFINE F == Failing(s, E \ InState(s, "ERROR"))
           wave == ErrorWave(s, E, code)
           r == AfterFailure(wave, F)
<1>1. Good(wave)
  BY ErrorWaveGood
<1>2. /\ \A t \in Tasks : wave.cluster[t].state = IF t \in E THEN "ERROR"
                                                  ELSE s.cluster[t].state
      /\ SameTasks(wave, s) /\ NotOk(wave, s)
      /\ Shutdown \notin F => wave.barriers[Shutdown].passed = s.barriers[Shutdown].passed
  BY ErrorWaveErrs
<1>3. SetTaskError(s, E, code) = r
  BY DEF SetTaskError
<1> HIDE DEF wave, F
<1>4. /\ SameTasks(r, wave) /\ NotOk(r, wave)
      /\ F \cap Special = {} => r = wave
      /\ F \cap Special # {} => AllFailed(r)
  BY <1>1, AfterFailureErrs
<1> HIDE DEF r
<1>5. SameTasks(r, s) /\ NotOk(r, s)
  BY <1>2, <1>4 DEF SameTasks, NotOk
<1>6. CASE F \cap Special # {}
  BY <1>3, <1>4, <1>5, <1>6 DEF Errs, Contained, AllFailed
<1>7. CASE F \cap Special = {}
  <2>1. Shutdown \notin F /\ r = wave
    BY <1>4, <1>7 DEF Special
  <2> QED
    BY <1>2, <1>3, <1>5, <2>1 DEF Errs, Contained, AllFailed
<1> QED
  BY <1>6, <1>7

\* The error path takes its tasks to error, and everybody hears of the ones that are not
\* recoverable.
LEMMA FailTasksErrs ==
    ASSUME NEW s, NEW E \in SUBSET Tasks, NEW code \in TaskCodes, Good(s)
    PROVE  LET r == FailTasks(s, E, code) IN
           /\ Errs(r, s, E)
           /\ \A t \in E : \/ AllTasksAreRecoverable(r, {t})
                           \/ r.responded /\ r.polls = {}
                           \/ AllFailed(r)
<1> DEFINE m == SetTaskError(s, E, code)
           r == FailTasks(s, E, code)
<1>1. Good(m) /\ m \in Service
  BY SetTaskErrorGood DEF Good
<1>2. Errs(m, s, E)
  BY SetTaskErrorErrs
<1>3. r = PropagateError(m, E)
  BY DEF FailTasks
<1> HIDE DEF m, r
<1>4. CASE AllTasksAreRecoverable(m, E)
  BY <1>2, <1>3, <1>4 DEF PropagateError, AllTasksAreRecoverable, r
<1>5. CASE ~AllTasksAreRecoverable(m, E) /\ m.polling
  <2>1. r = SendErrorPollingResponse(m)
    BY <1>3, <1>5 DEF PropagateError
  <2>2. /\ r.cluster = m.cluster /\ r.barriers = m.barriers
        /\ r.responded /\ r.polls = {}
    BY <1>1, <2>1 DEF SendErrorPollingResponse, Service
  <2>3. Errs(r, s, E)
    BY <1>2, <2>2 DEF Errs, SameTasks, NotOk, Contained, AllFailed
  <2> QED
    BY <2>2, <2>3 DEF r
<1>6. CASE ~AllTasksAreRecoverable(m, E) /\ ~m.polling
  <2>1. r = SetTaskError(m, Tasks, "OTHER")
    BY <1>3, <1>6 DEF PropagateError
  <2>2. Errs(r, m, Tasks) /\ \A t \in Tasks : r.cluster[t].state = "ERROR"
    BY <1>1, <2>1, SetTaskErrorErrs DEF TaskCodes
  <2>3. SameTasks(r, s) /\ NotOk(r, s)
    BY <1>2, <2>2 DEF Errs, SameTasks, NotOk
  <2> QED
    BY <2>2, <2>3 DEF Errs, Contained, AllFailed, r
<1> QED
  BY <1>4, <1>5, <1>6

\* No task fails, and the shutdown barrier has passed OK with every task disconnected
\* that is not recoverable.
ShutsDown(r, s) ==
    /\ \A t \in Tasks : r.cluster[t].state = "ERROR" => s.cluster[t].state = "ERROR"
    /\ r.barriers[Shutdown].passed /\ r.barriers[Shutdown].result = "OK"
    /\ \A t \in Tasks : ~r.cluster[t].recoverable => r.cluster[t].state = "DISCONNECTED"

\* What a call to a barrier may do.
Turns(r, s) ==
    SameTasks(r, s) /\ ((NotOk(r, s) /\ Contained(r, s, {})) \/ ShutsDown(r, s))

\* A quiet step comes to nothing.
LEMMA QuietTurns ==
    ASSUME NEW r, NEW s, Quiet(r, s)
    PROVE  Turns(r, s) /\ \A q : Turns(q, r) => Turns(q, s)
<1>1. /\ \A t \in Tasks :
           /\ r.cluster[t].state = s.cluster[t].state
           /\ r.cluster[t].status = s.cluster[t].status
           /\ r.cluster[t].incarnation = s.cluster[t].incarnation
           /\ r.cluster[t].recoverable = s.cluster[t].recoverable
      /\ r.barriers[Shutdown].passed = s.barriers[Shutdown].passed
      /\ s.barriers[Shutdown].passed =>
            r.barriers[Shutdown].result = s.barriers[Shutdown].result
  BY DEF Quiet
<1>2. Turns(r, s)
  BY <1>1 DEF Turns, SameTasks, NotOk, Contained
<1>3. ASSUME NEW q, Turns(q, r)
      PROVE  Turns(q, s)
  <2>1. SameTasks(q, s)
    BY <1>1, <1>3 DEF Turns, SameTasks
  <2>2. NotOk(q, r) => NotOk(q, s)
    BY <1>1 DEF NotOk
  <2>3. Contained(q, r, {}) => Contained(q, s, {})
    BY <1>1 DEF Contained
  <2>4. ShutsDown(q, r) => ShutsDown(q, s)
    BY <1>1 DEF ShutsDown
  <2> QED
    BY <1>3, <2>1, <2>2, <2>3, <2>4 DEF Turns
<1> QED
  BY <1>2, <1>3

\* DisconnectTask takes nobody to error, unless it fails the register or the shutdown
\* barrier.
LEMMA DisconnectTasksTurns ==
    ASSUME NEW s, NEW D \in SUBSET Tasks, Good(s)
    PROVE  LET r == DisconnectTasks(s, D)
               x == s.barriers[Shutdown]
               y == r.barriers[Shutdown]
           IN /\ SameTasks(r, s) /\ NotOk(r, s) /\ Contained(r, s, {})
              /\ Failing(s, D \ InState(s, "DISCONNECTED")) \cap Special = {} =>
                   /\ y.passed = x.passed /\ y.result = x.result
                   /\ \A t \in D : r.cluster[t].state = "DISCONNECTED"
                   /\ \A t \in Tasks : r.cluster[t].state = "ERROR" =>
                                         s.cluster[t].state = "ERROR"
<1> DEFINE gone == D \ InState(s, "DISCONNECTED")
           cs == [t \in Tasks |->
                    IF t \in gone
                    THEN [s.cluster[t] EXCEPT !.state = "DISCONNECTED",
                                              !.status = "OK", !.grace = TRUE]
                    ELSE s.cluster[t]]
           marked == [s EXCEPT !.cluster = cs]
           left == LeaveOngoingBarriers(marked, gone)
           F == Failing(s, gone)
           after == AfterFailure(left, F)
           r == [RefreshAliveness(after) EXCEPT !.polls = @ \ gone]
<1>1. s \in Service /\ \A t \in Tasks : s.cluster[t] \in TaskState
  BY DEF Good, Service
<1>2. /\ cs \in [Tasks -> TaskState]
      /\ \A t \in Tasks :
           /\ cs[t].ongoing = s.cluster[t].ongoing
           /\ cs[t].recoverable = s.cluster[t].recoverable
           /\ cs[t].incarnation = s.cluster[t].incarnation
           /\ cs[t].state = IF t \in gone THEN "DISCONNECTED" ELSE s.cluster[t].state
           /\ t \notin gone => cs[t].status = s.cluster[t].status
  BY <1>1 DEF TaskState, TaskCodes
<1>3. /\ gone \in SUBSET Tasks
      /\ \A t \in D \ gone : s.cluster[t].state = "DISCONNECTED"
  BY DEF InState
<1>4. DisconnectTasks(s, D) = r
  BY DEF DisconnectTasks
<1> HIDE DEF cs, gone
<1>5. Good(marked)
  BY <1>1, <1>2, TaskUpdateSimilar, SimilarGood
<1>6. marked.cluster = cs /\ marked.barriers = s.barriers
  BY <1>1 DEF Service
<1>7. Failing(marked, gone) = F
  BY <1>2, <1>3, <1>6 DEF Failing, NonRecoverable
<1> HIDE DEF marked
<1>8. Good(left)
  BY <1>3, <1>5, LeaveOngoingBarriersGood
<1>9. /\ \A t \in Tasks : left.cluster[t].state = cs[t].state
      /\ \A t \in Tasks : left.cluster[t].status = cs[t].status
      /\ SameTasks(left, marked) /\ NotOk(left, marked)
      /\ Shutdown \notin F =>
           /\ left.barriers[Shutdown].passed = s.barriers[Shutdown].passed
           /\ left.barriers[Shutdown].result = s.barriers[Shutdown].result
  BY <1>3, <1>5, <1>6, <1>7, LeaveOngoingBarriersNotOk
<1> HIDE DEF left, F
<1>10. Good(after) /\ after \in Service
  BY <1>8, AfterFailureGood DEF Good
<1>11. /\ SameTasks(after, left) /\ NotOk(after, left)
       /\ F \cap Special = {} => after = left
       /\ F \cap Special # {} => AllFailed(after)
  BY <1>8, AfterFailureErrs
<1> HIDE DEF after
<1>12. r.cluster = after.cluster /\ r.barriers = after.barriers
  BY <1>10 DEF RefreshAliveness, Service
<1> HIDE DEF r
<1>13. SameTasks(left, s)
  BY <1>2, <1>6, <1>9 DEF SameTasks
<1>14. SameTasks(r, s)
  BY <1>11, <1>12, <1>13 DEF SameTasks
<1>15. NotOk(r, s)
  BY <1>6, <1>9, <1>11, <1>12 DEF NotOk
<1>16. CASE F \cap Special # {}
  BY <1>4, <1>11, <1>12, <1>14, <1>15, <1>16 DEF Contained, AllFailed, F, gone
<1>17. CASE F \cap Special = {}
  <2>1. Shutdown \notin F /\ after = left
    BY <1>11, <1>17 DEF Special
  <2>2. /\ r.barriers[Shutdown].passed = s.barriers[Shutdown].passed
        /\ r.barriers[Shutdown].result = s.barriers[Shutdown].result
        /\ \A t \in Tasks : r.cluster[t].state = IF t \in gone THEN "DISCONNECTED"
                                                 ELSE s.cluster[t].state
    BY <1>2, <1>9, <1>12, <2>1
  <2> QED
    BY <1>3, <1>4, <1>14, <1>15, <2>2 DEF Contained
<1> QED
  BY <1>16, <1>17

\* Connecting tasks takes nobody to error and ends no barrier.
LEMMA ConnectTasksTurns ==
    ASSUME NEW s, NEW C, Good(s)
    PROVE  Turns(ConnectTasks(s, C), s)
<1> DEFINE cs == [t \in Tasks |->
                    IF t \in C
                    THEN [s.cluster[t] EXCEPT !.state = "CONNECTED", !.status = "OK"]
                    ELSE s.cluster[t]]
           r == [s EXCEPT !.cluster = cs]
<1>1. s \in Service /\ \A t \in Tasks : s.cluster[t] \in TaskState
  BY DEF Good, Service
<1>2. \A t \in Tasks :
           /\ cs[t].recoverable = s.cluster[t].recoverable
           /\ cs[t].incarnation = s.cluster[t].incarnation
           /\ IF t \in C THEN cs[t].state = "CONNECTED" /\ cs[t].status = "OK"
              ELSE cs[t] = s.cluster[t]
  BY <1>1 DEF TaskState
<1>3. ConnectTasks(s, C) = r
  BY DEF ConnectTasks
<1> HIDE DEF cs
<1>4. r.cluster = cs /\ r.barriers = s.barriers
  BY <1>1 DEF Service
<1> HIDE DEF r
<1>5. SameTasks(r, s) /\ NotOk(r, s) /\ Contained(r, s, {})
  BY <1>2, <1>4 DEF SameTasks, NotOk, Contained
<1> QED
  BY <1>3, <1>5 DEF Turns

\* Barriers that fail take all tasks to error or none.
LEMMA FailBarriersTurns ==
    ASSUME NEW s, NEW F \in SUBSET BarrierIds, NEW result \in BarrierCodes \ {"OK"},
           GoodExcept(s, F)
    PROVE  Turns(AfterFailure(EndBarriers(s, F, result), F), s)
<1> DEFINE ended == EndBarriers(s, F, result)
           r == AfterFailure(ended, F)
<1>1. s \in Service
  BY DEF GoodExcept
<1>2. Good(ended)
  BY EndBarriersGood
<1>3. /\ \A t \in Tasks :
           /\ ended.cluster[t].state = s.cluster[t].state
           /\ ended.cluster[t].status = s.cluster[t].status
      /\ SameTasks(ended, s) /\ NotOk(ended, s)
      /\ Shutdown \notin F => ended.barriers[Shutdown] = s.barriers[Shutdown]
  BY <1>1, EndBarriersNotOk
<1> HIDE DEF ended
<1>4. /\ SameTasks(r, ended) /\ NotOk(r, ended)
      /\ F \cap Special = {} => r = ended
      /\ F \cap Special # {} => AllFailed(r)
  BY <1>2, AfterFailureErrs
<1> HIDE DEF r
<1>5. SameTasks(r, s) /\ NotOk(r, s)
  BY <1>3, <1>4 DEF SameTasks, NotOk
<1>6. Contained(r, s, {})
  <2>1. CASE F \cap Special # {}
    BY <1>4, <2>1 DEF Contained
  <2>2. CASE F \cap Special = {}
    <3>1. r = ended /\ Shutdown \notin F
      BY <1>4, <2>2 DEF Special
    <3> QED
      BY <1>3, <3>1 DEF Contained
  <2> QED
    BY <2>1, <2>2
<1> QED
  BY <1>5, <1>6 DEF Turns, r, ended

\* PassBarrier(b, error).
LEMMA PassBarrierErrorTurns ==
    ASSUME NEW s, NEW b \in BarrierIds, NEW result \in BarrierCodes \ {"OK"},
           GoodExcept(s, {b})
    PROVE  Turns(PassBarrierError(s, b, result), s)
BY FailBarriersTurns DEF PassBarrierError

\* Once the shutdown barrier has passed, a task that disconnects is in neither the
\* register nor the shutdown barrier: if it is connected, the register barrier passed
\* before that, and if it is in error, it has left all barriers.
LEMMA DisconnectIsQuiet ==
    ASSUME NEW s, NEW D \in SUBSET Tasks, Good(s), Steady(s), s.barriers[Shutdown].passed
    PROVE  Failing(s, D \ InState(s, "DISCONNECTED")) \cap Special = {}
<1> SUFFICES ASSUME NEW t \in D, ~s.cluster[t].recoverable,
                    s.cluster[t].state # "DISCONNECTED",
                    NEW b \in Special, b \in s.cluster[t].ongoing
             PROVE  FALSE
  BY DEF Failing, NonRecoverable, InState
<1>1. b \in BarrierIds /\ Book(s, b)
  BY DEF Good, BarrierIds
<1>2. s.barriers[b].named /\ ~s.barriers[b].passed
  BY <1>1 DEF Book
<1>3. b = Register
  BY <1>2 DEF Special
<1>4. s.cluster[t].state \in {"CONNECTED", "ERROR"}
  BY DEF Good, Service, TaskState
<1>5. s.cluster[t].state # "ERROR"
  BY DEF Steady, AllLeft
<1>6. s.cluster[t].state # "CONNECTED"
  BY <1>2, <1>3, ConfigAssumption DEF Steady, OneRegister
<1> QED
  BY <1>4, <1>5, <1>6

\* Once the shutdown barrier has passed OK, all tasks disconnect that are not
\* recoverable, and none fails.
LEMMA DisconnectShutsDown ==
    ASSUME NEW s, NEW D \in SUBSET Tasks, Good(s), Steady(s), s.barriers[Shutdown].passed,
           s.barriers[Shutdown].result = "OK", NonRecoverable(s) \subseteq D
    PROVE  /\ SameTasks(DisconnectTasks(s, D), s)
           /\ ShutsDown(DisconnectTasks(s, D), s)
<1> DEFINE r == DisconnectTasks(s, D)
<1>1. Failing(s, D \ InState(s, "DISCONNECTED")) \cap Special = {}
  BY DisconnectIsQuiet
<1>2. /\ SameTasks(r, s)
      /\ r.barriers[Shutdown].passed /\ r.barriers[Shutdown].result = "OK"
      /\ \A t \in D : r.cluster[t].state = "DISCONNECTED"
      /\ \A t \in Tasks : r.cluster[t].state = "ERROR" => s.cluster[t].state = "ERROR"
  BY <1>1, DisconnectTasksTurns
<1> HIDE DEF r
<1>3. \A t \in Tasks : ~r.cluster[t].recoverable => t \in D
  BY <1>2 DEF SameTasks, NonRecoverable
<1> QED
  BY <1>2, <1>3 DEF ShutsDown, r

\* A barrier that passes.
LEMMA PassBarrierOkTurns ==
    ASSUME NEW s, NEW b \in BarrierIds, Complete(s, b)
    PROVE  Turns(PassBarrierOk(s, b), s)
<1> DEFINE ended == EndBarriers(s, {b}, "OK")
<1>1. s \in Service /\ {b} \in SUBSET BarrierIds
  BY DEF Complete, GoodExcept
<1>2. Good(ended)
  BY EndBarriersGood DEF BarrierCodes, Complete
<1>3. Settled(ended)
  <2>1. Calmer(ended, s)
    BY EndBarriersCalmer DEF BarrierCodes, Complete
  <2> QED
    BY <2>1, CalmerSettled DEF Complete
<1>4. /\ \A t \in Tasks :
           /\ ended.cluster[t].state = s.cluster[t].state
           /\ ended.cluster[t].status = s.cluster[t].status
      /\ SameTasks(ended, s)
      /\ Shutdown # b => ended.barriers[Shutdown] = s.barriers[Shutdown]
      /\ Shutdown = b => ended.barriers[b].passed /\ ended.barriers[b].result = "OK"
  BY <1>1, EndBarriersNotOk DEF BarrierCodes
<1>5. PassBarrierOk(s, b) =
        CASE b = Register -> ConnectAfterBarrierPasses(ended, s.barriers[b].calls)
          [] b = Shutdown -> DisconnectTasks(ended, NonRecoverable(s))
          [] OTHER -> ended
  BY DEF PassBarrierOk
<1> HIDE DEF ended
<1>6. CASE b = Shutdown
  <2> DEFINE r == DisconnectTasks(ended, NonRecoverable(s))
  <2>1. NonRecoverable(s) \in SUBSET Tasks /\ NonRecoverable(ended) \subseteq NonRecoverable(s)
    BY <1>4 DEF NonRecoverable, SameTasks
  <2>2. SameTasks(r, ended) /\ ShutsDown(r, ended)
    BY <1>2, <1>3, <1>4, <1>6, <2>1, DisconnectShutsDown DEF Settled
  <2>3. PassBarrierOk(s, b) = r
    BY <1>5, <1>6, BarriersAssumption
  <2> HIDE DEF r
  <2>4. SameTasks(r, s) /\ ShutsDown(r, s)
    BY <1>4, <2>2 DEF SameTasks, ShutsDown
  <2> QED
    BY <2>3, <2>4 DEF Turns
<1>7. CASE b # Shutdown
  <2>1. Quiet(ended, s)
    BY <1>4, <1>7 DEF Quiet, SameTasks
  <2>2. Turns(ConnectAfterBarrierPasses(ended, s.barriers[b].calls), ended)
    BY <1>2, ConnectTasksTurns DEF ConnectAfterBarrierPasses
  <2> QED
    BY <1>5, <1>7, <2>1, <2>2, QuietTurns
<1> QED
  BY <1>6, <1>7

\* RepeatBarrierResult.
LEMMA RepeatBarrierResultTurns ==
    ASSUME NEW s, NEW t \in Tasks, NEW b, Good(s)
    PROVE  Turns(RepeatBarrierResult(s, t, b), s)
<1>1. Turns(DisconnectTasks(s, {t}), s)
  <2>1. {t} \in SUBSET Tasks
    OBVIOUS
  <2>2. /\ SameTasks(DisconnectTasks(s, {t}), s) /\ NotOk(DisconnectTasks(s, {t}), s)
        /\ Contained(DisconnectTasks(s, {t}), s, {})
    BY <2>1, DisconnectTasksTurns
  <2> QED
    BY <2>2 DEF Turns
<1>2. Turns(ConnectAfterBarrierPasses(s, {t}), s)
  BY ConnectTasksTurns DEF ConnectAfterBarrierPasses
<1>3. Turns(s, s)
  BY QuietTurns DEF Quiet
<1> QED
  BY <1>1, <1>2, <1>3 DEF RepeatBarrierResult

\* A participant's call to an ongoing barrier.
LEMMA ReachBarrierTurns ==
    ASSUME NEW s, NEW t \in Tasks, NEW b \in BarrierIds, Good(s), Settled(s),
           b \in s.ongoing, t \in s.barriers[b].tasks, MayCall(s, t, b)
    PROVE  Turns(ReachBarrier(AddBarrierCallback(s, t, b), t, b), s)
<1> DEFINE r == ReachBarrier(AddBarrierCallback(s, t, b), t, b)
<1>1. \/ Quiet(r, s)
      \/ \E q : r = PassBarrierOk(q, b) /\ Complete(q, b) /\ Quiet(q, s)
  BY ReachBarrierForm
<1> HIDE DEF r
<1>2. ASSUME NEW q, r = PassBarrierOk(q, b), Complete(q, b), Quiet(q, s)
      PROVE  Turns(r, s)
  BY <1>2, PassBarrierOkTurns, QuietTurns
<1>3. Turns(r, s)
  BY <1>1, <1>2, QuietTurns
<1> QED
  BY <1>3 DEF r

\* InitializeBarrier: the new instance fails, or nothing happens to the tasks.
LEMMA InitializeBarrierTurns ==
    ASSUME NEW s, NEW b \in BarrierIds, NEW counter \in Counters,
           NEW args \in SUBSET (Tasks \cup {Stranger}), NEW before \in SUBSET Tasks,
           Tasks # {}, Good(s), b \notin s.ongoing,
           b = Shutdown => ~s.barriers[b].passed
    PROVE  Turns(InitializeBarrier(s, b, counter, args, before), s)
<1> DEFINE members == InitializeTasksAtBarrier(s.barriers[b], args, before)
           unknown == s.barriers[b].tasks = {} /\ Stranger \in args
           broken == members \cap NonRecoverable(s) \cap InState(s, "ERROR")
           r == InitializeBarrier(s, b, counter, args, before)
<1>1. PICK fresh :
         /\ IsFresh(fresh, s, b, counter, members)
         /\ \/ unknown /\ r = PassBarrierError(fresh, b, "INVALID_ARGUMENT")
            \/ broken # {} /\ r = PassBarrierError(fresh, b, "INTERNAL")
            \/ /\ broken = {} /\ members # {}
               /\ fresh.barriers[b].pending = Cardinality(members)
               /\ HasBegun(r, fresh, s, b, members)
  BY InitializeBarrierForm, Zenon
<1> DEFINE z == fresh.barriers[b]
<1>2. Replaces(fresh, s, b, z) /\ GoodExcept(fresh, {b}) /\ ~z.passed
  BY <1>1 DEF IsFresh
<1> HIDE DEF members, unknown, broken, r, z
<1>3. fresh.cluster = s.cluster
  BY <1>2 DEF Replaces
<1>4. Quiet(fresh, s)
  <2>1. fresh.barriers[b] = z /\ \A c \in BarrierIds \ {b} : fresh.barriers[c] = s.barriers[c]
    BY <1>2 DEF Replaces
  <2>2. /\ fresh.barriers[Shutdown].passed = s.barriers[Shutdown].passed
        /\ s.barriers[Shutdown].passed =>
             fresh.barriers[Shutdown].result = s.barriers[Shutdown].result
    <3>1. CASE b = Shutdown
      <4>1. s.barriers[b].passed = FALSE /\ z.passed = FALSE
        BY <1>2, <3>1 DEF Good, Service, BarrierState, GoodExcept, z
      <4> QED
        BY <2>1, <3>1, <4>1
    <3>2. CASE b # Shutdown
      BY <2>1, <3>2, ShutdownIsBarrier
    <3> QED
      BY <3>1, <3>2
  <2> QED
    BY <1>3, <2>2 DEF Quiet
<1>5. ASSUME NEW result \in BarrierCodes \ {"OK"}, r = PassBarrierError(fresh, b, result)
      PROVE  Turns(r, s)
  <2>1. Turns(r, fresh)
    BY <1>2, <1>5, PassBarrierErrorTurns
  <2> QED
    BY <1>4, <2>1, QuietTurns
<1>6. ASSUME HasBegun(r, fresh, s, b, members)
      PROVE  Quiet(r, s)
  BY <1>4, <1>6 DEF HasBegun, Quiet
<1> QED
  BY <1>1, <1>5, <1>6, QuietTurns DEF BarrierCodes, r

\* A call to a barrier that is set up.
LEMMA JoinBarrierTurns ==
    ASSUME NEW s, NEW t \in Tasks, NEW b \in BarrierIds, NEW counter, NEW args,
           NEW isNew, Good(s), Settled(s), MayCall(s, t, b)
    PROVE  Turns(JoinBarrier(s, t, b, counter, args, isNew), s)
<1> DEFINE called == AddBarrierCallback(s, t, b)
           x == called.barriers[b]
           mismatch == ~isNew /\ counter # x.counter /\ ~(t \in RecoverableTasks /\ counter = 0)
           valid == ValidateTaskArgs(x, t, args)
           y == [s.barriers[b] EXCEPT !.calls = @ \cup {t}]
<1>1. s \in Service /\ s.barriers[b] \in BarrierState /\ Book(s, b)
  BY DEF Good, Service
<1>2. Replaces(called, s, b, y)
  BY <1>1, AddBarrierCallbackReplaces
<1>3. GoodExcept(called, {b})
  BY AddBarrierCallbackGood
<1>4. /\ y.passed = s.barriers[b].passed /\ y.tasks = s.barriers[b].tasks
      /\ y.result = s.barriers[b].result
  BY <1>1 DEF BarrierState
<1>5. JoinBarrier(s, t, b, counter, args, isNew) =
        CASE mismatch -> PassBarrierError(called, b, "INTERNAL")
          [] ~mismatch /\ ~valid -> PassBarrierError(called, b, "INVALID_ARGUMENT")
          [] ~mismatch /\ valid /\ x.passed -> RepeatBarrierResult(s, t, b)
          [] OTHER -> ReachBarrier(called, t, b)
  BY DEF JoinBarrier
<1> HIDE DEF y
<1>6. Quiet(called, s)
  BY <1>2, <1>4, ReplacesQuiet
<1>7. \A result \in BarrierCodes \ {"OK"} : Turns(PassBarrierError(called, b, result), s)
  BY <1>3, <1>6, PassBarrierErrorTurns, QuietTurns
<1>8. Turns(RepeatBarrierResult(s, t, b), s)
  BY RepeatBarrierResultTurns
<1>9. valid /\ ~x.passed => Turns(ReachBarrier(called, t, b), s)
  <2>1. x = y
    BY <1>2 DEF Replaces
  <2>2. valid => t \in x.tasks
    BY DEF ValidateTaskArgs
  <2> HIDE DEF valid, x
  <2>3. valid /\ ~x.passed => t \in s.barriers[b].tasks /\ b \in s.ongoing
    BY <1>1, <1>4, <2>1, <2>2 DEF Book
  <2> QED
    BY <2>3, ReachBarrierTurns
<1> HIDE DEF called, x, mismatch, valid
<1> QED
  BY <1>5, <1>7, <1>8, <1>9 DEF BarrierCodes

\* A call to a barrier.
LEMMA BarrierAsyncLockedTurns ==
    ASSUME NEW s, NEW t \in Tasks, NEW b \in BarrierIds, NEW counter \in Counters,
           NEW args \in SUBSET (Tasks \cup {Stranger}), NEW before \in SUBSET Tasks,
           Good(s), Settled(s),
           StartsAfterRestart(s, t, b, counter) => s.barriers[b].counter < MaxCounter,
           b = Register => /\ RegisterWithBarrier /\ counter = 0 /\ args = {}
                           /\ s.captured[t] = s.cluster[t].incarnation,
           b = Shutdown => counter = 0
    PROVE  Turns(BarrierAsyncLocked(s, t, b, counter, args, before), s)
<1> DEFINE c == IF StartsAfterRestart(s, t, b, counter) THEN s.barriers[b].counter + 1
                ELSE counter
           new == InitializeBarrier(s, b, c, args, before)
<1>1. s.barriers[b] \in BarrierState /\ Book(s, b)
  BY DEF Good, Service
<1>2. c \in Counters
  BY <1>1, ConfigAssumption DEF BarrierState, Counters
<1>3. ShouldInitialize(s, t, b, counter) => b \notin s.ongoing
  BY <1>1 DEF ShouldInitialize, BarrierIsUninitialized, StartsAfterRestart, Book
<1>4. b \in Special => ~StartsAfterRestart(s, t, b, counter)
  BY DEF StartsAfterRestart
<1>5. b = Register =>
         /\ c = 0
         /\ ShouldInitialize(s, t, b, counter) => ~s.barriers[b].passed
         /\ ~ShouldInitialize(s, t, b, counter) => s.barriers[b].named
  BY <1>1, <1>4 DEF ShouldInitialize, BarrierIsUninitialized, Settled, Steady,
                    OneRegister, Book, Special
<1>6. b = Shutdown /\ ShouldInitialize(s, t, b, counter) => ~s.barriers[b].passed
  <2>1. b = Shutdown => 0 # s.barriers[b].counter + 1
    BY <1>1, ConfigAssumption DEF BarrierState, Counters
  <2> QED
    BY <1>4, <2>1 DEF ShouldInitialize, BarrierIsUninitialized, Special
<1> HIDE DEF c
<1>7. CASE ~ShouldInitialize(s, t, b, counter)
  <2>1. MayCall(s, t, b)
    BY <1>5, <1>7 DEF MayCall
  <2> QED
    BY <1>7, <2>1, JoinBarrierTurns DEF BarrierAsyncLocked
<1>8. CASE ShouldInitialize(s, t, b, counter)
  <2>1. b \notin s.ongoing /\ Tasks # {} /\ (b = Shutdown => ~s.barriers[b].passed)
    BY <1>3, <1>6, <1>8
  <2>2. Good(new)
    BY <1>2, <2>1, InitializeBarrierGood
  <2>3. Settled(new) /\ Unfailed(new, s, b)
    <3>1. b = Register =>
            RegisterWithBarrier /\ c = 0 /\ args = {} /\ ~s.barriers[b].passed
      BY <1>5, <1>8
    <3> QED
      BY <1>2, <2>1, <3>1, InitializeBarrierSettled
  <2>4. Turns(new, s)
    BY <1>2, <2>1, InitializeBarrierTurns
  <2>5. new.barriers[b] \in BarrierState
    BY <2>2 DEF Good, Service
  <2> HIDE DEF new
  <2>6. ASSUME ~new.barriers[b].passed
        PROVE  Turns(JoinBarrier(new, t, b, c, args, TRUE), s)
    <3>1. MayCall(new, t, b)
      BY <2>3, <2>6 DEF MayCall, Unfailed
    <3>2. Turns(JoinBarrier(new, t, b, c, args, TRUE), new)
      BY <2>2, <2>3, <3>1, JoinBarrierTurns
    <3>3. Quiet(new, s)
      <4>1. b = Shutdown => new.barriers[b].passed = s.barriers[b].passed /\ ~s.barriers[b].passed
        BY <1>1, <2>1, <2>5, <2>6 DEF BarrierState
      <4> QED
        BY <2>3, <2>6, <4>1, ShutdownIsBarrier DEF Unfailed, Quiet
    <3> QED
      BY <3>2, <3>3, QuietTurns
  <2> QED
    BY <1>8, <2>4, <2>6 DEF BarrierAsyncLocked, c, new
<1> QED
  BY <1>7, <1>8

\* A quiet step after a call.
LEMMA TurnsQuiet ==
    ASSUME NEW q, NEW r, NEW s, Turns(r, s), Quiet(q, r)
    PROVE  Turns(q, s)
<1>1. /\ \A t \in Tasks :
           /\ q.cluster[t].state = r.cluster[t].state
           /\ q.cluster[t].status = r.cluster[t].status
           /\ q.cluster[t].incarnation = r.cluster[t].incarnation
           /\ q.cluster[t].recoverable = r.cluster[t].recoverable
      /\ q.barriers[Shutdown].passed = r.barriers[Shutdown].passed
      /\ r.barriers[Shutdown].passed =>
            q.barriers[Shutdown].result = r.barriers[Shutdown].result
  BY DEF Quiet
<1>2. SameTasks(q, s)
  BY <1>1 DEF Turns, SameTasks
<1>3. NotOk(r, s) => NotOk(q, s)
  BY <1>1 DEF NotOk
<1>4. Contained(r, s, {}) => Contained(q, s, {})
  BY <1>1 DEF Contained, AllFailed
<1>5. ShutsDown(r, s) => ShutsDown(q, s)
  BY <1>1 DEF ShutsDown
<1> QED
  BY <1>2, <1>3, <1>4, <1>5 DEF Turns

\* A connected task has no error status.
Healthy(s) == \A t \in Tasks : s.cluster[t].state = "CONNECTED" => s.cluster[t].status = "OK"

\* The three action properties, for a step from s to r.
Heard(r, s) ==
    \A t \in Tasks :
        /\ s.cluster[t].state # "ERROR" /\ r.cluster[t].state = "ERROR"
        /\ ~AllTasksAreRecoverable(r, {t})
        => \/ r.responded /\ r.polls = {}
           \/ InState(r, "CONNECTED") = {}

Noticed(r, s) ==
    \A t \in Tasks :
        /\ s.cluster[t].state = "CONNECTED" /\ r.cluster[t].state = "CONNECTED"
        /\ t \notin RecoverableTasks
        => r.cluster[t].incarnation = s.cluster[t].incarnation

AllOrNothing(r, s) ==
    LET x == s.barriers[Shutdown]
        y == r.barriers[Shutdown]
    IN ~x.passed /\ y.passed =>
         \/ y.result = "OK" /\ NonRecoverable(r) \subseteq InState(r, "DISCONNECTED")
         \/ y.result # "OK" /\ InState(r, "ERROR") = Tasks

Lawful(r, s) == Healthy(r) /\ Heard(r, s) /\ Noticed(r, s) /\ AllOrNothing(r, s)

\* What a call to a barrier does is lawful.
LEMMA TurnsLawful ==
    ASSUME NEW r, NEW s, Healthy(s), Turns(r, s)
    PROVE  Lawful(r, s)
<1>1. Healthy(r) /\ Noticed(r, s)
  BY DEF Healthy, Noticed, Turns, SameTasks
<1>2. AllFailed(r) => InState(r, "ERROR") = Tasks /\ InState(r, "CONNECTED") = {}
  BY DEF AllFailed, InState
<1>3. Heard(r, s)
  BY <1>2 DEF Heard, Turns, Contained, ShutsDown
<1>4. AllOrNothing(r, s)
  BY <1>2 DEF AllOrNothing, Turns, NotOk, Contained, ShutsDown, NonRecoverable, InState
<1> QED
  BY <1>1, <1>3, <1>4 DEF Lawful

\* So is the error path.
LEMMA FailTasksLawful ==
    ASSUME NEW s, NEW E \in SUBSET Tasks, NEW code \in TaskCodes, Good(s), Healthy(s)
    PROVE  Lawful(FailTasks(s, E, code), s)
<1> DEFINE r == FailTasks(s, E, code)
<1>1. /\ Errs(r, s, E)
      /\ \A t \in E : \/ AllTasksAreRecoverable(r, {t})
                      \/ r.responded /\ r.polls = {}
                      \/ AllFailed(r)
  BY FailTasksErrs
<1> HIDE DEF r
<1>2. Healthy(r) /\ Noticed(r, s)
  BY <1>1 DEF Healthy, Noticed, Errs, SameTasks
<1>3. AllFailed(r) => InState(r, "ERROR") = Tasks /\ InState(r, "CONNECTED") = {}
  BY DEF AllFailed, InState
<1>4. Heard(r, s)
  BY <1>1, <1>3 DEF Heard, Errs, Contained
<1>5. AllOrNothing(r, s)
  BY <1>1, <1>3 DEF AllOrNothing, Errs, NotOk, Contained
<1> QED
  BY <1>2, <1>4, <1>5 DEF Lawful, r

\* A step that is lawful from s is so from q, if the tasks are in the same state and those
\* that are connected are the same.
LEMMA LawfulFrom ==
    ASSUME NEW r, NEW s, NEW q, Lawful(r, s),
           \A t \in Tasks :
              /\ s.cluster[t].state = q.cluster[t].state
              /\ q.cluster[t].state = "CONNECTED" =>
                    \/ s.cluster[t].incarnation = q.cluster[t].incarnation
                    \/ t \in RecoverableTasks,
           s.barriers[Shutdown].passed = q.barriers[Shutdown].passed
    PROVE  Lawful(r, q)
<1>1. Heard(r, q)
  BY DEF Lawful, Heard
<1>2. Noticed(r, q)
  BY DEF Lawful, Noticed
<1>3. AllOrNothing(r, q)
  BY DEF Lawful, AllOrNothing
<1> QED
  BY <1>1, <1>2, <1>3 DEF Lawful

\* ConnectTask connects a task that was not, or again, or a recoverable one that has
\* restarted.
LEMMA ConnectTaskLawful ==
    ASSUME NEW s, NEW t \in Tasks, NEW inc \in Incarnations, Good(s), Healthy(s),
           \/ s.cluster[t].state # "CONNECTED"
           \/ s.cluster[t].incarnation = inc
           \/ t \in RecoverableTasks
    PROVE  Lawful(ConnectTask(s, t, inc), s)
<1> DEFINE x == [s.cluster[t] EXCEPT !.incarnation = inc]
           renamed == [s EXCEPT !.cluster[t].incarnation = inc]
           connected == ConnectTasks(renamed, {t})
           left == LeaveRecoverable(connected, {t})
           us == IF LeaveOnRestart THEN left.unsynced \cup {t} ELSE left.unsynced
           r == [left EXCEPT !.unsynced = us]
<1>1. s \in Service /\ s.cluster[t] \in TaskState /\ s.cluster \in [Tasks -> TaskState]
  BY DEF Good, Service
<1>2. Good(renamed)
  BY TaskFieldSimilar, SimilarGood DEF Good
<1>3. ConnectTask(s, t, inc) = IF ~s.cluster[t].recoverable THEN connected ELSE r
  BY DEF ConnectTask
<1>4. /\ renamed.barriers = s.barriers /\ renamed.cluster[t] = x
      /\ \A u \in Tasks \ {t} : renamed.cluster[u] = s.cluster[u]
  BY <1>1 DEF Service
<1>5. /\ x.state = s.cluster[t].state /\ x.status = s.cluster[t].status
      /\ x.incarnation = inc
  BY <1>1 DEF TaskState
<1> HIDE DEF renamed, x
<1>6. Healthy(renamed)
  BY <1>4, <1>5 DEF Healthy
<1>7. Good(connected) /\ Turns(connected, renamed)
  BY <1>2, ConnectTasksGood, ConnectTasksTurns
<1> HIDE DEF connected
<1>8. /\ Good(left) /\ left.cluster = connected.cluster
      /\ left.barriers[Shutdown].passed = connected.barriers[Shutdown].passed
      /\ left.barriers[Shutdown].result = connected.barriers[Shutdown].result
  BY <1>7, LeaveRecoverableGood, LeaveRecoverableNotOk
<1> HIDE DEF left, us
<1>9. r.barriers = left.barriers /\ r.cluster = left.cluster
  BY <1>8 DEF Good, Service
<1> HIDE DEF r
<1>10. Turns(r, renamed)
  <2>1. Quiet(r, connected)
    BY <1>8, <1>9 DEF Quiet
  <2> QED
    BY <1>7, <2>1, TurnsQuiet
<1>11. Lawful(ConnectTask(s, t, inc), renamed)
  BY <1>3, <1>6, <1>7, <1>10, TurnsLawful
<1>12. ASSUME NEW u \in Tasks
       PROVE  /\ renamed.cluster[u].state = s.cluster[u].state
              /\ s.cluster[u].state = "CONNECTED" =>
                    \/ renamed.cluster[u].incarnation = s.cluster[u].incarnation
                    \/ u \in RecoverableTasks
  BY <1>4, <1>5
<1> QED
  BY <1>4, <1>11, <1>12, LawfulFrom

\* A task registers at the register barrier when it is not connected.
LEMMA RegisterAtBarrierLawful ==
    ASSUME NEW s, NEW t \in Tasks, NEW inc \in Incarnations, Good(s), Settled(s),
           Healthy(s), RegisterWithBarrier, s.cluster[t].state # "CONNECTED"
    PROVE  Lawful(RegisterAtBarrier(s, t, inc), s)
<1> DEFINE isLate == s.cluster[t].recoverable /\ LeaveOnRestart /\ s.barriers[Register].passed
           us == IF isLate THEN s.unsynced \cup {t} ELSE s.unsynced
           cp == [s.captured EXCEPT ![t] = inc]
           x == [s.cluster[t] EXCEPT !.incarnation = inc]
           renamed == [s EXCEPT !.cluster[t].incarnation = inc]
           r == [renamed EXCEPT !.captured = cp, !.unsynced = us]
<1>1. s \in Service /\ s.cluster[t] \in TaskState /\ s.cluster \in [Tasks -> TaskState]
      /\ s.captured \in [Tasks -> Incarnations \cup {0}]
  BY DEF Good, Service
<1>2. /\ Good(renamed) /\ renamed.captured = s.captured /\ renamed.unsynced = s.unsynced
      /\ renamed.barriers = s.barriers /\ renamed.aliveness = s.aliveness
      /\ renamed.cluster[t] = x
      /\ \A u \in Tasks \ {t} : renamed.cluster[u] = s.cluster[u]
  BY <1>1, TaskFieldSimilar, SimilarGood DEF Good, Service
<1>3. /\ cp \in [Tasks -> Incarnations \cup {0}] /\ us \in SUBSET Tasks
      /\ cp[t] = inc /\ \A u \in Tasks \ {t} : cp[u] = s.captured[u]
  BY <1>1 DEF Service
<1>4. RegisterAtBarrier(s, t, inc) = BarrierAsyncLocked(r, t, Register, 0, {}, {})
  BY <1>2 DEF RegisterAtBarrier, Good, Service
<1>5. /\ x.state = s.cluster[t].state /\ x.recoverable = s.cluster[t].recoverable
      /\ x.ongoing = s.cluster[t].ongoing /\ x.incarnation = inc
  BY <1>1 DEF TaskState
<1> HIDE DEF renamed, us, cp, x
<1>6. /\ Similar(r, renamed) /\ r.cluster = renamed.cluster /\ r.captured = cp
      /\ r.barriers = renamed.barriers /\ r.aliveness = renamed.aliveness
  BY <1>2, <1>3 DEF Similar, Good, Service
<1> HIDE DEF r
<1>7. Good(r)
  BY <1>2, <1>6, SimilarGood
<1>8. TaskReplaces(r, s, t, x) /\ r.captured[t] = inc
  BY <1>2, <1>3, <1>6 DEF TaskReplaces
<1>9. Settled(r)
  BY <1>1, <1>5, <1>8, TaskReplacesSettled DEF Settled, Steady, Flagged, AllLeft
<1>10. /\ Register \in BarrierIds /\ 0 \in Counters /\ ~StartsAfterRestart(r, t, Register, 0)
       /\ Register # Shutdown
  BY ConfigAssumption, BarriersAssumption DEF BarrierIds, Special, Counters, StartsAfterRestart
<1>11. r.captured[t] = r.cluster[t].incarnation
  BY <1>5, <1>8 DEF TaskReplaces
<1>12. Turns(RegisterAtBarrier(s, t, inc), r)
  BY <1>4, <1>7, <1>9, <1>10, <1>11, BarrierAsyncLockedTurns
<1>13. Healthy(r)
  BY <1>5, <1>8 DEF Healthy, TaskReplaces
<1>14. Lawful(RegisterAtBarrier(s, t, inc), r)
  BY <1>12, <1>13, TurnsLawful
<1>15. ASSUME NEW u \in Tasks
       PROVE  /\ r.cluster[u].state = s.cluster[u].state
              /\ s.cluster[u].state = "CONNECTED" =>
                    r.cluster[u].incarnation = s.cluster[u].incarnation
  BY <1>5, <1>8 DEF TaskReplaces
<1>16. r.barriers = s.barriers
  BY <1>8 DEF TaskReplaces
<1> QED
  BY <1>14, <1>15, <1>16, LawfulFrom

\* RegisterTaskAsync is lawful: a task that is connected is registered again only under
\* its own incarnation, or if it is recoverable.
LEMMA RegisterTaskAsyncLawful ==
    ASSUME NEW t \in Tasks, NEW inc \in Incarnations, Good(svc), Settled(svc), Healthy(svc),
           RegisterTaskAsync(t, inc)
    PROVE  Lawful(svc', svc)
<1> DEFINE v == t \in RecoverableTasks
           x == [svc.cluster[t] EXCEPT !.recoverable = v]
           s == [svc EXCEPT !.cluster[t].recoverable = v]
<1>1. /\ svc \in Service /\ svc.cluster[t] \in TaskState
      /\ svc.cluster \in [Tasks -> TaskState]
  BY DEF Good, Service
<1>2. v \in BOOLEAN
  OBVIOUS
<1>3. \/ /\ RegisterWithBarrier /\ MayConnect(s.cluster[t])
         /\ svc' = RegisterAtBarrier(s, t, inc)
      \/ /\ MayRepeat(s.cluster[t], inc) \/ MayConnect(s.cluster[t])
         /\ svc' = ConnectTask(s, t, inc)
      \/ svc' = FailTasks(s, {t}, "OTHER")
  BY DEF RegisterTaskAsync
<1>4. v => t \in RecoverableTasks
  OBVIOUS
<1>5. svc.cluster[t].recoverable => v
  BY DEF Settled, Steady, Flagged
<1> HIDE DEF v
<1>6. Good(s)
  BY <1>1, <1>2, TaskFieldSimilar, SimilarGood
<1>7. TaskReplaces(s, svc, t, x) /\ s.captured = svc.captured
  BY <1>1 DEF TaskReplaces, Service
<1>8. /\ x.state = svc.cluster[t].state /\ x.recoverable = v
      /\ x.ongoing = svc.cluster[t].ongoing /\ x.incarnation = svc.cluster[t].incarnation
      /\ x.status = svc.cluster[t].status
  BY <1>1 DEF TaskState
<1> HIDE DEF s, x
<1>9. Settled(s)
  <2>1. x.state = "ERROR" /\ ~x.recoverable => x.ongoing = {}
    BY <1>5, <1>8 DEF Settled, Steady, AllLeft
  <2>2. t \in svc.barriers[Register].calls => s.captured[t] = x.incarnation
    BY <1>7, <1>8 DEF Settled, Steady, Newest
  <2> QED
    BY <1>1, <1>4, <1>7, <1>8, <2>1, <2>2, TaskReplacesSettled
<1>10. Healthy(s)
  BY <1>7, <1>8 DEF Healthy, TaskReplaces
<1>11. MayConnect(s.cluster[t]) => s.cluster[t].state # "CONNECTED"
  BY <1>10 DEF MayConnect, Healthy
<1>12. Lawful(svc', s)
  <2>1. CASE /\ RegisterWithBarrier /\ MayConnect(s.cluster[t])
             /\ svc' = RegisterAtBarrier(s, t, inc)
    BY <1>6, <1>9, <1>10, <1>11, <2>1, RegisterAtBarrierLawful
  <2>2. CASE /\ MayRepeat(s.cluster[t], inc) \/ MayConnect(s.cluster[t])
             /\ svc' = ConnectTask(s, t, inc)
    <3>1. s.cluster[t].recoverable => t \in RecoverableTasks
      BY <1>4, <1>7, <1>8 DEF TaskReplaces
    <3> QED
      BY <1>6, <1>10, <1>11, <2>2, <3>1, ConnectTaskLawful DEF MayRepeat
  <2>3. CASE svc' = FailTasks(s, {t}, "OTHER")
    BY <1>6, <1>10, <2>3, FailTasksLawful DEF TaskCodes
  <2> QED
    BY <1>3, <2>1, <2>2, <2>3
<1>13. ASSUME NEW u \in Tasks
       PROVE  /\ s.cluster[u].state = svc.cluster[u].state
              /\ s.cluster[u].incarnation = svc.cluster[u].incarnation
  BY <1>7, <1>8 DEF TaskReplaces
<1>14. s.barriers = svc.barriers
  BY <1>7 DEF TaskReplaces
<1> QED
  BY <1>12, <1>13, <1>14, LawfulFrom

\* CheckBarrierTimeout.
LEMMA CheckBarrierTimeoutTurns ==
    ASSUME NEW X \in SUBSET BarrierIds, NEW late \in SUBSET X, Good(svc),
           CheckBarrierTimeout(X, late)
    PROVE  Turns(svc', svc)
<1> DEFINE F == X \ late
           first == EndBarriers(svc, F, "DEADLINE_EXCEEDED")
           failed == AfterFailure(first, F)
<1>1. svc' = EndBarriers(failed, late, "DEADLINE_EXCEEDED") /\ Shutdown \notin late
  BY DEF CheckBarrierTimeout, Special
<1>2. /\ GoodExcept(svc, F) /\ F \in SUBSET BarrierIds /\ late \in SUBSET BarrierIds
      /\ "DEADLINE_EXCEEDED" \in BarrierCodes \ {"OK"}
  BY GoodIsGoodExcept DEF BarrierCodes
<1>3. Good(first) /\ Turns(failed, svc)
  BY <1>2, EndBarriersGood, FailBarriersTurns
<1> HIDE DEF first, F
<1>4. Good(failed) /\ failed \in Service
  BY <1>3, AfterFailureGood DEF Good
<1> HIDE DEF failed
<1>5. Quiet(svc', failed)
  <2>1. /\ \A t \in Tasks :
             /\ svc'.cluster[t].state = failed.cluster[t].state
             /\ svc'.cluster[t].status = failed.cluster[t].status
        /\ SameTasks(svc', failed)
        /\ svc'.barriers[Shutdown] = failed.barriers[Shutdown]
    BY <1>1, <1>2, <1>4, EndBarriersNotOk
  <2> QED
    BY <2>1 DEF Quiet, SameTasks
<1> QED
  BY <1>3, <1>5, TurnsQuiet

\* CheckBarrierStatusWithRecoverableTasks.
LEMMA CheckBarrierStatusTurns ==
    ASSUME Good(svc), Settled(svc), LeaveOnRestart, CheckBarrierStatusWithRecoverableTasks
    PROVE  Turns(svc', svc)
<1> DEFINE P == ReadyBarriers
<1>1. PICK q :
         /\ GoodExcept(q, P) /\ Calmer(q, svc) /\ Quiet(q, svc)
         /\ P \in SUBSET BarrierIds
         /\ Register \in P => ~q.barriers[Register].passed /\ q.barriers[Register].named
         /\ svc' = LET ended == EndBarriers(q, P, "OK") IN
                   IF Shutdown \in P THEN DisconnectTasks(ended, NonRecoverable(svc)) ELSE ended
  BY CheckBarrierStatusForm
<1> DEFINE ended == EndBarriers(q, P, "OK")
<1>2. svc' = IF Shutdown \in P THEN DisconnectTasks(ended, NonRecoverable(svc)) ELSE ended
  BY <1>1
<1> HIDE DEF P
<1>3. Good(ended) /\ Calmer(ended, q)
  BY <1>1, EndBarriersGood, EndBarriersCalmer DEF BarrierCodes
<1>4. /\ \A t \in Tasks :
           /\ ended.cluster[t].state = q.cluster[t].state
           /\ ended.cluster[t].status = q.cluster[t].status
      /\ SameTasks(ended, q)
      /\ Shutdown \notin P => ended.barriers[Shutdown] = q.barriers[Shutdown]
      /\ Shutdown \in P => /\ ended.barriers[Shutdown].passed
                           /\ ended.barriers[Shutdown].result = "OK"
  BY <1>1, EndBarriersNotOk DEF BarrierCodes, GoodExcept
<1> HIDE DEF ended
<1>5. Settled(ended)
  BY <1>1, <1>3, CalmerSettled
<1>6. CASE Shutdown \notin P
  <2>1. Quiet(ended, q)
    BY <1>4, <1>6 DEF Quiet, SameTasks
  <2> QED
    BY <1>1, <1>2, <1>6, <2>1, QuietTurns
<1>7. CASE Shutdown \in P
  <2> DEFINE D == NonRecoverable(svc)
             r == DisconnectTasks(ended, D)
  <2>1. D \in SUBSET Tasks /\ NonRecoverable(ended) \subseteq D
    BY <1>1, <1>4 DEF NonRecoverable, SameTasks, Quiet
  <2> HIDE DEF D
  <2>2. SameTasks(r, ended) /\ ShutsDown(r, ended)
    BY <1>3, <1>4, <1>5, <1>7, <2>1, DisconnectShutsDown DEF Settled
  <2> HIDE DEF r
  <2>3. SameTasks(r, q) /\ ShutsDown(r, q)
    BY <1>4, <2>2 DEF SameTasks, ShutsDown
  <2>4. Turns(r, svc)
    BY <1>1, <2>3, QuietTurns DEF Turns
  <2> QED
    BY <1>2, <1>7, <2>4 DEF r, D
<1> QED
  BY <1>6, <1>7

\* Every step is lawful.
LEMMA NextLawful == SInv /\ Healthy(svc) /\ [Next]_vars => Lawful(svc', svc)
<1> SUFFICES ASSUME SInv, Healthy(svc), [Next]_vars PROVE Lawful(svc', svc)
  OBVIOUS
<1>1. Good(svc) /\ svc \in Service
  BY IInvGood DEF SInv, Good
<1>2. ~svc.stopped => Settled(svc)
  BY DEF SInv, Settled
<1>3. Turns(svc', svc) => Lawful(svc', svc)
  BY TurnsLawful
<1>4. Quiet(svc', svc) => Lawful(svc', svc)
  BY <1>3, QuietTurns
<1>5. svc'.cluster = svc.cluster /\ svc'.barriers = svc.barriers => Lawful(svc', svc)
  BY <1>4 DEF Quiet
<1>6. ASSUME NEW t \in Tasks, NEW inc \in Incarnations, RegisterTaskAsync(t, inc)
      PROVE  Lawful(svc', svc)
  <2>1. ~svc.stopped
    BY <1>6 DEF RegisterTaskAsync
  <2> QED
    BY <1>1, <1>2, <1>6, <2>1, RegisterTaskAsyncLawful
<1>7. ASSUME NEW E \in SUBSET Tasks, NEW code \in TaskCodes, svc' = FailTasks(svc, E, code)
      PROVE  Lawful(svc', svc)
  BY <1>1, <1>7, FailTasksLawful
<1>8. ASSUME NEW t \in Tasks, NEW b \in UserBarriers, NEW c \in Counters,
             NEW args \in BarrierArgs, BarrierAsync(t, b, c, args)
      PROVE  Lawful(svc', svc)
  <2>1. PICK before \in SUBSET Tasks :
           svc' = BarrierAsyncLocked(svc, t, b, c, args, before)
    BY <1>8 DEF BarrierAsync
  <2>2. /\ b \in BarrierIds /\ args \in SUBSET (Tasks \cup {Stranger})
        /\ b # Register /\ b # Shutdown
    BY TasksAssumption, BarriersAssumption DEF BarrierIds, Special
  <2>3. /\ StartsAfterRestart(svc, t, b, c) => svc.barriers[b].counter < MaxCounter
        /\ ~svc.stopped
    BY <1>8 DEF BarrierAsync
  <2>4. Turns(svc', svc)
    BY <1>1, <1>2, <2>1, <2>2, <2>3, BarrierAsyncLockedTurns
  <2> QED
    BY <1>3, <2>4
<1>9. ASSUME NEW t \in Tasks, svc' = DisconnectTasks(svc, {t})
      PROVE  Lawful(svc', svc)
  <2>1. {t} \in SUBSET Tasks
    OBVIOUS
  <2>2. SameTasks(svc', svc) /\ NotOk(svc', svc) /\ Contained(svc', svc, {})
    BY <1>1, <1>9, <2>1, DisconnectTasksTurns
  <2> QED
    BY <1>3, <2>2 DEF Turns
<1>10. ASSUME NEW t \in Tasks, ShutdownBarrier(t)
       PROVE  Lawful(svc', svc)
  <2>1. /\ svc' = BarrierAsyncLocked(svc, t, Shutdown, 0, shutdownArgs[t], {})
        /\ ~svc.stopped
    BY <1>10 DEF ShutdownBarrier
  <2>2. /\ Shutdown \in BarrierIds /\ 0 \in Counters /\ Shutdown # Register
        /\ ~StartsAfterRestart(svc, t, Shutdown, 0)
    BY ConfigAssumption, BarriersAssumption
       DEF BarrierIds, Special, Counters, StartsAfterRestart
  <2>3. shutdownArgs[t] \in SUBSET (Tasks \cup {Stranger})
    BY DEF SInv, IInv, TypeOK
  <2>4. Turns(svc', svc)
    BY <1>1, <1>2, <2>1, <2>2, <2>3, BarrierAsyncLockedTurns
  <2> QED
    BY <1>3, <2>4
<1>11. ASSUME NEW t \in Tasks, GracePeriodEnds(t)
       PROVE  Lawful(svc', svc)
  <2> DEFINE x == [svc.cluster[t] EXCEPT !.grace = FALSE]
             cs == [svc.cluster EXCEPT ![t] = x]
  <2>1. svc.cluster \in [Tasks -> TaskState] /\ svc.cluster[t] \in TaskState
    BY <1>1 DEF Service
  <2>2. svc' = [svc EXCEPT !.cluster = cs]
    BY <1>1, <1>11 DEF GracePeriodEnds, Service
  <2>3. \A f \in {"state", "status", "incarnation", "recoverable"} :
           x[f] = svc.cluster[t][f]
    BY <2>1 DEF TaskState
  <2> HIDE DEF x
  <2>4. \A u \in Tasks : \A f \in {"state", "status", "incarnation", "recoverable"} :
           cs[u][f] = svc.cluster[u][f]
    BY <2>1, <2>3
  <2> HIDE DEF cs
  <2>5. svc'.cluster = cs /\ svc'.barriers = svc.barriers
    BY <1>1, <2>2 DEF Service
  <2> QED
    BY <1>4, <2>4, <2>5 DEF Quiet
<1>12. ASSUME NEW X \in SUBSET BarrierIds, NEW late \in SUBSET X, CheckBarrierTimeout(X, late)
       PROVE  Lawful(svc', svc)
  BY <1>1, <1>3, <1>12, CheckBarrierTimeoutTurns
<1>13. ASSUME CheckBarrierStatusWithRecoverableTasks
       PROVE  Lawful(svc', svc)
  <2>1. ~svc.stopped /\ LeaveOnRestart
    BY <1>13 DEF CheckBarrierStatusWithRecoverableTasks, SInv
  <2> QED
    BY <1>1, <1>2, <1>3, <1>13, <2>1, CheckBarrierStatusTurns
<1>14. ASSUME NEW b \in UserBarriers, NEW c \in Counters, CancelBarrier(b, c)
       PROVE  Lawful(svc', svc)
  <2>1. b \in BarrierIds /\ GoodExcept(svc, {b})
    BY <1>1, GoodIsGoodExcept DEF BarrierIds
  <2>2. svc' = PassBarrierError(svc, b, "CANCELLED")
    BY <1>14 DEF CancelBarrier
  <2> QED
    BY <1>3, <2>1, <2>2, PassBarrierErrorTurns DEF BarrierCodes
<1>15. ASSUME Stop
       PROVE  Lawful(svc', svc)
  <2>1. /\ svc'.cluster = [t \in Tasks |-> FreshTask]
        /\ svc'.barriers = [b \in BarrierIds |-> FreshBarrier]
    BY <1>1, <1>15 DEF Stop, Service
  <2>2. \A t \in Tasks : svc'.cluster[t].state = "DISCONNECTED"
    BY <2>1 DEF FreshTask
  <2>3. ~svc'.barriers[Shutdown].passed
    BY <2>1, ShutdownIsBarrier DEF FreshBarrier
  <2> QED
    BY <2>2, <2>3 DEF Lawful, Healthy, Heard, Noticed, AllOrNothing
<1>16. ASSUME NEW t \in Tasks,
              \/ GetTasksForShutdownBarrier(t)
              \/ PollForErrorAsync(t)
              \/ \E T \in AliveArgs : GetAliveTasksAsync(t, T)
       PROVE  Lawful(svc', svc)
  <2>1. svc'.cluster = svc.cluster /\ svc'.barriers = svc.barriers
    BY <1>1, <1>16 DEF GetTasksForShutdownBarrier, PollForErrorAsync, GetAliveTasksAsync, Service
  <2> QED
    BY <1>5, <2>1
<1>17. ASSUME UNCHANGED svc
       PROVE  Lawful(svc', svc)
  BY <1>5, <1>17
<1>18. ASSUME NEW t \in Tasks, TaskCalls(t)
       PROVE  Lawful(svc', svc)
  <2>1. ASSUME NEW inc \in Incarnations, RecordHeartbeat(t, inc)
        PROVE  Lawful(svc', svc)
    BY <1>7, <2>1 DEF RecordHeartbeat, TaskCodes
  <2>2. ASSUME NEW code \in {"UNAVAILABLE", "OTHER"}, ReportTaskError(t, code)
        PROVE  Lawful(svc', svc)
    BY <1>7, <2>2 DEF ReportTaskError, TaskCodes
  <2>3. ShutdownTaskAsync(t) \/ ResetTask(t) => Lawful(svc', svc)
    BY <1>9 DEF ShutdownTaskAsync, ResetTask
  <2> QED
    BY <1>6, <1>8, <1>10, <1>16, <1>18, <2>1, <2>2, <2>3 DEF TaskCalls
<1>19. ASSUME ServiceSteps
       PROVE  Lawful(svc', svc)
  <2>1. ASSUME NEW S \in SUBSET Tasks, CheckHeartbeatTimeout(S)
        PROVE  Lawful(svc', svc)
    BY <1>7, <2>1 DEF CheckHeartbeatTimeout, TaskCodes
  <2>2. GetCountOfOutOfSyncTasksPerBarrier => Lawful(svc', svc)
    BY <1>17 DEF GetCountOfOutOfSyncTasksPerBarrier
  <2> QED
    BY <1>11, <1>12, <1>13, <1>14, <1>15, <1>19, <2>1, <2>2 DEF ServiceSteps
<1>20. UNCHANGED vars => Lawful(svc', svc)
  BY <1>17 DEF vars
<1> QED
  BY <1>18, <1>19, <1>20 DEF Next

\* A connected task never has an error status.
LEMMA AlwaysHealthy == Spec => [](SInv /\ Healthy(svc))
<1>1. Init => Healthy(svc)
  BY DEF Init, Healthy, FreshTask
<1>2. SInv /\ Healthy(svc) /\ [Next]_vars => Healthy(svc)'
  BY NextLawful DEF Lawful, Healthy
<1> QED
  BY <1>1, <1>2, AlwaysSInv, PTL DEF Spec

\* A task that is not recoverable cannot fail unheard: whichever handler sets it to error,
\* the pollers are answered in the same step or no task stays connected.
THEOREM FailuresAreHeard == Spec => ErrorsAreHeard
<1>1. SInv /\ Healthy(svc) /\ [Next]_vars =>
        [\A t \in Tasks :
           /\ svc.cluster[t].state # "ERROR" /\ svc'.cluster[t].state = "ERROR"
           /\ ~AllTasksAreRecoverable(svc', {t})
           => \/ svc'.responded /\ svc'.polls = {}
              \/ InState(svc', "CONNECTED") = {}]_vars
  BY NextLawful DEF Lawful, Heard
<1> QED
  BY <1>1, AlwaysHealthy, PTL DEF Spec, ErrorsAreHeard

\* No registration, repeated, late or concurrent with a restart, replaces a connected
\* non-recoverable task by another incarnation.
THEOREM RestartsAreNoticed == Spec => RestartIsNoticed
<1>1. SInv /\ Healthy(svc) /\ [Next]_vars =>
        [\A t \in Tasks :
           /\ svc.cluster[t].state = "CONNECTED" /\ svc'.cluster[t].state = "CONNECTED"
           /\ t \notin RecoverableTasks
           => svc'.cluster[t].incarnation = svc.cluster[t].incarnation]_vars
  BY NextLawful DEF Lawful, Noticed
<1> QED
  BY <1>1, AlwaysHealthy, PTL DEF Spec, RestartIsNoticed

\* The shutdown barrier passes with all tasks that are not recoverable disconnected, or
\* fails with all tasks in error, whatever ends it: the last call, a wrong call, a failed
\* task, the deadline or the check thread.
THEOREM ShutdownTogether == Spec => ShutdownIsAllOrNothing
<1>1. SInv /\ Healthy(svc) /\ [Next]_vars =>
        [LET x == svc.barriers[Shutdown]
             y == svc'.barriers[Shutdown]
         IN ~x.passed /\ y.passed =>
              \/ y.result = "OK" /\ NonRecoverable(svc') \subseteq InState(svc', "DISCONNECTED")
              \/ y.result # "OK" /\ InState(svc', "ERROR") = Tasks]_vars
  BY NextLawful DEF Lawful, AllOrNothing
<1> QED
  BY <1>1, AlwaysHealthy, PTL DEF Spec, ShutdownIsAllOrNothing

-----------------------------------------------------------------------------
(* The service as its agents use it (AgentBarriers): what an OK answer means. *)

\* Barrier b has passed, and nobody has spoilt it since.
Won(s, b) == s.barriers[b].passed /\ s.barriers[b].result = "OK"

\* Barrier b is in r the instance that it is in s, which may have failed or been left.
Lasts(r, s, b) ==
    LET x == s.barriers[b]
        y == r.barriers[b]
    IN /\ y.tasks = x.tasks /\ y.counter = x.counter /\ y.at \subseteq x.at
       /\ Won(r, b) => Won(s, b) /\ y.at = x.at

AllLast(r, s) == \A b \in UserBarriers : Lasts(r, s, b)

\* A task called for that instance of b; the first call after a restart names instance 0.
HasCalled(t, b, counter) ==
    \E c \in {counter} \cup IF t \in RecoverableTasks THEN {0} ELSE {} : <<t, b, c>> \in sent

\* Who is at a barrier has called for it, and everybody is at one that has passed OK.
Backed(s) ==
    \A b \in UserBarriers :
        LET x == s.barriers[b] IN
        /\ x.counter \in Int
        /\ \A t \in x.at : HasCalled(t, b, x.counter)
        /\ Won(s, b) => x.tasks = x.at /\ x.tasks # {}

\* The participants of a barrier stay the same once there are any, and its instances are
\* counted up.
Follows(r, s) ==
    \A b \in UserBarriers :
        /\ s.barriers[b].tasks # {} => r.barriers[b].tasks = s.barriers[b].tasks
        /\ s.barriers[b].counter \in Int /\ r.barriers[b].counter \in Int
        /\ s.barriers[b].counter =< r.barriers[b].counter

\* User barriers are barriers, and not special ones.
LEMMA UserIsBarrier == UserBarriers \subseteq BarrierIds /\ UserBarriers \cap Special = {}
BY BarriersAssumption DEF BarrierIds

\* Instances last through two steps if they last through each.
LEMMA AllLastTransitive ==
    ASSUME NEW q, NEW r, NEW s, AllLast(r, s), AllLast(q, r)
    PROVE  AllLast(q, s)
<1>1. ASSUME NEW b \in UserBarriers
      PROVE  Lasts(q, s, b)
  <2>1. Lasts(r, s, b) /\ Lasts(q, r, b)
    BY DEF AllLast
  <2> QED
    BY <2>1 DEF Lasts
<1> QED
  BY <1>1 DEF AllLast

\* What follows what follows.
LEMMA FollowsTransitive ==
    ASSUME NEW q, NEW r, NEW s, Follows(r, s), Follows(q, r)
    PROVE  Follows(q, s)
<1>1. ASSUME NEW b \in UserBarriers
      PROVE  /\ s.barriers[b].tasks # {} => q.barriers[b].tasks = s.barriers[b].tasks
             /\ s.barriers[b].counter \in Int /\ q.barriers[b].counter \in Int
             /\ s.barriers[b].counter =< q.barriers[b].counter
  BY DEF Follows
<1> QED
  BY <1>1 DEF Follows

\* What leaves the barriers alone lets them last.
LEMMA UntouchedLast ==
    ASSUME NEW r, NEW s, r.barriers = s.barriers
    PROVE  AllLast(r, s)
BY DEF AllLast, Lasts, Won

\* Barriers that last are as well backed as before, with the same participants.
LEMMA LastingBacked ==
    ASSUME NEW r, NEW s, AllLast(r, s), Backed(s)
    PROVE  Backed(r) /\ Follows(r, s)
<1>1. ASSUME NEW b \in UserBarriers
      PROVE  LET x == r.barriers[b] IN
             /\ x.counter \in Int /\ x.counter = s.barriers[b].counter
             /\ \A t \in x.at : HasCalled(t, b, x.counter)
             /\ Won(r, b) => x.tasks = x.at /\ x.tasks # {}
             /\ x.tasks = s.barriers[b].tasks
  <2>1. Lasts(r, s, b)
    BY DEF AllLast
  <2> QED
    BY <2>1 DEF Lasts, Backed
<1> QED
  BY <1>1 DEF Backed, Follows

\* PassBarrier keeps everything but the result and the callbacks.
LEMMA EndBarriersForm ==
    ASSUME NEW s \in Service, NEW F \in SUBSET BarrierIds, NEW result \in BarrierCodes
    PROVE  LET r == EndBarriers(s, F, result) IN
           \A b \in BarrierIds :
              /\ b \notin F => r.barriers[b] = s.barriers[b]
              /\ b \in F => r.barriers[b].result = result
              /\ \A f \in {"tasks", "counter", "at"} : r.barriers[b][f] = s.barriers[b][f]
<1> DEFINE r == EndBarriers(s, F, result)
           bs == [b \in BarrierIds |->
                    IF b \in F
                    THEN [s.barriers[b] EXCEPT !.passed = TRUE, !.result = result,
                                               !.calls = {}]
                    ELSE s.barriers[b]]
           cs == [t \in Tasks |->
                    [s.cluster[t] EXCEPT
                       !.ongoing = @ \ {b \in F : t \in s.barriers[b].tasks}]]
<1>1. \A b \in BarrierIds : s.barriers[b] \in BarrierState
  BY DEF Service
<1>2. ASSUME NEW b \in BarrierIds
      PROVE  /\ b \notin F => bs[b] = s.barriers[b]
             /\ b \in F => bs[b].result = result
             /\ \A f \in {"tasks", "counter", "at"} : bs[b][f] = s.barriers[b][f]
  BY <1>1 DEF BarrierState
<1>3. r = [s EXCEPT !.barriers = bs, !.cluster = cs, !.ongoing = s.ongoing \ F]
  BY DEF EndBarriers
<1> HIDE DEF bs, cs, r
<1>4. r.barriers = bs
  BY <1>3 DEF Service
<1> QED
  BY <1>2, <1>4 DEF r

\* Barriers that fail last: they have not passed OK.
LEMMA EndBarriersLast ==
    ASSUME NEW s \in Service, NEW F \in SUBSET BarrierIds,
           NEW result \in BarrierCodes \ {"OK"}
    PROVE  AllLast(EndBarriers(s, F, result), s)
<1> DEFINE r == EndBarriers(s, F, result)
<1>1. ASSUME NEW b \in UserBarriers
      PROVE  /\ b \notin F => r.barriers[b] = s.barriers[b]
             /\ b \in F => r.barriers[b].result # "OK"
             /\ r.barriers[b].tasks = s.barriers[b].tasks
             /\ r.barriers[b].counter = s.barriers[b].counter
             /\ r.barriers[b].at = s.barriers[b].at
  BY EndBarriersForm, UserIsBarrier
<1> HIDE DEF r
<1>2. ASSUME NEW b \in UserBarriers
      PROVE  Lasts(r, s, b)
  BY <1>1 DEF Lasts, Won
<1> QED
  BY <1>2 DEF AllLast, r

\* Recoverable tasks leave no barrier that has passed.
LEMMA LeaveRecoverableLast ==
    ASSUME NEW s, NEW R \in SUBSET Tasks, Good(s)
    PROVE  AllLast(LeaveRecoverable(s, R), s)
<1> DEFINE r == LeaveRecoverable(s, R)
           leaving(b) == {t \in R : b \in s.cluster[t].ongoing}
           y(b) == LET x == s.barriers[b] IN
                   [x EXCEPT
                      !.calls = @ \ leaving(b),
                      !.restarted = IF LeaveOnRestart THEN @ \cup (leaving(b) \cap x.tasks)
                                    ELSE @,
                      !.at = IF LeaveOnRestart THEN @ ELSE @ \ leaving(b),
                      !.pending = IF LeaveOnRestart THEN @
                                  ELSE @ + Cardinality(leaving(b) \cap x.at)]
<1>1. s \in Service
  BY DEF Good
<1>2. r = [s EXCEPT !.barriers = [b \in BarrierIds |-> y(b)]]
  BY DEF LeaveRecoverable
<1>3. r.barriers = [b \in BarrierIds |-> y(b)]
  BY <1>1, <1>2 DEF Service
<1> HIDE DEF r
<1>4. ASSUME NEW b \in UserBarriers
      PROVE  Lasts(r, s, b)
  <2>1. b \in BarrierIds /\ s.barriers[b] \in BarrierState /\ Book(s, b)
    BY UserIsBarrier DEF Good, Service
  <2>2. r.barriers[b] = y(b)
    BY <1>3, <2>1
  <2>3. s.barriers[b].passed => leaving(b) = {}
    BY <2>1 DEF Book
  <2> HIDE DEF leaving
  <2>4. /\ y(b).tasks = s.barriers[b].tasks /\ y(b).counter = s.barriers[b].counter
        /\ y(b).passed = s.barriers[b].passed /\ y(b).result = s.barriers[b].result
        /\ y(b).at = IF LeaveOnRestart THEN s.barriers[b].at ELSE s.barriers[b].at \ leaving(b)
    BY <2>1 DEF BarrierState
  <2> HIDE DEF y
  <2> QED
    BY <2>2, <2>3, <2>4 DEF Lasts, Won
<1> QED
  BY <1>4 DEF AllLast, r

\* LeaveOngoingBarriers lets the barriers last.
LEMMA LeaveOngoingBarriersLast ==
    ASSUME NEW s, NEW E \in SUBSET Tasks, Good(s)
    PROVE  AllLast(LeaveOngoingBarriers(s, E), s)
<1> DEFINE R == E \ NonRecoverable(s)
           m == LeaveRecoverable(s, R)
           F == Failing(s, E)
<1>1. F \in SUBSET BarrierIds
  BY DEF Good, Service, TaskState, Failing, NonRecoverable
<1>2. m \in Service /\ AllLast(m, s)
  BY LeaveRecoverableGood, LeaveRecoverableLast DEF Good
<1>3. LeaveOngoingBarriers(s, E) = EndBarriers(m, F, "INTERNAL")
  BY DEF LeaveOngoingBarriers
<1> HIDE DEF m, F
<1>4. AllLast(EndBarriers(m, F, "INTERNAL"), m)
  BY <1>1, <1>2, EndBarriersLast DEF BarrierCodes
<1> QED
  BY <1>2, <1>3, <1>4, AllLastTransitive

\* Setting tasks to error lets the barriers last.
LEMMA ErrorWaveLast ==
    ASSUME NEW s, NEW E \in SUBSET Tasks, NEW code \in TaskCodes, Good(s)
    PROVE  AllLast(ErrorWave(s, E, code), s)
<1> DEFINE failed == E \ InState(s, "ERROR")
           cs == [t \in Tasks |->
                    IF t \in failed
                    THEN [s.cluster[t] EXCEPT !.state = "ERROR", !.status = code]
                    ELSE s.cluster[t]]
           marked == [s EXCEPT !.cluster = cs]
           left == LeaveOngoingBarriers(marked, failed)
<1>1. s \in Service /\ \A t \in Tasks : s.cluster[t] \in TaskState
  BY DEF Good, Service
<1>2. cs \in [Tasks -> TaskState] /\ \A t \in Tasks : cs[t].ongoing = s.cluster[t].ongoing
  BY <1>1 DEF TaskState
<1>3. failed \in SUBSET Tasks
  OBVIOUS
<1>4. ErrorWave(s, E, code) = RefreshAliveness(left)
  BY DEF ErrorWave
<1> HIDE DEF cs, failed
<1>5. Good(marked) /\ marked.barriers = s.barriers
  BY <1>1, <1>2, TaskUpdateSimilar, SimilarGood DEF Similar
<1> HIDE DEF marked
<1>6. Good(left) /\ AllLast(left, marked)
  BY <1>3, <1>5, LeaveOngoingBarriersGood, LeaveOngoingBarriersLast
<1> HIDE DEF left
<1>7. RefreshAliveness(left).barriers = left.barriers
  BY <1>6, RefreshAlivenessSimilar DEF Good, Similar
<1>8. AllLast(left, s) /\ AllLast(RefreshAliveness(left), left)
  BY <1>5, <1>6, <1>7, UntouchedLast, AllLastTransitive
<1> QED
  BY <1>4, <1>8, AllLastTransitive

\* The hooks after a failed register or shutdown barrier let the others last.
LEMMA AfterFailureLast ==
    ASSUME NEW s, NEW F, Good(s)
    PROVE  AllLast(AfterFailure(s, F), s)
<1> DEFINE wave == ErrorWave(s, Tasks, "OTHER")
<1>1. Good(wave) /\ AllLast(wave, s)
  BY ErrorWaveGood, ErrorWaveLast DEF TaskCodes
<1> HIDE DEF wave
<1>2. TellShutdownError(wave).barriers = wave.barriers
  BY <1>1, SendErrorPollingResponseSimilar DEF TellShutdownError, Good, Similar
<1>3. AllLast(TellShutdownError(wave), s)
  BY <1>1, <1>2, UntouchedLast, AllLastTransitive
<1>4. AllLast(s, s)
  BY UntouchedLast
<1> QED
  BY <1>1, <1>3, <1>4 DEF AfterFailure, wave

\* So does the error path of the handlers.
LEMMA FailTasksLast ==
    ASSUME NEW s, NEW E \in SUBSET Tasks, NEW code \in TaskCodes, Good(s)
    PROVE  AllLast(FailTasks(s, E, code), s)
<1>1. ASSUME NEW r, Good(r), NEW D \in SUBSET Tasks, NEW k \in TaskCodes
      PROVE  AllLast(SetTaskError(r, D, k), r)
  <2> DEFINE wave == ErrorWave(r, D, k)
  <2>1. Good(wave) /\ AllLast(wave, r)
    BY <1>1, ErrorWaveGood, ErrorWaveLast
  <2>2. SetTaskError(r, D, k) = AfterFailure(wave, Failing(r, D \ InState(r, "ERROR")))
    BY DEF SetTaskError
  <2> HIDE DEF wave
  <2> QED
    BY <2>1, <2>2, AfterFailureLast, AllLastTransitive
<1> DEFINE m == SetTaskError(s, E, code)
<1>2. Good(m) /\ AllLast(m, s)
  BY <1>1, SetTaskErrorGood
<1>3. FailTasks(s, E, code) = PropagateError(m, E)
  BY DEF FailTasks
<1> HIDE DEF m
<1>4. AllLast(SetTaskError(m, Tasks, "OTHER"), m)
  BY <1>1, <1>2 DEF TaskCodes
<1>5. AllLast(SendErrorPollingResponse(m), m) /\ AllLast(m, m)
  BY <1>2, SendErrorPollingResponseSimilar, UntouchedLast DEF Good, Similar
<1>6. AllLast(PropagateError(m, E), m)
  BY <1>4, <1>5 DEF PropagateError
<1> QED
  BY <1>2, <1>3, <1>6, AllLastTransitive

\* Disconnecting tasks lets the barriers last.
LEMMA DisconnectTasksLast ==
    ASSUME NEW s, NEW D \in SUBSET Tasks, Good(s)
    PROVE  AllLast(DisconnectTasks(s, D), s)
<1> DEFINE gone == D \ InState(s, "DISCONNECTED")
           cs == [t \in Tasks |->
                    IF t \in gone
                    THEN [s.cluster[t] EXCEPT !.state = "DISCONNECTED",
                                              !.status = "OK", !.grace = TRUE]
                    ELSE s.cluster[t]]
           marked == [s EXCEPT !.cluster = cs]
           left == LeaveOngoingBarriers(marked, gone)
           after == AfterFailure(left, Failing(s, gone))
           r == [RefreshAliveness(after) EXCEPT !.polls = @ \ gone]
<1>1. s \in Service /\ \A t \in Tasks : s.cluster[t] \in TaskState
  BY DEF Good, Service
<1>2. cs \in [Tasks -> TaskState] /\ \A t \in Tasks : cs[t].ongoing = s.cluster[t].ongoing
  BY <1>1 DEF TaskState, TaskCodes
<1>3. gone \in SUBSET Tasks
  OBVIOUS
<1>4. DisconnectTasks(s, D) = r
  BY DEF DisconnectTasks
<1> HIDE DEF cs, gone
<1>5. Good(marked) /\ marked.barriers = s.barriers
  BY <1>1, <1>2, TaskUpdateSimilar, SimilarGood DEF Similar
<1> HIDE DEF marked
<1>6. Good(left) /\ AllLast(left, marked)
  BY <1>3, <1>5, LeaveOngoingBarriersGood, LeaveOngoingBarriersLast
<1> HIDE DEF left
<1>7. Good(after) /\ AllLast(after, left)
  BY <1>6, AfterFailureGood, AfterFailureLast
<1> HIDE DEF after
<1>8. r.barriers = after.barriers
  BY <1>7 DEF RefreshAliveness, Good, Service
<1> HIDE DEF r
<1>9. AllLast(left, s) /\ AllLast(r, after)
  BY <1>5, <1>6, <1>8, UntouchedLast, AllLastTransitive
<1>10. AllLast(after, s)
  BY <1>7, <1>9, AllLastTransitive
<1> QED
  BY <1>4, <1>9, <1>10, AllLastTransitive

\* Connecting tasks leaves the barriers alone.
LEMMA ConnectTasksLast ==
    ASSUME NEW s \in Service, NEW C
    PROVE  AllLast(ConnectTasks(s, C), s)
<1>1. ConnectTasks(s, C).barriers = s.barriers
  BY DEF ConnectTasks, Service
<1> QED
  BY <1>1, UntouchedLast

\* A barrier that fails lets all last.
LEMMA PassBarrierErrorLast ==
    ASSUME NEW s, NEW b \in BarrierIds, NEW result \in BarrierCodes \ {"OK"},
           GoodExcept(s, {b})
    PROVE  AllLast(PassBarrierError(s, b, result), s)
<1> DEFINE ended == EndBarriers(s, {b}, result)
<1>1. Good(ended) /\ AllLast(ended, s)
  BY EndBarriersGood, EndBarriersLast DEF GoodExcept
<1>2. PassBarrierError(s, b, result) = AfterFailure(ended, {b})
  BY DEF PassBarrierError
<1> HIDE DEF ended
<1> QED
  BY <1>1, <1>2, AfterFailureLast, AllLastTransitive

\* A barrier that passes OK with everybody at it is backed.
LEMMA PassBarrierOkBacked ==
    ASSUME NEW s, NEW b \in BarrierIds, GoodExcept(s, {b}), Backed(s),
           s.barriers[b].tasks = s.barriers[b].at, s.barriers[b].tasks # {}
    PROVE  LET r == PassBarrierOk(s, b) IN Backed(r) /\ Follows(r, s)
<1> DEFINE ended == EndBarriers(s, {b}, "OK")
           r == PassBarrierOk(s, b)
<1>1. Good(ended)
  BY EndBarriersGood DEF BarrierCodes
<1>2. ASSUME NEW d \in UserBarriers
      PROVE  /\ d # b => ended.barriers[d] = s.barriers[d]
             /\ ended.barriers[d].tasks = s.barriers[d].tasks
             /\ ended.barriers[d].counter = s.barriers[d].counter
             /\ ended.barriers[d].at = s.barriers[d].at
  BY EndBarriersForm, UserIsBarrier DEF GoodExcept, BarrierCodes
<1> HIDE DEF ended
<1>3. ASSUME NEW d \in UserBarriers
      PROVE  LET x == ended.barriers[d] IN
             /\ x.counter \in Int
             /\ \A t \in x.at : HasCalled(t, d, x.counter)
             /\ Won(ended, d) => x.tasks = x.at /\ x.tasks # {}
  <2>1. /\ s.barriers[d].counter \in Int
        /\ \A t \in s.barriers[d].at : HasCalled(t, d, s.barriers[d].counter)
    BY DEF Backed
  <2>2. CASE d = b
    BY <1>2, <2>1, <2>2
  <2>3. CASE d # b
    BY <1>2, <2>1, <2>3 DEF Backed, Won
  <2> QED
    BY <2>2, <2>3
<1>4. Backed(ended) /\ Follows(ended, s)
  BY <1>2, <1>3 DEF Backed, Follows
<1>5. NonRecoverable(s) \in SUBSET Tasks /\ ended \in Service
  BY <1>1 DEF NonRecoverable, Good
<1>6. /\ AllLast(ConnectAfterBarrierPasses(ended, s.barriers[b].calls), ended)
      /\ AllLast(DisconnectTasks(ended, NonRecoverable(s)), ended)
      /\ AllLast(ended, ended)
  BY <1>1, <1>5, ConnectTasksLast, DisconnectTasksLast, UntouchedLast
     DEF ConnectAfterBarrierPasses
<1>7. AllLast(r, ended)
  BY <1>6 DEF PassBarrierOk, ended
<1> HIDE DEF r
<1>8. Backed(r) /\ Follows(r, ended)
  BY <1>4, <1>7, LastingBacked
<1>9. Follows(r, s)
  BY <1>4, <1>8 DEF Follows
<1> QED
  BY <1>8, <1>9 DEF r

\* Replacing a barrier that has not passed by one with the same participants, who have
\* called for it, keeps the barriers backed.
LEMMA ReplacesBacked ==
    ASSUME NEW s, NEW r, NEW b \in BarrierIds, NEW y, Replaces(r, s, b, y), Backed(s),
           b \in UserBarriers => /\ \A u \in y.at : HasCalled(u, b, y.counter)
                                 /\ ~y.passed
                                 /\ y.counter \in Int /\ s.barriers[b].counter =< y.counter
                                 /\ s.barriers[b].tasks # {} => y.tasks = s.barriers[b].tasks
    PROVE  Backed(r) /\ Follows(r, s)
<1>1. r.barriers[b] = y /\ \A d \in UserBarriers \ {b} : r.barriers[d] = s.barriers[d]
  BY UserIsBarrier DEF Replaces
<1>2. ASSUME NEW d \in UserBarriers
      PROVE  LET x == r.barriers[d] IN
             /\ x.counter \in Int /\ s.barriers[d].counter \in Int
             /\ s.barriers[d].counter =< x.counter
             /\ \A u \in x.at : HasCalled(u, d, x.counter)
             /\ Won(r, d) => x.tasks = x.at /\ x.tasks # {}
             /\ s.barriers[d].tasks # {} => x.tasks = s.barriers[d].tasks
  <2>1. CASE d = b
    BY <1>1, <2>1 DEF Backed, Won
  <2>2. CASE d # b
    BY <1>1, <2>2 DEF Backed, Won
  <2> QED
    BY <2>1, <2>2
<1> QED
  BY <1>2 DEF Backed, Follows

\* A participant that has called arrives: when it is the last, everybody is there.
LEMMA ReachBarrierBacked ==
    ASSUME NEW s, NEW t \in Tasks, NEW b \in BarrierIds, Good(s), Backed(s),
           b \in s.ongoing, t \in s.barriers[b].tasks,
           b \in UserBarriers => HasCalled(t, b, s.barriers[b].counter)
    PROVE  LET r == ReachBarrier(AddBarrierCallback(s, t, b), t, b)
           IN Backed(r) /\ Follows(r, s)
<1> DEFINE r == AddBarrierCallback(s, t, b)
           x == s.barriers[b]
           y == [x EXCEPT !.calls = @ \cup {t}]
           at == y.at \cup {t}
           pd == y.pending - 1
           z == [y EXCEPT !.at = at, !.pending = pd]
           bs == [r.barriers EXCEPT ![b] = z]
           arrived == [r EXCEPT !.barriers = bs]
           us == r.unsynced \ y.tasks
           synced == [arrived EXCEPT !.unsynced = us]
<1>1. s \in Service /\ x \in BarrierState /\ Book(s, b)
  BY DEF Good, Service
<1>2. Replaces(r, s, b, y)
  BY <1>1, AddBarrierCallbackReplaces
<1>3. /\ y \in BarrierState
      /\ y.named = x.named /\ y.counter = x.counter
      /\ y.passed = x.passed /\ y.result = x.result /\ y.tasks = x.tasks
      /\ y.at = x.at /\ y.pending = x.pending
  BY <1>1 DEF BarrierState
<1>4. r \in Service /\ r.barriers \in [BarrierIds -> BarrierState] /\ r.barriers[b] = y
  BY <1>2 DEF Replaces, Service
<1>5. ReachBarrier(r, t, b) = IF t \in y.at THEN r
                              ELSE IF y.pending # 1 THEN arrived
                              ELSE PassBarrierOk(synced, b)
  BY <1>4 DEF ReachBarrier, Service, BarrierState
<1> HIDE DEF y
<1>6. at \in SUBSET Tasks /\ pd \in Int /\ us \in SUBSET Tasks
  BY <1>3, <1>4 DEF BarrierState, Service
<1>7. at = x.at \cup {t}
  BY <1>3
<1> HIDE DEF at, pd, us
<1>8. /\ z \in BarrierState /\ z.at = at
      /\ z.named = x.named /\ z.counter = x.counter /\ z.passed = x.passed
      /\ z.tasks = x.tasks
  BY <1>3, <1>6 DEF BarrierState
<1> HIDE DEF z
<1>9. /\ bs \in [BarrierIds -> BarrierState] /\ bs[b] = z
      /\ \A c \in BarrierIds \ {b} : bs[c] = r.barriers[c]
  BY <1>4, <1>8
<1> HIDE DEF bs, r
<1>10. Replaces(arrived, r, b, z)
  BY <1>4, <1>9 DEF Replaces, Service
<1>11. Replaces(arrived, s, b, z)
  BY <1>2, <1>10 DEF Replaces
<1>12. /\ synced \in Service /\ synced.barriers = arrived.barriers
       /\ synced.ongoing = arrived.ongoing /\ synced.cluster = arrived.cluster
  BY <1>6, <1>10 DEF Replaces, Service
<1> HIDE DEF arrived, synced
<1>13. x.named /\ ~x.passed
  BY <1>1 DEF Book
<1>14. b \in UserBarriers => /\ \A u \in x.at \cup {t} : HasCalled(u, b, x.counter)
                             /\ x.counter \in Int /\ x.counter =< x.counter
  BY DEF Backed
<1>15. Backed(r) /\ Follows(r, s)
  BY <1>2, <1>3, <1>13, <1>14, ReplacesBacked
<1>16. Backed(arrived) /\ Follows(arrived, s)
  BY <1>7, <1>8, <1>11, <1>13, <1>14, ReplacesBacked
<1>17. CASE t \in y.at \/ y.pending # 1
  BY <1>5, <1>15, <1>16, <1>17 DEF r
<1>18. CASE t \notin y.at /\ y.pending = 1
  <2>1. x.tasks \ (x.at \cup {t}) = {}
    <3>1. /\ x.at \in SUBSET x.tasks /\ x.tasks \in SUBSET Tasks /\ t \in x.tasks \ x.at
          /\ Cardinality(x.tasks \ x.at) = 1
      BY <1>1, <1>3, <1>18 DEF Book, BarrierState
    <3> DEFINE A == x.tasks \ (x.at \cup {t})
    <3>2. Cardinality(A) = 0
      BY <3>1, ArrivalCount
    <3>3. IsFiniteSet(A)
      BY <3>1, TasksAssumption, FS_Subset
    <3> HIDE DEF A
    <3>4. A = {}
      BY <3>2, <3>3, FS_EmptySet
    <3> QED
      BY <3>4 DEF A
  <2>2. z.tasks = z.at /\ z.tasks # {}
    BY <1>1, <1>7, <1>8, <2>1 DEF Book
  <2>3. Frame(arrived, b)
    <3>1. arrived.cluster = s.cluster /\ arrived.barriers[b] = z
      BY <1>11 DEF Replaces
    <3> QED
      BY <1>1, <1>8, <1>13, <2>2, <3>1 DEF Book, Frame
  <2>4. GoodExcept(arrived, {b})
    BY <1>11, <2>3, ReplacesGood
  <2>5. Similar(synced, arrived)
    BY <1>12 DEF Similar
  <2>6. GoodExcept(synced, {b})
    BY <2>4, <2>5, SimilarGood
  <2>7. Backed(synced) /\ Follows(synced, s)
    BY <1>12, <1>16 DEF Backed, Follows, Won
  <2>8. synced.barriers[b] = z
    BY <1>11, <1>12 DEF Replaces
  <2> DEFINE q == PassBarrierOk(synced, b)
  <2>9. Backed(q) /\ Follows(q, synced)
    BY <2>2, <2>6, <2>7, <2>8, PassBarrierOkBacked
  <2>10. ReachBarrier(r, t, b) = q
    BY <1>5, <1>18
  <2> HIDE DEF q
  <2>11. Follows(q, s)
    BY <2>7, <2>9 DEF Follows
  <2> QED
    BY <2>9, <2>10, <2>11 DEF r
<1> QED
  BY <1>17, <1>18

\* A new instance has nobody at it, and the participants of the one before.
LEMMA InitializeBarrierBacked ==
    ASSUME NEW s, NEW b \in BarrierIds, NEW counter \in Counters,
           NEW args \in SUBSET (Tasks \cup {Stranger}), NEW before \in SUBSET Tasks,
           Tasks # {}, Good(s), Backed(s), b \notin s.ongoing,
           s.barriers[b].counter =< counter
    PROVE  LET r == InitializeBarrier(s, b, counter, args, before) IN
           /\ Backed(r) /\ Follows(r, s)
           /\ b \in UserBarriers => r.barriers[b].counter = counter
<1> DEFINE members == InitializeTasksAtBarrier(s.barriers[b], args, before)
           unknown == s.barriers[b].tasks = {} /\ Stranger \in args
           broken == members \cap NonRecoverable(s) \cap InState(s, "ERROR")
           r == InitializeBarrier(s, b, counter, args, before)
<1>1. PICK fresh :
         /\ IsFresh(fresh, s, b, counter, members)
         /\ \/ unknown /\ r = PassBarrierError(fresh, b, "INVALID_ARGUMENT")
            \/ broken # {} /\ r = PassBarrierError(fresh, b, "INTERNAL")
            \/ /\ broken = {} /\ members # {}
               /\ fresh.barriers[b].pending = Cardinality(members)
               /\ HasBegun(r, fresh, s, b, members)
  BY InitializeBarrierForm, Zenon
<1>2. s.barriers[b].tasks # {} => members = s.barriers[b].tasks
  BY DEF InitializeTasksAtBarrier
<1> HIDE DEF members, unknown, broken, r
<1> DEFINE z == fresh.barriers[b]
<1>3. /\ GoodExcept(fresh, {b}) /\ Replaces(fresh, s, b, z)
      /\ ~z.passed /\ z.at = {} /\ z.tasks = members /\ z.counter = counter
  BY <1>1 DEF IsFresh
<1> HIDE DEF z
<1>4. Backed(fresh) /\ Follows(fresh, s)
  BY <1>2, <1>3, ConfigAssumption, ReplacesBacked DEF Counters
<1>5. AllLast(r, fresh)
  <2>1. /\ AllLast(PassBarrierError(fresh, b, "INVALID_ARGUMENT"), fresh)
        /\ AllLast(PassBarrierError(fresh, b, "INTERNAL"), fresh)
    BY <1>3, PassBarrierErrorLast DEF BarrierCodes
  <2>2. HasBegun(r, fresh, s, b, members) => AllLast(r, fresh)
    BY UntouchedLast DEF HasBegun
  <2> QED
    BY <1>1, <2>1, <2>2
<1>6. Backed(r) /\ Follows(r, fresh)
  BY <1>4, <1>5, LastingBacked
<1>7. Follows(r, s)
  BY <1>4, <1>6 DEF Follows
<1>8. b \in UserBarriers => r.barriers[b].counter = counter
  BY <1>3, <1>5 DEF AllLast, Lasts, z
<1> QED
  BY <1>6, <1>7, <1>8 DEF r

\* A call to a barrier that is set up keeps the barriers backed.
LEMMA JoinBarrierBacked ==
    ASSUME NEW s, NEW t \in Tasks, NEW b \in BarrierIds, NEW counter, NEW args,
           NEW isNew, Good(s), Backed(s),
           /\ b \in UserBarriers
           /\ isNew \/ counter = s.barriers[b].counter \/ (t \in RecoverableTasks /\ counter = 0)
           => HasCalled(t, b, s.barriers[b].counter)
    PROVE  LET r == JoinBarrier(s, t, b, counter, args, isNew)
           IN Backed(r) /\ Follows(r, s)
<1> DEFINE called == AddBarrierCallback(s, t, b)
           x == called.barriers[b]
           mismatch == ~isNew /\ counter # x.counter /\ ~(t \in RecoverableTasks /\ counter = 0)
           valid == ValidateTaskArgs(x, t, args)
           reached == ReachBarrier(called, t, b)
           r == JoinBarrier(s, t, b, counter, args, isNew)
<1>1. s \in Service /\ s.barriers[b] \in BarrierState /\ Book(s, b)
  BY DEF Good, Service
<1>2. Replaces(called, s, b, [s.barriers[b] EXCEPT !.calls = @ \cup {t}])
  BY <1>1, AddBarrierCallbackReplaces
<1>3. GoodExcept(called, {b})
  BY AddBarrierCallbackGood
<1>4. \A f \in {"named", "passed", "tasks", "counter", "at", "result"} : x[f] = s.barriers[b][f]
  BY <1>1, <1>2 DEF Replaces, BarrierState
<1>5. r = CASE mismatch -> PassBarrierError(called, b, "INTERNAL")
            [] ~mismatch /\ ~valid -> PassBarrierError(called, b, "INVALID_ARGUMENT")
            [] ~mismatch /\ valid /\ x.passed -> RepeatBarrierResult(s, t, b)
            [] OTHER -> reached
  BY DEF JoinBarrier
<1>6. ~mismatch /\ valid /\ ~x.passed => Backed(reached) /\ Follows(reached, s)
  <2>1. valid => t \in x.tasks
    BY DEF ValidateTaskArgs
  <2> HIDE DEF valid
  <2>2. valid /\ ~x.passed => t \in s.barriers[b].tasks /\ b \in s.ongoing
    BY <1>1, <1>4, <2>1 DEF Book
  <2>3. ~mismatch /\ b \in UserBarriers => HasCalled(t, b, s.barriers[b].counter)
    BY <1>4
  <2> HIDE DEF mismatch
  <2> QED
    BY <2>2, <2>3, ReachBarrierBacked
<1>7. AllLast(called, s)
  <2>1. ASSUME NEW d \in UserBarriers
        PROVE  Lasts(called, s, d)
    <3>1. CASE d = b
      BY <1>4, <3>1 DEF Lasts, Won
    <3>2. CASE d # b
      <4>1. called.barriers[d] = s.barriers[d]
        BY <1>2, <3>2, UserIsBarrier DEF Replaces
      <4> QED
        BY <4>1 DEF Lasts, Won
    <3> QED
      BY <3>1, <3>2
  <2> QED
    BY <2>1 DEF AllLast
<1> HIDE DEF called, x, mismatch, valid, reached
<1>8. /\ AllLast(PassBarrierError(called, b, "INTERNAL"), s)
      /\ AllLast(PassBarrierError(called, b, "INVALID_ARGUMENT"), s)
  BY <1>3, <1>7, PassBarrierErrorLast, AllLastTransitive DEF BarrierCodes
<1>9. AllLast(RepeatBarrierResult(s, t, b), s)
  <2>1. /\ AllLast(DisconnectTasks(s, {t}), s)
        /\ AllLast(ConnectAfterBarrierPasses(s, {t}), s)
        /\ AllLast(s, s)
    BY <1>1, DisconnectTasksLast, ConnectTasksLast, UntouchedLast
       DEF ConnectAfterBarrierPasses
  <2> QED
    BY <2>1 DEF RepeatBarrierResult
<1> HIDE DEF r
<1>10. AllLast(r, s) \/ (~mismatch /\ valid /\ ~x.passed /\ r = reached)
  BY <1>5, <1>8, <1>9
<1>11. Backed(r) /\ Follows(r, s)
  BY <1>6, <1>10, LastingBacked
<1> QED
  BY <1>11 DEF r

\* BarrierAsyncLocked keeps the barriers backed when its caller has called.
LEMMA BarrierAsyncLockedBacked ==
    ASSUME NEW s, NEW t \in Tasks, NEW b \in BarrierIds, NEW counter \in Counters,
           NEW args \in SUBSET (Tasks \cup {Stranger}), NEW before \in SUBSET Tasks,
           Good(s), Backed(s),
           StartsAfterRestart(s, t, b, counter) => s.barriers[b].counter < MaxCounter,
           b \in UserBarriers => <<t, b, counter>> \in sent
    PROVE  LET r == BarrierAsyncLocked(s, t, b, counter, args, before)
           IN Backed(r) /\ Follows(r, s)
<1> DEFINE c == IF StartsAfterRestart(s, t, b, counter) THEN s.barriers[b].counter + 1
                ELSE counter
           new == InitializeBarrier(s, b, c, args, before)
           joined == JoinBarrier(s, t, b, counter, args, FALSE)
           began == JoinBarrier(new, t, b, c, args, TRUE)
           r == BarrierAsyncLocked(s, t, b, counter, args, before)
<1>1. s.barriers[b] \in BarrierState /\ Book(s, b)
  BY DEF Good, Service
<1>2. c \in Counters
  BY <1>1, ConfigAssumption DEF BarrierState, Counters
<1>3. ShouldInitialize(s, t, b, counter) =>
        b \notin s.ongoing /\ s.barriers[b].counter =< c
  BY <1>1 DEF ShouldInitialize, BarrierIsUninitialized, StartsAfterRestart, Book, BarrierState,
              Counters
<1>4. b \in UserBarriers => HasCalled(t, b, c)
  BY DEF HasCalled, StartsAfterRestart
<1>5. /\ b \in UserBarriers
      /\ counter = s.barriers[b].counter \/ (t \in RecoverableTasks /\ counter = 0)
      => HasCalled(t, b, s.barriers[b].counter)
  BY DEF HasCalled
<1>6. Backed(joined) /\ Follows(joined, s)
  BY <1>5, JoinBarrierBacked
<1> HIDE DEF c, joined
<1>7. ASSUME ShouldInitialize(s, t, b, counter)
      PROVE  /\ Good(new) /\ Backed(new) /\ Follows(new, s)
             /\ b \in UserBarriers => new.barriers[b].counter = c
  BY <1>2, <1>3, <1>7, InitializeBarrierGood, InitializeBarrierBacked
<1> HIDE DEF new
<1>8. ASSUME ShouldInitialize(s, t, b, counter)
      PROVE  Backed(began) /\ Follows(began, s)
  <2>1. Backed(began) /\ Follows(began, new)
    BY <1>4, <1>7, <1>8, JoinBarrierBacked
  <2> QED
    BY <1>7, <1>8, <2>1, FollowsTransitive
<1> HIDE DEF began
<1>9. r = IF ~ShouldInitialize(s, t, b, counter) THEN joined
          ELSE IF new.barriers[b].passed THEN new ELSE began
  BY DEF BarrierAsyncLocked, c, new, joined, began
<1> HIDE DEF r
<1>10. Backed(r) /\ Follows(r, s)
  BY <1>6, <1>7, <1>8, <1>9
<1> QED
  BY <1>10 DEF r

\* RegisterTaskAsync keeps the barriers backed.
LEMMA RegisterTaskAsyncBacked ==
    ASSUME NEW t \in Tasks, NEW inc \in Incarnations \cup {0}, Good(svc), Backed(svc),
           RegisterTaskAsync(t, inc)
    PROVE  Backed(svc') /\ Follows(svc', svc)
<1> DEFINE v == t \in RecoverableTasks
           s == [svc EXCEPT !.cluster[t].recoverable = v]
           renamed == [s EXCEPT !.cluster[t].incarnation = inc]
<1>1. Good(s) /\ s.barriers = svc.barriers
  <2>1. v \in BOOLEAN /\ svc \in Service
    BY DEF Good
  <2> HIDE DEF v
  <2>2. Similar(s, svc)
    BY <2>1, TaskFieldSimilar
  <2> HIDE DEF s
  <2> QED
    BY <2>2, SimilarGood DEF Similar
<1>2. \/ svc' = RegisterAtBarrier(s, t, inc)
      \/ svc' = ConnectTask(s, t, inc)
      \/ svc' = FailTasks(s, {t}, "OTHER")
  BY DEF RegisterTaskAsync
<1> HIDE DEF s
<1>3. Backed(s) /\ Follows(s, svc)
  BY <1>1, UntouchedLast, LastingBacked
<1>4. Good(renamed) /\ renamed.barriers = s.barriers
  <2>1. Similar(renamed, s)
    BY <1>1, TaskFieldSimilar DEF Good
  <2> HIDE DEF renamed
  <2> QED
    BY <1>1, <2>1, SimilarGood DEF Similar
<1>5. ASSUME svc' = RegisterAtBarrier(s, t, inc)
      PROVE  Backed(svc') /\ Follows(svc', s)
  <2> DEFINE isLate == s.cluster[t].recoverable /\ LeaveOnRestart /\ s.barriers[Register].passed
             us == IF isLate THEN s.unsynced \cup {t} ELSE s.unsynced
             cp == [s.captured EXCEPT ![t] = inc]
             r == [renamed EXCEPT !.captured = cp, !.unsynced = us]
             q == BarrierAsyncLocked(r, t, Register, 0, {}, {})
  <2>1. renamed.captured = s.captured /\ renamed.unsynced = s.unsynced
    BY <1>1 DEF Good, Service
  <2>2. cp \in [Tasks -> Incarnations \cup {0}] /\ us \in SUBSET Tasks
    BY <1>1 DEF Good, Service
  <2>3. RegisterAtBarrier(s, t, inc) = q
    BY <1>1, <2>1 DEF RegisterAtBarrier, Good, Service
  <2> HIDE DEF renamed, us, cp
  <2>4. Similar(r, renamed)
    BY <1>4, <2>2 DEF Similar, Good, Service
  <2> HIDE DEF r
  <2>5. Good(r) /\ r.barriers = s.barriers
    BY <1>4, <2>4, SimilarGood DEF Similar
  <2>6. Backed(r) /\ Follows(r, s)
    BY <1>3, <2>5, UntouchedLast, LastingBacked
  <2>7. /\ Register \in BarrierIds /\ Register \notin UserBarriers
        /\ 0 \in Counters /\ ~StartsAfterRestart(r, t, Register, 0)
    BY ConfigAssumption, UserIsBarrier DEF BarrierIds, Special, Counters, StartsAfterRestart
  <2>8. Backed(q) /\ Follows(q, r)
    BY <2>5, <2>6, <2>7, BarrierAsyncLockedBacked
  <2> QED
    BY <1>5, <2>3, <2>6, <2>8 DEF Follows
<1>6. ASSUME svc' = ConnectTask(s, t, inc)
      PROVE  Backed(svc') /\ Follows(svc', s)
  <2> DEFINE connected == ConnectTasks(renamed, {t})
             left == LeaveRecoverable(connected, {t})
             us == IF LeaveOnRestart THEN left.unsynced \cup {t} ELSE left.unsynced
  <2>1. ConnectTask(s, t, inc) = IF ~s.cluster[t].recoverable THEN connected
                                 ELSE [left EXCEPT !.unsynced = us]
    BY DEF ConnectTask
  <2> HIDE DEF renamed
  <2>2. Good(connected) /\ AllLast(connected, renamed)
    BY <1>4, ConnectTasksGood, ConnectTasksLast DEF Good
  <2> HIDE DEF connected
  <2>3. Good(left) /\ AllLast(left, connected)
    BY <2>2, LeaveRecoverableGood, LeaveRecoverableLast
  <2> HIDE DEF left
  <2>4. [left EXCEPT !.unsynced = us].barriers = left.barriers
    BY <2>3 DEF Good, Service
  <2>5. AllLast([left EXCEPT !.unsynced = us], left) /\ AllLast(renamed, s)
    BY <1>4, <2>4, UntouchedLast
  <2>6. AllLast(connected, s)
    BY <2>2, <2>5, AllLastTransitive
  <2>7. AllLast(left, s)
    BY <2>3, <2>6, AllLastTransitive
  <2>8. AllLast([left EXCEPT !.unsynced = us], s)
    BY <2>5, <2>7, AllLastTransitive
  <2>9. AllLast(svc', s)
    BY <1>6, <2>1, <2>6, <2>8
  <2> QED
    BY <1>3, <2>9, LastingBacked
<1>7. ASSUME svc' = FailTasks(s, {t}, "OTHER")
      PROVE  Backed(svc') /\ Follows(svc', s)
  BY <1>1, <1>3, <1>7, FailTasksLast, LastingBacked DEF TaskCodes
<1> QED
  BY <1>2, <1>3, <1>5, <1>6, <1>7 DEF Follows

\* The steps of the service that no request asks for keep the barriers backed.
LEMMA ServiceBacked ==
    ASSUME Good(svc), Backed(svc),
           \/ \E X \in SUBSET UserBarriers : CheckBarrierTimeout(X, {})
           \/ \E S \in SUBSET Tasks : CheckHeartbeatTimeout(S)
           \/ \E t \in Tasks, inc \in Incarnations \cup {0} : RegisterTaskAsync(t, inc)
           \/ \E b \in UserBarriers, k \in Counters : CancelBarrier(b, k)
           \/ \E t \in Tasks : ShutdownTaskAsync(t)
    PROVE  Good(svc') /\ Backed(svc') /\ Follows(svc', svc)
<1>1. ASSUME NEW X \in SUBSET UserBarriers, CheckBarrierTimeout(X, {})
      PROVE  Good(svc') /\ AllLast(svc', svc)
  <2> DEFINE first == EndBarriers(svc, X \ {}, "DEADLINE_EXCEEDED")
             failed == AfterFailure(first, X \ {})
  <2>1. svc' = EndBarriers(failed, {}, "DEADLINE_EXCEEDED")
    BY <1>1 DEF CheckBarrierTimeout
  <2>2. X \ {} \in SUBSET BarrierIds /\ X \in SUBSET BarrierIds /\ svc \in Service
    BY UserIsBarrier DEF Good
  <2>3. Good(first) /\ AllLast(first, svc)
    BY <2>2, GoodIsGoodExcept, EndBarriersGood, EndBarriersLast DEF BarrierCodes
  <2> HIDE DEF first
  <2>4. Good(failed) /\ AllLast(failed, first)
    BY <2>3, AfterFailureGood, AfterFailureLast
  <2> HIDE DEF failed
  <2>5. AllLast(EndBarriers(failed, {}, "DEADLINE_EXCEEDED"), failed)
    BY <2>4, EndBarriersLast DEF BarrierCodes, Good
  <2>6. AllLast(failed, svc)
    BY <2>3, <2>4, AllLastTransitive
  <2>7. Good(svc')
    BY <1>1, <2>2, CheckBarrierTimeoutGood
  <2> QED
    BY <2>1, <2>5, <2>6, <2>7, AllLastTransitive
<1>2. ASSUME NEW S \in SUBSET Tasks, CheckHeartbeatTimeout(S)
      PROVE  Good(svc') /\ AllLast(svc', svc)
  BY <1>2, FailTasksGood, FailTasksLast DEF CheckHeartbeatTimeout, TaskCodes
<1>3. ASSUME NEW b \in UserBarriers, NEW k \in Counters, CancelBarrier(b, k)
      PROVE  Good(svc') /\ AllLast(svc', svc)
  <2>1. svc' = PassBarrierError(svc, b, "CANCELLED") /\ b \in BarrierIds
    BY <1>3, UserIsBarrier DEF CancelBarrier
  <2> QED
    BY <2>1, GoodIsGoodExcept, PassBarrierErrorGood, PassBarrierErrorLast DEF BarrierCodes
<1>4. ASSUME NEW t \in Tasks, NEW inc \in Incarnations \cup {0}, RegisterTaskAsync(t, inc)
      PROVE  Good(svc') /\ Backed(svc') /\ Follows(svc', svc)
  BY <1>4, RegisterTaskAsyncGood, RegisterTaskAsyncBacked
<1>5. ASSUME NEW t \in Tasks, ShutdownTaskAsync(t)
      PROVE  Good(svc') /\ AllLast(svc', svc)
  BY <1>5, DisconnectTasksGood, DisconnectTasksLast DEF ShutdownTaskAsync
<1> QED
  BY <1>1, <1>2, <1>3, <1>4, <1>5, LastingBacked

\* What the table of the agents holds.
AgentState ==
    [ongoing : SUBSET UserBarriers, counter : [UserBarriers -> Int],
     call : [UserBarriers -> Nat], cancelled : BOOLEAN]

\* A call in the network, or the answer to one, is a call that was made: its number is
\* not that of a later call.
Numbered ==
    /\ made \in [Tasks -> Nat]
    /\ agent \in [Tasks -> AgentState]
    /\ holder \in [Tasks -> [UserBarriers -> Nat]]
    /\ \A t \in Tasks, b \in UserBarriers : holder[t][b] =< made[t]
    /\ \A r \in requests :
          r.task \in Tasks /\ r.barrier \in UserBarriers /\ r.call \in 1..made[r.task]
    /\ \A m \in answers : /\ m.task \in Tasks /\ m.barrier \in UserBarriers
                          /\ m.call \in 1..made[m.task] /\ m.counter \in Int

\* Requests are of calls that were made, and an OK answer is backed by calls of all.
Answering ==
    /\ Good(svc) /\ Backed(svc)
    /\ \A r \in requests :
          r.counter \in Counters /\ <<r.task, r.barrier, r.counter>> \in sent
    /\ \A m \in cancels : m.barrier \in UserBarriers /\ m.counter \in Counters
    /\ \A m \in answers : m.code = "OK" =>
          /\ svc.barriers[m.barrier].tasks # {}
          /\ \A t \in svc.barriers[m.barrier].tasks : HasCalled(t, m.barrier, m.counter)

\* Wherever the call in flight of t at b is, it is about a later instance than the last
\* one the agent knows to have ended.
Ahead(t, b) ==
    LET call == agent[t].call[b]
        last == agent[t].counter[b]
    IN call # 0 =>
         /\ \A r \in requests : r.task = t /\ r.barrier = b /\ r.call = call => last < r.counter
         /\ holder[t][b] = call => last < svc.barriers[b].counter
         /\ \A m \in answers :
               m.task = t /\ m.barrier = b /\ m.call = call /\ m.code = "OK" => last < m.counter

AllAhead == \A t \in Tasks : \A b \in agent[t].ongoing : Ahead(t, b)

\* A step of the service: a handler of a request, of the check thread or of a process
\* that starts or ends.
Handler ==
    \/ \E r \in requests : HandleBarrier(r)
    \/ \E m \in cancels : HandleCancel(m)
    \/ ServiceStep
    \/ \E t \in Tasks : Restart(t) \/ ShutdownInternal(t)

\* Every handler keeps the barriers backed.
LEMMA HandlerBacked ==
    ASSUME Numbered, Answering, Handler
    PROVE  Good(svc') /\ Backed(svc') /\ Follows(svc', svc)
<1>1. Good(svc) /\ Backed(svc)
  BY DEF Answering
<1>2. Follows(svc, svc)
  BY <1>1 DEF Backed, Follows
<1>3. \A t \in Tasks : svc.cluster[t].incarnation \in Incarnations \cup {0}
  BY <1>1 DEF Good, Service, TaskState
<1>4. ASSUME NEW r \in requests, HandleBarrier(r)
      PROVE  Good(svc') /\ Backed(svc') /\ Follows(svc', svc)
  <2>1. PICK args \in BarrierArgs : BarrierAsync(r.task, r.barrier, r.counter, args)
    BY <1>4 DEF HandleBarrier
  <2>2. /\ r.task \in Tasks /\ r.barrier \in UserBarriers /\ r.counter \in Counters
        /\ <<r.task, r.barrier, r.counter>> \in sent
    BY DEF Numbered, Answering
  <2>3. Good(svc')
    BY <1>1, <2>1, <2>2, BarrierAsyncGood
  <2>4. PICK before \in SUBSET Tasks :
           svc' = BarrierAsyncLocked(svc, r.task, r.barrier, r.counter, args, before)
    BY <2>1 DEF BarrierAsync
  <2>5. /\ r.barrier \in BarrierIds /\ args \in SUBSET (Tasks \cup {Stranger})
        /\ StartsAfterRestart(svc, r.task, r.barrier, r.counter) =>
              svc.barriers[r.barrier].counter < MaxCounter
    BY <2>1, <2>2, TasksAssumption, UserIsBarrier DEF BarrierAsync
  <2> QED
    BY <1>1, <2>2, <2>3, <2>4, <2>5, BarrierAsyncLockedBacked
<1>5. ASSUME NEW m \in cancels, HandleCancel(m)
      PROVE  Good(svc') /\ Backed(svc') /\ Follows(svc', svc)
  <2>1. CancelBarrier(m.barrier, m.counter) \/ UNCHANGED svc
    BY <1>5 DEF HandleCancel, vars
  <2>2. m.barrier \in UserBarriers /\ m.counter \in Counters
    BY DEF Answering
  <2>3. CASE CancelBarrier(m.barrier, m.counter)
    BY <1>1, <2>2, <2>3, ServiceBacked
  <2>4. CASE UNCHANGED svc
    BY <1>1, <1>2, <2>4
  <2> QED
    BY <2>1, <2>3, <2>4
<1>6. ASSUME ServiceStep
      PROVE  Good(svc') /\ Backed(svc') /\ Follows(svc', svc)
  BY <1>1, <1>3, <1>6, ServiceBacked DEF ServiceStep
<1>7. ASSUME NEW t \in Tasks, Restart(t)
      PROVE  Good(svc') /\ Backed(svc') /\ Follows(svc', svc)
  <2> DEFINE inc == svc.cluster[t].incarnation + 1
  <2>1. inc \in Incarnations \cup {0} /\ RegisterTaskAsync(t, inc)
    BY <1>3, <1>7, ConfigAssumption DEF Restart, Incarnations
  <2> HIDE DEF inc
  <2> QED
    BY <1>1, <2>1, ServiceBacked
<1>8. ASSUME NEW t \in Tasks, ShutdownInternal(t)
      PROVE  Good(svc') /\ Backed(svc') /\ Follows(svc', svc)
  <2>1. ShutdownTaskAsync(t) \/ UNCHANGED svc
    BY <1>8 DEF ShutdownInternal, vars
  <2>2. CASE ShutdownTaskAsync(t)
    BY <1>1, <2>2, ServiceBacked
  <2>3. CASE UNCHANGED svc
    BY <1>1, <1>2, <2>3
  <2> QED
    BY <2>1, <2>2, <2>3
<1> QED
  BY <1>4, <1>5, <1>6, <1>7, <1>8 DEF Handler

\* A handler that finds the callbacks `kept` in the service's table and sends the answers
\* `more` besides those of the callbacks it takes out; it may change the agent of a process
\* that starts or ends.
HandlesWith(kept, more) ==
    /\ kept \in [Tasks -> [UserBarriers -> Nat]]
    /\ \A t \in Tasks, b \in UserBarriers : kept[t][b] =< made[t]
    /\ \A m \in more : /\ m.task \in Tasks /\ m.barrier \in UserBarriers
                       /\ m.call \in 1..made[m.task] /\ m.counter \in Int /\ m.code # "OK"
    /\ Keep(kept)
    /\ answers' = answers \cup more \cup Answered(kept)
    /\ requests' \subseteq requests /\ cancels' \subseteq cancels
    /\ UNCHANGED <<made, sent>>
    /\ agent' \in [Tasks -> AgentState]
    /\ \A t \in Tasks : \A b \in agent'[t].ongoing :
          /\ b \in agent[t].ongoing
          /\ agent'[t].call = agent[t].call /\ agent'[t].counter = agent[t].counter

\* The table that a handler finds: the request that it handles comes with its callback,
\* and an earlier callback of the same task is answered.
LEMMA HandlerForm ==
    ASSUME Numbered, Handler
    PROVE  \/ \E r \in requests :
                 /\ HandleBarrier(r)
                 /\ HandlesWith([holder EXCEPT ![r.task][r.barrier] = r.call], Superseded(r))
           \/ HandlesWith(holder, {})
<1>1. ASSUME NEW r \in requests, HandleBarrier(r)
      PROVE  HandlesWith([holder EXCEPT ![r.task][r.barrier] = r.call], Superseded(r))
  <2> DEFINE kept == [holder EXCEPT ![r.task][r.barrier] = r.call]
  <2>1. /\ r.task \in Tasks /\ r.barrier \in UserBarriers /\ r.call \in 1..made[r.task]
        /\ holder \in [Tasks -> [UserBarriers -> Nat]] /\ made \in [Tasks -> Nat]
        /\ \A t \in Tasks, b \in UserBarriers : holder[t][b] =< made[t]
    BY DEF Numbered
  <2>2. /\ kept \in [Tasks -> [UserBarriers -> Nat]]
        /\ \A t \in Tasks, b \in UserBarriers :
              kept[t][b] = IF <<t, b>> = <<r.task, r.barrier>> THEN r.call ELSE holder[t][b]
    BY <2>1
  <2>3. \A t \in Tasks, b \in UserBarriers : kept[t][b] =< made[t]
    BY <2>1, <2>2
  <2>4. /\ Keep(kept) /\ answers' = answers \cup Superseded(r) \cup Answered(kept)
        /\ requests' = requests \ {r} /\ UNCHANGED <<agent, made, sent, cancels>>
    BY <1>1 DEF HandleBarrier, agentVars
  <2>5. \A m \in Superseded(r) :
           /\ m.task \in Tasks /\ m.barrier \in UserBarriers
           /\ m.call \in 1..made[m.task] /\ m.counter \in Int /\ m.code # "OK"
    <3>1. \A k \in {holder[r.task][r.barrier]} \ {0} : k \in 1..made[r.task]
      BY <2>1
    <3> QED
      BY <2>1, <3>1 DEF Superseded
  <2> HIDE DEF kept
  <2>6. HandlesWith(kept, Superseded(r))
    BY <2>2, <2>3, <2>4, <2>5 DEF HandlesWith, Numbered
  <2> QED
    BY <2>6 DEF kept
<1>2. ASSUME Keep(holder), answers' = answers \cup Answered(holder), requests' = requests,
             cancels' \subseteq cancels, UNCHANGED <<made, sent>>,
             agent' \in [Tasks -> AgentState],
             \A t \in Tasks : \A b \in agent'[t].ongoing :
                /\ b \in agent[t].ongoing
                /\ agent'[t].call = agent[t].call /\ agent'[t].counter = agent[t].counter
      PROVE  HandlesWith(holder, {})
  BY <1>2 DEF HandlesWith, Numbered
<1>3. ASSUME NEW m \in cancels, HandleCancel(m)
      PROVE  HandlesWith(holder, {})
  BY <1>2, <1>3 DEF HandleCancel, agentVars, Numbered
<1>4. ASSUME ServiceStep
      PROVE  HandlesWith(holder, {})
  BY <1>2, <1>4 DEF ServiceStep, agentVars, Numbered
<1>5. ASSUME NEW t \in Tasks, Restart(t)
      PROVE  HandlesWith(holder, {})
  <2>1. agent \in [Tasks -> AgentState] /\ FreshAgent \in AgentState /\ FreshAgent.ongoing = {}
    BY DEF Numbered, FreshAgent, AgentState
  <2>2. agent' = [agent EXCEPT ![t] = FreshAgent]
    BY <1>5 DEF Restart
  <2>3. agent' \in [Tasks -> AgentState]
    BY <2>1, <2>2
  <2>4. ASSUME NEW u \in Tasks, NEW b \in agent'[u].ongoing
        PROVE  agent'[u] = agent[u]
    BY <2>1, <2>2
  <2> QED
    BY <1>2, <1>5, <2>3, <2>4 DEF Restart
<1>6. ASSUME NEW t \in Tasks, ShutdownInternal(t)
      PROVE  HandlesWith(holder, {})
  <2>1. agent \in [Tasks -> AgentState]
    BY DEF Numbered
  <2>2. agent' = [agent EXCEPT ![t].cancelled = TRUE]
    BY <1>6 DEF ShutdownInternal
  <2>3. /\ agent' \in [Tasks -> AgentState]
        /\ \A u \in Tasks : /\ agent'[u].ongoing = agent[u].ongoing
                            /\ agent'[u].call = agent[u].call
                            /\ agent'[u].counter = agent[u].counter
    BY <2>1, <2>2 DEF AgentState
  <2> QED
    BY <1>2, <1>6, <2>3 DEF ShutdownInternal
<1> QED
  BY <1>1, <1>3, <1>4, <1>5, <1>6 DEF Handler

\* What a handler does to the table and which answers it sends.
LEMMA HandlerNumbered ==
    ASSUME Numbered, NEW kept, NEW more, HandlesWith(kept, more), Follows(svc', svc)
    PROVE  Numbered'
<1>1. /\ made \in [Tasks -> Nat] /\ UNCHANGED made
      /\ kept \in [Tasks -> [UserBarriers -> Nat]]
      /\ \A t \in Tasks, b \in UserBarriers : kept[t][b] =< made[t]
  BY DEF Numbered, HandlesWith
<1>2. /\ holder' \in [Tasks -> [UserBarriers -> Nat]]
      /\ \A t \in Tasks, b \in UserBarriers : holder'[t][b] =< made[t]
  BY <1>1 DEF HandlesWith, Keep
<1>3. ASSUME NEW m \in Answered(kept)
      PROVE  /\ m.task \in Tasks /\ m.barrier \in UserBarriers
             /\ m.call \in 1..made[m.task] /\ m.counter \in Int
  <2>1. PICK x \in Erased(kept) :
           m = [task |-> x[1], barrier |-> x[2], call |-> kept[x[1]][x[2]],
                code |-> IF svc'.barriers[x[2]].passed THEN svc'.barriers[x[2]].result
                         ELSE "CANCELLED",
                counter |-> svc'.barriers[x[2]].counter, payload |-> TRUE]
    BY DEF Answered
  <2>2. x[1] \in Tasks /\ x[2] \in UserBarriers /\ kept[x[1]][x[2]] # 0
    BY DEF Erased
  <2>3. kept[x[1]][x[2]] \in 1..made[x[1]]
    BY <1>1, <2>2
  <2>4. svc'.barriers[x[2]].counter \in Int
    BY <2>2 DEF Follows
  <2> QED
    BY <2>1, <2>2, <2>3, <2>4
<1> QED
  BY <1>1, <1>2, <1>3 DEF Numbered, HandlesWith

\* A handler answers OK only for a barrier that has passed, and leaves the participants
\* of others alone.
LEMMA HandlerAnswers ==
    ASSUME Numbered, Answering, NEW kept, NEW more, HandlesWith(kept, more),
           Good(svc'), Backed(svc'), Follows(svc', svc)
    PROVE  Answering'
<1>1. \A t, b, k : HasCalled(t, b, k)' <=> HasCalled(t, b, k)
  BY DEF HasCalled, HandlesWith
<1>2. Backed(svc)'
  BY <1>1 DEF Backed, Won
<1>3. ASSUME NEW m \in answers', m.code = "OK"
      PROVE  /\ svc'.barriers[m.barrier].tasks # {}
             /\ \A t \in svc'.barriers[m.barrier].tasks : HasCalled(t, m.barrier, m.counter)
  <2>1. CASE m \in answers
    BY <1>3, <2>1 DEF Answering, Follows, Numbered
  <2>2. CASE m \in Answered(kept)
    <3>1. PICK x \in Erased(kept) :
             m = [task |-> x[1], barrier |-> x[2], call |-> kept[x[1]][x[2]],
                  code |-> IF svc'.barriers[x[2]].passed THEN svc'.barriers[x[2]].result
                           ELSE "CANCELLED",
                  counter |-> svc'.barriers[x[2]].counter, payload |-> TRUE]
      BY <2>2 DEF Answered
    <3>2. x[2] \in UserBarriers
      BY DEF Erased
    <3>3. m.barrier = x[2] /\ m.counter = svc'.barriers[x[2]].counter /\ Won(svc', x[2])
      BY <1>3, <3>1 DEF Won
    <3> QED
      BY <3>2, <3>3 DEF Backed
  <2> QED
    BY <1>3, <2>1, <2>2 DEF HandlesWith
<1>4. requests' \subseteq requests /\ cancels' \subseteq cancels /\ UNCHANGED sent
  BY DEF HandlesWith
<1> QED
  BY <1>1, <1>2, <1>3, <1>4 DEF Answering

\* A call to a barrier that is set up is for the instance that is in progress or has
\* passed last, or for an earlier one, or fails the barrier.
LEMMA JoinBarrierServes ==
    ASSUME NEW s, NEW t \in Tasks, NEW b \in UserBarriers, NEW counter \in Counters, NEW args,
           NEW isNew \in BOOLEAN, Good(s),
           isNew => counter = s.barriers[b].counter
    PROVE  \/ counter =< s.barriers[b].counter
           \/ LET x == JoinBarrier(s, t, b, counter, args, isNew).barriers[b]
              IN x.passed /\ x.result # "OK" /\ x.calls = {}
<1> DEFINE called == AddBarrierCallback(s, t, b)
           x == called.barriers[b]
           mismatch == ~isNew /\ counter # x.counter /\ ~(t \in RecoverableTasks /\ counter = 0)
           ended == EndBarriers(called, {b}, "INTERNAL")
<1>1. s \in Service /\ b \in BarrierIds /\ s.barriers[b] \in BarrierState
  BY UserIsBarrier DEF Good, Service
<1>2. Replaces(called, s, b, [s.barriers[b] EXCEPT !.calls = @ \cup {t}])
  BY <1>1, AddBarrierCallbackReplaces
<1>3. x.counter = s.barriers[b].counter /\ called \in Service /\ x \in BarrierState
  BY <1>1, <1>2 DEF Replaces, BarrierState, Service
<1>4. ~mismatch => counter =< s.barriers[b].counter
  BY <1>1, <1>3, ConfigAssumption DEF BarrierState, Counters
<1>5. mismatch => JoinBarrier(s, t, b, counter, args, isNew) = ended
  <2>1. {b} \cap Special = {}
    BY UserIsBarrier
  <2> QED
    BY <2>1 DEF JoinBarrier, PassBarrierError, AfterFailure
<1> HIDE DEF mismatch
<1>6. ended.barriers[b].passed /\ ended.barriers[b].result # "OK" /\ ended.barriers[b].calls = {}
  <2> DEFINE y == [x EXCEPT !.passed = TRUE, !.result = "INTERNAL", !.calls = {}]
             bs == [d \in BarrierIds |->
                      IF d \in {b}
                      THEN [called.barriers[d] EXCEPT !.passed = TRUE, !.result = "INTERNAL",
                                                      !.calls = {}]
                      ELSE called.barriers[d]]
  <2>1. bs[b] = y
    BY <1>1
  <2>2. y.passed /\ y.result # "OK" /\ y.calls = {}
    BY <1>3 DEF BarrierState
  <2> HIDE DEF y, x, called
  <2>3. ended.barriers = bs
    BY <1>3 DEF EndBarriers, Service
  <2> QED
    BY <2>1, <2>2, <2>3
<1> QED
  BY <1>4, <1>5, <1>6

\* The instance that a call ends up with is not earlier than the one it asks for, or the
\* call has failed the barrier.
LEMMA BarrierAsyncLockedServes ==
    ASSUME NEW s, NEW t \in Tasks, NEW b \in UserBarriers, NEW counter \in Counters,
           NEW args \in SUBSET (Tasks \cup {Stranger}), NEW before \in SUBSET Tasks,
           Good(s), Backed(s),
           StartsAfterRestart(s, t, b, counter) => s.barriers[b].counter < MaxCounter,
           <<t, b, counter>> \in sent
    PROVE  LET x == BarrierAsyncLocked(s, t, b, counter, args, before).barriers[b]
           IN counter =< x.counter \/ (x.passed /\ x.result # "OK" /\ x.calls = {})
<1> DEFINE c == IF StartsAfterRestart(s, t, b, counter) THEN s.barriers[b].counter + 1
                ELSE counter
           new == InitializeBarrier(s, b, c, args, before)
           joined == JoinBarrier(s, t, b, counter, args, FALSE)
           began == JoinBarrier(new, t, b, c, args, TRUE)
           r == BarrierAsyncLocked(s, t, b, counter, args, before)
<1>1. s.barriers[b] \in BarrierState /\ Book(s, b) /\ b \in BarrierIds
  BY UserIsBarrier DEF Good, Service
<1>2. c \in Counters /\ counter =< c
  BY <1>1, ConfigAssumption DEF BarrierState, Counters, StartsAfterRestart
<1>3. ShouldInitialize(s, t, b, counter) =>
        b \notin s.ongoing /\ s.barriers[b].counter =< c
  BY <1>1 DEF ShouldInitialize, BarrierIsUninitialized, StartsAfterRestart, Book, BarrierState,
              Counters
<1>4. HasCalled(t, b, c)
  BY DEF HasCalled, StartsAfterRestart
<1>5. counter = s.barriers[b].counter \/ (t \in RecoverableTasks /\ counter = 0)
      => HasCalled(t, b, s.barriers[b].counter)
  BY DEF HasCalled
<1>6. counter \in Int /\ c \in Int
  BY <1>2, ConfigAssumption DEF Counters
<1>7. r = IF ~ShouldInitialize(s, t, b, counter) THEN joined
          ELSE IF new.barriers[b].passed THEN new ELSE began
  BY DEF BarrierAsyncLocked
<1> HIDE DEF c
<1>8. ASSUME ~ShouldInitialize(s, t, b, counter)
      PROVE  LET x == r.barriers[b]
             IN counter =< x.counter \/ (x.passed /\ x.result # "OK" /\ x.calls = {})
  <2>1. Follows(joined, s)
    BY <1>1, <1>5, JoinBarrierBacked
  <2>2. \/ counter =< s.barriers[b].counter
        \/ joined.barriers[b].passed /\ joined.barriers[b].result # "OK"
           /\ joined.barriers[b].calls = {}
    BY JoinBarrierServes
  <2> HIDE DEF joined, r
  <2> QED
    BY <1>6, <1>7, <1>8, <2>1, <2>2 DEF Follows
<1>9. ASSUME ShouldInitialize(s, t, b, counter)
      PROVE  counter =< r.barriers[b].counter
  <2>1. Good(new) /\ Backed(new) /\ new.barriers[b].counter = c
    BY <1>1, <1>2, <1>3, <1>9, InitializeBarrierGood, InitializeBarrierBacked
  <2> HIDE DEF new
  <2>2. Follows(began, new)
    BY <1>1, <1>4, <2>1, JoinBarrierBacked
  <2> HIDE DEF began, r
  <2> QED
    BY <1>2, <1>6, <1>7, <1>9, <2>1, <2>2 DEF Follows
<1> HIDE DEF r
<1>10. LET x == r.barriers[b]
       IN counter =< x.counter \/ (x.passed /\ x.result # "OK" /\ x.calls = {})
  BY <1>8, <1>9
<1> QED
  BY <1>10 DEF r

\* After a handler the calls in flight are about later instances than their agents know,
\* if the ones that the handler finds in the table are.
LEMMA HandlerAhead ==
    ASSUME Numbered, AllAhead, NEW kept, NEW more, HandlesWith(kept, more), Follows(svc', svc),
           \A t \in Tasks : \A b \in agent[t].ongoing :
              agent[t].call[b] # 0 /\ kept[t][b] = agent[t].call[b] =>
                 \/ agent[t].counter[b] < svc'.barriers[b].counter
                 \/ /\ svc'.barriers[b].passed /\ svc'.barriers[b].result # "OK"
                    /\ svc'.barriers[b].calls = {}
    PROVE  AllAhead'
<1> SUFFICES ASSUME NEW t \in Tasks, NEW b \in agent'[t].ongoing, agent'[t].call[b] # 0
             PROVE  Ahead(t, b)'
  BY DEF AllAhead, Ahead
<1> DEFINE call == agent[t].call[b]
           last == agent[t].counter[b]
<1>1. /\ b \in agent[t].ongoing /\ b \in UserBarriers
      /\ agent'[t].call[b] = call /\ agent'[t].counter[b] = last /\ call # 0
  BY DEF HandlesWith, Numbered, AgentState
<1>2. Ahead(t, b)
  BY <1>1 DEF AllAhead
<1>3. ASSUME NEW r \in requests', r.task = t, r.barrier = b, r.call = call
      PROVE  last < r.counter
  BY <1>1, <1>2, <1>3 DEF Ahead, HandlesWith
<1>4. ASSUME holder'[t][b] = call
      PROVE  last < svc'.barriers[b].counter
  <2>1. t \in svc'.barriers[b].calls /\ kept[t][b] = call
    BY <1>1, <1>4 DEF HandlesWith, Keep
  <2> QED
    BY <1>1, <2>1
<1>5. ASSUME NEW m \in answers', m.task = t, m.barrier = b, m.call = call, m.code = "OK"
      PROVE  last < m.counter
  <2>1. CASE m \in answers
    BY <1>1, <1>2, <1>5, <2>1 DEF Ahead
  <2>2. CASE m \in Answered(kept)
    <3>1. PICK x \in Erased(kept) :
             m = [task |-> x[1], barrier |-> x[2], call |-> kept[x[1]][x[2]],
                  code |-> IF svc'.barriers[x[2]].passed THEN svc'.barriers[x[2]].result
                           ELSE "CANCELLED",
                  counter |-> svc'.barriers[x[2]].counter, payload |-> TRUE]
      BY <2>2 DEF Answered
    <3>2. /\ kept[t][b] = call /\ m.counter = svc'.barriers[b].counter
          /\ svc'.barriers[b].result = "OK"
      BY <1>5, <3>1
    <3> QED
      BY <1>1, <3>2
  <2> QED
    BY <1>5, <2>1, <2>2 DEF HandlesWith
<1> QED
  BY <1>1, <1>3, <1>4, <1>5 DEF Ahead

\* Every handler keeps the invariant.
LEMMA HandlerKeeps ==
    ASSUME Numbered, Answering, AllAhead, Handler
    PROVE  Numbered' /\ Answering' /\ AllAhead'
<1>1. Good(svc') /\ Backed(svc') /\ Follows(svc', svc)
  BY HandlerBacked
<1>2. ASSUME NEW t \in Tasks, NEW b \in agent[t].ongoing,
             agent[t].call[b] # 0, holder[t][b] = agent[t].call[b]
      PROVE  agent[t].counter[b] < svc'.barriers[b].counter
  <2>1. b \in UserBarriers /\ agent[t].counter[b] \in Int
    BY DEF Numbered, AgentState
  <2>2. agent[t].counter[b] < svc.barriers[b].counter
    BY <1>2 DEF AllAhead, Ahead
  <2> QED
    BY <1>1, <2>1, <2>2 DEF Follows
<1>3. CASE HandlesWith(holder, {})
  BY <1>1, <1>2, <1>3, HandlerNumbered, HandlerAnswers, HandlerAhead
<1>4. ASSUME NEW r \in requests, HandleBarrier(r),
             HandlesWith([holder EXCEPT ![r.task][r.barrier] = r.call], Superseded(r))
      PROVE  Numbered' /\ Answering' /\ AllAhead'
  <2> DEFINE kept == [holder EXCEPT ![r.task][r.barrier] = r.call]
  <2>1. /\ r.task \in Tasks /\ r.barrier \in UserBarriers /\ r.counter \in Counters
        /\ <<r.task, r.barrier, r.counter>> \in sent
        /\ holder \in [Tasks -> [UserBarriers -> Nat]]
    BY DEF Numbered, Answering
  <2>2. PICK args \in BarrierArgs : BarrierAsync(r.task, r.barrier, r.counter, args)
    BY <1>4 DEF HandleBarrier
  <2>3. PICK before \in SUBSET Tasks :
           svc' = BarrierAsyncLocked(svc, r.task, r.barrier, r.counter, args, before)
    BY <2>2 DEF BarrierAsync
  <2>4. /\ args \in SUBSET (Tasks \cup {Stranger})
        /\ StartsAfterRestart(svc, r.task, r.barrier, r.counter) =>
              svc.barriers[r.barrier].counter < MaxCounter
    BY <2>2, TasksAssumption DEF BarrierAsync
  <2>5. LET x == svc'.barriers[r.barrier]
        IN r.counter =< x.counter \/ (x.passed /\ x.result # "OK" /\ x.calls = {})
    <3>1. Good(svc) /\ Backed(svc)
      BY DEF Answering
    <3> DEFINE q == BarrierAsyncLocked(svc, r.task, r.barrier, r.counter, args, before)
    <3>2. LET x == q.barriers[r.barrier]
          IN r.counter =< x.counter \/ (x.passed /\ x.result # "OK" /\ x.calls = {})
      BY <2>1, <2>4, <3>1, BarrierAsyncLockedServes
    <3>3. svc' = q
      BY <2>3
    <3> HIDE DEF q
    <3> QED
      BY <3>2, <3>3
  <2>6. \A t \in Tasks, b \in UserBarriers :
           kept[t][b] = IF <<t, b>> = <<r.task, r.barrier>> THEN r.call ELSE holder[t][b]
    BY <2>1
  <2> HIDE DEF kept
  <2>7. ASSUME NEW t \in Tasks, NEW b \in agent[t].ongoing,
               agent[t].call[b] # 0, kept[t][b] = agent[t].call[b]
        PROVE  \/ agent[t].counter[b] < svc'.barriers[b].counter
               \/ /\ svc'.barriers[b].passed /\ svc'.barriers[b].result # "OK"
                  /\ svc'.barriers[b].calls = {}
    <3>1. b \in UserBarriers /\ agent[t].counter[b] \in Int
      BY DEF Numbered, AgentState
    <3>2. CASE <<t, b>> = <<r.task, r.barrier>>
      <4>1. r.task = t /\ r.barrier = b /\ r.call = agent[t].call[b]
        BY <2>6, <2>7, <3>1, <3>2
      <4>2. agent[t].counter[b] < r.counter
        BY <2>7, <4>1 DEF AllAhead, Ahead
      <4>3. r.counter \in Int /\ svc'.barriers[b].counter \in Int
        BY <1>1, <2>1, <3>1, ConfigAssumption DEF Counters, Follows
      <4> QED
        BY <2>5, <3>1, <4>1, <4>2, <4>3
    <3>3. CASE <<t, b>> # <<r.task, r.barrier>>
      <4>1. holder[t][b] = agent[t].call[b]
        BY <2>6, <2>7, <3>1, <3>3
      <4> QED
        BY <1>2, <2>7, <4>1
    <3> QED
      BY <3>2, <3>3
  <2>8. HandlesWith(kept, Superseded(r))
    BY <1>4 DEF kept
  <2> QED
    BY <1>1, <2>7, <2>8, HandlerNumbered, HandlerAnswers, HandlerAhead
<1> QED
  BY <1>3, <1>4, HandlerForm

\* A step of an agent that leaves the service as it is and adds calls at most.
LEMMA AgentAnswers ==
    ASSUME Answering, UNCHANGED svc, sent \subseteq sent', answers' \subseteq answers,
           \A r \in requests' :
              r.counter \in Counters /\ <<r.task, r.barrier, r.counter>> \in sent',
           \A m \in cancels' : m.barrier \in UserBarriers /\ m.counter \in Counters
    PROVE  Answering'
<1>1. \A t, b, k : HasCalled(t, b, k) => HasCalled(t, b, k)'
  BY DEF HasCalled
<1>2. Backed(svc)'
  BY <1>1 DEF Answering, Backed, Won
<1>3. Good(svc)'
  BY DEF Answering, Good, Book
<1> QED
  BY <1>1, <1>2, <1>3 DEF Answering

\* A step of the agent of t that ends its call at b, with an answer or without, or that
\* does nothing to a call; the network may lose what it delivers.
LEMMA AgentKeeps ==
    ASSUME Numbered, Answering, AllAhead, agent' \in [Tasks -> AgentState],
           UNCHANGED <<svc, made, sent, requests, holder>>, answers' \subseteq answers,
           \A m \in cancels' : m.barrier \in UserBarriers /\ m.counter \in Counters,
           \A u \in Tasks : \A c \in agent'[u].ongoing :
              agent'[u].call[c] # 0 =>
                 /\ c \in agent[u].ongoing
                 /\ agent'[u].call[c] = agent[u].call[c]
                 /\ agent'[u].counter[c] = agent[u].counter[c]
    PROVE  Numbered' /\ Answering' /\ AllAhead'
<1>1. Numbered'
  BY DEF Numbered
<1>2. Answering'
  BY AgentAnswers DEF Answering
<1>3. ASSUME NEW u \in Tasks, NEW c \in agent'[u].ongoing, agent'[u].call[c] # 0
      PROVE  Ahead(u, c)'
  <2>1. /\ c \in agent[u].ongoing /\ agent'[u].call[c] = agent[u].call[c]
        /\ agent'[u].counter[c] = agent[u].counter[c]
    BY <1>3
  <2>2. Ahead(u, c)
    BY <2>1 DEF AllAhead
  <2> QED
    BY <1>3, <2>1, <2>2 DEF Ahead
<1>4. AllAhead'
  BY <1>3 DEF AllAhead, Ahead
<1> QED
  BY <1>1, <1>2, <1>4

\* The end of a call: the counter moves to the instance the answer names, if any.
LEMMA ReturnKeeps ==
    ASSUME Numbered, Answering, AllAhead, NEW t \in Tasks, NEW b \in UserBarriers, NEW m,
           m.counter \in Int, CallReturns(t, b, m),
           UNCHANGED <<svc, made, sent, requests, cancels, holder>>, answers' \subseteq answers
    PROVE  Numbered' /\ Answering' /\ AllAhead'
<1>1. agent \in [Tasks -> AgentState]
  BY DEF Numbered
<1>2. /\ agent' \in [Tasks -> AgentState]
      /\ \A u \in Tasks : agent'[u].call = agent[u].call
      /\ \A u \in Tasks \ {t} : agent'[u] = agent[u]
      /\ agent'[t].ongoing = agent[t].ongoing \ {b}
      /\ \A c \in UserBarriers \ {b} : agent'[t].counter[c] = agent[t].counter[c]
  <2> DEFINE k == CounterAfter(agent[t].counter[b], m)
             x == [agent[t] EXCEPT !.ongoing = @ \ {b}, !.counter[b] = k]
  <2>1. k \in Int
    BY <1>1 DEF CounterAfter, AgentState
  <2>2. agent' = [agent EXCEPT ![t] = x]
    BY <1>1 DEF CallReturns, AgentState
  <2> HIDE DEF k
  <2>3. /\ x \in AgentState /\ x.call = agent[t].call /\ x.ongoing = agent[t].ongoing \ {b}
        /\ \A c \in UserBarriers \ {b} : x.counter[c] = agent[t].counter[c]
    BY <1>1, <2>1 DEF AgentState
  <2> HIDE DEF x
  <2> QED
    BY <1>1, <2>2, <2>3
<1>3. ASSUME NEW u \in Tasks, NEW c \in agent'[u].ongoing
      PROVE  /\ c \in agent[u].ongoing /\ agent'[u].call[c] = agent[u].call[c]
             /\ agent'[u].counter[c] = agent[u].counter[c]
  <2>1. CASE u = t
    BY <1>1, <1>2, <2>1 DEF AgentState
  <2>2. CASE u # t
    BY <1>2, <2>2
  <2> QED
    BY <2>1, <2>2
<1> QED
  BY <1>2, <1>3, AgentKeeps DEF Answering

\* A call is numbered past all calls the task has made, and asks for the instance after
\* the last one the agent knows to have ended.
LEMMA WaitKeeps ==
    ASSUME Numbered, Answering, AllAhead, NEW t \in Tasks, NEW b \in UserBarriers,
           WaitAtBarrierAsync(t, b)
    PROVE  Numbered' /\ Answering' /\ AllAhead'
<1> DEFINE call == made[t] + 1
           k == agent[t].counter[b] + 1
           r == [task |-> t, barrier |-> b, call |-> call, counter |-> k]
<1>1. /\ agent \in [Tasks -> AgentState] /\ made \in [Tasks -> Nat]
      /\ call \in Nat /\ call # 0 /\ agent[t].counter[b] \in Int /\ agent[t].counter[b] < k
  BY DEF Numbered, AgentState
<1>2. /\ k \in Counters
      /\ requests' = requests \cup {r}
      /\ agent' = [agent EXCEPT ![t].ongoing = @ \cup {b}, ![t].call[b] = call]
      /\ made' = [made EXCEPT ![t] = call]
      /\ sent' = sent \cup {<<t, b, k>>}
      /\ UNCHANGED <<svc, answers, cancels, holder>>
  BY DEF WaitAtBarrierAsync, RequestCounter, vars
<1>3. r.task = t /\ r.barrier = b /\ r.call = call /\ r.counter = k
  OBVIOUS
<1> HIDE DEF r
<1>4. made' \in [Tasks -> Nat] /\ made'[t] = call /\ \A u \in Tasks : made[u] =< made'[u]
  BY <1>1, <1>2
<1>5. /\ agent' \in [Tasks -> AgentState]
      /\ \A u \in Tasks : agent'[u].counter = agent[u].counter
      /\ \A u \in Tasks \ {t} : agent'[u] = agent[u]
      /\ agent'[t].ongoing = agent[t].ongoing \cup {b}
      /\ \A c \in UserBarriers :
            agent'[t].call[c] = IF c = b THEN call ELSE agent[t].call[c]
  <2> DEFINE x == [agent[t] EXCEPT !.ongoing = @ \cup {b}, !.call[b] = call]
  <2>1. agent' = [agent EXCEPT ![t] = x]
    BY <1>1, <1>2 DEF AgentState
  <2> HIDE DEF call
  <2>2. /\ x \in AgentState /\ x.counter = agent[t].counter
        /\ x.ongoing = agent[t].ongoing \cup {b}
        /\ \A c \in UserBarriers : x.call[c] = IF c = b THEN call ELSE agent[t].call[c]
    BY <1>1 DEF AgentState
  <2> HIDE DEF x
  <2> QED
    BY <1>1, <2>1, <2>2
<1>6. Numbered'
  <2>1. \A u \in Tasks : made[u] \in Nat /\ made'[u] \in Nat /\ made[u] =< made'[u]
    BY <1>1, <1>4
  <2>2. ASSUME NEW q \in requests'
        PROVE  q.task \in Tasks /\ q.barrier \in UserBarriers /\ q.call \in 1..made'[q.task]
    BY <1>1, <1>2, <1>3, <1>4, <2>1 DEF Numbered
  <2>3. ASSUME NEW m \in answers
        PROVE  m.call \in 1..made'[m.task]
    BY <2>1 DEF Numbered
  <2>4. \A u \in Tasks, c \in UserBarriers : holder[u][c] =< made'[u]
    BY <2>1 DEF Numbered
  <2> HIDE DEF call
  <2> QED
    BY <1>2, <1>4, <1>5, <2>2, <2>3, <2>4 DEF Numbered
<1>7. Answering'
  <2> HIDE DEF call, k
  <2>1. \A q \in requests' :
           q.counter \in Counters /\ <<q.task, q.barrier, q.counter>> \in sent'
    BY <1>2, <1>3 DEF Answering
  <2> QED
    BY <1>2, <2>1, AgentAnswers DEF Answering
<1>8. ASSUME NEW u \in Tasks, NEW c \in agent'[u].ongoing
      PROVE  Ahead(u, c)'
  <2>0. c \in UserBarriers
    BY <1>5, <1>8 DEF AgentState
  <2>1. CASE u = t /\ c = b
    <3>1. agent'[u].call[c] = call /\ agent'[u].counter[c] = agent[t].counter[b]
      BY <1>5, <2>1
    <3>2. /\ \A q \in requests : q.task = t => q.call # call
          /\ \A m \in answers : m.task = t => m.call # call
          /\ holder[t][b] # call
      BY <1>1 DEF Numbered
    <3> HIDE DEF call, k
    <3> QED
      BY <1>1, <1>2, <1>3, <2>1, <3>1, <3>2 DEF Ahead
  <2>2. CASE ~(u = t /\ c = b)
    <3>1. /\ c \in agent[u].ongoing /\ agent'[u].call[c] = agent[u].call[c]
          /\ agent'[u].counter[c] = agent[u].counter[c]
      BY <1>5, <1>8, <2>0, <2>2
    <3>2. Ahead(u, c)
      BY <3>1 DEF AllAhead
    <3> HIDE DEF call, k
    <3> QED
      BY <1>2, <1>3, <2>2, <3>1, <3>2 DEF Ahead
  <2> QED
    BY <2>1, <2>2
<1> QED
  BY <1>6, <1>7, <1>8 DEF AllAhead

\* Every step of agents, network and service keeps the invariant.
LEMMA NextAnswers ==
    ASSUME Numbered, Answering, AllAhead, [AgentsNext]_allVars
    PROVE  Numbered' /\ Answering' /\ AllAhead'
<1>1. ASSUME NEW t \in Tasks, NEW b \in UserBarriers, WaitAtBarrierAsync(t, b)
      PROVE  Numbered' /\ Answering' /\ AllAhead'
  BY <1>1, WaitKeeps
<1>2. ASSUME NEW t \in Tasks, NEW b \in UserBarriers, WaitAtBarrierCancelled(t, b)
      PROVE  Numbered' /\ Answering' /\ AllAhead'
  <2>1. agent \in [Tasks -> AgentState]
    BY DEF Numbered
  <2>2. /\ agent' = [agent EXCEPT ![t].ongoing = @ \cup {b}, ![t].call[b] = 0]
        /\ UNCHANGED <<svc, made, sent, requests, cancels, holder, answers>>
    BY <1>2 DEF WaitAtBarrierCancelled, vars, net
  <2> DEFINE x == [agent[t] EXCEPT !.ongoing = @ \cup {b}, !.call[b] = 0]
  <2>3. agent' = [agent EXCEPT ![t] = x]
    BY <2>1, <2>2 DEF AgentState
  <2>4. /\ x \in AgentState /\ x.counter = agent[t].counter /\ x.call[b] = 0
        /\ x.ongoing = agent[t].ongoing \cup {b}
        /\ \A c \in UserBarriers \ {b} : x.call[c] = agent[t].call[c]
    BY <2>1 DEF AgentState
  <2> HIDE DEF x
  <2>5. agent' \in [Tasks -> AgentState]
    BY <2>1, <2>3, <2>4
  <2>6. ASSUME NEW u \in Tasks, NEW c \in agent'[u].ongoing, agent'[u].call[c] # 0
        PROVE  /\ c \in agent[u].ongoing /\ agent'[u].call[c] = agent[u].call[c]
               /\ agent'[u].counter[c] = agent[u].counter[c]
    <3>1. c \in UserBarriers
      BY <2>5 DEF AgentState
    <3> QED
      BY <2>1, <2>3, <2>4, <2>6, <3>1
  <2> QED
    BY <2>2, <2>5, <2>6, AgentKeeps DEF Answering
<1>3. ASSUME NEW m \in answers, ReceiveAnswer(m)
      PROVE  Numbered' /\ Answering' /\ AllAhead'
  <2>1. /\ m.task \in Tasks /\ m.barrier \in UserBarriers /\ m.counter \in Int
        /\ agent \in [Tasks -> AgentState]
    BY DEF Numbered
  <2>2. /\ answers' \subseteq answers
        /\ UNCHANGED <<svc, made, sent, requests, cancels, holder>>
    BY <1>3 DEF ReceiveAnswer, vars
  <2>3. CASE IsCurrent(m)
    BY <1>3, <2>1, <2>2, <2>3, ReturnKeeps DEF ReceiveAnswer
  <2>4. CASE ~IsCurrent(m)
    <3>1. agent' = agent
      BY <1>3, <2>4 DEF ReceiveAnswer
    <3> QED
      BY <2>1, <2>2, <3>1, AgentKeeps DEF Answering
  <2> QED
    BY <2>3, <2>4
<1>4. ASSUME NEW t \in Tasks, NEW b \in UserBarriers, RpcFails(t, b)
      PROVE  Numbered' /\ Answering' /\ AllAhead'
  <2> DEFINE m == [payload |-> FALSE, counter |-> 0]
  <2>1. /\ CallReturns(t, b, m)
        /\ UNCHANGED <<svc, made, sent, requests, cancels, holder, answers>>
    BY <1>4 DEF RpcFails, vars, net
  <2>2. m.counter \in Int
    OBVIOUS
  <2> HIDE DEF m
  <2> QED
    BY <2>1, <2>2, ReturnKeeps
<1>5. ASSUME NEW t \in Tasks, NEW b \in UserBarriers, CancelBarrierAsync(t, b)
      PROVE  Numbered' /\ Answering' /\ AllAhead'
  <2>1. /\ cancels' = cancels \cup {[task |-> t, barrier |-> b, counter |-> 0]}
        /\ UNCHANGED <<svc, agent, made, sent, requests, holder, answers>>
    BY <1>5 DEF CancelBarrierAsync, CancelRequestCounter, vars, agentVars
  <2>2. 0 \in Counters
    BY ConfigAssumption DEF Counters
  <2>3. \A m \in cancels' : m.barrier \in UserBarriers /\ m.counter \in Counters
    BY <2>1, <2>2 DEF Answering
  <2>4. agent' \in [Tasks -> AgentState]
    BY <2>1 DEF Numbered
  <2> QED
    BY <2>1, <2>3, <2>4, AgentKeeps
<1>6. ASSUME Handler
      PROVE  Numbered' /\ Answering' /\ AllAhead'
  BY <1>6, HandlerKeeps
<1>7. CASE UNCHANGED allVars
  BY <1>7, AgentKeeps DEF allVars, vars, agentVars, net, Answering, Numbered
<1> QED
  BY <1>1, <1>2, <1>3, <1>4, <1>5, <1>6, <1>7 DEF AgentsNext, Handler

\* The invariant holds initially: no barrier has been called.
LEMMA InitAnswers == AgentsInit => Answering
<1> SUFFICES ASSUME AgentsInit PROVE Answering
  OBVIOUS
<1>1. \A t \in Tasks : /\ ConnectedTask(t) \in TaskState
                       /\ ConnectedTask(t).ongoing = {}
  <2>1. FreshTask \in TaskState /\ FreshTask.ongoing = {}
    BY DEF FreshTask, TaskState, TaskCodes
  <2>2. 1 \in Incarnations
    BY ConfigAssumption, CallsAssumption DEF Incarnations
  <2>3. ASSUME NEW v \in BOOLEAN
        PROVE  LET x == [FreshTask EXCEPT !.state = "CONNECTED", !.incarnation = 1,
                                          !.recoverable = v]
               IN x \in TaskState /\ x.ongoing = {}
    BY <2>1, <2>2 DEF TaskState
  <2>4. ASSUME NEW t \in Tasks
        PROVE  \E v \in BOOLEAN :
                  ConnectedTask(t) = [FreshTask EXCEPT !.state = "CONNECTED", !.incarnation = 1,
                                                       !.recoverable = v]
    <3> DEFINE v == t \in RecoverableTasks
    <3>1. v \in BOOLEAN
      OBVIOUS
    <3>2. ConnectedTask(t) = [FreshTask EXCEPT !.state = "CONNECTED", !.incarnation = 1,
                                               !.recoverable = v]
      BY DEF ConnectedTask
    <3> QED
      BY <3>1, <3>2, Zenon
  <2> QED
    BY <2>3, <2>4
<1> DEFINE cs == [t \in Tasks |-> ConnectedTask(t)]
           bs == [b \in BarrierIds |-> FreshBarrier]
<1>2. cs \in [Tasks -> TaskState] /\ bs \in [BarrierIds -> BarrierState]
  BY <1>1, FreshServiceGood
<1>3. svc = [cluster |-> cs, barriers |-> bs,
             ongoing |-> {}, captured |-> [t \in Tasks |-> 0],
             polling |-> FALSE, responded |-> FALSE, polls |-> {},
             unsynced |-> {}, shutdownTasks |-> {}, aliveness |-> {},
             stopped |-> FALSE]
  BY DEF AgentsInit
<1>4. \A t \in Tasks : cs[t].ongoing = {}
  BY <1>1
<1>5. \A b \in BarrierIds : bs[b] = FreshBarrier
  OBVIOUS
<1> HIDE DEF cs, bs
<1>6. svc \in Service /\ svc.cluster = cs /\ svc.barriers = bs /\ svc.ongoing = {}
  BY <1>2, <1>3 DEF Service
<1>7. ASSUME NEW b \in BarrierIds
      PROVE  Book(svc, b)
  BY <1>4, <1>5, <1>6 DEF Book, FreshBarrier
<1>8. Good(svc)
  BY <1>6, <1>7 DEF Good
<1>9. Backed(svc)
  BY <1>5, <1>6, UserIsBarrier DEF Backed, Won, FreshBarrier
<1> QED
  BY <1>8, <1>9 DEF Answering, AgentsInit

\* The invariant of the composition.
LEMMA AlwaysAnswers == AgentsSpec => [](Numbered /\ Answering /\ AllAhead)
<1>1. AgentsInit => Numbered /\ AllAhead
  BY DEF AgentsInit, Numbered, AllAhead, FreshAgent, AgentState
<1> QED
  BY <1>1, InitAnswers, NextAnswers, PTL DEF AgentsSpec

\* With the default flags a call that returns OK for an instance can be relied on: every
\* participant has called for that instance, whatever calls were given up and repeated,
\* requests came late, tasks failed or restarted; a recoverable one may have called for
\* instance 0, as its first call after a restart does.
THEOREM OkIsCalledByAll ==
    ASSUME DefaultFlags
    PROVE  AgentsSpec => OkMeansAllCalled
<1>1. Answering /\ [AgentsNext]_allVars =>
        [\A m \in answers : IsCurrent(m) /\ m.code = "OK" /\ ReceiveAnswer(m)
           => \A t \in svc.barriers[m.barrier].tasks :
                 \E c \in {m.counter} \cup IF t \in RecoverableTasks THEN {0} ELSE {} :
                    <<t, m.barrier, c>> \in sent]_allVars
  BY DEF Answering, HasCalled
<1> QED
  BY <1>1, AlwaysAnswers, PTL DEF AgentsSpec, OkMeansAllCalled

\* With the default flags no meeting of the tasks answers two calls of a process: a call
\* that returns OK returns a later instance than any that the process has seen end,
\* whatever requests and answers came late, were given up or were answered twice.
THEOREM OkIsForANewInstance ==
    ASSUME DefaultFlags
    PROVE  AgentsSpec => OkIsNew
<1>1. Numbered /\ AllAhead /\ [AgentsNext]_allVars =>
        [\A m \in answers : IsCurrent(m) /\ m.code = "OK" /\ ReceiveAnswer(m)
           => m.counter > agent[m.task].counter[m.barrier]]_allVars
  <2> SUFFICES ASSUME Numbered, AllAhead, NEW m \in answers, IsCurrent(m), m.code = "OK"
               PROVE  m.counter > agent[m.task].counter[m.barrier]
    OBVIOUS
  <2>1. /\ m.task \in Tasks /\ m.barrier \in UserBarriers /\ m.counter \in Int /\ m.call # 0
        /\ agent[m.task].counter[m.barrier] \in Int
    BY DEF Numbered, AgentState
  <2>2. agent[m.task].counter[m.barrier] < m.counter
    BY <2>1 DEF AllAhead, Ahead, IsCurrent
  <2> QED
    BY <2>1, <2>2
<1> QED
  BY <1>1, AlwaysAnswers, PTL DEF AgentsSpec, OkIsNew

=============================================================================
