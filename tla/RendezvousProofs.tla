-------------------------- MODULE RendezvousProofs --------------------------
(***************************************************************************)
(* Proofs about Rendezvous, for any threads, keys and number of calls.      *)
(* What makes the argument work: the threads that hold one RendezvousState  *)
(* share the key and the number of their call; its counters count the       *)
(* threads of the group that have come as far in that call, so that the     *)
(* leader, who finds the count full, is the only one and erases the state   *)
(* from the map before anybody can begin the next call.                    *)
(***************************************************************************)
EXTENDS Rendezvous, FiniteSetTheorems, TLAPS

Before == {"TryJoin", "load", "increment", "Join"}     \* begun, no state joined
After == {"exit", "decrement"}
RoundPlaces == {"ack", "write", "rel", "wait", "asleep", "Complete", "invoke", "ready",
                "signal", "return"}
Leading == {"Complete", "invoke", "ready", "signal"}

Values == Threads \X (1..MaxCalls)

RoundStates ==
    [ack: Nat, rel: Nat, values: [Slots -> Values \cup {Nil}], ready: BOOLEAN,
     result: (SUBSET (Values \cup {Nil})) \cup {Nil}]

TypeOK ==
    /\ setup \in Setups
    /\ map \in [{Key[t] : t \in Threads} -> States \cup {Nil}]
    /\ rounds \in [States -> RoundStates]
    /\ held \in [Threads -> States \cup {Nil}]
    /\ pc \in [Threads -> {"idle"} \cup Before \cup RoundPlaces \cup After]
    /\ id \in [Threads -> Nat]
    /\ flag \in Nat
    /\ seen \in [Threads -> Nat]
    /\ call \in [Threads -> 0..MaxCalls]
    /\ got \in [Threads -> [1..MaxCalls -> {Nil, Skipped} \cup SUBSET (Values \cup {Nil})]]
    /\ aborted \in BOOLEAN

InRound(t) == pc[t] \in RoundPlaces
State(t) == rounds[held[t]]

\* How far thread t has come in its n-th call.
HasAcked(t, n) == n < call[t] \/ (n = call[t] /\ pc[t] \notin Before \cup {"ack"})
HasWritten(t, n) == n < call[t] \/ (n = call[t] /\ pc[t] \notin Before \cup {"ack", "write"})
HasReleased(t, n) ==
    n < call[t] \/ (n = call[t] /\ pc[t] \notin Before \cup {"ack", "write", "rel"})
HasReturned(t, n) == n < call[t] \/ (n = call[t] /\ pc[t] \notin Before \cup RoundPlaces)

\* The threads of the group of t that have come as far in the call of t.
Ackers(t) == {u \in Group(t) : HasAcked(u, call[t])}
Writers(t) == {u \in Group(t) : HasWritten(u, call[t])}
Releasers(t) == {u \in Group(t) : HasReleased(u, call[t])}
Returners(t) == {u \in Group(t) : HasReturned(u, call[t])}

\* The threads inside an InFlightRendezvous.
InFlight == {t \in Threads : pc[t] \in {"Join"} \cup RoundPlaces \cup After}

\* The flag counts the threads in flight, and is completed when the last one leaves.
FlagCounts ==
    /\ UseFlag => flag = Cardinality(InFlight) \/ (flag = kCompleted /\ InFlight = {})
    /\ \A t \in Threads : pc[t] = "increment" /\ seen[t] = kCompleted => flag = kCompleted
    /\ ~UseFlag => flag = 0 /\ \A t \in Threads :
                                   pc[t] \notin {"TryJoin", "load", "increment"} \cup After

\* Who is in a round holds its state, and has others to meet; a call in progress is one
\* of 1..MaxCalls.
Hold ==
    \A t \in Threads :
        /\ held[t] # Nil <=> InRound(t)
        /\ InRound(t) => Size(t) > 1
        /\ pc[t] # "idle" => call[t] # 0

\* Nobody has returned from a call at which another thread of the group has not acked.
Together ==
    flag # kCompleted =>
        \A t, u \in Threads : Key[t] = Key[u] =>
            \A n \in 1..MaxCalls : HasReturned(t, n) => HasAcked(u, n)

\* A state belongs to one key and one call, and a call of a key has one state.
SameRound(t, u) == held[t] = held[u] <=> Key[t] = Key[u] /\ call[t] = call[u]

\* The counters of a state count the threads that have come as far.
Counted(t) ==
    /\ State(t).ack = Cardinality(Ackers(t))
    /\ HasResult => State(t).rel = Cardinality(Releasers(t))

\* The map has the state of a round until all have acked, and no longer than until the
\* leader has erased it; it names no state under another key.
Listed(t) ==
    /\ Ackers(t) # Group(t) => map[Key[t]] = held[t]
    /\ State(t).ready \/ pc[t] \in {"invoke", "ready", "signal"} => map[Key[t]] # held[t]
    /\ \A u \in Threads : map[Key[u]] = held[t] => Key[t] = Key[u]

\* The leader has found the counter full, so all have acked and, where values are read,
\* released; that stays true when the round is ready.  Nobody returns before it is ready,
\* and then nobody has yet to lead.
Full(t) == Ackers(t) = Group(t) /\ (HasResult => Releasers(t) = Group(t))

Over(t) ==
    /\ State(t).ready \/ pc[t] \in Leading => Full(t)
    /\ State(t).ready => pc[t] \notin {"Complete", "invoke", "ready"}
    /\ pc[t] \in {"signal", "return"} => State(t).ready
    /\ Returners(t) # {} => State(t).ready

\* One thread leads a round.
OneLeads(t, u) ==
    held[t] = held[u] =>
        /\ pc[t] \in Leading /\ pc[u] \in Leading => t = u
        /\ ~HasResult /\ (pc[t] \in Leading \/ State(t).ready) /\ pc[u] \in {"write", "rel"}
              => id[u] < Size(t) - 1

\* Each arrival has its own slot.
OwnSlot(t, u) ==
    pc[t] \in {"write", "rel"} =>
        /\ id[t] < State(t).ack
        /\ pc[u] \in {"write", "rel"} /\ held[u] = held[t] /\ id[u] = id[t] => u = t

\* What was written to the slots stays there.
ToBeWritten(t, k) == \E u \in Threads : held[u] = held[t] /\ pc[u] = "write" /\ id[u] = k

Stored(t) ==
    /\ \A k \in Slots : k < State(t).ack =>
          ToBeWritten(t, k) \/ \E u \in Group(t) : State(t).values[k] = <<u, call[t]>>
    /\ \A u \in Writers(t) : \E k \in Slots :
          k < State(t).ack /\ State(t).values[k] = <<u, call[t]>> /\ ~ToBeWritten(t, k)

\* The result of a round is made of the values of its call.
Computed(t) ==
    State(t).ready \/ pc[t] \in {"ready", "signal"} =>
        /\ State(t).result # Nil
        /\ HasResult => State(t).result = {<<u, call[t]>> : u \in Group(t)}

RoundInv ==
    /\ \A t \in Threads : InRound(t) =>
          Counted(t) /\ Listed(t) /\ Over(t) /\ Stored(t) /\ Computed(t)
    /\ \A t, u \in Threads : InRound(t) /\ InRound(u) =>
          SameRound(t, u) /\ OneLeads(t, u) /\ OwnSlot(t, u)

\* A call has a result when it has returned.
Recorded ==
    \A t \in Threads : \A n \in 1..MaxCalls : got[t][n] # Nil <=> HasReturned(t, n)

\* What every step preserves.
IInv ==
    TypeOK /\ FlagCounts /\ Hold /\ Together /\ RoundInv /\ Recorded /\ RoundsDoNotMix

-----------------------------------------------------------------------------
(* Groups, counts and how far a thread has come.                            *)

LEMMA Groups ==
  ASSUME NEW t \in Threads
  PROVE  /\ t \in Group(t) /\ Group(t) \subseteq Threads /\ IsFiniteSet(Group(t))
         /\ Size(t) \in Nat /\ Size(t) <= Cardinality(Threads)
         /\ \A u \in Threads : u \in Group(t) <=> Key[u] = Key[t]
         /\ \A u \in Threads : Key[u] = Key[t] => Group(u) = Group(t) /\ Size(u) = Size(t)
<1>1. t \in Group(t) /\ Group(t) \subseteq Threads
  BY DEF Group
<1>2. /\ IsFiniteSet(Group(t)) /\ Size(t) <= Cardinality(Threads)
      /\ Size(t) \in Nat
  BY <1>1, FS_Subset, FS_CardinalityType, RendezvousAssumption DEF Size
<1>3. \A u \in Threads : u \in Group(t) <=> Key[u] = Key[t]
  BY DEF Group
<1>4. \A u \in Threads : Key[u] = Key[t] => Group(u) = Group(t) /\ Size(u) = Size(t)
  BY DEF Group, Size
<1> QED  BY <1>1, <1>2, <1>3, <1>4

LEMMA SetupStays ==
  ASSUME UNCHANGED setup
  PROVE  /\ Key' = Key /\ (HasResult' <=> HasResult) /\ (UseFlag' <=> UseFlag)
         /\ \A t \in Threads : Group(t)' = Group(t) /\ Size(t)' = Size(t)
  BY DEF Key, HasResult, UseFlag, Group, Size

\* A part of a group that has as many threads as the group is the group.
LEMMA FullCount ==
  ASSUME NEW t \in Threads, NEW S \in SUBSET Group(t)
  PROVE  /\ IsFiniteSet(S) /\ Cardinality(S) \in Nat /\ Cardinality(S) <= Size(t)
         /\ Cardinality(S) = Size(t) => S = Group(t)
         /\ \A x : x \notin S => Cardinality(S \cup {x}) = Cardinality(S) + 1
<1>1. IsFiniteSet(Group(t)) /\ S \subseteq Group(t)
  BY Groups
<1>2. /\ IsFiniteSet(S) /\ Cardinality(S) <= Cardinality(Group(t))
      /\ Cardinality(S) = Cardinality(Group(t)) => S = Group(t)
  BY <1>1, FS_Subset
<1>3. Cardinality(S) \in Nat
  BY <1>2, FS_CardinalityType
<1>4. \A x : x \notin S => Cardinality(S \cup {x}) = Cardinality(S) + 1
  BY <1>2, FS_AddElement
<1> QED  BY <1>2, <1>3, <1>4 DEF Size

LEMMA InOrder ==
  ASSUME NEW t \in Threads, NEW n
  PROVE  /\ HasReturned(t, n) => HasReleased(t, n)
         /\ HasReleased(t, n) => HasWritten(t, n)
         /\ HasWritten(t, n) => HasAcked(t, n)
  BY DEF HasReturned, HasReleased, HasWritten, HasAcked, RoundPlaces

\* A thread that stays where it is.
LEMMA StaysThere ==
  ASSUME NEW u \in Threads, pc'[u] = pc[u], call'[u] = call[u]
  PROVE  /\ InRound(u)' <=> InRound(u)
         /\ \A n : /\ HasAcked(u, n)' <=> HasAcked(u, n)
                   /\ HasWritten(u, n)' <=> HasWritten(u, n)
                   /\ HasReleased(u, n)' <=> HasReleased(u, n)
                   /\ HasReturned(u, n)' <=> HasReturned(u, n)
  BY DEF InRound, HasAcked, HasWritten, HasReleased, HasReturned

\* The step of a thread in a round changes nothing about other calls than its own.
LEMMA OtherCalls ==
  ASSUME NEW t \in Threads, UNCHANGED call, NEW n, n # call[t]
  PROVE  /\ HasAcked(t, n)' <=> HasAcked(t, n)
         /\ HasWritten(t, n)' <=> HasWritten(t, n)
         /\ HasReleased(t, n)' <=> HasReleased(t, n)
         /\ HasReturned(t, n)' <=> HasReturned(t, n)
  BY DEF HasAcked, HasWritten, HasReleased, HasReturned

\* A thread in a round: its state and its call.
LEMMA Inside ==
  ASSUME IInv, NEW t \in Threads, InRound(t)
  PROVE  /\ held[t] \in States /\ State(t) \in RoundStates
         /\ call[t] \in 1..MaxCalls /\ call[t] \in Nat /\ Size(t) > 1
         /\ ~HasReturned(t, call[t])
         /\ Ackers(t) \subseteq Group(t) /\ Releasers(t) \subseteq Group(t)
         /\ flag # kCompleted
<1>1. held[t] \in States /\ State(t) \in RoundStates /\ Size(t) > 1
  BY DEF IInv, Hold, TypeOK, State
<1>2. call[t] \in 1..MaxCalls /\ call[t] \in Nat
  BY RendezvousAssumption DEF IInv, Hold, TypeOK, InRound, RoundPlaces
<1>3. ~HasReturned(t, call[t])
  BY <1>2 DEF HasReturned, InRound
<1>4. Ackers(t) \subseteq Group(t) /\ Releasers(t) \subseteq Group(t)
  BY DEF Ackers, Releasers
<1>5. flag # kCompleted
  <2>1. t \in InFlight /\ InFlight \subseteq Threads
    BY DEF InFlight, InRound
  <2>2. Cardinality(InFlight) <= Cardinality(Threads) /\ Cardinality(InFlight) \in Nat
    BY <2>1, FS_Subset, FS_CardinalityType, RendezvousAssumption
  <2>3. Cardinality(Threads) \in Nat
    BY FS_CardinalityType, RendezvousAssumption
  <2> QED  BY <2>1, <2>2, <2>3, RendezvousAssumption DEF IInv, FlagCounts, kCompleted
<1> QED  BY <1>1, <1>2, <1>3, <1>4, <1>5

\* Threads stay where they are, wait and wake up in a round, or move outside of the rounds:
\* not on to another call, or with nobody in a round that could wait for them.
LEMMA QuietStep ==
  ASSUME IInv, UNCHANGED <<setup, map, rounds, held>>,
         \A u \in Threads :
            \/ pc'[u] = pc[u] /\ call'[u] = call[u] /\ id'[u] = id[u]
            \/ /\ pc[u] \in {"wait", "asleep", "signal"} /\ pc'[u] \in {"wait", "asleep", "return"}
               /\ pc'[u] = "return" => State(u).ready
               /\ call'[u] = call[u] /\ id'[u] = id[u]
            \/ /\ ~InRound(u) /\ ~InRound(u)'
               /\ (\E v \in Threads : InRound(v) /\ u \in Group(v)) =>
                  \A n \in Nat : /\ HasAcked(u, n)' <=> HasAcked(u, n)
                                 /\ HasWritten(u, n)' <=> HasWritten(u, n)
                                 /\ HasReleased(u, n)' <=> HasReleased(u, n)
                                 /\ HasReturned(u, n)' <=> HasReturned(u, n)
  PROVE  RoundInv'
<1>1. ASSUME NEW u \in Threads
      PROVE  /\ InRound(u)' <=> InRound(u)
             /\ InRound(u) => call'[u] = call[u] /\ id'[u] = id[u]
             /\ (\E v \in Threads : InRound(v) /\ u \in Group(v)) =>
                \A n \in Nat : /\ HasAcked(u, n)' <=> HasAcked(u, n)
                               /\ HasWritten(u, n)' <=> HasWritten(u, n)
                               /\ HasReleased(u, n)' <=> HasReleased(u, n)
                               /\ HasReturned(u, n)' <=> HasReturned(u, n)
             /\ pc'[u] \in {"write", "rel"} <=> pc[u] \in {"write", "rel"}
             /\ pc'[u] = "write" <=> pc[u] = "write"
             /\ pc'[u] \in Leading => pc[u] \in Leading
             /\ pc'[u] \in {"invoke", "ready", "signal"} => pc[u] \in {"invoke", "ready", "signal"}
             /\ pc'[u] \in {"ready", "signal"} => pc[u] \in {"ready", "signal"}
             /\ pc'[u] \in {"Complete", "invoke", "ready"} =>
                   pc[u] \in {"Complete", "invoke", "ready"}
             /\ InRound(u) /\ pc'[u] \in {"signal", "return"} =>
                   State(u).ready \/ pc[u] \in {"signal", "return"}
  <2>1. CASE pc'[u] = pc[u] /\ call'[u] = call[u] /\ id'[u] = id[u]
    BY <2>1, StaysThere
  <2>2. CASE /\ pc[u] \in {"wait", "asleep", "signal"} /\ pc'[u] \in {"wait", "asleep", "return"}
             /\ pc'[u] = "return" => State(u).ready
             /\ call'[u] = call[u] /\ id'[u] = id[u]
    <3>1. \A n \in Nat : /\ HasAcked(u, n)' <=> HasAcked(u, n)
                         /\ HasWritten(u, n)' <=> HasWritten(u, n)
                         /\ HasReleased(u, n)' <=> HasReleased(u, n)
                         /\ HasReturned(u, n)' <=> HasReturned(u, n)
      BY <2>2 DEF HasAcked, HasWritten, HasReleased, HasReturned, Before, RoundPlaces
    <3> QED  BY <2>2, <3>1 DEF InRound, RoundPlaces, Leading
  <2>3. CASE /\ ~InRound(u) /\ ~InRound(u)'
             /\ (\E v \in Threads : InRound(v) /\ u \in Group(v)) =>
                \A n \in Nat : /\ HasAcked(u, n)' <=> HasAcked(u, n)
                               /\ HasWritten(u, n)' <=> HasWritten(u, n)
                               /\ HasReleased(u, n)' <=> HasReleased(u, n)
                               /\ HasReturned(u, n)' <=> HasReturned(u, n)
    BY <2>3 DEF InRound, RoundPlaces, Leading
  <2> QED  BY <2>1, <2>2, <2>3
<1>2. /\ Key' = Key /\ (HasResult' <=> HasResult)
      /\ \A t \in Threads : Group(t)' = Group(t) /\ Size(t)' = Size(t) /\ State(t)' = State(t)
  BY SetupStays DEF State
<1>3. ASSUME NEW t \in Threads, InRound(t)
      PROVE  /\ Ackers(t)' = Ackers(t) /\ Writers(t)' = Writers(t)
             /\ Releasers(t)' = Releasers(t) /\ Returners(t)' = Returners(t)
  <2>1. call'[t] = call[t] /\ call[t] \in Nat /\ Group(t) \subseteq Threads
    BY <1>1, <1>3, Inside, Groups
  <2>2. \A v \in Group(t) : /\ HasAcked(v, call[t])' <=> HasAcked(v, call[t])
                            /\ HasWritten(v, call[t])' <=> HasWritten(v, call[t])
                            /\ HasReleased(v, call[t])' <=> HasReleased(v, call[t])
                            /\ HasReturned(v, call[t])' <=> HasReturned(v, call[t])
    BY <1>1, <1>3, <2>1
  <2> QED  BY <1>2, <2>1, <2>2 DEF Ackers, Writers, Releasers, Returners
<1>4. ASSUME NEW t \in Threads, InRound(t)'
      PROVE  (Counted(t) /\ Listed(t) /\ Over(t) /\ Stored(t) /\ Computed(t))'
  <2>1. InRound(t) /\ Counted(t) /\ Listed(t) /\ Over(t) /\ Stored(t) /\ Computed(t)
    BY <1>1, <1>4 DEF IInv, RoundInv
  <2>2. Counted(t)'
    BY <1>2, <1>3, <2>1 DEF Counted
  <2>3. Listed(t)'
    BY <1>1, <1>2, <1>3, <2>1 DEF Listed
  <2>4. Over(t)'
    BY <1>1, <1>2, <1>3, <2>1 DEF Over, Full
  <2>5. Stored(t)'
    <3>1. \A k : ToBeWritten(t, k)' <=> ToBeWritten(t, k)
      BY <1>1 DEF ToBeWritten, InRound, RoundPlaces
    <3>2. call'[t] = call[t]
      BY <1>1, <2>1
    <3> QED  BY <1>2, <1>3, <2>1, <3>1, <3>2 DEF Stored
  <2>6. Computed(t)'
    BY <1>1, <1>2, <2>1 DEF Computed
  <2> QED  BY <2>2, <2>3, <2>4, <2>5, <2>6
<1>5. ASSUME NEW t \in Threads, NEW u \in Threads, InRound(t)', InRound(u)'
      PROVE  (SameRound(t, u) /\ OneLeads(t, u) /\ OwnSlot(t, u))'
  <2>1. /\ InRound(t) /\ InRound(u) /\ SameRound(t, u) /\ OneLeads(t, u) /\ OwnSlot(t, u)
        /\ call'[t] = call[t] /\ call'[u] = call[u] /\ id'[u] = id[u] /\ id'[t] = id[t]
    BY <1>1, <1>5 DEF IInv, RoundInv
  <2>2. SameRound(t, u)'
    BY <1>2, <2>1 DEF SameRound
  <2>3. OneLeads(t, u)'
    BY <1>1, <1>2, <2>1 DEF OneLeads
  <2>4. OwnSlot(t, u)'
    BY <1>1, <1>2, <2>1 DEF OwnSlot
  <2> QED  BY <2>2, <2>3, <2>4
<1> QED  BY <1>4, <1>5 DEF RoundInv

\* Two threads that hold the same state.
LEMMA SameState ==
  ASSUME IInv, NEW t \in Threads, NEW u \in Threads, InRound(t), InRound(u), held[u] = held[t]
  PROVE  /\ Key[u] = Key[t] /\ call[u] = call[t] /\ Group(u) = Group(t) /\ Size(u) = Size(t)
         /\ State(u) = State(t)
         /\ Ackers(u) = Ackers(t) /\ Writers(u) = Writers(t)
         /\ Releasers(u) = Releasers(t) /\ Returners(u) = Returners(t)
         /\ \A k : ToBeWritten(u, k) <=> ToBeWritten(t, k)
<1>1. Key[u] = Key[t] /\ call[u] = call[t]
  BY DEF IInv, RoundInv, SameRound
<1>2. Group(u) = Group(t) /\ Size(u) = Size(t)
  BY <1>1, Groups
<1> QED
  BY <1>1, <1>2 DEF State, Ackers, Writers, Releasers, Returners, ToBeWritten

\* A step inside a round leaves what is outside of the rounds as it was.
LEMMA InsideStep ==
  ASSUME IInv, NEW t \in Threads, InRound(t), InRound(t)', pc'[t] # "ack",
         UNCHANGED <<setup, held, call, flag, seen, got>>,
         \A u \in Threads : u # t => pc'[u] = pc[u] \/ (pc[u] = "asleep" /\ pc'[u] = "wait")
  PROVE  FlagCounts' /\ Hold' /\ Together' /\ Recorded' /\ RoundsDoNotMix'
<1>0. /\ Key' = Key /\ (HasResult' <=> HasResult) /\ (UseFlag' <=> UseFlag)
      /\ \A u \in Threads : Group(u)' = Group(u) /\ Size(u)' = Size(u)
  BY SetupStays
<1>1. \A u \in Threads : /\ InRound(u)' <=> InRound(u)
                         /\ pc'[u] # pc[u] => InRound(u)
  BY DEF InRound, RoundPlaces
<1>2. InFlight' = InFlight
  BY <1>1 DEF InFlight, InRound, After, RoundPlaces
<1>3. \A u \in Threads, n \in Nat : /\ HasReturned(u, n)' <=> HasReturned(u, n)
                                    /\ HasAcked(u, n) => HasAcked(u, n)'
  <2> SUFFICES ASSUME NEW u \in Threads, NEW n \in Nat
               PROVE  /\ HasReturned(u, n)' <=> HasReturned(u, n)
                      /\ HasAcked(u, n) => HasAcked(u, n)'
    OBVIOUS
  <2>1. CASE u = t
    BY <2>1 DEF HasReturned, HasAcked, InRound, RoundPlaces, Before
  <2>2. CASE u # t
    BY <2>2 DEF HasReturned, HasAcked, RoundPlaces, Before
  <2> QED  BY <2>1, <2>2
<1>4. FlagCounts'
  <2>1. \A u \in Threads : pc'[u] = "increment" => pc[u] = "increment"
    BY <1>1 DEF InRound, RoundPlaces
  <2>2. \A u \in Threads : pc[u] \notin {"TryJoin", "load", "increment"} \cup After =>
           pc'[u] \notin {"TryJoin", "load", "increment"} \cup After
    BY <1>1 DEF InRound, RoundPlaces, After
  <2> QED  BY <1>0, <1>2, <2>1, <2>2 DEF IInv, FlagCounts
<1>5. Hold'
  BY <1>0, <1>1 DEF IInv, Hold, InRound, RoundPlaces
<1>6. Together'
  BY <1>0, <1>3 DEF IInv, Together
<1>7. Recorded'
  BY <1>3 DEF IInv, Recorded
<1>8. RoundsDoNotMix'
  BY <1>0 DEF IInv, RoundsDoNotMix
<1> QED  BY <1>4, <1>5, <1>6, <1>7, <1>8

\* A step of t inside its round: the threads that hold another state are not affected,
\* those that hold the same one see the same changes.
LEMMA OwnStep ==
  ASSUME IInv, NEW t \in Threads, InRound(t), InRound(t)',
         UNCHANGED <<setup, held, call>>,
         \A k \in States : k # held[t] => rounds'[k] = rounds[k],
         \A u \in Threads : u # t =>
            /\ pc'[u] = pc[u] \/ (pc[u] = "asleep" /\ pc'[u] = "wait")
            /\ id'[u] = id[u]
  PROVE  /\ \A u \in Threads : InRound(u)' <=> InRound(u)
         /\ \A u \in Threads : u # t => \A n \in Nat :
               /\ HasAcked(u, n)' <=> HasAcked(u, n)
               /\ HasWritten(u, n)' <=> HasWritten(u, n)
               /\ HasReleased(u, n)' <=> HasReleased(u, n)
               /\ HasReturned(u, n)' <=> HasReturned(u, n)
         /\ \A u \in Threads : InRound(u) /\ held[u] = held[t] =>
               /\ State(u)' = State(t)'
               /\ Ackers(u)' = Ackers(t)' /\ Writers(u)' = Writers(t)'
               /\ Releasers(u)' = Releasers(t)' /\ Returners(u)' = Returners(t)'
               /\ \A k : ToBeWritten(u, k)' <=> ToBeWritten(t, k)'
         /\ \A u \in Threads : InRound(u) /\ held[u] # held[t] =>
               /\ Ackers(u)' = Ackers(u) /\ State(u)' = State(u)
               /\ Counted(u)' /\ Over(u)' /\ Stored(u)' /\ Computed(u)'
               /\ UNCHANGED map => Listed(u)'
         /\ \A u, v \in Threads : InRound(u) /\ InRound(v) =>
               /\ SameRound(u, v)'
               /\ held[u] # held[t] => OneLeads(u, v)' /\ OwnSlot(u, v)'
<1>0. /\ Key' = Key /\ (HasResult' <=> HasResult) /\ (UseFlag' <=> UseFlag)
      /\ \A u \in Threads : Group(u)' = Group(u) /\ Size(u)' = Size(u)
  BY SetupStays
<1>1. \A u \in Threads : InRound(u)' <=> InRound(u)
  BY DEF InRound, RoundPlaces
<1>2. ASSUME NEW u \in Threads, u # t, NEW n \in Nat
      PROVE  /\ HasAcked(u, n)' <=> HasAcked(u, n)
             /\ HasWritten(u, n)' <=> HasWritten(u, n)
             /\ HasReleased(u, n)' <=> HasReleased(u, n)
             /\ HasReturned(u, n)' <=> HasReturned(u, n)
  <2>1. CASE pc'[u] = pc[u]
    BY <2>1, StaysThere
  <2>2. CASE pc[u] = "asleep" /\ pc'[u] = "wait"
    BY <2>2 DEF HasAcked, HasWritten, HasReleased, HasReturned, RoundPlaces, Before
  <2> QED  BY <1>2, <2>1, <2>2
<1>3. ASSUME NEW u \in Threads, InRound(u), held[u] = held[t]
      PROVE  /\ State(u)' = State(t)'
             /\ Ackers(u)' = Ackers(t)' /\ Writers(u)' = Writers(t)'
             /\ Releasers(u)' = Releasers(t)' /\ Returners(u)' = Returners(t)'
             /\ \A k : ToBeWritten(u, k)' <=> ToBeWritten(t, k)'
  <2>1. call[u] = call[t] /\ Group(u) = Group(t) /\ Group(u)' = Group(t)'
    BY <1>0, <1>3, SameState
  <2> QED  BY <1>3, <2>1 DEF State, Ackers, Writers, Releasers, Returners, ToBeWritten
<1>4. ASSUME NEW u \in Threads, InRound(u), held[u] # held[t]
      PROVE  /\ Ackers(u)' = Ackers(u) /\ State(u)' = State(u)
             /\ Counted(u)' /\ Over(u)' /\ Stored(u)' /\ Computed(u)'
             /\ UNCHANGED map => Listed(u)'
  <2>1. held[u] \in States /\ call[u] \in Nat /\ u # t /\ call[t] \in Nat
    BY <1>4, Inside
  <2>2. t \in Group(u) => call[u] # call[t]
    BY <1>4, Groups DEF IInv, RoundInv, SameRound
  <2>3. \A v \in Group(u) : /\ HasAcked(v, call[u])' <=> HasAcked(v, call[u])
                            /\ HasWritten(v, call[u])' <=> HasWritten(v, call[u])
                            /\ HasReleased(v, call[u])' <=> HasReleased(v, call[u])
                            /\ HasReturned(v, call[u])' <=> HasReturned(v, call[u])
    <3> SUFFICES ASSUME NEW v \in Group(u)
                 PROVE  /\ HasAcked(v, call[u])' <=> HasAcked(v, call[u])
                        /\ HasWritten(v, call[u])' <=> HasWritten(v, call[u])
                        /\ HasReleased(v, call[u])' <=> HasReleased(v, call[u])
                        /\ HasReturned(v, call[u])' <=> HasReturned(v, call[u])
      OBVIOUS
    <3>1. v \in Threads
      BY Groups
    <3>2. \A n \in Nat : n = call[u] => n = call'[u]
      OBVIOUS
    <3>3. CASE v # t
      BY <1>2, <2>1, <3>1, <3>3
    <3>4. CASE v = t
      BY <2>1, <2>2, <3>4, OtherCalls
    <3> QED  BY <3>3, <3>4
  <2>4. /\ Ackers(u)' = Ackers(u) /\ Writers(u)' = Writers(u)
        /\ Releasers(u)' = Releasers(u) /\ Returners(u)' = Returners(u)
    BY <1>0, <2>3 DEF Ackers, Writers, Releasers, Returners
  <2>5. State(u)' = State(u) /\ \A k : ToBeWritten(u, k)' <=> ToBeWritten(u, k)
    <3>1. State(u)' = State(u)
      BY <1>4, <2>1 DEF State
    <3>2. \A v \in Threads : held[v] = held[u] =>
             (pc'[v] = "write" <=> pc[v] = "write") /\ id'[v] = id[v]
      BY <1>4
    <3> QED  BY <3>1, <3>2 DEF ToBeWritten
  <2>6. Counted(u) /\ Over(u) /\ Stored(u) /\ Computed(u) /\ Listed(u)
    BY <1>4 DEF IInv, RoundInv
  <2>7. Counted(u)'
    BY <1>0, <2>4, <2>5, <2>6 DEF Counted
  <2>8. Over(u)'
    BY <1>0, <2>1, <2>4, <2>5, <2>6 DEF Over, Full, Leading
  <2>9. Stored(u)'
    BY <1>0, <2>4, <2>5, <2>6 DEF Stored
  <2>10. Computed(u)'
    BY <1>0, <2>1, <2>4, <2>5, <2>6 DEF Computed
  <2>11. UNCHANGED map => Listed(u)'
    BY <1>0, <2>1, <2>4, <2>5, <2>6 DEF Listed
  <2> QED  BY <2>4, <2>5, <2>7, <2>8, <2>9, <2>10, <2>11
<1>5. ASSUME NEW u \in Threads, NEW v \in Threads, InRound(u), InRound(v)
      PROVE  /\ SameRound(u, v)'
             /\ held[u] # held[t] => OneLeads(u, v)' /\ OwnSlot(u, v)'
  <2>1. SameRound(u, v) /\ OneLeads(u, v) /\ OwnSlot(u, v)
    BY <1>5 DEF IInv, RoundInv
  <2>2. SameRound(u, v)'
    BY <1>0, <2>1 DEF SameRound
  <2>3. ASSUME held[u] # held[t], held[v] = held[u]
        PROVE  OneLeads(u, v)' /\ OwnSlot(u, v)'
    <3>1. State(u)' = State(u) /\ u # t /\ v # t /\ id'[u] = id[u] /\ id'[v] = id[v]
      BY <1>4, <1>5, <2>3
    <3> QED  BY <1>0, <2>1, <3>1 DEF OneLeads, OwnSlot, Leading
  <2>4. ASSUME held[u] # held[t], held[v] # held[u]
        PROVE  OneLeads(u, v)' /\ OwnSlot(u, v)'
    <3>1. State(u)' = State(u) /\ u # t /\ id'[u] = id[u]
      BY <1>4, <1>5, <2>4
    <3> QED  BY <2>1, <2>4, <3>1 DEF OneLeads, OwnSlot
  <2> QED  BY <2>2, <2>3, <2>4
<1> QED  BY <1>1, <1>2, <1>3, <1>4, <1>5

\* The place of a thread goes on from one to another.
LEMMA Gone ==
  ASSUME IInv, NEW t \in Threads, NEW from, NEW to, Go(t, from, to)
  PROVE  /\ pc[t] = from /\ pc'[t] = to
         /\ \A u \in Threads : u # t => pc'[u] = pc[u]
  BY DEF IInv, TypeOK, Go

-----------------------------------------------------------------------------
(* Every step inside a round keeps the invariant.                           *)

\* ack.fetch_add: one more has acked, and has the slot that nobody had.
LEMMA AckIInv ==
  ASSUME IInv, NEW t \in Threads, UNCHANGED setup, Ack(t)
  PROVE  IInv'
<1> DEFINE s == held[t]
           x == [rounds[s] EXCEPT !.ack = @ + 1]
<1>0. /\ pc[t] = "ack" /\ pc'[t] = "write" /\ \A u \in Threads : u # t => pc'[u] = pc[u]
      /\ pc' = [pc EXCEPT ![t] = "write"]
      /\ id' = [id EXCEPT ![t] = rounds[s].ack]
      /\ rounds' = [rounds EXCEPT ![s] = x]
      /\ UNCHANGED <<map, held, flag, seen, call, got, aborted>>
  BY Gone DEF Ack, Go
<1>1. InRound(t) /\ InRound(t)'
  BY <1>0 DEF InRound, RoundPlaces
<1>2. s \in States /\ rounds[s] \in RoundStates /\ call[t] \in Nat /\ State(t) = rounds[s]
  BY <1>1, Inside DEF State
<1>3. /\ x \in RoundStates /\ x.ack = State(t).ack + 1 /\ x.rel = State(t).rel
      /\ x.values = State(t).values /\ x.ready = State(t).ready /\ x.result = State(t).result
      /\ State(t).ack \in Nat
  BY <1>2 DEF RoundStates
<1> HIDE DEF x
<1>4. /\ State(t)' = x /\ rounds' \in [States -> RoundStates]
      /\ \A k \in States : k # held[t] => rounds'[k] = rounds[k]
      /\ \A u \in Threads : u # t => id'[u] = id[u]
      /\ id'[t] = State(t).ack
  BY <1>0, <1>2, <1>3 DEF State, IInv, TypeOK
<1>5. TypeOK'
  BY <1>0, <1>2, <1>3, <1>4, SetupStays DEF IInv, TypeOK, RoundPlaces, Key
<1>6. FlagCounts' /\ Hold' /\ Together' /\ Recorded' /\ RoundsDoNotMix'
  BY <1>0, <1>1, InsideStep
<1>7. /\ \A u \in Threads : InRound(u)' <=> InRound(u)
      /\ \A u \in Threads : u # t => \A n \in Nat :
            /\ HasAcked(u, n)' <=> HasAcked(u, n)
            /\ HasWritten(u, n)' <=> HasWritten(u, n)
            /\ HasReleased(u, n)' <=> HasReleased(u, n)
            /\ HasReturned(u, n)' <=> HasReturned(u, n)
      /\ \A u \in Threads : InRound(u) /\ held[u] = held[t] =>
            /\ State(u)' = State(t)'
            /\ Ackers(u)' = Ackers(t)' /\ Writers(u)' = Writers(t)'
            /\ Releasers(u)' = Releasers(t)' /\ Returners(u)' = Returners(t)'
            /\ \A k : ToBeWritten(u, k)' <=> ToBeWritten(t, k)'
      /\ \A u \in Threads : InRound(u) /\ held[u] # held[t] =>
            Counted(u)' /\ Over(u)' /\ Stored(u)' /\ Computed(u)' /\ Listed(u)'
      /\ \A u, v \in Threads : InRound(u) /\ InRound(v) =>
            /\ SameRound(u, v)'
            /\ held[u] # held[t] => OneLeads(u, v)' /\ OwnSlot(u, v)'
  BY <1>0, <1>1, <1>4, OwnStep
<1>8. /\ Ackers(t)' = Ackers(t) \cup {t} /\ t \notin Ackers(t)
      /\ Writers(t)' = Writers(t) /\ Releasers(t)' = Releasers(t) /\ Returners(t)' = Returners(t)
  <2>1. /\ HasAcked(t, call[t])' /\ ~HasAcked(t, call[t])
        /\ ~HasWritten(t, call[t])' /\ ~HasWritten(t, call[t])
        /\ ~HasReleased(t, call[t])' /\ ~HasReleased(t, call[t])
        /\ ~HasReturned(t, call[t])' /\ ~HasReturned(t, call[t])
    BY <1>0, <1>2 DEF HasAcked, HasWritten, HasReleased, HasReturned, RoundPlaces, Before
  <2>2. Group(t)' = Group(t) /\ Group(t) \subseteq Threads /\ t \in Group(t) /\ call'[t] = call[t]
    BY <1>0, SetupStays, Groups
  <2>3. \A u \in Group(t) : u # t =>
           /\ HasAcked(u, call[t])' <=> HasAcked(u, call[t])
           /\ HasWritten(u, call[t])' <=> HasWritten(u, call[t])
           /\ HasReleased(u, call[t])' <=> HasReleased(u, call[t])
           /\ HasReturned(u, call[t])' <=> HasReturned(u, call[t])
    BY <1>0, <1>2, <1>7, <2>2
  <2> QED  BY <2>1, <2>2, <2>3 DEF Ackers, Writers, Releasers, Returners
<1>9. Counted(t) /\ Listed(t) /\ Over(t) /\ Stored(t) /\ Ackers(t) \in SUBSET Group(t)
  BY <1>1, Inside DEF IInv, RoundInv
<1>10. Key' = Key /\ (HasResult' <=> HasResult)
      /\ \A u \in Threads : Group(u)' = Group(u) /\ Size(u)' = Size(u)
  BY SetupStays
<1>11. ASSUME NEW u \in Threads, InRound(u), held[u] = held[t]
       PROVE  ~State(u).ready /\ pc[u] \notin Leading /\ pc'[u] \notin Leading
  <2>1. ~Full(u)
    <3>1. Ackers(u) = Ackers(t) /\ Group(u) = Group(t) /\ t \in Group(t)
      BY <1>1, <1>11, SameState, Groups
    <3> QED  BY <1>8, <3>1 DEF Full
  <2>2. ~State(u).ready /\ pc[u] \notin Leading
    BY <1>11, <2>1 DEF IInv, RoundInv, Over
  <2> QED  BY <1>0, <2>2 DEF Leading
<1>12. ASSUME NEW u \in Threads, InRound(u), held[u] = held[t]
       PROVE  (Counted(u) /\ Over(u) /\ Stored(u) /\ Computed(u) /\ Listed(u))'
  <2>1. /\ State(u) = State(t) /\ State(u)' = x /\ Group(u) = Group(t) /\ call[u] = call[t]
        /\ Ackers(u) = Ackers(t) /\ Writers(u) = Writers(t)
        /\ Releasers(u) = Releasers(t) /\ Returners(u) = Returners(t)
    BY <1>1, <1>4, <1>7, <1>12, SameState
  <2>2. /\ Ackers(u)' = Ackers(t) \cup {t} /\ Writers(u)' = Writers(t)
        /\ Releasers(u)' = Releasers(t) /\ Returners(u)' = Returners(t)
    BY <1>7, <1>8, <1>12
  <2>3. Counted(u)'
    <3>1. Cardinality(Ackers(t) \cup {t}) = Cardinality(Ackers(t)) + 1
      BY <1>8, <1>9, FullCount
    <3> QED  BY <1>3, <1>9, <1>10, <2>1, <2>2, <3>1 DEF Counted
  <2>4. ~State(u)'.ready /\ pc'[u] \notin Leading /\ Returners(u)' = {}
    BY <1>3, <1>11, <1>12, <2>1, <2>2 DEF IInv, RoundInv, Over
  <2>5. pc'[u] \notin {"signal", "return"}
    <3>1. pc[u] \notin {"signal", "return"}
      BY <1>11, <1>12 DEF IInv, RoundInv, Over
    <3> QED  BY <1>0, <3>1
  <2>6. Over(u)'
    BY <2>4, <2>5 DEF Over
  <2>7. Computed(u)'
    BY <2>4, <2>5 DEF Computed, Leading
  <2>8. Listed(u)'
    <3>1. Ackers(u)' # Group(u) => Ackers(u) # Group(u)
      BY <1>9, <2>1, <2>2, Groups
    <3>2. Listed(u)
      BY <1>12 DEF IInv, RoundInv
    <3> QED  BY <1>0, <1>10, <2>4, <3>1, <3>2 DEF Listed, Leading
  <2>9. Stored(u)'
    <3>1. \A k : ToBeWritten(u, k)' <=> ToBeWritten(t, k) \/ k = State(t).ack
      <4>1. \A k : ToBeWritten(u, k)' <=> ToBeWritten(t, k)'
        BY <1>7, <1>12
      <4> QED  BY <1>0, <1>4, <4>1 DEF ToBeWritten
    <3>2. \A k \in Slots : k < State(t).ack + 1 => k < State(t).ack \/ k = State(t).ack
      BY <1>3 DEF Slots
    <3>3. \A k \in Slots : k < State(t).ack => k # State(t).ack /\ k < State(t).ack + 1
      BY <1>3 DEF Slots
    <3>4. call'[u] = call[t] /\ Group(u)' = Group(t)
      BY <1>0, <1>10, <2>1
    <3> QED  BY <1>3, <1>9, <2>1, <2>2, <3>1, <3>2, <3>3, <3>4 DEF Stored
  <2> QED  BY <2>3, <2>6, <2>7, <2>8, <2>9
<1>13. ASSUME NEW u \in Threads, NEW v \in Threads, InRound(u), InRound(v), held[u] = held[t]
       PROVE  OneLeads(u, v)' /\ OwnSlot(u, v)'
  <2>1. State(u)' = x /\ State(u) = State(t)
    BY <1>1, <1>4, <1>7, <1>13, SameState
  <2>2. OneLeads(u, v)'
    BY <1>3, <1>11, <1>13, <2>1 DEF OneLeads
  <2>3. \A w \in Threads : InRound(w) /\ held[w] = held[t] /\ pc[w] \in {"write", "rel"} =>
           id[w] \in Nat /\ id[w] < State(t).ack
    <3> SUFFICES ASSUME NEW w \in Threads, InRound(w), held[w] = held[t],
                        pc[w] \in {"write", "rel"}
                 PROVE  id[w] \in Nat /\ id[w] < State(t).ack
      OBVIOUS
    <3>1. State(w) = State(t) /\ OwnSlot(w, w)
      BY <1>1, SameState DEF IInv, RoundInv
    <3> QED  BY <3>1 DEF OwnSlot, IInv, TypeOK
  <2>4. OwnSlot(u, v)
    BY <1>13 DEF IInv, RoundInv
  <2> DEFINE a == State(t).ack
  <2>5. \A w \in Threads : InRound(w) /\ held[w] = held[t] /\ pc'[w] \in {"write", "rel"} =>
           /\ id'[w] < a + 1
           /\ w # t => id'[w] < a /\ id'[w] = id[w] /\ pc[w] \in {"write", "rel"}
    <3>1. a < a + 1 /\ \A n \in Nat : n < a => n < a + 1
      BY <1>3
    <3> QED  BY <1>0, <1>4, <2>3, <3>1
  <2>6. id'[t] = a /\ \A n \in Nat : n < a => n # a
    BY <1>3, <1>4
  <2>7. x.ack = a + 1
    BY <1>3
  <2>8. \A w \in Threads : id[w] \in Nat
    BY DEF IInv, TypeOK
  <2> HIDE DEF a
  <2>9. pc'[u] \in {"write", "rel"} => id'[u] < x.ack
    BY <1>13, <2>5, <2>7
  <2>10. (/\ pc'[u] \in {"write", "rel"} /\ pc'[v] \in {"write", "rel"}
          /\ held[v] = held[u] /\ id'[v] = id'[u]) => v = u
    <3> SUFFICES ASSUME pc'[u] \in {"write", "rel"}, pc'[v] \in {"write", "rel"},
                        held[v] = held[u], id'[v] = id'[u]
                 PROVE  v = u
      OBVIOUS
    <3>1. CASE u = t
      BY <1>13, <2>5, <2>6, <2>8, <3>1
    <3>2. CASE v = t
      BY <1>13, <2>5, <2>6, <2>8, <3>2
    <3>3. CASE u # t /\ v # t
      BY <1>13, <2>4, <2>5, <3>3 DEF OwnSlot
    <3> QED  BY <3>1, <3>2, <3>3
  <2>11. OwnSlot(u, v)'
    BY <1>0, <2>1, <2>9, <2>10 DEF OwnSlot
  <2> QED  BY <2>2, <2>11
<1>14. RoundInv'
  BY <1>7, <1>12, <1>13 DEF RoundInv
<1> QED  BY <1>5, <1>6, <1>14 DEF IInv

\* The others are told of the arrival and the value goes to its slot: nobody else writes
\* to that one.
LEMMA WriteIInv ==
  ASSUME IInv, NEW t \in Threads, UNCHANGED setup, Write(t)
  PROVE  IInv'
<1> DEFINE s == held[t]
           vs == [rounds[s].values EXCEPT ![id[t]] = <<t, call[t]>>]
           x == [rounds[s] EXCEPT !.values = vs]
<1>0. /\ pc[t] = "write" /\ pc'[t] = "rel"
      /\ \A u \in Threads : u # t => pc'[u] = pc[u] \/ (pc[u] = "asleep" /\ pc'[u] = "wait")
      /\ pc' \in [Threads -> {"idle"} \cup Before \cup RoundPlaces \cup After]
      /\ rounds' = [rounds EXCEPT ![s] = x]
      /\ UNCHANGED <<map, held, id, flag, seen, call, got, aborted>>
  <2>1. pc \in [Threads -> {"idle"} \cup Before \cup RoundPlaces \cup After]
    BY DEF IInv, TypeOK
  <2>2. SignalAll(t, "write", "rel")
    BY DEF Write
  <2>3. "rel" \in RoundPlaces /\ "wait" \in RoundPlaces
    BY DEF RoundPlaces
  <2>4. /\ pc[t] = "write" /\ pc'[t] = "rel"
        /\ \A u \in Threads : u # t => pc'[u] = pc[u] \/ (pc[u] = "asleep" /\ pc'[u] = "wait")
        /\ pc' \in [Threads -> {"idle"} \cup Before \cup RoundPlaces \cup After]
    BY <2>1, <2>2, <2>3 DEF SignalAll, Woken
  <2> QED  BY <2>4 DEF Write
<1>1. InRound(t) /\ InRound(t)'
  BY <1>0 DEF InRound, RoundPlaces
<1>2. /\ s \in States /\ rounds[s] \in RoundStates /\ call[t] \in Nat /\ State(t) = rounds[s]
      /\ call[t] \in 1..MaxCalls
  BY <1>1, Inside DEF State
<1>3. Counted(t) /\ Stored(t) /\ Ackers(t) \in SUBSET Group(t) /\ OwnSlot(t, t)
  BY <1>1, Inside DEF IInv, RoundInv
<1>4. id[t] \in Slots /\ id[t] < State(t).ack
  <2>1. State(t).ack <= Size(t) /\ State(t).ack \in Nat
    BY <1>3, FullCount DEF Counted
  <2>2. Size(t) <= Cardinality(Threads) /\ Size(t) \in Nat /\ Cardinality(Threads) \in Nat
    BY Groups, FS_CardinalityType, RendezvousAssumption
  <2>3. id[t] < State(t).ack /\ id[t] \in Nat
    BY <1>0, <1>3 DEF OwnSlot, IInv, TypeOK
  <2> QED  BY <2>1, <2>2, <2>3 DEF Slots
<1>5. /\ x \in RoundStates /\ x.ack = State(t).ack /\ x.rel = State(t).rel
      /\ x.ready = State(t).ready /\ x.result = State(t).result /\ x.values = vs
      /\ vs[id[t]] = <<t, call[t]>> /\ \A k \in Slots : k # id[t] => vs[k] = State(t).values[k]
  <2>1. State(t).values \in [Slots -> Values \cup {Nil}] /\ <<t, call[t]>> \in Values
    BY <1>2 DEF RoundStates, Values
  <2>2. vs \in [Slots -> Values \cup {Nil}]
    BY <1>2, <2>1
  <2>3. vs[id[t]] = <<t, call[t]>> /\ \A k \in Slots : k # id[t] => vs[k] = State(t).values[k]
    BY <1>2, <1>4, <2>1
  <2> HIDE DEF vs
  <2> QED  BY <1>2, <2>2, <2>3 DEF RoundStates
<1> HIDE DEF x, vs
<1>6. /\ State(t)' = x /\ rounds' \in [States -> RoundStates]
      /\ \A k \in States : k # held[t] => rounds'[k] = rounds[k]
  BY <1>0, <1>2, <1>5 DEF State, IInv, TypeOK
<1>7. TypeOK'
  BY <1>0, <1>6, SetupStays DEF IInv, TypeOK, Key
<1>8. FlagCounts' /\ Hold' /\ Together' /\ Recorded' /\ RoundsDoNotMix'
  BY <1>0, <1>1, InsideStep
<1>9. /\ \A u \in Threads : InRound(u)' <=> InRound(u)
      /\ \A u \in Threads : u # t => \A n \in Nat :
            /\ HasAcked(u, n)' <=> HasAcked(u, n)
            /\ HasWritten(u, n)' <=> HasWritten(u, n)
            /\ HasReleased(u, n)' <=> HasReleased(u, n)
            /\ HasReturned(u, n)' <=> HasReturned(u, n)
      /\ \A u \in Threads : InRound(u) /\ held[u] = held[t] =>
            /\ State(u)' = State(t)'
            /\ Ackers(u)' = Ackers(t)' /\ Writers(u)' = Writers(t)'
            /\ Releasers(u)' = Releasers(t)' /\ Returners(u)' = Returners(t)'
            /\ \A k : ToBeWritten(u, k)' <=> ToBeWritten(t, k)'
      /\ \A u \in Threads : InRound(u) /\ held[u] # held[t] =>
            Counted(u)' /\ Over(u)' /\ Stored(u)' /\ Computed(u)' /\ Listed(u)'
      /\ \A u, v \in Threads : InRound(u) /\ InRound(v) =>
            /\ SameRound(u, v)'
            /\ held[u] # held[t] => OneLeads(u, v)' /\ OwnSlot(u, v)'
  BY <1>0, <1>1, <1>6, OwnStep
<1>10. /\ Ackers(t)' = Ackers(t) /\ Writers(t)' = Writers(t) \cup {t}
       /\ Releasers(t)' = Releasers(t) /\ Returners(t)' = Returners(t)
  <2>1. /\ HasAcked(t, call[t])' /\ HasAcked(t, call[t]) /\ HasWritten(t, call[t])'
        /\ ~HasReleased(t, call[t])' /\ ~HasReleased(t, call[t])
        /\ ~HasReturned(t, call[t])' /\ ~HasReturned(t, call[t])
    BY <1>0, <1>2 DEF HasAcked, HasWritten, HasReleased, HasReturned, RoundPlaces, Before
  <2>2. Group(t)' = Group(t) /\ Group(t) \subseteq Threads /\ t \in Group(t) /\ call'[t] = call[t]
    BY <1>0, SetupStays, Groups
  <2>3. \A u \in Group(t) : u # t =>
           /\ HasAcked(u, call[t])' <=> HasAcked(u, call[t])
           /\ HasWritten(u, call[t])' <=> HasWritten(u, call[t])
           /\ HasReleased(u, call[t])' <=> HasReleased(u, call[t])
           /\ HasReturned(u, call[t])' <=> HasReturned(u, call[t])
    BY <1>0, <1>2, <1>9, <2>2
  <2> QED  BY <2>1, <2>2, <2>3 DEF Ackers, Writers, Releasers, Returners
<1>11. Key' = Key /\ (HasResult' <=> HasResult)
       /\ \A u \in Threads : Group(u)' = Group(u) /\ Size(u)' = Size(u)
  BY SetupStays
<1>12. \A k : ToBeWritten(t, k)' <=> ToBeWritten(t, k) /\ k # id[t]
  <2>1. \A u \in Threads : held[u] = held[t] /\ pc[u] = "write" /\ id[u] = id[t] => u = t
    <3> SUFFICES ASSUME NEW u \in Threads, held[u] = held[t], pc[u] = "write", id[u] = id[t]
                 PROVE  u = t
      OBVIOUS
    <3>1. InRound(u)
      BY DEF InRound, RoundPlaces
    <3> QED  BY <1>0, <1>1, <3>1 DEF IInv, RoundInv, OwnSlot
  <2>2. \A u \in Threads : pc'[u] = "write" <=> pc[u] = "write" /\ u # t
    BY <1>0
  <2> QED  BY <1>0, <2>1, <2>2 DEF ToBeWritten
<1>13. ASSUME NEW u \in Threads, InRound(u), held[u] = held[t]
       PROVE  (Counted(u) /\ Over(u) /\ Stored(u) /\ Computed(u) /\ Listed(u))'
  <2>1. /\ State(u) = State(t) /\ State(u)' = x /\ Group(u) = Group(t) /\ call[u] = call[t]
        /\ Ackers(u) = Ackers(t) /\ Writers(u) = Writers(t)
        /\ Releasers(u) = Releasers(t) /\ Returners(u) = Returners(t)
    BY <1>1, <1>6, <1>9, <1>13, SameState
  <2>2. /\ Ackers(u)' = Ackers(u) /\ Writers(u)' = Writers(t) \cup {t}
        /\ Releasers(u)' = Releasers(u) /\ Returners(u)' = Returners(u)
        /\ \A k : ToBeWritten(u, k)' <=> ToBeWritten(t, k)'
    BY <1>9, <1>10, <1>13, <2>1
  <2>3. Counted(u) /\ Over(u) /\ Computed(u) /\ Listed(u)
    BY <1>13 DEF IInv, RoundInv
  <2>4. Counted(u)'
    BY <1>5, <1>11, <2>1, <2>2, <2>3 DEF Counted
  <2>5. /\ pc'[u] \in Leading => pc[u] \in Leading
        /\ pc'[u] \in {"Complete", "invoke", "ready"} => pc[u] \in {"Complete", "invoke", "ready"}
        /\ pc'[u] \in {"invoke", "ready", "signal"} => pc[u] \in {"invoke", "ready", "signal"}
        /\ pc'[u] \in {"ready", "signal"} => pc[u] \in {"ready", "signal"}
        /\ pc'[u] \in {"signal", "return"} => pc[u] \in {"signal", "return"}
    BY <1>0 DEF Leading
  <2>6. Over(u)'
    BY <1>5, <1>11, <2>1, <2>2, <2>3, <2>5 DEF Over, Full
  <2>7. Computed(u)'
    BY <1>0, <1>5, <1>11, <2>1, <2>3, <2>5 DEF Computed
  <2>8. Listed(u)'
    BY <1>0, <1>5, <1>11, <2>1, <2>2, <2>3, <2>5 DEF Listed
  <2>9. Stored(u)'
    <3>1. \A k \in Slots : k < x.ack =>
             ToBeWritten(u, k)' \/ \E w \in Group(t) : x.values[k] = <<w, call[t]>>
      <4> SUFFICES ASSUME NEW k \in Slots, k < State(t).ack, ~ToBeWritten(u, k)'
                   PROVE  \E w \in Group(t) : x.values[k] = <<w, call[t]>>
        BY <1>5
      <4>1. CASE k = id[t]
        BY <1>5, <4>1, Groups
      <4>2. CASE k # id[t]
        BY <1>3, <1>5, <1>12, <2>2, <4>2 DEF Stored
      <4> QED  BY <4>1, <4>2
    <3>2. \A w \in Writers(t) \cup {t} : \E k \in Slots :
             k < x.ack /\ x.values[k] = <<w, call[t]>> /\ ~ToBeWritten(u, k)'
      <4> SUFFICES ASSUME NEW w \in Writers(t) \cup {t}
                   PROVE  \E k \in Slots : /\ k < State(t).ack /\ x.values[k] = <<w, call[t]>>
                                           /\ ~ToBeWritten(u, k)'
        BY <1>5
      <4>1. CASE w = t
        BY <1>4, <1>5, <1>12, <2>2, <4>1
      <4>2. CASE w # t
        <5>1. PICK k \in Slots : /\ k < State(t).ack /\ State(t).values[k] = <<w, call[t]>>
                                 /\ ~ToBeWritten(t, k)
          BY <1>3, <4>2 DEF Stored
        <5>2. k # id[t]
          BY <1>0, <5>1 DEF ToBeWritten
        <5> QED  BY <1>5, <1>12, <2>2, <5>1, <5>2
      <4> QED  BY <4>1, <4>2
    <3>3. call'[u] = call[t] /\ Group(u)' = Group(t)
      BY <1>0, <1>11, <2>1
    <3> QED  BY <2>1, <2>2, <3>1, <3>2, <3>3 DEF Stored
  <2> QED  BY <2>4, <2>6, <2>7, <2>8, <2>9
<1>14. ASSUME NEW u \in Threads, NEW v \in Threads, InRound(u), InRound(v), held[u] = held[t]
       PROVE  OneLeads(u, v)' /\ OwnSlot(u, v)'
  <2>1. State(u)' = x /\ State(u) = State(t)
    BY <1>1, <1>6, <1>9, <1>14, SameState
  <2>2. OneLeads(u, v) /\ OwnSlot(u, v)
    BY <1>14 DEF IInv, RoundInv
  <2>3. \A w \in Threads :
           /\ pc'[w] \in Leading => pc[w] \in Leading
           /\ pc'[w] \in {"write", "rel"} => pc[w] \in {"write", "rel"}
    BY <1>0 DEF Leading
  <2>4. OneLeads(u, v)'
    BY <1>0, <1>5, <1>11, <2>1, <2>2, <2>3 DEF OneLeads
  <2>5. OwnSlot(u, v)'
    BY <1>0, <1>5, <2>1, <2>2, <2>3 DEF OwnSlot
  <2> QED  BY <2>4, <2>5
<1>15. RoundInv'
  BY <1>9, <1>13, <1>14 DEF RoundInv
<1> QED  BY <1>7, <1>8, <1>15 DEF IInv

\* rel.fetch_add: who finds the counter full is the last one, and leads.
LEMMA RelIInv ==
  ASSUME IInv, NEW t \in Threads, UNCHANGED setup, Rel(t)
  PROVE  IInv'
<1> DEFINE s == held[t]
           l == LeaderId(t)
           x == IF HasResult THEN [rounds[s] EXCEPT !.rel = @ + 1] ELSE rounds[s]
<1>0. /\ pc[t] = "rel" /\ pc'[t] \in {"wait", "Complete"}
      /\ pc'[t] = "Complete" => l >= Size(t) - 1
      /\ \A u \in Threads : u # t => pc'[u] = pc[u]
      /\ pc' \in [Threads -> {"idle"} \cup Before \cup RoundPlaces \cup After]
      /\ id' = [id EXCEPT ![t] = l]
      /\ UNCHANGED <<map, held, flag, seen, call, got, aborted>>
  <2>1. pc \in [Threads -> {"idle"} \cup Before \cup RoundPlaces \cup After]
    BY DEF IInv, TypeOK
  <2>2. PICK to \in {"wait", "Complete"} :
           Go(t, "rel", to) /\ (to = "Complete" => l >= Size(t) - 1)
    BY DEF Rel
  <2>3. to \in RoundPlaces
    BY DEF RoundPlaces
  <2>4. pc' \in [Threads -> {"idle"} \cup Before \cup RoundPlaces \cup After]
    BY <2>1, <2>2, <2>3 DEF Go
  <2> QED  BY <2>2, <2>4, Gone DEF Rel
<1>1. InRound(t) /\ InRound(t)'
  BY <1>0 DEF InRound, RoundPlaces
<1>2. s \in States /\ rounds[s] \in RoundStates /\ call[t] \in Nat /\ State(t) = rounds[s]
  BY <1>1, Inside DEF State
<1>3. /\ rounds' = [rounds EXCEPT ![s] = x]
      /\ x \in RoundStates /\ x.ack = State(t).ack /\ x.values = State(t).values
      /\ x.ready = State(t).ready /\ x.result = State(t).result
      /\ State(t).ack \in Nat /\ State(t).rel \in Nat
      /\ HasResult => x.rel = State(t).rel + 1
  <2>1. CASE HasResult
    <3>1. x = [rounds[s] EXCEPT !.rel = @ + 1]
      BY <2>1
    <3>2. rounds' = [rounds EXCEPT ![s] = x]
      BY <2>1 DEF Rel
    <3> HIDE DEF x
    <3> QED  BY <1>2, <3>1, <3>2 DEF RoundStates
  <2>2. CASE ~HasResult
    <3>1. rounds' = rounds /\ x = rounds[s]
      BY <2>2 DEF Rel
    <3>2. [rounds EXCEPT ![s] = rounds[s]] = rounds
      BY <1>2 DEF IInv, TypeOK
    <3> HIDE DEF x
    <3> QED  BY <1>2, <2>2, <3>1, <3>2 DEF RoundStates
  <2> QED  BY <2>1, <2>2
<1> HIDE DEF x
<1>4. /\ State(t)' = x /\ rounds' \in [States -> RoundStates]
      /\ \A k \in States : k # held[t] => rounds'[k] = rounds[k]
      /\ \A u \in Threads : u # t => id'[u] = id[u]
  BY <1>0, <1>2, <1>3 DEF State, IInv, TypeOK
<1>5. TypeOK'
  <2>1. l \in Nat
    BY <1>2, <1>3 DEF LeaderId, IInv, TypeOK
  <2> QED  BY <1>0, <1>4, <2>1, SetupStays DEF IInv, TypeOK, Key
<1>6. FlagCounts' /\ Hold' /\ Together' /\ Recorded' /\ RoundsDoNotMix'
  BY <1>0, <1>1, InsideStep
<1>7. /\ \A u \in Threads : InRound(u)' <=> InRound(u)
      /\ \A u \in Threads : u # t => \A n \in Nat :
            /\ HasAcked(u, n)' <=> HasAcked(u, n)
            /\ HasWritten(u, n)' <=> HasWritten(u, n)
            /\ HasReleased(u, n)' <=> HasReleased(u, n)
            /\ HasReturned(u, n)' <=> HasReturned(u, n)
      /\ \A u \in Threads : InRound(u) /\ held[u] = held[t] =>
            /\ State(u)' = State(t)'
            /\ Ackers(u)' = Ackers(t)' /\ Writers(u)' = Writers(t)'
            /\ Releasers(u)' = Releasers(t)' /\ Returners(u)' = Returners(t)'
            /\ \A k : ToBeWritten(u, k)' <=> ToBeWritten(t, k)'
      /\ \A u \in Threads : InRound(u) /\ held[u] # held[t] =>
            Counted(u)' /\ Over(u)' /\ Stored(u)' /\ Computed(u)' /\ Listed(u)'
      /\ \A u, v \in Threads : InRound(u) /\ InRound(v) =>
            /\ SameRound(u, v)'
            /\ held[u] # held[t] => OneLeads(u, v)' /\ OwnSlot(u, v)'
  BY <1>0, <1>1, <1>4, OwnStep
<1>8. /\ Ackers(t)' = Ackers(t) /\ Writers(t)' = Writers(t) /\ Returners(t)' = Returners(t)
      /\ Releasers(t)' = Releasers(t) \cup {t} /\ t \notin Releasers(t)
  <2>1. /\ HasAcked(t, call[t])' /\ HasAcked(t, call[t])
        /\ HasWritten(t, call[t])' /\ HasWritten(t, call[t])
        /\ HasReleased(t, call[t])' /\ ~HasReleased(t, call[t])
        /\ ~HasReturned(t, call[t])' /\ ~HasReturned(t, call[t])
    BY <1>0, <1>2 DEF HasAcked, HasWritten, HasReleased, HasReturned, RoundPlaces, Before
  <2>2. Group(t)' = Group(t) /\ Group(t) \subseteq Threads /\ t \in Group(t) /\ call'[t] = call[t]
    BY <1>0, SetupStays, Groups
  <2>3. \A u \in Group(t) : u # t =>
           /\ HasAcked(u, call[t])' <=> HasAcked(u, call[t])
           /\ HasWritten(u, call[t])' <=> HasWritten(u, call[t])
           /\ HasReleased(u, call[t])' <=> HasReleased(u, call[t])
           /\ HasReturned(u, call[t])' <=> HasReturned(u, call[t])
    BY <1>0, <1>2, <1>7, <2>2
  <2> QED  BY <2>1, <2>2, <2>3 DEF Ackers, Writers, Releasers, Returners
<1>9. /\ Counted(t) /\ Stored(t) /\ OneLeads(t, t) /\ OwnSlot(t, t) /\ Over(t)
      /\ Ackers(t) \in SUBSET Group(t) /\ Releasers(t) \in SUBSET Group(t)
  BY <1>1, Inside DEF IInv, RoundInv
<1>10. Key' = Key /\ (HasResult' <=> HasResult)
       /\ \A u \in Threads : Group(u)' = Group(u) /\ Size(u)' = Size(u)
  BY SetupStays
<1>11. Cardinality(Releasers(t)') = Cardinality(Releasers(t)) + 1
  BY <1>8, <1>9, FullCount
<1>12. ASSUME pc'[t] = "Complete"
       PROVE  /\ Ackers(t) = Group(t)
              /\ HasResult => Releasers(t)' = Group(t)
              /\ ~HasResult => id[t] >= Size(t) - 1 /\ State(t).ack = Size(t)
  <2>1. Size(t) \in Nat
    BY Groups
  <2>2. CASE HasResult
    <3>1. l = Cardinality(Releasers(t))
      BY <1>2, <1>9, <2>2 DEF LeaderId, Counted
    <3>2. Releasers(t)' \in SUBSET Group(t)
      BY <1>8, <1>9, Groups
    <3>3. Cardinality(Releasers(t)') \in Nat /\ Cardinality(Releasers(t)') <= Size(t)
          /\ Cardinality(Releasers(t)) \in Nat
      BY <1>9, <3>2, FullCount
    <3>4. Cardinality(Releasers(t)') = Size(t)
      BY <1>0, <1>11, <1>12, <2>1, <3>1, <3>3
    <3>5. Releasers(t)' = Group(t)
      BY <3>2, <3>4, FullCount
    <3>6. Ackers(t) = Group(t)
      <4>1. \A u \in Group(t) : u \in Releasers(t) \/ u = t
        BY <1>8, <3>5
      <4>2. HasAcked(t, call[t])
        BY <1>0 DEF HasAcked, Before
      <4>3. \A u \in Releasers(t) : u \in Threads /\ HasAcked(u, call[t])
        BY <1>9, InOrder, Groups DEF Releasers
      <4> QED  BY <4>1, <4>2, <4>3 DEF Ackers
    <3> QED  BY <2>2, <3>5, <3>6
  <2>3. CASE ~HasResult
    <3>1. id[t] < Cardinality(Ackers(t)) /\ id[t] \in Nat
      BY <1>0, <1>9 DEF OwnSlot, Counted, IInv, TypeOK
    <3>2. Cardinality(Ackers(t)) <= Size(t) /\ Cardinality(Ackers(t)) \in Nat
      BY <1>9, FullCount
    <3>3. id[t] >= Size(t) - 1
      BY <1>0, <1>12, <2>3 DEF LeaderId
    <3>4. Cardinality(Ackers(t)) = Size(t)
      BY <2>1, <3>1, <3>2, <3>3
    <3>5. Ackers(t) = Group(t)
      BY <1>9, <3>4, FullCount
    <3> QED  BY <1>9, <2>3, <3>3, <3>4, <3>5 DEF Counted
  <2> QED  BY <2>2, <2>3
<1>13. ASSUME NEW u \in Threads, InRound(u), held[u] = held[t], pc'[t] = "Complete"
       PROVE  ~State(u).ready /\ pc[u] \notin Leading
  <2>1. /\ Releasers(u) = Releasers(t) /\ Group(u) = Group(t) /\ Over(u) /\ OneLeads(u, t)
        /\ Size(u) = Size(t) /\ Size(t) \in Nat /\ id[t] \in Nat /\ t \in Group(t)
    BY <1>1, <1>13, SameState, Groups DEF IInv, RoundInv, TypeOK
  <2>2. CASE HasResult
    BY <1>8, <2>1, <2>2 DEF Over, Full
  <2>3. CASE ~HasResult
    <3>1. ~(id[t] < Size(t) - 1)
      BY <1>12, <1>13, <2>1, <2>3
    <3> QED  BY <1>0, <1>13, <2>1, <2>3, <3>1 DEF OneLeads
  <2> QED  BY <2>2, <2>3
<1>14. ASSUME NEW u \in Threads, InRound(u), held[u] = held[t]
       PROVE  (Counted(u) /\ Over(u) /\ Stored(u) /\ Computed(u) /\ Listed(u))'
  <2>1. /\ State(u) = State(t) /\ State(u)' = x /\ Group(u) = Group(t) /\ call[u] = call[t]
        /\ Ackers(u) = Ackers(t) /\ Writers(u) = Writers(t)
        /\ Releasers(u) = Releasers(t) /\ Returners(u) = Returners(t)
        /\ \A k : ToBeWritten(u, k) <=> ToBeWritten(t, k)
    BY <1>1, <1>4, <1>7, <1>14, SameState
  <2>2. /\ Ackers(u)' = Ackers(u) /\ Writers(u)' = Writers(u)
        /\ Releasers(u)' = Releasers(t)' /\ Returners(u)' = Returners(u)
        /\ \A k : ToBeWritten(u, k)' <=> ToBeWritten(t, k)'
    BY <1>7, <1>8, <1>14, <2>1
  <2>3. Counted(u) /\ Over(u) /\ Computed(u) /\ Listed(u) /\ Stored(u)
    BY <1>14 DEF IInv, RoundInv
  <2>4. Counted(u)'
    BY <1>3, <1>9, <1>10, <1>11, <2>1, <2>2, <2>3 DEF Counted
  <2>5. /\ pc'[u] \in Leading => pc[u] \in Leading \/ (u = t /\ pc'[t] = "Complete")
        /\ pc'[u] \in {"Complete", "invoke", "ready"} =>
              pc[u] \in {"Complete", "invoke", "ready"} \/ (u = t /\ pc'[t] = "Complete")
        /\ pc'[u] \in {"invoke", "ready", "signal"} => pc[u] \in {"invoke", "ready", "signal"}
        /\ pc'[u] \in {"ready", "signal"} => pc[u] \in {"ready", "signal"}
        /\ pc'[u] \in {"signal", "return"} => pc[u] \in {"signal", "return"}
    BY <1>0 DEF Leading
  <2>6. Over(u)'
    <3>1. Full(u) => Full(u)'
      <4>1. Releasers(u) = Group(u) => Releasers(u)' = Group(u)
        BY <1>8, <1>9, <2>1, <2>2, Groups
      <4> QED  BY <1>10, <2>2, <4>1 DEF Full
    <3>2. u = t /\ pc'[t] = "Complete" => Full(u)'
      BY <1>8, <1>10, <1>12 DEF Full
    <3>3. State(u)'.ready = State(u).ready
      BY <1>3, <2>1
    <3>4. u = t /\ pc'[t] = "Complete" => ~State(u).ready
      BY <1>13, <1>14
    <3> QED  BY <2>2, <2>3, <2>5, <3>1, <3>2, <3>3, <3>4 DEF Over
  <2>7. Computed(u)'
    BY <1>0, <1>3, <1>10, <2>1, <2>3, <2>5 DEF Computed
  <2>8. Listed(u)'
    BY <1>0, <1>3, <1>10, <2>1, <2>2, <2>3, <2>5 DEF Listed
  <2>9. Stored(u)'
    <3>1. \A k : ToBeWritten(u, k)' <=> ToBeWritten(u, k)
      <4>1. \A w \in Threads : /\ pc'[w] = "write" <=> pc[w] = "write"
                               /\ pc[w] = "write" => id'[w] = id[w]
        BY <1>0, <1>4
      <4> QED  BY <1>0, <4>1 DEF ToBeWritten
    <3>2. call'[u] = call[u] /\ Group(u)' = Group(u)
      BY <1>0, <1>10
    <3> QED  BY <1>3, <2>1, <2>2, <2>3, <3>1, <3>2 DEF Stored
  <2> QED  BY <2>4, <2>6, <2>7, <2>8, <2>9
<1>15. ASSUME NEW u \in Threads, NEW v \in Threads, InRound(u), InRound(v), held[u] = held[t]
       PROVE  OneLeads(u, v)' /\ OwnSlot(u, v)'
  <2>1. State(u)' = x /\ State(u) = State(t) /\ Size(u) = Size(t)
    BY <1>1, <1>4, <1>7, <1>15, SameState
  <2>2. OneLeads(u, v) /\ OwnSlot(u, v)
    BY <1>15 DEF IInv, RoundInv
  <2>3. \A w \in Threads :
           /\ pc'[w] \in Leading => pc[w] \in Leading \/ (w = t /\ pc'[t] = "Complete")
           /\ pc'[w] \in {"write", "rel"} =>
                 pc[w] \in {"write", "rel"} /\ w # t /\ id'[w] = id[w]
    BY <1>0, <1>4 DEF Leading
  <2>4. held[v] = held[u] /\ pc'[u] \in Leading /\ pc'[v] \in Leading => u = v
    <3>1. CASE pc'[t] = "Complete"
      BY <1>13, <1>15, <2>3, <3>1
    <3>2. CASE pc'[t] # "Complete"
      BY <2>2, <2>3, <3>2 DEF OneLeads
    <3> QED  BY <3>1, <3>2
  <2>5. (/\ held[v] = held[u] /\ ~HasResult /\ (pc'[u] \in Leading \/ State(u)'.ready)
         /\ pc'[v] \in {"write", "rel"}) => id'[v] < Size(u) - 1
    <3> SUFFICES ASSUME held[v] = held[u], ~HasResult, pc'[u] \in Leading \/ State(u)'.ready,
                        pc'[v] \in {"write", "rel"}
                 PROVE  id[v] < Size(u) - 1
      BY <2>3
    <3>1. CASE pc[u] \in Leading \/ State(u).ready
      BY <2>2, <2>3, <3>1 DEF OneLeads
    <3>2. CASE ~(pc[u] \in Leading \/ State(u).ready)
      <4>1. u = t /\ pc'[t] = "Complete"
        BY <1>3, <2>1, <2>3, <3>2
      <4>2. id[t] >= Size(t) - 1 /\ State(t).ack = Size(t)
        BY <1>12, <4>1
      <4>3. pc[v] \in {"write", "rel"} /\ v # t /\ State(v) = State(t)
        BY <1>1, <1>15, <2>3, <4>1, SameState
      <4>4. id[v] < State(t).ack /\ id[v] # id[t] /\ id[t] < State(t).ack
        <5>1. OwnSlot(v, t) /\ OwnSlot(t, v)
          BY <1>1, <1>15 DEF IInv, RoundInv
        <5> QED  BY <1>0, <1>15, <4>1, <4>3, <5>1 DEF OwnSlot
      <4>5. id[v] \in Nat /\ id[t] \in Nat /\ Size(t) \in Nat
        BY Groups DEF IInv, TypeOK
      <4> QED  BY <4>1, <4>2, <4>4, <4>5
    <3> QED  BY <3>1, <3>2
  <2>6. OneLeads(u, v)'
    BY <1>0, <1>10, <2>4, <2>5 DEF OneLeads
  <2>7. OwnSlot(u, v)'
    BY <1>0, <1>3, <2>1, <2>2, <2>3 DEF OwnSlot
  <2> QED  BY <2>6, <2>7
<1>16. RoundInv'
  BY <1>7, <1>14, <1>15 DEF RoundInv
<1> QED  BY <1>5, <1>6, <1>16 DEF IInv

\* A step of the leader counts nobody and writes to no slot.
LEMMA LeaderStep ==
  ASSUME IInv, NEW t \in Threads, pc[t] \in Leading,
         pc'[t] \in Leading, pc' = [pc EXCEPT ![t] = pc'[t]],
         setup' = setup, held' = held, id' = id, call' = call, flag' = flag, seen' = seen,
         got' = got, aborted' = aborted,
         map' \in [{Key[u] : u \in Threads} -> States \cup {Nil}],
         rounds' \in [States -> RoundStates],
         \A k \in States : k # held[t] => rounds'[k] = rounds[k],
         State(t)'.ack = State(t).ack, State(t)'.rel = State(t).rel,
         State(t)'.values = State(t).values
  PROVE  /\ InRound(t) /\ held[t] \in States
         /\ \A u \in Threads : u # t => pc'[u] = pc[u]
         /\ \A u \in Threads : InRound(u) =>
               /\ InRound(u)'
               /\ Ackers(u)' = Ackers(u) /\ Releasers(u)' = Releasers(u)
               /\ Returners(u)' = Returners(u)
               /\ held[u] # held[t] => State(u)' = State(u)
               /\ held[u] = held[t] =>
                     /\ State(u)' = State(t)' /\ State(u) = State(t) /\ Full(u)
                     /\ Key[u] = Key[t] /\ Group(u) = Group(t) /\ call[u] = call[t]
                     /\ u # t => pc[u] \notin Leading
         /\ (\A u \in Threads : InRound(u) => Listed(u)' /\ Over(u)' /\ Computed(u)') => IInv'
<1>0. \A u \in Threads : u # t => pc'[u] = pc[u]
  BY DEF IInv, TypeOK
<1>1. InRound(t) /\ InRound(t)' /\ pc'[t] # "ack" /\ held[t] \in States
  <2>1. InRound(t) /\ InRound(t)' /\ pc'[t] # "ack"
    BY <1>0 DEF InRound, RoundPlaces, Leading
  <2> QED  BY <2>1, Inside
<1>3. TypeOK'
  <2>1. pc' \in [Threads -> {"idle"} \cup Before \cup RoundPlaces \cup After]
    BY DEF IInv, TypeOK, Leading, RoundPlaces
  <2> QED  BY <2>1 DEF IInv, TypeOK, Key
<1>4. FlagCounts' /\ Hold' /\ Together' /\ Recorded' /\ RoundsDoNotMix'
  BY <1>0, <1>1, InsideStep
<1>5. /\ \A u \in Threads : InRound(u)' <=> InRound(u)
      /\ \A u \in Threads : u # t => \A n \in Nat :
            /\ HasAcked(u, n)' <=> HasAcked(u, n)
            /\ HasWritten(u, n)' <=> HasWritten(u, n)
            /\ HasReleased(u, n)' <=> HasReleased(u, n)
            /\ HasReturned(u, n)' <=> HasReturned(u, n)
      /\ \A u \in Threads : InRound(u) /\ held[u] = held[t] => State(u)' = State(t)'
      /\ \A u \in Threads : InRound(u) /\ held[u] # held[t] => State(u)' = State(u)
      /\ \A u, v \in Threads : InRound(u) /\ InRound(v) =>
            /\ SameRound(u, v)'
            /\ held[u] # held[t] => OneLeads(u, v)' /\ OwnSlot(u, v)'
  BY <1>0, <1>1, OwnStep
<1>6. Key' = Key /\ (HasResult' <=> HasResult)
      /\ \A u \in Threads : Group(u)' = Group(u) /\ Size(u)' = Size(u)
  BY SetupStays
<1>7. ASSUME NEW n \in Nat
      PROVE  /\ HasAcked(t, n)' <=> HasAcked(t, n)
             /\ HasWritten(t, n)' <=> HasWritten(t, n)
             /\ HasReleased(t, n)' <=> HasReleased(t, n)
             /\ HasReturned(t, n)' <=> HasReturned(t, n)
  BY <1>0 DEF HasAcked, HasWritten, HasReleased, HasReturned, RoundPlaces, Before, Leading
<1>8. ASSUME NEW u \in Threads, InRound(u)
      PROVE  /\ Ackers(u)' = Ackers(u) /\ Releasers(u)' = Releasers(u)
             /\ Returners(u)' = Returners(u) /\ Writers(u)' = Writers(u)
  <2>1. call[u] \in Nat /\ Group(u) \subseteq Threads /\ call'[u] = call[u]
    BY <1>8, Inside, Groups
  <2>2. \A v \in Group(u) : /\ HasAcked(v, call[u])' <=> HasAcked(v, call[u])
                            /\ HasWritten(v, call[u])' <=> HasWritten(v, call[u])
                            /\ HasReleased(v, call[u])' <=> HasReleased(v, call[u])
                            /\ HasReturned(v, call[u])' <=> HasReturned(v, call[u])
    BY <1>5, <1>7, <2>1
  <2> QED  BY <1>6, <2>1, <2>2 DEF Ackers, Writers, Releasers, Returners
<1>9. ASSUME NEW u \in Threads, InRound(u), held[u] = held[t]
      PROVE  /\ State(u)' = State(t)' /\ State(u) = State(t) /\ Full(u)
             /\ Key[u] = Key[t] /\ Group(u) = Group(t) /\ call[u] = call[t]
             /\ u # t => pc[u] \notin Leading
  <2>1. Full(t)
    BY <1>1 DEF IInv, RoundInv, Over
  <2>2. /\ State(u) = State(t) /\ Key[u] = Key[t] /\ Group(u) = Group(t) /\ call[u] = call[t]
        /\ Ackers(u) = Ackers(t) /\ Releasers(u) = Releasers(t)
    BY <1>1, <1>9, SameState
  <2>3. u # t => pc[u] \notin Leading
    BY <1>1, <1>9 DEF IInv, RoundInv, OneLeads
  <2> QED  BY <1>5, <1>9, <2>1, <2>2, <2>3 DEF Full
<1>10. ASSUME NEW u \in Threads, InRound(u)
       PROVE  Counted(u)' /\ Stored(u)'
  <2>1. Counted(u) /\ Stored(u)
    BY <1>10 DEF IInv, RoundInv
  <2>2. /\ State(u)'.ack = State(u).ack /\ State(u)'.rel = State(u).rel
        /\ State(u)'.values = State(u).values
    BY <1>5, <1>9, <1>10
  <2>3. \A k : ToBeWritten(u, k)' <=> ToBeWritten(u, k)
    <3>1. \A w \in Threads : pc'[w] = "write" <=> pc[w] = "write"
      BY <1>0 DEF Leading
    <3> QED  BY <3>1 DEF ToBeWritten
  <2>4. Counted(u)'
    BY <1>6, <1>8, <1>10, <2>1, <2>2 DEF Counted
  <2>5. Stored(u)'
    BY <1>6, <1>8, <1>10, <2>1, <2>2, <2>3 DEF Stored
  <2> QED  BY <2>4, <2>5
<1>11. ASSUME NEW u \in Threads, NEW v \in Threads, InRound(u), InRound(v), held[u] = held[t]
       PROVE  OneLeads(u, v)' /\ OwnSlot(u, v)'
  <2>1. OneLeads(t, v) /\ OwnSlot(u, v) /\ Size(u) = Size(t)
    BY <1>1, <1>11, SameState DEF IInv, RoundInv
  <2>2. \A w \in Threads : pc'[w] \in {"write", "rel"} <=> pc[w] \in {"write", "rel"}
    BY <1>0 DEF Leading
  <2>3. \A w \in Threads : InRound(w) /\ held[w] = held[t] /\ pc'[w] \in Leading => w = t
    BY <1>0, <1>9
  <2>4. OneLeads(u, v)'
    <3>1. held[u] = held[v] /\ pc'[u] \in Leading /\ pc'[v] \in Leading => u = v
      BY <1>11, <2>3
    <3>2. held[u] = held[v] /\ ~HasResult /\ pc'[v] \in {"write", "rel"} => id[v] < Size(u) - 1
      BY <1>11, <2>1, <2>2 DEF OneLeads
    <3> QED  BY <1>6, <3>1, <3>2 DEF OneLeads
  <2>5. OwnSlot(u, v)'
    <3>1. State(u)'.ack = State(u).ack
      BY <1>9, <1>11
    <3> QED  BY <2>1, <2>2, <3>1 DEF OwnSlot
  <2> QED  BY <2>4, <2>5
<1>12. (\A u \in Threads : InRound(u) => Listed(u)' /\ Over(u)' /\ Computed(u)') => IInv'
  BY <1>3, <1>4, <1>5, <1>10, <1>11 DEF IInv, RoundInv
<1> QED  BY <1>0, <1>1, <1>5, <1>8, <1>9, <1>12

\* The leader erases the state from the map while all are still in the round.
LEMMA CompleteIInv ==
  ASSUME IInv, NEW t \in Threads, UNCHANGED setup, Complete(t)
  PROVE  IInv'
<1>0. /\ pc[t] = "Complete" /\ pc'[t] = "invoke" /\ pc' = [pc EXCEPT ![t] = pc'[t]]
      /\ map' = [map EXCEPT ![Key[t]] = Nil]
      /\ UNCHANGED <<rounds, held, id, flag, seen, call, got, aborted>>
  BY Gone DEF Complete, Erased, Go
<1>1. InRound(t) /\ pc[t] \in Leading /\ pc'[t] \in Leading
  BY <1>0 DEF InRound, RoundPlaces, Leading
<1>2. held[t] \in States /\ call[t] \in Nat
  BY <1>1, Inside
<1>3. rounds' \in [States -> RoundStates] /\ State(t)' = State(t)
  BY <1>0 DEF State, IInv, TypeOK
<1>4. /\ map' \in [{Key[u] : u \in Threads} -> States \cup {Nil}]
      /\ map'[Key[t]] = Nil
      /\ \A u \in Threads : Key[u] # Key[t] => map'[Key[u]] = map[Key[u]]
  BY <1>0 DEF IInv, TypeOK
<1>5. /\ pc'[t] = "invoke" /\ \A u \in Threads : u # t => pc'[u] = pc[u]
      /\ \A u \in Threads : InRound(u) =>
            /\ InRound(u)'
            /\ Ackers(u)' = Ackers(u) /\ Releasers(u)' = Releasers(u)
            /\ Returners(u)' = Returners(u)
            /\ held[u] = held[t] =>
                  /\ Full(u) /\ Key[u] = Key[t] /\ Group(u) = Group(t) /\ call[u] = call[t]
                  /\ u # t => pc[u] \notin Leading
      /\ (\A u \in Threads : InRound(u) => Listed(u)' /\ Over(u)' /\ Computed(u)') => IInv'
  BY <1>0, <1>1, <1>2, <1>3, <1>4, LeaderStep
<1>6. /\ Key' = Key /\ (HasResult' <=> HasResult)
      /\ \A u \in Threads : Group(u)' = Group(u) /\ State(u)' = State(u)
  BY <1>0, SetupStays DEF State
<1>7. ~State(t).ready /\ Returners(t) = {} /\ Ackers(t) = Group(t)
  BY <1>0, <1>1 DEF IInv, RoundInv, Over, Full
<1>8. ASSUME NEW u \in Threads, InRound(u), Key[u] = Key[t]
      PROVE  held[u] = held[t]
  <2>1. u \in Group(t) /\ call[u] \in Nat
    BY <1>8, Groups, Inside
  <2>2. HasAcked(u, call[t]) /\ ~HasReturned(u, call[t])
    BY <1>7, <2>1 DEF Ackers, Returners
  <2>3. call[u] = call[t]
    BY <1>2, <2>1, <2>2 DEF HasAcked, HasReturned
  <2> QED  BY <1>1, <1>8, <2>3 DEF IInv, RoundInv, SameRound
<1>9. ASSUME NEW u \in Threads, InRound(u)
      PROVE  Listed(u)' /\ Over(u)' /\ Computed(u)'
  <2>1. Listed(u) /\ Over(u) /\ Computed(u) /\ held[u] \in States
    BY <1>9, Inside DEF IInv, RoundInv
  <2>2. \A w \in Threads : map'[Key[w]] = held[u] => map[Key[w]] = held[u] /\ Key[w] # Key[t]
    BY <1>4, <2>1, NilAssumption
  <2>3. Listed(u)'
    <3>1. CASE held[u] = held[t]
      <4>1. Full(u) /\ map'[Key[u]] # held[u]
        BY <1>4, <1>5, <1>9, <2>1, <3>1, NilAssumption
      <4> QED  BY <1>0, <1>5, <1>6, <1>9, <2>1, <2>2, <4>1 DEF Listed, Full
    <3>2. CASE held[u] # held[t]
      <4>1. map'[Key[u]] = map[Key[u]] /\ pc'[u] = pc[u]
        BY <1>4, <1>5, <1>8, <1>9, <3>2
      <4> QED  BY <1>0, <1>5, <1>6, <1>9, <2>1, <2>2, <4>1 DEF Listed
    <3> QED  BY <3>1, <3>2
  <2>4. Over(u)'
    <3>1. CASE u = t
      <4>1. Full(t)' /\ Returners(t)' = {} /\ ~State(t)'.ready
        BY <1>1, <1>5, <1>6, <1>7 DEF Full
      <4> QED  BY <1>5, <3>1, <4>1 DEF Over
    <3>2. CASE u # t
      BY <1>5, <1>6, <1>9, <2>1, <3>2 DEF Over, Full
    <3> QED  BY <3>1, <3>2
  <2>5. Computed(u)'
    BY <1>0, <1>5, <1>6, <2>1 DEF Computed
  <2> QED  BY <2>3, <2>4, <2>5
<1> QED  BY <1>5, <1>9

\* The function is applied when every slot has the value of its thread in this call.
LEMMA InvokeIInv ==
  ASSUME IInv, NEW t \in Threads, UNCHANGED setup, Invoke(t)
  PROVE  IInv'
<1> DEFINE R == {State(t).values[k] : k \in 0..(Size(t) - 1)}
           x == [rounds[held[t]] EXCEPT !.result = R]
<1>0. /\ pc[t] = "invoke" /\ pc'[t] = "ready" /\ pc' = [pc EXCEPT ![t] = pc'[t]]
      /\ rounds' = [rounds EXCEPT ![held[t]] = x]
      /\ UNCHANGED <<map, held, id, flag, seen, call, got, aborted>>
  BY Gone DEF Invoke, Go, State
<1>1. InRound(t) /\ pc[t] \in Leading /\ pc'[t] \in Leading
  BY <1>0 DEF InRound, RoundPlaces, Leading
<1>2. /\ held[t] \in States /\ call[t] \in 1..MaxCalls /\ State(t) \in RoundStates
      /\ State(t) = rounds[held[t]] /\ Size(t) \in Nat /\ Size(t) <= Cardinality(Threads)
  BY <1>1, Inside, Groups DEF State
<1>3. R \in SUBSET (Values \cup {Nil}) /\ R # Nil
  <2>1. Cardinality(Threads) \in Nat
    BY FS_CardinalityType, RendezvousAssumption
  <2>2. 0..(Size(t) - 1) \subseteq Slots /\ State(t).values \in [Slots -> Values \cup {Nil}]
    BY <1>2, <2>1 DEF Slots, RoundStates
  <2>3. R \in SUBSET (Values \cup {Nil})
    BY <2>2
  <2> QED  BY <2>3, NilAssumption DEF Values
<1> HIDE DEF R
<1>4. /\ x \in RoundStates /\ x.ack = State(t).ack /\ x.rel = State(t).rel
      /\ x.values = State(t).values /\ x.ready = State(t).ready /\ x.result = R
  BY <1>2, <1>3 DEF RoundStates
<1> HIDE DEF x
<1>5. /\ rounds' \in [States -> RoundStates] /\ State(t)' = x
      /\ \A k \in States : k # held[t] => rounds'[k] = rounds[k]
      /\ map' \in [{Key[u] : u \in Threads} -> States \cup {Nil}]
  BY <1>0, <1>2, <1>4 DEF State, IInv, TypeOK
<1>6. /\ \A u \in Threads : u # t => pc'[u] = pc[u]
      /\ \A u \in Threads : InRound(u) =>
            /\ InRound(u)'
            /\ Ackers(u)' = Ackers(u) /\ Releasers(u)' = Releasers(u)
            /\ Returners(u)' = Returners(u)
            /\ held[u] # held[t] => State(u)' = State(u)
            /\ held[u] = held[t] =>
                  /\ State(u)' = x /\ State(u) = State(t) /\ Full(u)
                  /\ Key[u] = Key[t] /\ Group(u) = Group(t) /\ call[u] = call[t]
                  /\ u # t => pc[u] \notin Leading
      /\ (\A u \in Threads : InRound(u) => Listed(u)' /\ Over(u)' /\ Computed(u)') => IInv'
  BY <1>0, <1>1, <1>4, <1>5, LeaderStep
<1>7. Key' = Key /\ (HasResult' <=> HasResult) /\ \A u \in Threads : Group(u)' = Group(u)
  BY SetupStays
<1>8. ~State(t).ready /\ Full(t) /\ Stored(t) /\ Counted(t)
  BY <1>0, <1>1 DEF IInv, RoundInv, Over
<1>9. HasResult => R = {<<u, call[t]>> : u \in Group(t)}
  <2> SUFFICES ASSUME HasResult
               PROVE  R = {<<u, call[t]>> : u \in Group(t)}
    OBVIOUS
  <2>1. State(t).ack = Size(t) /\ Releasers(t) = Group(t)
    BY <1>8 DEF Full, Counted, Size
  <2>2. Writers(t) = Group(t)
    <3>1. \A u \in Group(t) : u \in Threads /\ HasReleased(u, call[t])
      BY <2>1, Groups DEF Releasers
    <3>2. \A u \in Group(t) : HasWritten(u, call[t])
      BY <3>1, InOrder
    <3> QED  BY <3>2 DEF Writers
  <2>3. ASSUME NEW k
        PROVE  ~ToBeWritten(t, k)
    <3> SUFFICES ASSUME NEW u \in Threads, held[u] = held[t], pc[u] = "write"
                 PROVE  FALSE
      BY DEF ToBeWritten
    <3>1. InRound(u)
      BY DEF InRound, RoundPlaces
    <3>2. u \in Group(t) /\ call[u] = call[t] /\ call[u] \in Nat
      BY <1>1, <3>1, SameState, Groups, Inside
    <3>3. HasWritten(u, call[u])
      BY <2>2, <3>2 DEF Writers
    <3> QED  BY <3>2, <3>3 DEF HasWritten
  <2>4. \A k \in Slots : k \in 0..(Size(t) - 1) <=> k < State(t).ack
    BY <1>2, <2>1, FS_CardinalityType, RendezvousAssumption DEF Slots
  <2>5. \A k \in 0..(Size(t) - 1) : k \in Slots
    BY <1>2, FS_CardinalityType, RendezvousAssumption DEF Slots
  <2>6. \A k \in 0..(Size(t) - 1) : \E u \in Group(t) : State(t).values[k] = <<u, call[t]>>
    BY <1>8, <2>3, <2>4, <2>5 DEF Stored
  <2>7. \A u \in Group(t) : \E k \in 0..(Size(t) - 1) : State(t).values[k] = <<u, call[t]>>
    BY <1>8, <2>2, <2>4 DEF Stored
  <2> QED  BY <2>6, <2>7 DEF R
<1>10. ASSUME NEW u \in Threads, InRound(u)
       PROVE  Listed(u)' /\ Over(u)' /\ Computed(u)'
  <2>1. Listed(u) /\ Over(u) /\ Computed(u)
    BY <1>10 DEF IInv, RoundInv
  <2>2. /\ State(u)'.ready = State(u).ready
        /\ Full(u) => Full(u)'
        /\ pc'[u] \in Leading => pc[u] \in Leading
        /\ pc'[u] \in {"invoke", "ready", "signal"} => pc[u] \in {"invoke", "ready", "signal"}
        /\ pc'[u] \in {"Complete", "invoke", "ready"} => pc[u] \in {"Complete", "invoke", "ready"}
        /\ pc'[u] \in {"signal", "return"} => pc[u] \in {"signal", "return"}
    BY <1>0, <1>1, <1>4, <1>6, <1>7, <1>10 DEF Full
  <2>3. Listed(u)'
    BY <1>0, <1>6, <1>7, <1>10, <2>1, <2>2 DEF Listed
  <2>4. Over(u)'
    BY <1>6, <1>10, <2>1, <2>2 DEF Over
  <2>5. Computed(u)'
    <3>1. CASE held[u] = held[t]
      <4>1. /\ State(u)'.result = R /\ Group(u) = Group(t) /\ call'[u] = call[t]
            /\ Group(u)' = Group(u)
        BY <1>0, <1>4, <1>6, <1>7, <1>10, <3>1
      <4> QED  BY <1>3, <1>7, <1>9, <4>1 DEF Computed
    <3>2. CASE held[u] # held[t]
      <4>1. State(u)' = State(u) /\ pc'[u] = pc[u] /\ call'[u] = call[u]
        BY <1>0, <1>6, <1>10, <3>2
      <4> QED  BY <1>7, <2>1, <4>1 DEF Computed
    <3> QED  BY <3>1, <3>2
  <2> QED  BY <2>3, <2>4, <2>5
<1> QED  BY <1>6, <1>10

\* The leader makes the round ready: all have acked, and the result is there.
LEMMA SetReadyIInv ==
  ASSUME IInv, NEW t \in Threads, UNCHANGED setup, SetReady(t)
  PROVE  IInv'
<1> DEFINE x == [rounds[held[t]] EXCEPT !.ready = TRUE]
<1>0. /\ pc[t] = "ready" /\ pc'[t] = "signal" /\ pc' = [pc EXCEPT ![t] = pc'[t]]
      /\ rounds' = [rounds EXCEPT ![held[t]] = x]
      /\ UNCHANGED <<map, held, id, flag, seen, call, got, aborted>>
  BY Gone DEF SetReady, Go
<1>1. InRound(t) /\ pc[t] \in Leading /\ pc'[t] \in Leading
  BY <1>0 DEF InRound, RoundPlaces, Leading
<1>2. /\ held[t] \in States /\ State(t) \in RoundStates /\ State(t) = rounds[held[t]]
  BY <1>1, Inside DEF State
<1>4. /\ x \in RoundStates /\ x.ack = State(t).ack /\ x.rel = State(t).rel
      /\ x.values = State(t).values /\ x.ready = TRUE /\ x.result = State(t).result
  BY <1>2 DEF RoundStates
<1> HIDE DEF x
<1>5. /\ rounds' \in [States -> RoundStates] /\ State(t)' = x
      /\ \A k \in States : k # held[t] => rounds'[k] = rounds[k]
      /\ map' \in [{Key[u] : u \in Threads} -> States \cup {Nil}]
  BY <1>0, <1>2, <1>4 DEF State, IInv, TypeOK
<1>6. /\ \A u \in Threads : u # t => pc'[u] = pc[u]
      /\ \A u \in Threads : InRound(u) =>
            /\ InRound(u)'
            /\ Ackers(u)' = Ackers(u) /\ Releasers(u)' = Releasers(u)
            /\ Returners(u)' = Returners(u)
            /\ held[u] # held[t] => State(u)' = State(u)
            /\ held[u] = held[t] =>
                  /\ State(u)' = x /\ State(u) = State(t) /\ Full(u)
                  /\ Key[u] = Key[t] /\ Group(u) = Group(t) /\ call[u] = call[t]
                  /\ u # t => pc[u] \notin Leading
      /\ (\A u \in Threads : InRound(u) => Listed(u)' /\ Over(u)' /\ Computed(u)') => IInv'
  BY <1>0, <1>1, <1>4, <1>5, LeaderStep
<1>7. Key' = Key /\ (HasResult' <=> HasResult) /\ \A u \in Threads : Group(u)' = Group(u)
  BY SetupStays
<1>8. /\ map[Key[t]] # held[t]
      /\ State(t).result # Nil
      /\ HasResult => State(t).result = {<<u, call[t]>> : u \in Group(t)}
  BY <1>0, <1>1 DEF IInv, RoundInv, Listed, Computed
<1>10. ASSUME NEW u \in Threads, InRound(u)
       PROVE  Listed(u)' /\ Over(u)' /\ Computed(u)'
  <2>1. Listed(u) /\ Over(u) /\ Computed(u)
    BY <1>10 DEF IInv, RoundInv
  <2>2. CASE held[u] = held[t]
    <3>1. /\ State(u)' = x /\ Full(u) /\ Full(u)' /\ Key[u] = Key[t]
          /\ Group(u)' = Group(t) /\ call'[u] = call[t]
          /\ pc'[u] \notin {"Complete", "invoke", "ready"}
      BY <1>0, <1>6, <1>7, <1>10, <2>2 DEF Full, Leading
    <3>2. Listed(u)'
      BY <1>0, <1>6, <1>7, <1>8, <1>10, <2>1, <2>2, <3>1 DEF Listed
    <3>3. Over(u)'
      BY <1>4, <3>1 DEF Over
    <3>4. Computed(u)'
      BY <1>4, <1>7, <1>8, <3>1 DEF Computed
    <3> QED  BY <3>2, <3>3, <3>4
  <2>3. CASE held[u] # held[t]
    <3>1. /\ State(u)' = State(u) /\ pc'[u] = pc[u] /\ call'[u] = call[u]
          /\ Ackers(u)' = Ackers(u) /\ Releasers(u)' = Releasers(u)
          /\ Returners(u)' = Returners(u)
      BY <1>0, <1>6, <1>10, <2>3
    <3> QED  BY <1>0, <1>7, <2>1, <3>1 DEF Listed, Over, Full, Computed
  <2> QED  BY <2>2, <2>3
<1> QED  BY <1>6, <1>10

\* The leader wakes the others and goes on to return; the round is ready.
LEMMA SignalIInv ==
  ASSUME IInv, NEW t \in Threads, UNCHANGED setup, Signal(t)
  PROVE  IInv'
<1>0. /\ pc[t] = "signal" /\ pc'[t] = "return"
      /\ \A u \in Threads : u # t => pc'[u] = pc[u] \/ (pc[u] = "asleep" /\ pc'[u] = "wait")
      /\ UNCHANGED <<map, rounds, held, id, flag, seen, call, got, aborted>>
  BY DEF Signal, SignalAll, Woken
<1>1. InRound(t) /\ InRound(t)'
  BY <1>0 DEF InRound, RoundPlaces
<1>2. State(t).ready
  BY <1>0, <1>1 DEF IInv, RoundInv, Over
<1>3. TypeOK'
  <2>1. pc' \in [Threads -> {"idle"} \cup Before \cup RoundPlaces \cup After]
    BY DEF IInv, TypeOK, Signal, SignalAll, RoundPlaces
  <2> QED  BY <1>0, <2>1 DEF IInv, TypeOK, Key
<1>4. FlagCounts' /\ Hold' /\ Together' /\ Recorded' /\ RoundsDoNotMix'
  BY <1>0, <1>1, InsideStep
<1>5. RoundInv'
  <2>1. \A u \in Threads :
           \/ pc'[u] = pc[u] /\ call'[u] = call[u] /\ id'[u] = id[u]
           \/ /\ pc[u] \in {"wait", "asleep", "signal"} /\ pc'[u] \in {"wait", "asleep", "return"}
              /\ pc'[u] = "return" => State(u).ready
              /\ call'[u] = call[u] /\ id'[u] = id[u]
    BY <1>0, <1>2
  <2> QED  BY <1>0, <2>1, QuietStep
<1> QED  BY <1>3, <1>4, <1>5 DEF IInv

\* A thread looks at ready and sleeps or goes on.
LEMMA WaitIInv ==
  ASSUME IInv, NEW t \in Threads, UNCHANGED setup, Wait(t)
  PROVE  IInv'
<1>0. /\ pc[t] = "wait" /\ pc'[t] \in {"return", "asleep"}
      /\ pc'[t] = "return" => State(t).ready
      /\ \A u \in Threads : u # t => pc'[u] = pc[u]
      /\ UNCHANGED <<map, rounds, held, id, flag, seen, call, got, aborted>>
  BY Gone DEF Wait, State
<1>1. InRound(t) /\ InRound(t)'
  BY <1>0 DEF InRound, RoundPlaces
<1>3. TypeOK'
  <2>1. pc' \in [Threads -> {"idle"} \cup Before \cup RoundPlaces \cup After]
    BY DEF IInv, TypeOK, Wait, Go, RoundPlaces
  <2> QED  BY <1>0, <2>1 DEF IInv, TypeOK, Key
<1>4. FlagCounts' /\ Hold' /\ Together' /\ Recorded' /\ RoundsDoNotMix'
  BY <1>0, <1>1, InsideStep
<1>5. RoundInv'
  <2>1. \A u \in Threads :
           \/ pc'[u] = pc[u] /\ call'[u] = call[u] /\ id'[u] = id[u]
           \/ /\ pc[u] \in {"wait", "asleep", "signal"} /\ pc'[u] \in {"wait", "asleep", "return"}
              /\ pc'[u] = "return" => State(u).ready
              /\ call'[u] = call[u] /\ id'[u] = id[u]
    BY <1>0
  <2> QED  BY <1>0, <2>1, QuietStep
<1> QED  BY <1>3, <1>4, <1>5 DEF IInv

\* Nothing in the invariant is about the end of the process.
LEMMA TimeOutIInv ==
  ASSUME IInv, NEW t \in Threads, UNCHANGED setup, TimeOut(t)
  PROVE  IInv'
<1>0. aborted' = TRUE /\ UNCHANGED <<map, rounds, held, pc, id, flag, seen, call, got>>
  BY DEF TimeOut
<1>1. InRound(t) /\ InRound(t)' /\ pc'[t] # "ack"
  BY <1>0 DEF TimeOut, InRound, RoundPlaces
<1>2. TypeOK'
  BY <1>0 DEF IInv, TypeOK, Key
<1>3. FlagCounts' /\ Hold' /\ Together' /\ Recorded' /\ RoundsDoNotMix'
  BY <1>0, <1>1, InsideStep
<1>4. RoundInv'
  BY <1>0, QuietStep
<1> QED  BY <1>2, <1>3, <1>4 DEF IInv

\* A thread returns the result of a round that is ready: all others have acked.
LEMMA ReturnIInv ==
  ASSUME IInv, NEW t \in Threads, UNCHANGED setup, Return(t)
  PROVE  IInv'
<1>0. /\ pc[t] = "return" /\ pc'[t] = (IF UseFlag THEN "exit" ELSE "idle")
      /\ \A u \in Threads : u # t => pc'[u] = pc[u]
      /\ got' = [got EXCEPT ![t] = [@ EXCEPT ![call[t]] = State(t).result]]
      /\ held' = [held EXCEPT ![t] = Nil]
      /\ UNCHANGED <<map, rounds, id, flag, seen, call, aborted>>
  BY Gone DEF Return, State
<1>1. InRound(t) /\ ~InRound(t)'
  BY <1>0 DEF InRound, RoundPlaces
<1>2. /\ held[t] \in States /\ State(t) \in RoundStates /\ call[t] \in 1..MaxCalls
      /\ call[t] \in Nat /\ flag # kCompleted
  BY <1>1, Inside
<1>3. /\ Key' = Key /\ (HasResult' <=> HasResult) /\ (UseFlag' <=> UseFlag)
      /\ \A u \in Threads : Group(u)' = Group(u) /\ Size(u)' = Size(u)
  BY SetupStays
<1>4. /\ State(t).ready /\ Full(t) /\ State(t).result # Nil
      /\ HasResult => State(t).result = {<<u, call[t]>> : u \in Group(t)}
  BY <1>0, <1>1 DEF IInv, RoundInv, Over, Computed
<1>5. /\ got' \in [Threads -> [1..MaxCalls -> {Nil, Skipped} \cup SUBSET (Values \cup {Nil})]]
      /\ got'[t][call[t]] = State(t).result
      /\ \A n \in 1..MaxCalls : n # call[t] => got'[t][n] = got[t][n]
      /\ \A u \in Threads : u # t => got'[u] = got[u]
  <2>1. State(t).result \in SUBSET (Values \cup {Nil})
    BY <1>2, <1>4 DEF RoundStates
  <2> HIDE DEF State
  <2> DEFINE r == State(t).result
             f == [got[t] EXCEPT ![call[t]] = r]
  <2>2. got[t] \in [1..MaxCalls -> {Nil, Skipped} \cup SUBSET (Values \cup {Nil})]
    BY DEF IInv, TypeOK
  <2>3. r \in {Nil, Skipped} \cup SUBSET (Values \cup {Nil})
    BY <2>1
  <2> HIDE DEF r
  <2>4. /\ f \in [1..MaxCalls -> {Nil, Skipped} \cup SUBSET (Values \cup {Nil})]
        /\ f[call[t]] = r /\ \A n \in 1..MaxCalls : n # call[t] => f[n] = got[t][n]
    BY <1>2, <2>2, <2>3
  <2>5. got' = [got EXCEPT ![t] = f]
    BY <1>0 DEF r
  <2> HIDE DEF f
  <2>6. /\ got' \in [Threads -> [1..MaxCalls -> {Nil, Skipped} \cup SUBSET (Values \cup {Nil})]]
        /\ got'[t] = f /\ \A u \in Threads : u # t => got'[u] = got[u]
    BY <2>4, <2>5 DEF IInv, TypeOK
  <2> QED  BY <2>4, <2>6 DEF r
<1>6. /\ held' \in [Threads -> States \cup {Nil}]
      /\ held'[t] = Nil /\ \A u \in Threads : u # t => held'[u] = held[u]
  BY <1>0 DEF IInv, TypeOK
<1>7. TypeOK'
  <2>1. pc' \in [Threads -> {"idle"} \cup Before \cup RoundPlaces \cup After]
    BY DEF IInv, TypeOK, Return, Go, After
  <2> QED  BY <1>0, <1>5, <1>6, <2>1 DEF IInv, TypeOK, Key
<1>8. /\ \A u \in Threads : u # t =>
            /\ InRound(u)' <=> InRound(u)
            /\ \A n : /\ HasAcked(u, n)' <=> HasAcked(u, n)
                      /\ HasWritten(u, n)' <=> HasWritten(u, n)
                      /\ HasReleased(u, n)' <=> HasReleased(u, n)
                      /\ HasReturned(u, n)' <=> HasReturned(u, n)
      /\ \A n : /\ HasAcked(t, n)' <=> HasAcked(t, n)
                /\ HasWritten(t, n)' <=> HasWritten(t, n)
                /\ HasReleased(t, n)' <=> HasReleased(t, n)
                /\ HasReturned(t, n)' <=> HasReturned(t, n) \/ n = call[t]
  <2>1. \A u \in Threads : u # t =>
            /\ InRound(u)' <=> InRound(u)
            /\ \A n : /\ HasAcked(u, n)' <=> HasAcked(u, n)
                      /\ HasWritten(u, n)' <=> HasWritten(u, n)
                      /\ HasReleased(u, n)' <=> HasReleased(u, n)
                      /\ HasReturned(u, n)' <=> HasReturned(u, n)
    BY <1>0, StaysThere
  <2>2. \A n : /\ HasAcked(t, n)' <=> HasAcked(t, n)
               /\ HasWritten(t, n)' <=> HasWritten(t, n)
               /\ HasReleased(t, n)' <=> HasReleased(t, n)
               /\ HasReturned(t, n)' <=> HasReturned(t, n) \/ n = call[t]
    BY <1>0 DEF HasAcked, HasWritten, HasReleased, HasReturned, RoundPlaces, Before
  <2> QED  BY <2>1, <2>2
<1>9. FlagCounts'
  <2>1. CASE UseFlag
    <3>1. InFlight' = InFlight
      BY <1>0, <2>1 DEF InFlight, RoundPlaces, After
    <3> QED  BY <1>0, <1>3, <2>1, <3>1 DEF IInv, FlagCounts
  <2>2. CASE ~UseFlag
    BY <1>0, <1>3, <2>2 DEF IInv, FlagCounts, After
  <2> QED  BY <2>1, <2>2
<1>10. Hold'
  <2>1. ASSUME NEW u \in Threads
        PROVE  /\ held'[u] # Nil <=> InRound(u)'
               /\ InRound(u)' => Size(u)' > 1
               /\ pc'[u] # "idle" => call'[u] # 0
    <3>1. CASE u = t
      BY <1>0, <1>1, <1>2, <1>6, <3>1
    <3>2. CASE u # t
      BY <1>0, <1>3, <1>6, <1>8, <3>2 DEF IInv, Hold
    <3> QED  BY <3>1, <3>2
  <2> QED  BY <2>1 DEF Hold
<1>11. Together'
  <2>1. \A u \in Threads : Key[u] = Key[t] => HasAcked(u, call[t])
    BY <1>4, Groups DEF Full, Ackers
  <2> SUFFICES ASSUME NEW u \in Threads, NEW v \in Threads, Key[u] = Key[v],
                      NEW n \in 1..MaxCalls, HasReturned(u, n)'
               PROVE  HasAcked(v, n)'
    BY <1>3 DEF Together
  <2>2. HasAcked(v, n)
    <3>1. CASE HasReturned(u, n)
      BY <1>2, <3>1 DEF IInv, Together
    <3>2. CASE ~HasReturned(u, n)
      BY <1>8, <2>1, <3>2
    <3> QED  BY <3>1, <3>2
  <2> QED  BY <1>8, <2>2
<1>12. Recorded'
  <2> SUFFICES ASSUME NEW u \in Threads, NEW n \in 1..MaxCalls
               PROVE  got'[u][n] # Nil <=> HasReturned(u, n)'
    BY DEF Recorded
  <2>1. got[u][n] # Nil <=> HasReturned(u, n)
    BY DEF IInv, Recorded
  <2>2. CASE u = t
    BY <1>4, <1>5, <1>8, <2>1, <2>2
  <2>3. CASE u # t
    BY <1>5, <1>8, <2>1, <2>3
  <2> QED  BY <2>2, <2>3
<1>13. RoundsDoNotMix'
  <2> SUFFICES ASSUME HasResult, NEW u \in Threads, NEW n \in 1..MaxCalls
               PROVE  got'[u][n] \in {Nil, Skipped, {<<v, n>> : v \in Group(u)}}
    BY <1>3 DEF RoundsDoNotMix
  <2>1. got[u][n] \in {Nil, Skipped, {<<v, n>> : v \in Group(u)}}
    BY DEF IInv, RoundsDoNotMix
  <2>2. CASE u = t /\ n = call[t]
    BY <1>4, <1>5, <2>2
  <2>3. CASE ~(u = t /\ n = call[t])
    BY <1>5, <2>1, <2>3
  <2> QED  BY <2>2, <2>3
<1>14. ASSUME NEW u \in Threads, InRound(u)'
       PROVE  (Counted(u) /\ Listed(u) /\ Over(u) /\ Stored(u) /\ Computed(u))'
  <2>1. /\ u # t /\ InRound(u) /\ pc'[u] = pc[u] /\ held'[u] = held[u] /\ State(u)' = State(u)
        /\ Group(u)' = Group(u) /\ call'[u] = call[u]
    BY <1>0, <1>1, <1>3, <1>6, <1>8, <1>14 DEF State
  <2>2. Counted(u) /\ Listed(u) /\ Over(u) /\ Stored(u) /\ Computed(u)
    BY <2>1 DEF IInv, RoundInv
  <2>3. Ackers(u)' = Ackers(u) /\ Writers(u)' = Writers(u) /\ Releasers(u)' = Releasers(u)
    BY <1>8, <2>1, Groups DEF Ackers, Writers, Releasers
  <2>4. Returners(u)' # {} => State(u).ready
    <3>1. CASE Returners(u) # {}
      BY <2>2, <3>1 DEF Over
    <3>2. CASE t \in Group(u) /\ call[u] = call[t]
      <4>1. held[u] = held[t]
        BY <1>1, <2>1, <3>2, Groups DEF IInv, RoundInv, SameRound
      <4> QED  BY <1>4, <4>1 DEF State
    <3>3. CASE Returners(u) = {} /\ ~(t \in Group(u) /\ call[u] = call[t])
      <4>1. \A v \in Group(u) : HasReturned(v, call[u])' => HasReturned(v, call[u])
        BY <1>8, <2>1, <3>3, Groups
      <4> QED  BY <2>1, <3>3, <4>1 DEF Returners
    <3> QED  BY <3>1, <3>2, <3>3
  <2>5. Counted(u)'
    BY <1>3, <2>1, <2>2, <2>3 DEF Counted
  <2>6. Listed(u)'
    BY <1>0, <1>3, <2>1, <2>2, <2>3 DEF Listed
  <2>7. Over(u)'
    BY <1>3, <2>1, <2>2, <2>3, <2>4 DEF Over, Full
  <2>8. Stored(u)'
    <3>1. \A k : ToBeWritten(u, k)' <=> ToBeWritten(u, k)
      <4>1. pc[t] # "write" /\ pc'[t] # "write"
        BY <1>0
      <4>2. \A w \in Threads : w # t => held'[w] = held[w] /\ pc'[w] = pc[w] /\ id'[w] = id[w]
        BY <1>0, <1>6
      <4> QED  BY <2>1, <4>1, <4>2 DEF ToBeWritten
    <3> QED  BY <2>1, <2>2, <2>3, <3>1 DEF Stored
  <2>9. Computed(u)'
    BY <1>3, <2>1, <2>2 DEF Computed
  <2> QED  BY <2>5, <2>6, <2>7, <2>8, <2>9
<1>15. ASSUME NEW u \in Threads, NEW v \in Threads, InRound(u)', InRound(v)'
       PROVE  (SameRound(u, v) /\ OneLeads(u, v) /\ OwnSlot(u, v))'
  <2>1. /\ u # t /\ InRound(u) /\ pc'[u] = pc[u] /\ held'[u] = held[u] /\ State(u)' = State(u)
        /\ v # t /\ InRound(v) /\ pc'[v] = pc[v] /\ held'[v] = held[v]
        /\ id' = id /\ call' = call
    BY <1>0, <1>1, <1>3, <1>6, <1>8, <1>15 DEF State
  <2>2. SameRound(u, v) /\ OneLeads(u, v) /\ OwnSlot(u, v)
    BY <2>1 DEF IInv, RoundInv
  <2> QED  BY <1>3, <2>1, <2>2 DEF SameRound, OneLeads, OwnSlot
<1>16. RoundInv'
  BY <1>14, <1>15 DEF RoundInv
<1> QED  BY <1>7, <1>9, <1>10, <1>11, <1>12, <1>13, <1>16 DEF IInv

-----------------------------------------------------------------------------
(* The steps into and out of a round, and outside of the rounds.            *)

\* There are more states than threads, so one is free.
LEMMA FreeState ==
  ASSUME TypeOK
  PROVE  \E k \in States : Holders(k) = {}
<1> SUFFICES ASSUME \A k \in States : Holders(k) # {}
             PROVE  FALSE
  OBVIOUS
<1> DEFINE f == [k \in States |-> CHOOSE u \in Threads : held[u] = k]
<1>1. \A k \in States : f[k] \in Threads /\ held[f[k]] = k
  BY DEF Holders
<1>2. f \in [States -> Threads]
  BY <1>1
<1>3. Cardinality(Threads) \in Nat /\ IsFiniteSet(Threads)
  BY FS_CardinalityType, RendezvousAssumption
<1>4. IsFiniteSet(States) /\ Cardinality(Threads) < Cardinality(States)
  BY <1>3, FS_Interval DEF States
<1> HIDE DEF f
<1>5. \E x, y \in States : x # y /\ f[x] = f[y]
  BY <1>2, <1>3, <1>4, FS_PigeonHole
<1> QED  BY <1>1, <1>5

\* The flag is not completed while a thread is in flight.
LEMMA FlagIsCount ==
  ASSUME TypeOK, FlagCounts, InFlight # {}
  PROVE  flag # kCompleted /\ (UseFlag => flag = Cardinality(InFlight))
<1>1. InFlight \subseteq Threads
  BY DEF InFlight
<1>2. Cardinality(InFlight) <= Cardinality(Threads) /\ Cardinality(InFlight) \in Nat
  BY <1>1, FS_Subset, FS_CardinalityType, RendezvousAssumption
<1>3. Cardinality(Threads) \in Nat
  BY FS_CardinalityType, RendezvousAssumption
<1> QED  BY <1>2, <1>3, RendezvousAssumption DEF FlagCounts, kCompleted

\* The map names the state of the round that a thread has to join, or none that is held.
LEMMA Joinable ==
  ASSUME IInv, NEW t \in Threads, pc[t] = "Join"
  PROVE  /\ call[t] \in 1..MaxCalls /\ ~HasAcked(t, call[t])
         /\ \A u \in Threads : Key[u] = Key[t] => ~HasReturned(u, call[t])
         /\ \A u \in Threads : InRound(u) /\ map[Key[t]] = held[u] =>
               Key[u] = Key[t] /\ call[u] = call[t] /\ ~State(u).ready
         /\ \A u \in Threads : InRound(u) /\ Key[u] = Key[t] /\ Ackers(u) # Group(u) =>
               map[Key[t]] = held[u]
         /\ \A u \in Threads : InRound(u) /\ Key[u] = Key[t] /\ call[u] = call[t] =>
               map[Key[t]] = held[u]
<1>1. call[t] \in 1..MaxCalls /\ call[t] \in Nat
  BY RendezvousAssumption DEF IInv, Hold, TypeOK
<1>2. ~HasAcked(t, call[t])
  BY <1>1 DEF HasAcked, Before
<1>3. flag # kCompleted
  <2>1. t \in InFlight
    BY DEF InFlight
  <2> QED  BY <2>1, FlagIsCount DEF IInv
<1>4. \A u \in Threads : Key[u] = Key[t] => ~HasReturned(u, call[t])
  BY <1>1, <1>2, <1>3 DEF IInv, Together
<1>5. ASSUME NEW u \in Threads, InRound(u), map[Key[t]] = held[u]
      PROVE  Key[u] = Key[t] /\ call[u] = call[t] /\ ~State(u).ready
  <2>1. Listed(u) /\ Over(u) /\ call[u] \in Nat
    BY <1>5, Inside DEF IInv, RoundInv
  <2>2. Key[u] = Key[t] /\ ~State(u).ready
    BY <1>5, <2>1 DEF Listed
  <2>3. ~(call[u] > call[t])
    BY <1>1, <1>4, <2>1, <2>2 DEF HasReturned
  <2>4. ~(call[u] < call[t])
    <3> SUFFICES ASSUME call[u] < call[t]
                 PROVE  FALSE
      OBVIOUS
    <3>1. t \in Returners(u)
      BY <2>2, Groups DEF Returners, HasReturned
    <3> QED  BY <2>1, <2>2, <3>1 DEF Over
  <2> QED  BY <1>1, <2>1, <2>2, <2>3, <2>4
<1>6. ASSUME NEW u \in Threads, InRound(u), Key[u] = Key[t], Ackers(u) # Group(u)
      PROVE  map[Key[t]] = held[u]
  BY <1>6 DEF IInv, RoundInv, Listed
<1>7. ASSUME NEW u \in Threads, InRound(u), Key[u] = Key[t], call[u] = call[t]
      PROVE  map[Key[t]] = held[u]
  <2>1. t \notin Ackers(u) /\ t \in Group(u)
    BY <1>2, <1>7, Groups DEF Ackers
  <2> QED  BY <1>6, <1>7, <2>1
<1> QED  BY <1>1, <1>2, <1>4, <1>5, <1>6, <1>7

\* A thread joins the round of its call, or starts it with a state that nobody holds.
LEMMA JoinIInv ==
  ASSUME IInv, NEW t \in Threads, UNCHANGED setup, Join(t)
  PROVE  IInv'
<1> DEFINE live == [k \in DOMAIN map |-> IF map[k] # Nil /\ Holders(map[k]) # {}
                                         THEN map[k] ELSE Nil]
           new == CHOOSE k \in States : Holders(k) = {}
           s == IF live[Key[t]] # Nil THEN live[Key[t]] ELSE new
<1>0. /\ Size(t) > 1 /\ pc[t] = "Join" /\ pc'[t] = "ack" /\ pc' = [pc EXCEPT ![t] = "ack"]
      /\ \A u \in Threads : u # t => pc'[u] = pc[u]
      /\ map' = [live EXCEPT ![Key[t]] = s]
      /\ held' = [held EXCEPT ![t] = s]
      /\ rounds' = (IF live[Key[t]] # Nil THEN rounds ELSE [rounds EXCEPT ![s] = Fresh])
      /\ UNCHANGED <<id, flag, seen, call, got, aborted>>
  BY Gone DEF Join, Go
<1>1. ~InRound(t) /\ InRound(t)' /\ held[t] = Nil
  BY <1>0 DEF InRound, RoundPlaces, IInv, Hold
<1>2. /\ Key' = Key /\ (HasResult' <=> HasResult) /\ (UseFlag' <=> UseFlag)
      /\ \A u \in Threads : Group(u)' = Group(u) /\ Size(u)' = Size(u)
  BY SetupStays
<1>3. new \in States /\ Holders(new) = {}
  BY FreeState DEF IInv
<1>4. /\ \A u \in Threads : live[Key[u]] \in States \cup {Nil}
      /\ \A u \in Threads : live[Key[u]] # Nil =>
            live[Key[u]] = map[Key[u]] /\ Holders(map[Key[u]]) # {}
      /\ \A u, v \in Threads : InRound(v) /\ map[Key[u]] = held[v] => live[Key[u]] = held[v]
      /\ live \in [{Key[u] : u \in Threads} -> States \cup {Nil}]
  <2>1. map \in [{Key[u] : u \in Threads} -> States \cup {Nil}]
    BY DEF IInv, TypeOK
  <2>2. \A v \in Threads : InRound(v) => held[v] # Nil /\ v \in Holders(held[v])
    BY DEF IInv, Hold, Holders
  <2> QED  BY <2>1, <2>2
<1> HIDE DEF live, new
<1>5. s \in States /\ s # Nil
  BY <1>3, <1>4, NilAssumption
<1>6. ASSUME live[Key[t]] = Nil
      PROVE  s = new /\ \A u \in Threads : InRound(u) => held[u] # s
  BY <1>3, <1>6 DEF Holders
<1>7. ASSUME live[Key[t]] # Nil
      PROVE  \E w \in Threads : InRound(w) /\ held[w] = s /\ map[Key[t]] = s
  <2>1. s = map[Key[t]] /\ Holders(s) # {}
    BY <1>4, <1>7
  <2> QED  BY <1>5, <2>1 DEF Holders, IInv, Hold
<1> HIDE DEF s
<1>8. /\ map' \in [{Key[u] : u \in Threads} -> States \cup {Nil}]
      /\ map'[Key[t]] = s
      /\ \A u \in Threads : Key[u] # Key[t] => map'[Key[u]] = live[Key[u]]
      /\ held' \in [Threads -> States \cup {Nil}]
      /\ held'[t] = s /\ \A u \in Threads : u # t => held'[u] = held[u]
  BY <1>0, <1>4, <1>5 DEF IInv, TypeOK
<1>9. /\ Fresh \in RoundStates /\ Fresh.ack = 0 /\ Fresh.rel = 0 /\ Fresh.ready = FALSE
  BY DEF Fresh, RoundStates
<1>10. /\ rounds' \in [States -> RoundStates]
       /\ live[Key[t]] # Nil => rounds' = rounds
       /\ live[Key[t]] = Nil => State(t)' = Fresh
       /\ live[Key[t]] = Nil => \A k \in States : k # s => rounds'[k] = rounds[k]
  BY <1>0, <1>5, <1>8, <1>9 DEF IInv, TypeOK, State
<1>11. /\ \A u \in Threads : u # t =>
            /\ InRound(u)' <=> InRound(u)
            /\ \A n : /\ HasAcked(u, n)' <=> HasAcked(u, n)
                      /\ HasWritten(u, n)' <=> HasWritten(u, n)
                      /\ HasReleased(u, n)' <=> HasReleased(u, n)
                      /\ HasReturned(u, n)' <=> HasReturned(u, n)
      /\ \A n : /\ HasAcked(t, n)' <=> HasAcked(t, n)
                /\ HasWritten(t, n)' <=> HasWritten(t, n)
                /\ HasReleased(t, n)' <=> HasReleased(t, n)
                /\ HasReturned(t, n)' <=> HasReturned(t, n)
  <2>1. \A u \in Threads : u # t =>
            /\ InRound(u)' <=> InRound(u)
            /\ \A n : /\ HasAcked(u, n)' <=> HasAcked(u, n)
                      /\ HasWritten(u, n)' <=> HasWritten(u, n)
                      /\ HasReleased(u, n)' <=> HasReleased(u, n)
                      /\ HasReturned(u, n)' <=> HasReturned(u, n)
    BY <1>0, StaysThere
  <2>2. \A n : /\ HasAcked(t, n)' <=> HasAcked(t, n)
               /\ HasWritten(t, n)' <=> HasWritten(t, n)
               /\ HasReleased(t, n)' <=> HasReleased(t, n)
               /\ HasReturned(t, n)' <=> HasReturned(t, n)
    BY <1>0 DEF HasAcked, HasWritten, HasReleased, HasReturned, RoundPlaces, Before
  <2> QED  BY <2>1, <2>2
<1>12. /\ call[t] \in 1..MaxCalls /\ ~HasAcked(t, call[t])
       /\ \A u \in Threads : Key[u] = Key[t] => ~HasReturned(u, call[t])
       /\ \A u \in Threads : InRound(u) /\ map[Key[t]] = held[u] =>
             Key[u] = Key[t] /\ call[u] = call[t] /\ ~State(u).ready
       /\ \A u \in Threads : InRound(u) /\ Key[u] = Key[t] /\ Ackers(u) # Group(u) =>
             map[Key[t]] = held[u]
       /\ \A u \in Threads : InRound(u) /\ Key[u] = Key[t] /\ call[u] = call[t] =>
             map[Key[t]] = held[u]
  BY <1>0, Joinable
<1>13. TypeOK'
  <2>1. pc' \in [Threads -> {"idle"} \cup Before \cup RoundPlaces \cup After]
    BY <1>0 DEF IInv, TypeOK, RoundPlaces
  <2> QED  BY <1>0, <1>8, <1>10, <2>1 DEF IInv, TypeOK, Key
<1>14. FlagCounts'
  <2>1. InFlight' = InFlight
    BY <1>0 DEF InFlight, RoundPlaces
  <2>2. pc'[t] \notin {"TryJoin", "load", "increment"} \cup After
    BY <1>0 DEF After
  <2> QED  BY <1>0, <1>2, <2>1, <2>2 DEF IInv, FlagCounts
<1>15. Hold'
  <2>1. ASSUME NEW u \in Threads
        PROVE  /\ held'[u] # Nil <=> InRound(u)'
               /\ InRound(u)' => Size(u)' > 1
               /\ pc'[u] # "idle" => call'[u] # 0
    <3>1. CASE u = t
      BY <1>0, <1>1, <1>2, <1>5, <1>8, <3>1 DEF IInv, Hold
    <3>2. CASE u # t
      BY <1>0, <1>2, <1>8, <1>11, <3>2 DEF IInv, Hold
    <3> QED  BY <3>1, <3>2
  <2> QED  BY <2>1 DEF Hold
<1>16. Together'
  BY <1>0, <1>2, <1>11 DEF IInv, Together
<1>17. Recorded'
  BY <1>0, <1>11 DEF IInv, Recorded
<1>18. RoundsDoNotMix'
  BY <1>0, <1>2 DEF IInv, RoundsDoNotMix
<1>19. ASSUME NEW u \in Threads, InRound(u)
       PROVE  /\ u # t /\ held'[u] = held[u] /\ State(u)' = State(u) /\ pc'[u] = pc[u]
              /\ Ackers(u)' = Ackers(u) /\ Writers(u)' = Writers(u)
              /\ Releasers(u)' = Releasers(u) /\ Returners(u)' = Returners(u)
              /\ \A k : ToBeWritten(u, k)' <=> ToBeWritten(u, k)
              /\ held[u] = s <=> Key[u] = Key[t] /\ call[u] = call[t]
  <2>1. u # t /\ held'[u] = held[u] /\ held[u] \in States
    BY <1>1, <1>8, <1>19, Inside
  <2>2. State(u)' = State(u) /\ pc'[u] = pc[u]
    BY <1>0, <1>6, <1>10, <1>19, <2>1 DEF State
  <2>3. /\ Ackers(u)' = Ackers(u) /\ Writers(u)' = Writers(u)
        /\ Releasers(u)' = Releasers(u) /\ Returners(u)' = Returners(u)
    <3>1. call'[u] = call[u] /\ Group(u)' = Group(u)
      BY <1>0, <1>2
    <3> QED  BY <1>11, <3>1, Groups DEF Ackers, Writers, Releasers, Returners
  <2>4. \A k : ToBeWritten(u, k)' <=> ToBeWritten(u, k)
    <3>1. pc[t] # "write" /\ pc'[t] # "write"
      BY <1>0
    <3>2. \A w \in Threads : w # t => held'[w] = held[w] /\ pc'[w] = pc[w] /\ id'[w] = id[w]
      BY <1>0, <1>8
    <3> QED  BY <2>1, <3>1, <3>2 DEF ToBeWritten
  <2>5. held[u] = s <=> Key[u] = Key[t] /\ call[u] = call[t]
    <3>1. CASE live[Key[t]] # Nil
      <4>1. map[Key[t]] = s
        BY <1>7, <3>1
      <4> QED  BY <1>12, <1>19, <4>1
    <3>2. CASE live[Key[t]] = Nil
      <4>1. held[u] # s
        BY <1>6, <1>19, <3>2
      <4>2. map[Key[t]] # held[u]
        BY <1>4, <1>19, <2>1, <3>2, NilAssumption
      <4> QED  BY <1>12, <1>19, <4>1, <4>2
    <3> QED  BY <3>1, <3>2
  <2> QED  BY <2>1, <2>2, <2>3, <2>4, <2>5
<1>20. ASSUME NEW u \in Threads, InRound(u)
       PROVE  (Counted(u) /\ Listed(u) /\ Over(u) /\ Stored(u) /\ Computed(u))'
  <2>1. /\ u # t /\ held'[u] = held[u] /\ State(u)' = State(u) /\ pc'[u] = pc[u]
        /\ Ackers(u)' = Ackers(u) /\ Writers(u)' = Writers(u)
        /\ Releasers(u)' = Releasers(u) /\ Returners(u)' = Returners(u)
        /\ \A k : ToBeWritten(u, k)' <=> ToBeWritten(u, k)
        /\ Group(u)' = Group(u) /\ call'[u] = call[u]
    BY <1>0, <1>2, <1>19, <1>20
  <2>2. Counted(u) /\ Listed(u) /\ Over(u) /\ Stored(u) /\ Computed(u)
    BY <1>20 DEF IInv, RoundInv
  <2>3. Counted(u)'
    BY <1>2, <2>1, <2>2 DEF Counted
  <2>4. Over(u)'
    BY <1>2, <2>1, <2>2 DEF Over, Full
  <2>5. Stored(u)'
    BY <2>1, <2>2 DEF Stored
  <2>6. Computed(u)'
    BY <1>2, <2>1, <2>2 DEF Computed
  <2>7. ASSUME NEW w \in Threads, map'[Key[w]] = held[u]
        PROVE  map[Key[w]] = held[u]
    <3>1. held[u] \in States
      BY <1>20, Inside
    <3>2. CASE Key[w] # Key[t]
      BY <1>4, <1>8, <2>7, <3>1, <3>2, NilAssumption
    <3>3. CASE Key[w] = Key[t]
      <4>1. s = held[u]
        BY <1>8, <2>7, <3>3
      <4>2. live[Key[t]] # Nil
        BY <1>6, <1>20, <4>1
      <4> QED  BY <1>7, <3>3, <4>1, <4>2
    <3> QED  BY <3>2, <3>3
  <2>8. Ackers(u) # Group(u) => map'[Key[u]] = held[u]
    <3> SUFFICES ASSUME Ackers(u) # Group(u)
                 PROVE  map'[Key[u]] = held[u]
      OBVIOUS
    <3>1. map[Key[u]] = held[u] /\ live[Key[u]] = held[u] /\ held[u] # Nil
      BY <1>4, <1>20, <2>2, Inside, NilAssumption DEF Listed
    <3>2. CASE Key[u] # Key[t]
      BY <1>8, <3>1, <3>2
    <3>3. CASE Key[u] = Key[t]
      BY <1>7, <1>8, <3>1, <3>3
    <3> QED  BY <3>2, <3>3
  <2>9. Listed(u)'
    BY <1>2, <2>1, <2>2, <2>7, <2>8 DEF Listed
  <2> QED  BY <2>3, <2>4, <2>5, <2>6, <2>9
<1>21. (Counted(t) /\ Listed(t) /\ Over(t) /\ Stored(t) /\ Computed(t))'
  <2>1. CASE live[Key[t]] # Nil
    <3>1. PICK w \in Threads : InRound(w) /\ held[w] = s /\ map[Key[t]] = s
      BY <1>7, <2>1
    <3>2. /\ Key[w] = Key[t] /\ call[w] = call[t] /\ ~State(w).ready
          /\ Group(w) = Group(t) /\ Group(w)' = Group(t)'
      BY <1>2, <1>12, <3>1, Groups
    <3>3. (Counted(w) /\ Listed(w) /\ Over(w) /\ Stored(w) /\ Computed(w))'
      BY <1>20, <3>1
    <3>4. held'[w] = held'[t] /\ State(t)' = State(w)' /\ State(w)' = State(w)
      BY <1>8, <1>19, <3>1 DEF State
    <3>5. /\ Ackers(t)' = Ackers(w)' /\ Writers(t)' = Writers(w)'
          /\ Releasers(t)' = Releasers(w)' /\ Returners(t)' = Returners(w)'
          /\ \A k : ToBeWritten(t, k)' <=> ToBeWritten(w, k)'
      BY <1>0, <3>2, <3>4 DEF Ackers, Writers, Releasers, Returners, ToBeWritten
    <3>6. Counted(t)'
      BY <3>3, <3>4, <3>5 DEF Counted
    <3>7. Listed(t)'
      BY <1>0, <1>2, <1>8, <3>2, <3>3, <3>4 DEF Listed
    <3>8. Over(t)'
      BY <1>0, <3>2, <3>3, <3>4, <3>5 DEF Over, Leading
    <3>9. Stored(t)'
      BY <1>0, <3>2, <3>3, <3>4, <3>5 DEF Stored
    <3>10. Computed(t)'
      BY <1>0, <3>2, <3>4 DEF Computed
    <3> QED  BY <3>6, <3>7, <3>8, <3>9, <3>10
  <2>2. CASE live[Key[t]] = Nil
    <3>1. State(t)' = Fresh /\ call'[t] = call[t] /\ pc'[t] = "ack" /\ held'[t] = s
      BY <1>0, <1>8, <1>10, <2>2
    <3>2. ASSUME NEW u \in Group(t), HasAcked(u, call[t])
          PROVE  FALSE
      <4>1. u \in Threads /\ Key[u] = Key[t] /\ ~HasReturned(u, call[t])
        BY <1>12, Groups
      <4>2. call[u] = call[t] /\ pc[u] \in RoundPlaces
        BY <3>2, <4>1 DEF HasAcked, HasReturned
      <4>3. held[u] = s /\ held[u] # s
        BY <1>6, <1>19, <2>2, <4>1, <4>2 DEF InRound
      <4> QED  BY <4>3
    <3>3. /\ Ackers(t)' = {} /\ Writers(t)' = {} /\ Releasers(t)' = {} /\ Returners(t)' = {}
      <4>1. \A u \in Group(t) : /\ ~HasAcked(u, call[t])' /\ ~HasWritten(u, call[t])'
                                /\ ~HasReleased(u, call[t])' /\ ~HasReturned(u, call[t])'
        <5> SUFFICES ASSUME NEW u \in Group(t)
                     PROVE  /\ ~HasAcked(u, call[t])' /\ ~HasWritten(u, call[t])'
                            /\ ~HasReleased(u, call[t])' /\ ~HasReturned(u, call[t])'
          OBVIOUS
        <5>1. u \in Threads /\ ~HasAcked(u, call[t])
          BY <3>2, Groups
        <5>2. ~HasWritten(u, call[t]) /\ ~HasReleased(u, call[t]) /\ ~HasReturned(u, call[t])
          BY <5>1, InOrder
        <5> QED  BY <1>11, <3>1, <5>1, <5>2
      <4> QED  BY <1>2, <3>1, <4>1 DEF Ackers, Writers, Releasers, Returners
    <3>4. Counted(t)'
      BY <1>9, <3>1, <3>3, FS_EmptySet DEF Counted
    <3>5. Listed(t)'
      <4>1. ASSUME NEW u \in Threads, map'[Key[u]] = s
            PROVE  Key[t] = Key[u]
        BY <1>3, <1>4, <1>5, <1>6, <1>8, <2>2, <4>1
      <4> QED  BY <1>2, <1>8, <1>9, <3>1, <4>1 DEF Listed
    <3>6. Over(t)'
      BY <1>9, <3>1, <3>3 DEF Over, Leading
    <3>7. Stored(t)'
      <4>1. \A k \in Slots : ~(k < Fresh.ack)
        BY <1>9 DEF Slots
      <4> QED  BY <3>1, <3>3, <4>1 DEF Stored
    <3>8. Computed(t)'
      BY <1>9, <3>1 DEF Computed
    <3> QED  BY <3>4, <3>5, <3>6, <3>7, <3>8
  <2> QED  BY <2>1, <2>2
<1>22. ASSUME NEW u \in Threads, NEW v \in Threads, InRound(u)', InRound(v)'
       PROVE  (SameRound(u, v) /\ OneLeads(u, v) /\ OwnSlot(u, v))'
  <2>1. \A w \in Threads : w # t /\ InRound(w)' =>
           /\ InRound(w) /\ held'[w] = held[w] /\ State(w)' = State(w) /\ pc'[w] = pc[w]
           /\ held[w] = s <=> Key[w] = Key[t] /\ call[w] = call[t]
    BY <1>11, <1>19
  <2>2. CASE u # t /\ v # t
    <3>1. SameRound(u, v) /\ OneLeads(u, v) /\ OwnSlot(u, v)
      BY <1>22, <2>1, <2>2 DEF IInv, RoundInv
    <3> QED  BY <1>0, <1>2, <1>22, <2>1, <2>2, <3>1 DEF SameRound, OneLeads, OwnSlot
  <2>3. CASE u # t /\ v = t
    <3>1. OwnSlot(u, u)
      BY <1>22, <2>1, <2>3 DEF IInv, RoundInv
    <3>2. SameRound(u, v)'
      BY <1>0, <1>2, <1>8, <1>22, <2>1, <2>3 DEF SameRound
    <3>3. OneLeads(u, v)'
      BY <1>0, <2>3 DEF OneLeads, Leading
    <3>4. OwnSlot(u, v)'
      BY <1>0, <1>22, <2>1, <2>3, <3>1 DEF OwnSlot
    <3> QED  BY <3>2, <3>3, <3>4
  <2>4. CASE u = t /\ v # t
    <3>1. SameRound(u, v)'
      BY <1>0, <1>2, <1>8, <1>22, <2>1, <2>4 DEF SameRound
    <3>2. OwnSlot(u, v)'
      BY <1>0, <2>4 DEF OwnSlot
    <3>3. OneLeads(u, v)'
      <4>1. CASE held[v] = s
        <5>1. State(t)' = State(v)' /\ State(v)' = State(v) /\ Size(t) = Size(v) /\ InRound(v)
          BY <1>8, <1>22, <2>1, <2>4, <4>1, Groups DEF State
        <5>2. OneLeads(v, v)
          BY <5>1 DEF IInv, RoundInv
        <5> QED  BY <1>0, <1>2, <2>1, <1>22, <2>4, <5>1, <5>2 DEF OneLeads, Leading
      <4>2. CASE held[v] # s
        BY <1>8, <1>22, <2>1, <2>4, <4>2 DEF OneLeads
      <4> QED  BY <4>1, <4>2
    <3> QED  BY <3>1, <3>2, <3>3
  <2>5. CASE u = t /\ v = t
    BY <1>0, <2>5 DEF SameRound, OneLeads, OwnSlot, Leading
  <2> QED  BY <2>2, <2>3, <2>4, <2>5
<1>23. RoundInv'
  BY <1>1, <1>11, <1>20, <1>21, <1>22 DEF RoundInv
<1> QED  BY <1>13, <1>14, <1>15, <1>16, <1>17, <1>18, <1>23 DEF IInv

\* A step of t outside of the rounds that returns from no call.
LEMMA OutsideStep ==
  ASSUME IInv, NEW t \in Threads, UNCHANGED <<setup, map, rounds, held, id, got>>,
         pc[t] \in {"idle"} \cup Before \cup After, pc'[t] \in {"idle"} \cup Before \cup After,
         \A u \in Threads : u # t => pc'[u] = pc[u] /\ call'[u] = call[u],
         pc'[t] # "idle" => call'[t] # 0,
         \A n \in Nat : /\ HasAcked(t, n)' <=> HasAcked(t, n)
                        /\ HasWritten(t, n)' <=> HasWritten(t, n)
                        /\ HasReleased(t, n)' <=> HasReleased(t, n)
                        /\ HasReturned(t, n)' <=> HasReturned(t, n),
         flag = kCompleted => flag' = kCompleted
  PROVE  Hold' /\ Together' /\ RoundInv' /\ Recorded' /\ RoundsDoNotMix'
<1>1. ~InRound(t) /\ ~InRound(t)'
  BY DEF InRound, RoundPlaces, Before, After
<1>2. /\ Key' = Key /\ (HasResult' <=> HasResult)
      /\ \A u \in Threads : Group(u)' = Group(u) /\ Size(u)' = Size(u)
  BY SetupStays
<1>3. \A u \in Threads, n \in Nat : /\ HasReturned(u, n)' <=> HasReturned(u, n)
                                    /\ HasAcked(u, n)' <=> HasAcked(u, n)
  BY StaysThere
<1>4. Hold'
  BY <1>1, <1>2 DEF IInv, Hold, InRound
<1>5. Together'
  BY <1>2, <1>3 DEF IInv, Together
<1>6. RoundInv'
  BY <1>1, QuietStep
<1>7. Recorded'
  BY <1>3 DEF IInv, Recorded
<1>8. RoundsDoNotMix'
  BY <1>2 DEF IInv, RoundsDoNotMix
<1> QED  BY <1>4, <1>5, <1>6, <1>7, <1>8

\* A call returns without a round: it is skipped, or the thread is alone.
LEMMA ResultStep ==
  ASSUME IInv, NEW t \in Threads,
         setup' = setup, map' = map, rounds' = rounds, held' = held, id' = id,
         call' = call, flag' = flag,
         pc[t] \in Before, pc'[t] \in {"idle"} \cup After,
         \A u \in Threads : u # t => pc'[u] = pc[u],
         flag = kCompleted \/ Group(t) = {t},
         NEW r, got' = [got EXCEPT ![t][call[t]] = r], r # Nil,
         r \in {Skipped, {<<t, call[t]>>}}, r = Skipped \/ Group(t) = {t}
  PROVE  /\ got' \in [Threads -> [1..MaxCalls -> {Nil, Skipped} \cup SUBSET (Values \cup {Nil})]]
         /\ Hold' /\ Together' /\ RoundInv' /\ Recorded' /\ RoundsDoNotMix'
<1>1. ~InRound(t) /\ ~InRound(t)' /\ call[t] # 0 /\ call[t] \in 1..MaxCalls
  BY RendezvousAssumption DEF InRound, RoundPlaces, Before, After, IInv, Hold, TypeOK
<1>2. /\ Key' = Key /\ (HasResult' <=> HasResult)
      /\ \A u \in Threads : Group(u)' = Group(u) /\ Size(u)' = Size(u)
  BY SetupStays
<1>3. /\ \A u \in Threads : u # t => \A n : /\ HasReturned(u, n)' <=> HasReturned(u, n)
                                            /\ HasAcked(u, n)' <=> HasAcked(u, n)
      /\ \A n \in Nat : HasReturned(t, n)' <=> HasReturned(t, n) \/ n = call[t]
      /\ \A n \in Nat : HasReturned(t, n)' => HasAcked(t, n)'
  <2>1. \A u \in Threads : u # t => \A n : /\ HasReturned(u, n)' <=> HasReturned(u, n)
                                           /\ HasAcked(u, n)' <=> HasAcked(u, n)
    BY StaysThere
  <2>2. \A n \in Nat : /\ HasReturned(t, n)' <=> HasReturned(t, n) \/ n = call[t]
                       /\ HasReturned(t, n)' => HasAcked(t, n)'
    BY DEF HasReturned, HasAcked, Before, RoundPlaces, After
  <2> QED  BY <2>1, <2>2
<1>4. Hold'
  BY <1>1, <1>2 DEF IInv, Hold, InRound
<1>5. Together'
  <2> SUFFICES ASSUME flag # kCompleted, NEW u \in Threads, NEW v \in Threads, Key[u] = Key[v],
                      NEW n \in 1..MaxCalls, HasReturned(u, n)'
               PROVE  HasAcked(v, n)'
    BY <1>2 DEF Together
  <2>1. Group(t) = {t} /\ n \in Nat
    OBVIOUS
  <2>2. CASE u = t \/ v = t
    <3>1. u = t /\ v = t
      BY <2>1, <2>2, Groups
    <3> QED  BY <1>3, <2>1, <3>1
  <2>3. CASE u # t /\ v # t
    BY <1>3, <2>3 DEF IInv, Together
  <2> QED  BY <2>2, <2>3
<1>6. RoundInv'
  <2>1. ASSUME NEW v \in Threads, InRound(v)
        PROVE  t \notin Group(v)
    <3>1. flag # kCompleted /\ Size(v) > 1 /\ v # t
      BY <1>1, <2>1, Inside
    <3> QED  BY <3>1, Groups
  <2>2. \A u \in Threads : u # t => pc'[u] = pc[u] /\ call'[u] = call[u] /\ id'[u] = id[u]
    OBVIOUS
  <2> QED  BY <1>1, <2>1, <2>2, QuietStep
<1>7. /\ got' \in [Threads -> [1..MaxCalls -> {Nil, Skipped} \cup SUBSET (Values \cup {Nil})]]
      /\ got'[t][call[t]] = r
      /\ \A n \in 1..MaxCalls : n # call[t] => got'[t][n] = got[t][n]
      /\ \A u \in Threads : u # t => got'[u] = got[u]
  <2> DEFINE f == [got[t] EXCEPT ![call[t]] = r]
             Results == {Nil, Skipped} \cup SUBSET (Values \cup {Nil})
  <2>1. got[t] \in [1..MaxCalls -> Results]
    BY DEF IInv, TypeOK
  <2>2. r \in Results
    BY <1>1 DEF Values
  <2> HIDE DEF Results
  <2>3. /\ f \in [1..MaxCalls -> Results] /\ f[call[t]] = r
        /\ \A n \in 1..MaxCalls : n # call[t] => f[n] = got[t][n]
    BY <1>1, <2>1, <2>2
  <2>4. got' = [got EXCEPT ![t] = f]
    OBVIOUS
  <2> HIDE DEF f
  <2>5. got \in [Threads -> [1..MaxCalls -> Results]]
    BY DEF IInv, TypeOK, Results
  <2>6. /\ got' \in [Threads -> [1..MaxCalls -> Results]]
        /\ got'[t] = f /\ \A u \in Threads : u # t => got'[u] = got[u]
    BY <2>3, <2>4, <2>5
  <2> QED  BY <2>3, <2>6 DEF Results
<1>8. Recorded'
  <2> SUFFICES ASSUME NEW u \in Threads, NEW n \in 1..MaxCalls
               PROVE  got'[u][n] # Nil <=> HasReturned(u, n)'
    BY DEF Recorded
  <2>1. (got[u][n] # Nil <=> HasReturned(u, n)) /\ n \in Nat
    BY DEF IInv, Recorded
  <2>2. CASE u = t
    BY <1>3, <1>7, <2>1, <2>2
  <2>3. CASE u # t
    BY <1>3, <1>7, <2>1, <2>3
  <2> QED  BY <2>2, <2>3
<1>9. RoundsDoNotMix'
  <2> SUFFICES ASSUME HasResult, NEW u \in Threads, NEW n \in 1..MaxCalls
               PROVE  got'[u][n] \in {Nil, Skipped, {<<v, n>> : v \in Group(u)}}
    BY <1>2 DEF RoundsDoNotMix
  <2>1. got[u][n] \in {Nil, Skipped, {<<v, n>> : v \in Group(u)}}
    BY DEF IInv, RoundsDoNotMix
  <2>2. CASE u = t /\ n = call[t]
    <3>1. Group(t) = {t} => {<<v, n>> : v \in Group(t)} = {<<t, n>>}
      OBVIOUS
    <3> QED  BY <1>7, <2>2, <3>1
  <2>3. CASE ~(u = t /\ n = call[t])
    BY <1>7, <2>1, <2>3
  <2> QED  BY <2>2, <2>3
<1> QED  BY <1>4, <1>5, <1>6, <1>7, <1>8, <1>9

LEMMA AloneIInv ==
  ASSUME IInv, NEW t \in Threads, UNCHANGED setup, Alone(t)
  PROVE  IInv'
<1> DEFINE r == {<<t, call[t]>>}
<1>0. /\ Size(t) = 1 /\ pc[t] = "Join" /\ pc'[t] = (IF UseFlag THEN "exit" ELSE "idle")
      /\ pc' = [pc EXCEPT ![t] = pc'[t]]
      /\ \A u \in Threads : u # t => pc'[u] = pc[u]
      /\ got' = [got EXCEPT ![t][call[t]] = r]
      /\ UNCHANGED <<map, rounds, held, id, flag, seen, call, aborted>>
  BY Gone DEF Alone, Go
<1>1. Group(t) = {t}
  BY <1>0, Groups, FS_Singleton DEF Size
<1>2. call[t] \in 1..MaxCalls
  BY <1>0, RendezvousAssumption DEF IInv, Hold, TypeOK
<1>3. r # Nil
  BY <1>2, NilAssumption
<1> HIDE DEF r
<1>4. pc[t] \in Before /\ pc'[t] \in {"idle"} \cup After
  BY <1>0 DEF Before, After
<1>5. /\ got' \in [Threads -> [1..MaxCalls -> {Nil, Skipped} \cup SUBSET (Values \cup {Nil})]]
      /\ Hold' /\ Together' /\ RoundInv' /\ Recorded' /\ RoundsDoNotMix'
  <2>1. r \in {Skipped, {<<t, call[t]>>}}
    BY DEF r
  <2> QED  BY <1>0, <1>1, <1>3, <1>4, <2>1, ResultStep
<1>6. TypeOK'
  <2>1. pc' \in [Threads -> {"idle"} \cup Before \cup RoundPlaces \cup After]
    BY <1>0, <1>4 DEF IInv, TypeOK
  <2> QED  BY <1>0, <1>5, <2>1 DEF IInv, TypeOK, Key
<1>7. FlagCounts'
  <2>1. (UseFlag' <=> UseFlag)
    BY SetupStays
  <2>2. CASE UseFlag
    <3>1. InFlight' = InFlight
      BY <1>0, <2>2 DEF InFlight, After
    <3> QED  BY <1>0, <2>1, <2>2, <3>1 DEF IInv, FlagCounts
  <2>3. CASE ~UseFlag
    BY <1>0, <2>1, <2>3 DEF IInv, FlagCounts, After
  <2> QED  BY <2>2, <2>3
<1> QED  BY <1>5, <1>6, <1>7 DEF IInv

LEMMA BeginIInv ==
  ASSUME IInv, NEW t \in Threads, UNCHANGED setup, Begin(t)
  PROVE  IInv'
<1>0. /\ call[t] < MaxCalls /\ pc[t] = "idle"
      /\ pc'[t] = (IF UseFlag THEN "TryJoin" ELSE "Join") /\ pc' = [pc EXCEPT ![t] = pc'[t]]
      /\ \A u \in Threads : u # t => pc'[u] = pc[u]
      /\ call' = [call EXCEPT ![t] = @ + 1]
      /\ UNCHANGED <<map, rounds, held, id, flag, seen, got, aborted>>
  BY Gone DEF Begin, Go
<1>1. /\ call[t] \in Nat /\ call'[t] = call[t] + 1 /\ call' \in [Threads -> 0..MaxCalls]
      /\ \A u \in Threads : u # t => call'[u] = call[u]
  BY <1>0, RendezvousAssumption DEF IInv, TypeOK
<1>2. pc[t] \in {"idle"} /\ pc'[t] \in Before
  BY <1>0 DEF Before
<1>3. \A n \in Nat : /\ HasAcked(t, n)' <=> HasAcked(t, n)
                     /\ HasWritten(t, n)' <=> HasWritten(t, n)
                     /\ HasReleased(t, n)' <=> HasReleased(t, n)
                     /\ HasReturned(t, n)' <=> HasReturned(t, n)
  BY <1>0, <1>1, <1>2 DEF HasAcked, HasWritten, HasReleased, HasReturned, Before, RoundPlaces
<1>4. Hold' /\ Together' /\ RoundInv' /\ Recorded' /\ RoundsDoNotMix'
  BY <1>0, <1>1, <1>2, <1>3, OutsideStep
<1>5. TypeOK'
  <2>1. pc' \in [Threads -> {"idle"} \cup Before \cup RoundPlaces \cup After]
    BY <1>0, <1>2 DEF IInv, TypeOK
  <2> QED  BY <1>0, <1>1, <2>1 DEF IInv, TypeOK, Key
<1>6. FlagCounts'
  <2>1. (UseFlag' <=> UseFlag)
    BY SetupStays
  <2>2. CASE UseFlag
    <3>1. InFlight' = InFlight
      BY <1>0, <2>2 DEF InFlight, RoundPlaces, After
    <3> QED  BY <1>0, <2>1, <2>2, <3>1 DEF IInv, FlagCounts
  <2>3. CASE ~UseFlag
    BY <1>0, <2>1, <2>3 DEF IInv, FlagCounts, After
  <2> QED  BY <2>2, <2>3
<1> QED  BY <1>4, <1>5, <1>6 DEF IInv

\* A thread stays on its side of the rounds.
LEMMA SameSide ==
  ASSUME NEW t \in Threads, UNCHANGED call,
         \/ pc[t] \in Before /\ pc'[t] \in Before
         \/ pc[t] \in {"idle"} \cup After /\ pc'[t] \in {"idle"} \cup After
  PROVE  \A n \in Nat : /\ HasAcked(t, n)' <=> HasAcked(t, n)
                        /\ HasWritten(t, n)' <=> HasWritten(t, n)
                        /\ HasReleased(t, n)' <=> HasReleased(t, n)
                        /\ HasReturned(t, n)' <=> HasReturned(t, n)
  BY DEF HasAcked, HasWritten, HasReleased, HasReturned, Before, RoundPlaces, After

\* A call is skipped when the flag is completed: nobody is in a round.
LEMMA SkipIInv ==
  ASSUME IInv, NEW t \in Threads, UNCHANGED setup, flag = kCompleted,
         pc[t] \in {"TryJoin", "increment"}, Go(t, pc[t], "idle"),
         got' = [got EXCEPT ![t][call[t]] = Skipped],
         UNCHANGED <<map, rounds, held, id, flag, seen, call, aborted>>
  PROVE  IInv'
<1>0. pc'[t] = "idle" /\ \A u \in Threads : u # t => pc'[u] = pc[u]
  BY Gone
<1>1. pc[t] \in Before /\ pc'[t] \in {"idle"} \cup After
  BY <1>0 DEF Before
<1>2. /\ got' \in [Threads -> [1..MaxCalls -> {Nil, Skipped} \cup SUBSET (Values \cup {Nil})]]
      /\ Hold' /\ Together' /\ RoundInv' /\ Recorded' /\ RoundsDoNotMix'
  BY <1>0, <1>1, NilAssumption, ResultStep
<1>3. TypeOK'
  <2>1. pc' \in [Threads -> {"idle"} \cup Before \cup RoundPlaces \cup After]
    BY DEF IInv, TypeOK, Go
  <2> QED  BY <1>2, <2>1 DEF IInv, TypeOK, Key
<1>4. FlagCounts'
  <2>1. (UseFlag' <=> UseFlag)
    BY SetupStays
  <2>2. InFlight' = InFlight
    BY <1>0 DEF InFlight, RoundPlaces, After
  <2> QED  BY <1>0, <2>1, <2>2 DEF IInv, FlagCounts, After
<1> QED  BY <1>2, <1>3, <1>4 DEF IInv

\* A thread looks at the flag on its way in or out.
LEMMA LookIInv ==
  ASSUME IInv, NEW t \in Threads, UNCHANGED setup,
         \/ pc[t] = "TryJoin" /\ pc'[t] = "load"
         \/ pc[t] \in {"load", "increment"} /\ pc'[t] = "increment"
         \/ pc[t] \in {"exit", "decrement"} /\ pc'[t] = "decrement",
         pc' = [pc EXCEPT ![t] = pc'[t]],
         UNCHANGED seen \/ seen' = [seen EXCEPT ![t] = flag],
         pc'[t] = "increment" => seen'[t] = flag,
         UNCHANGED <<map, rounds, held, id, flag, call, got, aborted>>
  PROVE  IInv'
<1>0. \A u \in Threads : u # t => pc'[u] = pc[u] /\ call'[u] = call[u] /\ seen'[u] = seen[u]
  BY DEF IInv, TypeOK
<1>1. \/ pc[t] \in Before /\ pc'[t] \in Before
      \/ pc[t] \in {"idle"} \cup After /\ pc'[t] \in {"idle"} \cup After
  BY DEF Before, After
<1>2. \A n \in Nat : /\ HasAcked(t, n)' <=> HasAcked(t, n)
                     /\ HasWritten(t, n)' <=> HasWritten(t, n)
                     /\ HasReleased(t, n)' <=> HasReleased(t, n)
                     /\ HasReturned(t, n)' <=> HasReturned(t, n)
  BY <1>1, SameSide
<1>3. Hold' /\ Together' /\ RoundInv' /\ Recorded' /\ RoundsDoNotMix'
  <2>1. call'[t] # 0 /\ (flag = kCompleted => flag' = kCompleted)
    BY DEF IInv, Hold
  <2>2. pc[t] \in {"idle"} \cup Before \cup After /\ pc'[t] \in {"idle"} \cup Before \cup After
    BY <1>1
  <2> QED  BY <1>0, <1>2, <2>1, <2>2, OutsideStep
<1>4. TypeOK'
  <2>1. pc' \in [Threads -> {"idle"} \cup Before \cup RoundPlaces \cup After]
    BY <1>1 DEF IInv, TypeOK
  <2>2. seen' \in [Threads -> Nat]
    BY DEF IInv, TypeOK
  <2> QED  BY <2>1, <2>2 DEF IInv, TypeOK, Key
<1>5. FlagCounts'
  <2>1. (UseFlag' <=> UseFlag)
    BY SetupStays
  <2>2. InFlight' = InFlight
    BY <1>0 DEF InFlight, RoundPlaces, After
  <2>3. UseFlag
    BY DEF IInv, FlagCounts, After
  <2>4. ASSUME NEW u \in Threads, pc'[u] = "increment", seen'[u] = kCompleted
        PROVE  flag = kCompleted
    <3>1. CASE u = t
      BY <2>4, <3>1
    <3>2. CASE u # t
      BY <1>0, <2>4, <3>2 DEF IInv, FlagCounts
    <3> QED  BY <3>1, <3>2
  <2> QED  BY <2>1, <2>2, <2>3, <2>4 DEF IInv, FlagCounts
<1> QED  BY <1>3, <1>4, <1>5 DEF IInv

LEMMA TryJoinIInv ==
  ASSUME IInv, NEW t \in Threads, UNCHANGED setup, TryJoin(t)
  PROVE  IInv'
<1>1. CASE /\ flag = kCompleted /\ Go(t, "TryJoin", "idle")
           /\ got' = [got EXCEPT ![t][call[t]] = Skipped]
  <2>1. pc[t] = "TryJoin" /\ Go(t, pc[t], "idle")
    BY <1>1 DEF Go
  <2> QED  BY <1>1, <2>1, SkipIInv DEF TryJoin
<1>2. CASE flag # kCompleted /\ Go(t, "TryJoin", "load") /\ UNCHANGED got
  <2>1. pc[t] = "TryJoin" /\ pc'[t] = "load" /\ pc' = [pc EXCEPT ![t] = pc'[t]]
    BY <1>2, Gone DEF Go
  <2>2. UNCHANGED <<map, rounds, held, id, flag, call, got, aborted>> /\ UNCHANGED seen
    BY <1>2 DEF TryJoin
  <2> QED  BY <2>1, <2>2, LookIInv
<1> QED  BY <1>1, <1>2 DEF TryJoin

LEMMA LoadIInv ==
  ASSUME IInv, NEW t \in Threads, UNCHANGED setup, LoadFlag(t) \/ LoadExit(t)
  PROVE  IInv'
<1>1. /\ \/ pc[t] = "load" /\ pc'[t] = "increment"
         \/ pc[t] = "exit" /\ pc'[t] = "decrement"
      /\ pc' = [pc EXCEPT ![t] = pc'[t]]
      /\ seen' = [seen EXCEPT ![t] = flag]
      /\ UNCHANGED <<map, rounds, held, id, flag, call, got, aborted>>
  BY Gone DEF LoadFlag, LoadExit, Go
<1>2. seen'[t] = flag
  BY <1>1 DEF IInv, TypeOK
<1> QED  BY <1>1, <1>2, LookIInv

\* One more thread is in flight, and the flag was not completed meanwhile.
LEMMA IncrementIInv ==
  ASSUME IInv, NEW t \in Threads, UNCHANGED setup, IncrementFlag(t)
  PROVE  IInv'
<1>1. CASE seen[t] = kCompleted /\ Go(t, "increment", "idle")
           /\ got' = [got EXCEPT ![t][call[t]] = Skipped] /\ UNCHANGED <<flag, seen>>
  <2>1. pc[t] = "increment" /\ Go(t, pc[t], "idle") /\ flag = kCompleted
    BY <1>1 DEF Go, IInv, FlagCounts
  <2> QED  BY <1>1, <2>1, SkipIInv DEF IncrementFlag
<1>2. CASE /\ seen[t] # kCompleted /\ flag = seen[t] /\ Go(t, "increment", "Join")
           /\ flag' = flag + 1 /\ UNCHANGED <<seen, got>>
  <2>0. /\ pc[t] = "increment" /\ pc'[t] = "Join" /\ pc' = [pc EXCEPT ![t] = "Join"]
        /\ \A u \in Threads : u # t => pc'[u] = pc[u]
        /\ UNCHANGED <<map, rounds, held, id, call, seen, got, aborted>>
    BY <1>2, Gone DEF IncrementFlag, Go
  <2>1. pc[t] \in Before /\ pc'[t] \in Before
    BY <2>0 DEF Before
  <2>2. \A n \in Nat : /\ HasAcked(t, n)' <=> HasAcked(t, n)
                       /\ HasWritten(t, n)' <=> HasWritten(t, n)
                       /\ HasReleased(t, n)' <=> HasReleased(t, n)
                       /\ HasReturned(t, n)' <=> HasReturned(t, n)
    BY <2>0, <2>1, SameSide
  <2>3. Hold' /\ Together' /\ RoundInv' /\ Recorded' /\ RoundsDoNotMix'
    <3>1. call'[t] # 0 /\ (flag = kCompleted => flag' = kCompleted)
      BY <1>2, <2>0 DEF IInv, Hold
    <3> QED  BY <2>0, <2>1, <2>2, <3>1, OutsideStep
  <2>4. TypeOK'
    <3>1. pc' \in [Threads -> {"idle"} \cup Before \cup RoundPlaces \cup After]
      BY <2>0, <2>1 DEF IInv, TypeOK
    <3> QED  BY <1>2, <2>0, <3>1 DEF IInv, TypeOK, Key
  <2>5. FlagCounts'
    <3>1. UseFlag /\ UseFlag'
      BY <2>0, SetupStays DEF IInv, FlagCounts
    <3>2. InFlight' = InFlight \cup {t} /\ t \notin InFlight /\ InFlight \subseteq Threads
      BY <2>0 DEF InFlight, RoundPlaces, After
    <3>3. IsFiniteSet(InFlight)
      BY <3>2, FS_Subset, RendezvousAssumption
    <3>4. flag = Cardinality(InFlight) /\ Cardinality(InFlight') = Cardinality(InFlight) + 1
      BY <1>2, <3>1, <3>2, <3>3, FS_AddElement DEF IInv, FlagCounts
    <3>5. \A u \in Threads : ~(pc'[u] = "increment" /\ seen'[u] = kCompleted)
      BY <1>2, <2>0 DEF IInv, FlagCounts
    <3> QED  BY <1>2, <3>1, <3>4, <3>5 DEF FlagCounts
  <2> QED  BY <2>3, <2>4, <2>5 DEF IInv
<1>3. CASE /\ seen[t] # kCompleted /\ flag # seen[t] /\ Go(t, "increment", "increment")
           /\ seen' = [seen EXCEPT ![t] = flag] /\ UNCHANGED <<flag, got>>
  <2>1. /\ pc[t] = "increment" /\ pc'[t] = "increment" /\ pc' = [pc EXCEPT ![t] = pc'[t]]
        /\ seen'[t] = flag
    BY <1>3, Gone DEF Go, IInv, TypeOK
  <2>2. UNCHANGED <<map, rounds, held, id, flag, call, got, aborted>>
    BY <1>3 DEF IncrementFlag
  <2> QED  BY <1>3, <2>1, <2>2, LookIInv
<1> QED  BY <1>1, <1>2, <1>3 DEF IncrementFlag

\* A thread leaves; the last one in flight completes the flag.
LEMMA ExitIInv ==
  ASSUME IInv, NEW t \in Threads, UNCHANGED setup, Exit(t)
  PROVE  IInv'
<1>1. CASE /\ flag = seen[t] /\ Go(t, "decrement", "idle") /\ flag' = Exited(flag)
           /\ UNCHANGED seen
  <2>0. /\ pc[t] = "decrement" /\ pc'[t] = "idle" /\ pc' = [pc EXCEPT ![t] = "idle"]
        /\ \A u \in Threads : u # t => pc'[u] = pc[u]
        /\ UNCHANGED <<map, rounds, held, id, call, seen, got, aborted>>
    BY <1>1, Gone DEF Exit, Go
  <2>1. pc[t] \in {"idle"} \cup After /\ pc'[t] \in {"idle"} \cup After
    BY <2>0 DEF After
  <2>2. \A n \in Nat : /\ HasAcked(t, n)' <=> HasAcked(t, n)
                       /\ HasWritten(t, n)' <=> HasWritten(t, n)
                       /\ HasReleased(t, n)' <=> HasReleased(t, n)
                       /\ HasReturned(t, n)' <=> HasReturned(t, n)
    BY <2>0, <2>1, SameSide
  <2>3. UseFlag /\ UseFlag'
    BY <2>0, SetupStays DEF IInv, FlagCounts, After
  <2>4. /\ t \in InFlight /\ InFlight' = InFlight \ {t} /\ InFlight \subseteq Threads
        /\ IsFiniteSet(InFlight)
    <3>1. t \in InFlight /\ InFlight' = InFlight \ {t} /\ InFlight \subseteq Threads
      BY <2>0 DEF InFlight, RoundPlaces, After
    <3> QED  BY <3>1, FS_Subset, RendezvousAssumption
  <2>5. /\ flag # kCompleted /\ flag = Cardinality(InFlight)
        /\ Cardinality(InFlight') = flag - 1 /\ IsFiniteSet(InFlight')
    BY <2>3, <2>4, FlagIsCount, FS_RemoveElement DEF IInv
  <2>6. flag \in Nat /\ flag # 0
    BY <2>4, <2>5, FS_EmptySet DEF IInv, TypeOK
  <2>7. Hold' /\ Together' /\ RoundInv' /\ Recorded' /\ RoundsDoNotMix'
    <3>1. pc[t] \in {"idle"} \cup Before \cup After /\ pc'[t] \in {"idle"} \cup Before \cup After
      BY <2>1
    <3> QED  BY <2>0, <2>2, <2>5, <3>1, OutsideStep
  <2>8. TypeOK'
    <3>1. pc' \in [Threads -> {"idle"} \cup Before \cup RoundPlaces \cup After]
      BY <2>0 DEF IInv, TypeOK
    <3>2. flag' \in Nat
      BY <1>1, <2>6 DEF Exited, kCompleted
    <3> QED  BY <2>0, <3>1, <3>2 DEF IInv, TypeOK, Key
  <2>9. FlagCounts'
    <3>1. \A u \in Threads : ~(pc'[u] = "increment" /\ seen'[u] = kCompleted)
      BY <2>0, <2>5 DEF IInv, FlagCounts
    <3>2. flag' = Cardinality(InFlight') \/ (flag' = kCompleted /\ InFlight' = {})
      <4>1. CASE flag = 1
        BY <1>1, <2>5, <4>1, FS_EmptySet DEF Exited
      <4>2. CASE flag # 1
        BY <1>1, <2>5, <4>2 DEF Exited
      <4> QED  BY <4>1, <4>2
    <3> QED  BY <2>3, <3>1, <3>2 DEF FlagCounts
  <2> QED  BY <2>7, <2>8, <2>9 DEF IInv
<1>2. CASE /\ flag # seen[t] /\ Go(t, "decrement", "decrement")
           /\ seen' = [seen EXCEPT ![t] = flag] /\ UNCHANGED flag
  <2>1. /\ pc[t] = "decrement" /\ pc'[t] = "decrement" /\ pc' = [pc EXCEPT ![t] = pc'[t]]
    BY <1>2, Gone DEF Go
  <2>2. UNCHANGED <<map, rounds, held, id, flag, call, got, aborted>>
    BY <1>2 DEF Exit
  <2> QED  BY <1>2, <2>1, <2>2, LookIInv
<1> QED  BY <1>1, <1>2 DEF Exit

-----------------------------------------------------------------------------
(* The invariant.                                                           *)

LEMMA InitIInv ==
  ASSUME Init
  PROVE  IInv
<1>0. /\ setup \in Setups /\ map = [k \in {Key[t] : t \in Threads} |-> Nil]
      /\ rounds = [s \in States |-> Fresh]
      /\ held = [t \in Threads |-> Nil] /\ pc = [t \in Threads |-> "idle"]
      /\ id = [t \in Threads |-> 0] /\ flag = 0 /\ seen = [t \in Threads |-> 0]
      /\ call = [t \in Threads |-> 0]
      /\ got = [t \in Threads |-> [n \in 1..MaxCalls |-> Nil]] /\ aborted = FALSE
  BY DEF Init
<1>1. Fresh \in RoundStates
  BY DEF Fresh, RoundStates
<1>2. got \in [Threads -> [1..MaxCalls -> {Nil, Skipped} \cup SUBSET (Values \cup {Nil})]]
  BY <1>0
<1>3. TypeOK
  <2>1. /\ setup \in Setups /\ flag \in Nat /\ aborted \in BOOLEAN
        /\ id \in [Threads -> Nat] /\ seen \in [Threads -> Nat]
    BY <1>0
  <2>2. /\ map \in [{Key[t] : t \in Threads} -> States \cup {Nil}]
        /\ held \in [Threads -> States \cup {Nil}]
    BY <1>0
  <2>3. rounds \in [States -> RoundStates] /\ call \in [Threads -> 0..MaxCalls]
    BY <1>0, <1>1, RendezvousAssumption
  <2>4. pc \in [Threads -> {"idle"} \cup Before \cup RoundPlaces \cup After]
    BY <1>0
  <2> QED  BY <1>2, <2>1, <2>2, <2>3, <2>4 DEF TypeOK
<1>4. \A t \in Threads : ~InRound(t) /\ pc[t] = "idle" /\ call[t] = 0 /\ held[t] = Nil
  BY <1>0 DEF InRound, RoundPlaces
<1>5. FlagCounts
  <2>1. InFlight = {}
    BY <1>4 DEF InFlight, RoundPlaces, After
  <2> QED  BY <1>0, <1>4, <2>1, FS_EmptySet DEF FlagCounts, After
<1>6. Hold
  BY <1>4 DEF Hold
<1>7. \A t \in Threads : \A n \in 1..MaxCalls : ~HasReturned(t, n) /\ got[t][n] = Nil
  BY <1>0, <1>4 DEF HasReturned
<1>8. Together /\ Recorded /\ RoundsDoNotMix
  BY <1>7 DEF Together, Recorded, RoundsDoNotMix
<1>9. RoundInv
  BY <1>4 DEF RoundInv
<1> QED  BY <1>3, <1>5, <1>6, <1>8, <1>9 DEF IInv

LEMMA NextIInv ==
  ASSUME IInv, [Next]_vars
  PROVE  IInv'
<1>1. CASE UNCHANGED vars
  <2>1. UNCHANGED <<setup, map, rounds, held, pc, id, flag, seen, call, got, aborted>>
    BY <1>1 DEF vars
  <2>2. TypeOK'
    BY <2>1 DEF IInv, TypeOK, Key
  <2>3. FlagCounts'
    BY <2>1 DEF IInv, FlagCounts, UseFlag, InFlight
  <2>4. Hold'
    BY <2>1 DEF IInv, Hold, InRound, Size, Group, Key
  <2>5. Together' /\ Recorded'
    BY <2>1 DEF IInv, Together, Recorded, HasReturned, HasAcked, Key
  <2>6. RoundsDoNotMix'
    BY <2>1 DEF IInv, RoundsDoNotMix, HasResult, Group, Key
  <2>7. RoundInv'
    BY <2>1, QuietStep
  <2> QED  BY <2>2, <2>3, <2>4, <2>5, <2>6, <2>7 DEF IInv
<1>2. ASSUME NEW t \in Threads, UNCHANGED setup, Begin(t) \/ TimeOut(t)
      PROVE  IInv'
  BY <1>2, BeginIInv, TimeOutIInv
<1>3. ASSUME NEW t \in Threads, Step(t)
      PROVE  IInv'
  <2>0. UNCHANGED setup
    BY <1>3 DEF Step
  <2>1. CASE TryJoin(t)
    BY <2>0, <2>1, TryJoinIInv
  <2>2. CASE LoadFlag(t) \/ LoadExit(t)
    BY <2>0, <2>2, LoadIInv
  <2>3. CASE IncrementFlag(t)
    BY <2>0, <2>3, IncrementIInv
  <2>4. CASE Exit(t)
    BY <2>0, <2>4, ExitIInv
  <2>5. CASE Alone(t)
    BY <2>0, <2>5, AloneIInv
  <2>6. CASE Join(t)
    BY <2>0, <2>6, JoinIInv
  <2>7. CASE Ack(t)
    BY <2>0, <2>7, AckIInv
  <2>8. CASE Write(t)
    BY <2>0, <2>8, WriteIInv
  <2>9. CASE Rel(t)
    BY <2>0, <2>9, RelIInv
  <2>10. CASE Complete(t)
    BY <2>0, <2>10, CompleteIInv
  <2>11. CASE Invoke(t)
    BY <2>0, <2>11, InvokeIInv
  <2>12. CASE SetReady(t)
    BY <2>0, <2>12, SetReadyIInv
  <2>13. CASE Signal(t)
    BY <2>0, <2>13, SignalIInv
  <2>14. CASE Wait(t)
    BY <2>0, <2>14, WaitIInv
  <2>15. CASE Return(t)
    BY <2>0, <2>15, ReturnIInv
  <2> QED
    BY <1>3, <2>1, <2>2, <2>3, <2>4, <2>5, <2>6, <2>7, <2>8, <2>9, <2>10, <2>11, <2>12, <2>13,
       <2>14, <2>15 DEF Step
<1> QED  BY <1>1, <1>2, <1>3 DEF Next

\* Every reachable state has the invariant: counters, map and slots agree with how far the
\* threads have come.
THEOREM AlwaysIInv == Spec => []IInv
<1>1. Init => IInv
  BY InitIInv
<1>2. IInv /\ [Next]_vars => IInv'
  BY NextIInv
<1> QED  BY <1>1, <1>2, PTL DEF Spec

\* What a call returns was computed from the values of all threads of its group in the
\* same call, for any number of threads, keys and calls, with or without a flag.
THEOREM NoRoundIsMixed == Spec => []RoundsDoNotMix
<1>1. IInv => RoundsDoNotMix
  BY DEF IInv
<1> QED  BY <1>1, AlwaysIInv, PTL

-----------------------------------------------------------------------------
(* Rendezvous implements Rounds.                                            *)

\* How many of the calls 1..MaxCalls come up to call c.
LEMMA CountUpTo ==
  ASSUME NEW c \in Nat, c <= MaxCalls
  PROVE  Cardinality({n \in 1..MaxCalls : n < c \/ n = c}) = c
<1>1. MaxCalls \in Nat
  BY RendezvousAssumption
<1>2. {n \in 1..MaxCalls : n < c \/ n = c} = 1..c
  BY <1>1
<1>3. Cardinality(1..c) = c
  BY FS_Interval
<1> QED  BY <1>2, <1>3

Returned(t) == Cardinality({n \in 1..MaxCalls : got[t][n] # Nil})

\* A thread outside of a call has returned from all; one in a call from all before.
LEMMA ReturnedCount ==
  ASSUME TypeOK, Hold, Recorded, NEW t \in Threads
  PROVE  /\ call[t] \in Nat
         /\ pc[t] \in Before \cup RoundPlaces => Returned(t) = call[t] - 1 /\ call[t] # 0
         /\ pc[t] \notin Before \cup RoundPlaces => Returned(t) = call[t]
<1>1. call[t] \in Nat /\ call[t] <= MaxCalls /\ MaxCalls \in Nat
  BY RendezvousAssumption DEF TypeOK
<1>2. {n \in 1..MaxCalls : got[t][n] # Nil} = {n \in 1..MaxCalls : HasReturned(t, n)}
  BY DEF Recorded
<1>3. CASE pc[t] \in Before \cup RoundPlaces
  <2>1. call[t] # 0
    BY <1>3 DEF Hold, Before, RoundPlaces
  <2>2. \A n \in 1..MaxCalls : HasReturned(t, n) <=> n < call[t] - 1 \/ n = call[t] - 1
    BY <1>1, <1>3 DEF HasReturned
  <2>3. {n \in 1..MaxCalls : HasReturned(t, n)} =
           {n \in 1..MaxCalls : n < call[t] - 1 \/ n = call[t] - 1}
    BY <2>2
  <2>4. Cardinality({n \in 1..MaxCalls : n < call[t] - 1 \/ n = call[t] - 1}) = call[t] - 1
    BY <1>1, <2>1, CountUpTo
  <2> QED  BY <1>1, <1>2, <1>3, <2>1, <2>3, <2>4 DEF Returned
<1>4. CASE pc[t] \notin Before \cup RoundPlaces
  <2>2. \A n \in 1..MaxCalls : HasReturned(t, n) <=> n < call[t] \/ n = call[t]
    BY <1>1, <1>4 DEF HasReturned
  <2>3. {n \in 1..MaxCalls : HasReturned(t, n)} = {n \in 1..MaxCalls : n < call[t] \/ n = call[t]}
    BY <2>2
  <2> QED  BY <1>1, <1>2, <1>4, <2>3, CountUpTo DEF Returned
<1> QED  BY <1>3, <1>4

LEMMA NothingHappens ==
  ASSUME UNCHANGED <<setup, call, got>>
  PROVE  UNCHANGED Meeting!vars
<1> DEFINE G == [t \in Threads |-> IF UseFlag THEN {t} ELSE Group(t)]
           R == [t \in Threads |-> Cardinality({n \in 1..MaxCalls : got[t][n] # Nil})]
<1>1. G' = G
  BY SetupStays
<1>2. R' = R
  OBVIOUS
<1> QED  BY <1>1, <1>2 DEF Meeting!vars

\* A call returns: the other threads of the group have begun theirs.
LEMMA ReturnsTogether ==
  ASSUME TypeOK, Hold, Recorded, TypeOK', Recorded', NEW t \in Threads,
         UNCHANGED <<setup, call>>,
         pc[t] \in Before \cup RoundPlaces, pc'[t] \notin Before \cup RoundPlaces,
         \A u \in Threads : u # t => got'[u] = got[u],
         UseFlag \/ \A u \in Group(t) : call[u] >= call[t]
  PROVE  Meeting!Return(t)
<1> DEFINE R == [u \in Threads |-> Cardinality({n \in 1..MaxCalls : got[u][n] # Nil})]
           G == [u \in Threads |-> IF UseFlag THEN {u} ELSE Group(u)]
<1>1. call[t] \in Nat /\ Returned(t) = call[t] - 1
  BY ReturnedCount
<1>2. Returned(t)' = call[t]
  <2>1. {n \in 1..MaxCalls : got'[t][n] # Nil} = {n \in 1..MaxCalls : HasReturned(t, n)'}
    BY DEF Recorded
  <2>2. \A n \in 1..MaxCalls : HasReturned(t, n)' <=> n < call[t] \/ n = call[t]
    BY DEF HasReturned
  <2>3. {n \in 1..MaxCalls : HasReturned(t, n)'} = {n \in 1..MaxCalls : n < call[t] \/ n = call[t]}
    BY <2>2
  <2>4. call[t] <= MaxCalls
    BY RendezvousAssumption DEF TypeOK
  <2> QED  BY <1>1, <2>1, <2>3, <2>4, CountUpTo DEF Returned
<1>3. \A u \in Threads : u # t => Returned(u)' = Returned(u)
  BY DEF Returned
<1>4. R = [u \in Threads |-> Returned(u)] /\ R' = [u \in Threads |-> Returned(u)']
  BY DEF Returned
<1>5. G' = G /\ \A u \in G[t] : call[u] >= call[t]
  BY <1>1, SetupStays
<1> HIDE DEF R, G
<1>6. R' = [R EXCEPT ![t] = @ + 1] /\ R[t] < call[t]
  BY <1>1, <1>2, <1>3, <1>4
<1> QED  BY <1>5, <1>6 DEF Meeting!Return, R, G

LEMMA BeginArrives ==
  ASSUME TypeOK, Hold, Recorded, NEW t \in Threads, UNCHANGED setup, Begin(t)
  PROVE  Meeting!Arrive(t)
<1> DEFINE R == [u \in Threads |-> Cardinality({n \in 1..MaxCalls : got[u][n] # Nil})]
           G == [u \in Threads |-> IF UseFlag THEN {u} ELSE Group(u)]
<1>1. pc[t] = "idle" /\ call' = [call EXCEPT ![t] = @ + 1] /\ got' = got
  BY DEF Begin, Go
<1>2. Returned(t) = call[t]
  BY <1>1, ReturnedCount DEF Before, RoundPlaces
<1>3. R[t] = call[t]
  BY <1>2 DEF Returned
<1>4. R' = R
  BY <1>1
<1>5. G' = G
  BY SetupStays
<1> HIDE DEF R, G
<1> QED  BY <1>1, <1>3, <1>4, <1>5 DEF Meeting!Arrive, R, G

LEMMA StepImplements ==
  ASSUME IInv, IInv', [Next]_vars
  PROVE  [Meeting!Next]_(Meeting!vars)
<1>0. TypeOK /\ Hold /\ Recorded /\ TypeOK' /\ Recorded'
  BY DEF IInv
<1>1. CASE UNCHANGED vars
  BY <1>1, NothingHappens DEF vars
<1>2. ASSUME NEW t \in Threads, UNCHANGED setup, Begin(t)
      PROVE  Meeting!Next
  BY <1>0, <1>2, BeginArrives DEF Meeting!Next
<1>3. ASSUME NEW t \in Threads, UNCHANGED setup, TimeOut(t)
      PROVE  UNCHANGED Meeting!vars
  BY <1>3, NothingHappens DEF TimeOut
<1>4. ASSUME NEW t \in Threads, Step(t)
      PROVE  [Meeting!Next]_(Meeting!vars)
  <2>0. UNCHANGED setup
    BY <1>4 DEF Step
  <2>1. CASE LoadFlag(t) \/ LoadExit(t) \/ Exit(t) \/ Join(t) \/ Ack(t) \/ Write(t) \/ Rel(t)
             \/ Complete(t) \/ Invoke(t) \/ SetReady(t) \/ Signal(t) \/ Wait(t)
    <3>1. UNCHANGED <<setup, call, got>>
      BY <2>0, <2>1 DEF LoadFlag, LoadExit, Exit, Join, Ack, Write, Rel, Complete, Invoke,
                        SetReady, Signal, Wait
    <3> QED  BY <3>1, NothingHappens
  <2>2. ASSUME UNCHANGED call, pc[t] \in Before \cup RoundPlaces,
               pc'[t] \notin Before \cup RoundPlaces, NEW r,
               got' = [got EXCEPT ![t][call[t]] = r],
               UseFlag \/ \A u \in Group(t) : call[u] >= call[t]
        PROVE  Meeting!Next
    <3>1. \A u \in Threads : u # t => got'[u] = got[u]
      BY <1>0, <2>2 DEF TypeOK
    <3>2. Meeting!Return(t)
      BY <1>0, <2>0, <2>2, <3>1, ReturnsTogether
    <3> QED  BY <3>2 DEF Meeting!Next
  <2>3. ASSUME pc[t] \in {"TryJoin", "increment"}, Go(t, pc[t], "idle"), UNCHANGED call,
               got' = [got EXCEPT ![t][call[t]] = Skipped]
        PROVE  Meeting!Next
    <3>1. UseFlag
      BY <2>3 DEF IInv, FlagCounts
    <3>2. pc[t] \in Before \cup RoundPlaces /\ pc'[t] \notin Before \cup RoundPlaces
      BY <2>3, Gone DEF Before, RoundPlaces
    <3> QED  BY <2>2, <2>3, <3>1, <3>2
  <2>4. CASE TryJoin(t)
    <3>1. UNCHANGED call
      BY <2>4 DEF TryJoin
    <3>2. CASE Go(t, "TryJoin", "idle") /\ got' = [got EXCEPT ![t][call[t]] = Skipped]
      <4>1. pc[t] = "TryJoin" /\ Go(t, pc[t], "idle")
        BY <3>2 DEF Go
      <4> QED  BY <2>3, <3>1, <3>2, <4>1
    <3>3. CASE UNCHANGED got
      BY <2>0, <3>1, <3>3, NothingHappens
    <3> QED  BY <2>4, <3>2, <3>3 DEF TryJoin
  <2>5. CASE IncrementFlag(t)
    <3>1. UNCHANGED call
      BY <2>5 DEF IncrementFlag
    <3>2. CASE Go(t, "increment", "idle") /\ got' = [got EXCEPT ![t][call[t]] = Skipped]
      <4>1. pc[t] = "increment" /\ Go(t, pc[t], "idle")
        BY <3>2 DEF Go
      <4> QED  BY <2>3, <3>1, <3>2, <4>1
    <3>3. CASE UNCHANGED got
      BY <2>0, <3>1, <3>3, NothingHappens
    <3> QED  BY <2>5, <3>2, <3>3 DEF IncrementFlag
  <2>6. CASE Alone(t)
    <3>1. /\ Size(t) = 1 /\ UNCHANGED call /\ got' = [got EXCEPT ![t][call[t]] = {<<t, call[t]>>}]
          /\ Go(t, "Join", IF UseFlag THEN "exit" ELSE "idle")
      BY <2>6 DEF Alone
    <3>2. Group(t) = {t}
      BY <3>1, Groups, FS_Singleton DEF Size
    <3>3. \A u \in Group(t) : call[u] >= call[t]
      BY <1>0, <3>2 DEF TypeOK
    <3>4. pc[t] \in Before \cup RoundPlaces /\ pc'[t] \notin Before \cup RoundPlaces
      BY <3>1, Gone DEF Before, RoundPlaces
    <3> QED  BY <2>2, <3>1, <3>3, <3>4
  <2>7. CASE Return(t)
    <3>1. /\ UNCHANGED call /\ got' = [got EXCEPT ![t][call[t]] = rounds[held[t]].result]
          /\ Go(t, "return", IF UseFlag THEN "exit" ELSE "idle")
      BY <2>7 DEF Return
    <3>2. pc[t] = "return" /\ pc'[t] \in {"exit", "idle"} /\ InRound(t)
      BY <3>1, Gone DEF InRound, RoundPlaces
    <3>3. Full(t)
      BY <3>2 DEF IInv, RoundInv, Over
    <3>4. \A u \in Group(t) : call[u] >= call[t]
      <4>1. \A u \in Group(t) : u \in Threads /\ HasAcked(u, call[t])
        BY <3>3, Groups DEF Full, Ackers
      <4>2. \A u \in Threads : call[u] \in Int
        BY <1>0 DEF TypeOK
      <4>3. \A u \in Group(t) : call[t] < call[u] \/ call[t] = call[u]
        BY <4>1 DEF HasAcked
      <4> QED  BY <4>1, <4>2, <4>3
    <3>5. pc[t] \in Before \cup RoundPlaces /\ pc'[t] \notin Before \cup RoundPlaces
      BY <3>2 DEF Before, RoundPlaces
    <3> QED  BY <2>2, <3>1, <3>4, <3>5
  <2> QED  BY <1>4, <2>1, <2>4, <2>5, <2>6, <2>7 DEF Step
<1> QED  BY <1>1, <1>2, <1>3, <1>4 DEF Next

LEMMA InitImplements ==
  ASSUME Init
  PROVE  Meeting!Init
<1> DEFINE R == [u \in Threads |-> Cardinality({n \in 1..MaxCalls : got[u][n] # Nil})]
           G == [u \in Threads |-> IF UseFlag THEN {u} ELSE Group(u)]
<1>1. \A t \in Threads : {n \in 1..MaxCalls : got[t][n] # Nil} = {}
  BY DEF Init
<1>2. R = [t \in Threads |-> 0]
  BY <1>1, FS_EmptySet
<1>3. G \in [Threads -> SUBSET Threads]
  BY DEF Group
<1>4. call = [t \in Threads |-> 0]
  BY DEF Init
<1> QED  BY <1>2, <1>3, <1>4 DEF Meeting!Init

\* The rendezvous of rendezvous.h implements the abstract rounds: nobody returns from a
\* round before all threads of its group have arrived at it.
THEOREM ImplementsRounds == Spec => RoundsImplemented
<1>1. Init => Meeting!Init
  BY InitImplements
<1>2. IInv /\ IInv' /\ [Next]_vars => [Meeting!Next]_(Meeting!vars)
  BY StepImplements
<1> QED  BY <1>1, <1>2, AlwaysIInv, PTL DEF Spec, RoundsImplemented, Meeting!Spec

=============================================================================
