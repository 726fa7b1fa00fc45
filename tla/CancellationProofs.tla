------------------------- MODULE CancellationProofs -------------------------
(***************************************************************************)
(* Proofs about Cancellation, for any managers, callbacks and threads.      *)
(* What makes the argument work: a manager has is_cancelling_ set exactly   *)
(* for the one StartCancel that is past its first section, so that a        *)
(* callback is in its table, in the hands of that call, or over; and the    *)
(* notification, which DeregisterCallback and the destructors of children   *)
(* wait for, comes only when that call has let go of all it took.           *)
(***************************************************************************)
EXTENDS Cancellation, SequenceTheorems, TLAPS

Records ==
    [cancelling: BOOLEAN, cancelled: BOOLEAN, state: BOOLEAN, notified: BOOLEAN,
     callbacks: SUBSET Users, children: SUBSET Children, removed: BOOLEAN]

Frames ==
    [manager: Managers, at: {"entry", "loop", "notify"}, run: SUBSET Users,
     running: SUBSET Users, kids: SUBSET Children, notification: BOOLEAN]

TypeOK ==
    /\ mgr \in [Managers -> Records]
    /\ life \in [Managers -> {"none", "refused", "accepted", "live", "waiting", "destroying",
                              "draining", "freed"}]
    /\ frames \in [Threads -> Seq(Frames)]
    /\ user \in [Users -> {"idle", "registered", "refused", "deregistered", "waiting",
                           "settled", "missed"}]
    /\ callback \in [Users -> {"idle", "running", "done"}]

Calls(t) == 1..Len(frames[t])

\* A canceller is in its target or, from the root, in a child; a destructor is in its own
\* manager.
Stack(t) ==
    /\ Len(frames[t]) <= 2
    /\ Len(frames[t]) = 1 => frames[t][1].manager = IF t \in Cancellers THEN Target[t] ELSE t
    /\ Len(frames[t]) = 2 =>
          /\ t \in Cancellers /\ Target[t] = Root
          /\ frames[t][2].manager = Root /\ frames[t][2].at = "loop"
          /\ frames[t][1].manager \in Children

Stacks == \A t \in Threads : Stack(t)

\* What a StartCancel holds, it holds between its two sections.
Holds ==
    \A t \in Threads : \A i \in Calls(t) :
        /\ frames[t][i].at # "loop" =>
              frames[t][i].run = {} /\ frames[t][i].running = {} /\ frames[t][i].kids = {}
        /\ \A u, v \in frames[t][i].running : u = v
        /\ frames[t][i].kids # {} => frames[t][i].manager = Root

\* One StartCancel at a time is between its two sections, and is_cancelling_ says so.
OneCancels ==
    \A t \in Threads : \A i \in Calls(t) :
        frames[t][i].at = "loop" =>
            /\ mgr[frames[t][i].manager].cancelling
            /\ \A s \in Threads : \A j \in Calls(s) :
                  frames[s][j].at = "loop" /\ frames[s][j].manager = frames[t][i].manager
                  => s = t /\ j = i

\* The members of a manager agree.
Members ==
    \A m \in Managers :
        /\ mgr[m].cancelling => ~mgr[m].cancelled
        /\ mgr[m].callbacks # {} => mgr[m].state /\ ~mgr[m].cancelled /\ ~mgr[m].cancelling
        /\ mgr[m].children # {} => mgr[m].state /\ ~mgr[m].cancelling /\ m = Root
        /\ mgr[m].notified => mgr[m].state /\ mgr[m].cancelled

\* Who notifies has found state_, and notifies of a cancellation that is over.
Notifiers ==
    \A t \in Threads : \A i \in Calls(t) :
        frames[t][i].notification =>
            /\ mgr[frames[t][i].manager].state
            /\ frames[t][i].at = "notify" => mgr[frames[t][i].manager].cancelled

\* A child before its constructor has returned has been used by nobody but its parent.
Young ==
    \A c \in Children :
        /\ life[c] \in {"none", "refused", "accepted"} => ~mgr[c].state
        /\ life[c] \in {"none", "refused"} => ~mgr[c].cancelling
        /\ life[c] = "none" => ~mgr[c].removed

\* A child in the hands of its parent, listed or taken, is not past the wait of its
\* destructor.
InUse == {"accepted", "live", "waiting"}

Kept ==
    /\ life[Root] = "live"
    /\ \A c \in mgr[Root].children : life[c] \in {"accepted", "live"} /\ ~mgr[c].removed
    /\ \A t \in Threads : \A i \in Calls(t) : \A c \in frames[t][i].kids :
          life[c] \in InUse /\ mgr[Root].state
    /\ \A t \in Threads : Len(frames[t]) = 2 =>
          life[frames[t][1].manager] \in InUse /\ mgr[Root].state
    /\ \A t \in Cancellers : Len(frames[t]) = 1 => life[Target[t]] = "live"
    /\ \A c \in Children : Len(frames[c]) # 0 => life[c] = "draining"

\* A destructor that is through has cancelled what there was to cancel.
Drained ==
    \A c \in Children :
        /\ Len(frames[c]) # 0 /\ frames[c][1].at = "notify" => mgr[c].cancelled
        /\ life[c] = "freed" \/ (life[c] = "draining" /\ Len(frames[c]) = 0)
              => (mgr[c].state => AlreadyCancelled(mgr[c]))

Given == {"registered", "waiting", "missed"}

\* A StartCancel of manager m has callback u still to run, or runs it.
HasToRun(m, u) ==
    \E t \in Threads : \E i \in Calls(t) : frames[t][i].manager = m /\ u \in frames[t][i].run

Runs(m, u) ==
    \E t \in Threads : \E i \in Calls(t) : frames[t][i].manager = m /\ u \in frames[t][i].running

\* Where a callback is: in the table of its manager, in the hands of one StartCancel,
\* over, or taken back.
PlacedUser(u) ==
    /\ \A m \in Managers : u \in mgr[m].callbacks =>
          m = ManagerOf[u] /\ user[u] = "registered" /\ callback[u] = "idle"
    /\ \A m \in Managers : HasToRun(m, u) =>
          m = ManagerOf[u] /\ user[u] \in Given /\ callback[u] = "idle"
    /\ \A m \in Managers : Runs(m, u) =>
          m = ManagerOf[u] /\ user[u] \in Given /\ callback[u] = "running"
    /\ user[u] \in {"idle", "refused", "deregistered"} => callback[u] = "idle"
    /\ user[u] = "settled" => callback[u] = "done"
    /\ user[u] \in Given =>
          \/ u \in mgr[ManagerOf[u]].callbacks
          \/ /\ AlreadyCancelled(mgr[ManagerOf[u]])
             /\ callback[u] = "done" \/ HasToRun(ManagerOf[u], u) \/ Runs(ManagerOf[u], u)
    /\ user[u] \notin {"idle", "refused"} => mgr[ManagerOf[u]].state

Placed == \A u \in Users : PlacedUser(u)

\* What every step preserves.
IInv ==
    TypeOK /\ Stacks /\ Holds /\ OneCancels /\ Members /\ Notifiers /\ Young /\ Kept
           /\ Drained /\ Placed

-----------------------------------------------------------------------------
(* What happens to the stack of a thread; those of the others stay.         *)

\* A call returns.
LEMMA Popped ==
  ASSUME frames \in [Threads -> Seq(Frames)], NEW t \in Threads, frames[t] # <<>>, Return(t)
  PROVE  /\ frames' \in [Threads -> Seq(Frames)]
         /\ Len(frames[t]) \in Nat \ {0}
         /\ Len(frames'[t]) = Len(frames[t]) - 1
         /\ \A i \in 1..Len(frames'[t]) : frames'[t][i] = frames[t][i + 1]
         /\ \A s \in Threads : s # t => frames'[s] = frames[s]
<1>1. frames[t] \in Seq(Frames)
  OBVIOUS
<1>2. frames' = [frames EXCEPT ![t] = Tail(frames[t])]
  BY DEF Return
<1>3. /\ Tail(frames[t]) \in Seq(Frames)
      /\ Len(frames[t]) \in Nat \ {0}
      /\ Len(Tail(frames[t])) = Len(frames[t]) - 1
      /\ \A i \in 1..Len(Tail(frames[t])) : Tail(frames[t])[i] = frames[t][i + 1]
  BY <1>1
<1> QED  BY <1>2, <1>3

\* The innermost call goes on.
LEMMA Replaced ==
  ASSUME frames \in [Threads -> Seq(Frames)], NEW t \in Threads, frames[t] # <<>>,
         NEW f \in Frames, frames' = [frames EXCEPT ![t] = [@ EXCEPT ![1] = f]]
  PROVE  /\ frames' \in [Threads -> Seq(Frames)]
         /\ Len(frames[t]) \in Nat \ {0}
         /\ Len(frames'[t]) = Len(frames[t])
         /\ frames'[t][1] = f
         /\ \A i \in 1..Len(frames[t]) : i # 1 => frames'[t][i] = frames[t][i]
         /\ \A s \in Threads : s # t => frames'[s] = frames[s]
<1>1. frames[t] \in Seq(Frames)
  OBVIOUS
<1> DEFINE new == [frames[t] EXCEPT ![1] = f]
<1>2. frames' = [frames EXCEPT ![t] = new]
  OBVIOUS
<1>3. /\ new \in Seq(Frames)
      /\ Len(frames[t]) \in Nat \ {0}
      /\ Len(new) = Len(frames[t])
      /\ new[1] = f
      /\ \A i \in 1..Len(frames[t]) : i # 1 => new[i] = frames[t][i]
  BY <1>1
<1> HIDE DEF new
<1> QED  BY <1>2, <1>3

\* A thread that was in no call enters one.
LEMMA Called ==
  ASSUME frames \in [Threads -> Seq(Frames)], NEW t \in Threads, frames[t] = <<>>,
         NEW m \in Managers, Call(t, m)
  PROVE  /\ frames' \in [Threads -> Seq(Frames)]
         /\ Entry(m) \in Frames
         /\ Len(frames'[t]) = 1 /\ Len(frames[t]) = 0
         /\ frames'[t][1] = Entry(m)
         /\ \A s \in Threads : s # t => frames'[s] = frames[s]
<1>1. Entry(m) \in Frames
  BY DEF Entry, Frames
<1>2. frames' = [frames EXCEPT ![t] = <<Entry(m)>> \o frames[t]]
  BY DEF Call
<1>3. <<Entry(m)>> \o frames[t] = <<Entry(m)>>
  BY <1>1
<1> QED  BY <1>1, <1>2, <1>3

\* The only call of a thread calls another.
LEMMA Pushed ==
  ASSUME frames \in [Threads -> Seq(Frames)], NEW t \in Threads, frames[t] # <<>>,
         Len(frames[t]) = 1,
         NEW e \in Frames, NEW f \in Frames,
         frames' = [frames EXCEPT ![t] = <<e, f>> \o Tail(@)]
  PROVE  /\ frames' \in [Threads -> Seq(Frames)]
         /\ Len(frames'[t]) = 2
         /\ frames'[t][1] = e /\ frames'[t][2] = f
         /\ \A s \in Threads : s # t => frames'[s] = frames[s]
<1>1. frames[t] \in Seq(Frames)
  OBVIOUS
<1> DEFINE tail == Tail(frames[t])
<1>2. tail \in Seq(Frames) /\ Len(tail) = 0
  BY <1>1
<1> DEFINE new == <<e, f>> \o tail
<1>3. frames' = [frames EXCEPT ![t] = new]
  OBVIOUS
<1> HIDE DEF tail
<1>4. <<e, f>> \in Seq(Frames)
  OBVIOUS
<1>5. new \in Seq(Frames) /\ Len(new) = 2 /\ new[1] = e /\ new[2] = f
  BY <1>2, <1>4
<1> HIDE DEF new
<1> QED  BY <1>3, <1>5

\* A stack is empty or has an innermost call.
LEMMA EmptyStack ==
  ASSUME frames \in [Threads -> Seq(Frames)], NEW t \in Threads
  PROVE  /\ Len(frames[t]) \in Nat
         /\ frames[t] = <<>> <=> Len(frames[t]) = 0
         /\ \A i \in 1..Len(frames[t]) : frames[t][i] \in Frames
         /\ frames[t] # <<>> => Top(t) = frames[t][1] /\ Top(t) \in Frames
<1>1. frames[t] \in Seq(Frames)
  OBVIOUS
<1>2. frames[t] = <<>> <=> Len(frames[t]) = 0
  BY <1>1, EmptySeq
<1> QED  BY <1>1, <1>2 DEF Top

\* The calls in progress have their types.
LEMMA FrameTypes ==
  ASSUME TypeOK
  PROVE  \A t \in Threads : \A i \in Calls(t) :
            /\ frames[t][i] \in Frames
            /\ frames[t][i].manager \in Managers
            /\ frames[t][i].kids \subseteq Children
            /\ frames[t][i].run \subseteq Users /\ frames[t][i].running \subseteq Users
<1>1. \A t \in Threads : \A i \in Calls(t) : frames[t][i] \in Frames
  BY EmptyStack DEF TypeOK, Calls
<1> QED  BY <1>1 DEF Frames

-----------------------------------------------------------------------------
(* Every step keeps the invariant.                                          *)

LEMMA InitIInv == Init => IInv
<1> SUFFICES ASSUME Init PROVE IInv
  OBVIOUS
<1> USE DEF Init, FreshManager
<1>0. \A t \in Threads : frames[t] = <<>> /\ Len(frames[t]) = 0 /\ Calls(t) = {}
  BY DEF Calls
<1>1. TypeOK
  <2>1. FreshManager \in Records
    BY DEF Records
  <2>2. frames \in [Threads -> Seq(Frames)]
    BY EmptySeq
  <2> QED  BY <2>1, <2>2 DEF TypeOK
<1>2. Stacks /\ Holds /\ OneCancels /\ Notifiers
  BY <1>0 DEF Stacks, Stack, Holds, OneCancels, Notifiers
<1>3. Members
  BY DEF Members
<1>4. Young
  BY DEF Young, Managers
<1>5. Kept
  <2>1. life[Root] = "live" /\ mgr[Root].children = {}
    BY DEF Managers
  <2>2. \A c \in Children : Len(frames[c]) = 0
    BY <1>0 DEF Threads
  <2>3. \A t \in Threads : Len(frames[t]) # 2 /\ Len(frames[t]) # 1
    BY <1>0
  <2> QED  BY <1>0, <2>1, <2>2, <2>3 DEF Kept, Threads
<1>6. Drained
  BY <1>0, CancellationAssumption DEF Drained, Managers, Threads
<1>7. Placed
  BY <1>0, CancellationAssumption DEF Placed, PlacedUser, Given, HasToRun, Runs
<1> QED  BY <1>1, <1>2, <1>3, <1>4, <1>5, <1>6, <1>7 DEF IInv

\* A callback in the hands of a StartCancel is in those of one that is between its two
\* sections.
LEMMA InHand ==
  ASSUME IInv, NEW u \in Users, NEW m \in Managers, HasToRun(m, u) \/ Runs(m, u)
  PROVE  m = ManagerOf[u] /\ mgr[m].cancelling
<1>1. PICK t \in Threads : \E i \in Calls(t) :
         frames[t][i].manager = m /\ (u \in frames[t][i].run \/ u \in frames[t][i].running)
  BY DEF HasToRun, Runs
<1>2. PICK i \in Calls(t) :
         frames[t][i].manager = m /\ (u \in frames[t][i].run \/ u \in frames[t][i].running)
  BY <1>1
<1>3. frames[t][i].at = "loop"
  BY <1>2 DEF IInv, Holds
<1> QED  BY <1>2, <1>3 DEF IInv, OneCancels, Placed, PlacedUser

\* The place of a callback that a step does not move.
LEMMA StaysPlaced ==
  ASSUME IInv, NEW v \in Users, user'[v] = user[v], callback'[v] = callback[v],
         \A k \in Managers :
            /\ v \in mgr'[k].callbacks <=> v \in mgr[k].callbacks
            /\ HasToRun(k, v)' <=> HasToRun(k, v)
            /\ Runs(k, v)' <=> Runs(k, v)
            /\ mgr[k].state => mgr'[k].state
            /\ mgr[k].state /\ AlreadyCancelled(mgr[k]) => AlreadyCancelled(mgr'[k])
  PROVE  PlacedUser(v)'
<1>1. PlacedUser(v) /\ ManagerOf[v] \in Managers
  BY CancellationAssumption DEF IInv, Placed
<1>2. user[v] \in Given => user[v] \notin {"idle", "refused"}
  BY DEF Given
<1> QED  BY <1>1, <1>2 DEF PlacedUser

\* A step of a user changes, of the managers, the callbacks and state_ only, and nothing
\* but the places of the callbacks needs a look.
LEMMA UserStep ==
  ASSUME IInv, UNCHANGED <<life, frames, callback>>,
         mgr' \in [Managers -> Records],
         user' \in [Users -> {"idle", "registered", "refused", "deregistered", "waiting",
                              "settled", "missed"}],
         \A k \in Managers :
            /\ mgr'[k].cancelling = mgr[k].cancelling
            /\ mgr'[k].cancelled = mgr[k].cancelled
            /\ mgr'[k].notified = mgr[k].notified
            /\ mgr'[k].children = mgr[k].children
            /\ mgr'[k].removed = mgr[k].removed
            /\ mgr[k].state => mgr'[k].state
            /\ mgr'[k].state => mgr[k].state \/ life[k] = "live"
            /\ mgr'[k].callbacks # {} =>
                  mgr'[k].state /\ ~mgr[k].cancelled /\ ~mgr[k].cancelling,
         Placed'
  PROVE  IInv'
<1>1. TypeOK'
  BY DEF IInv, TypeOK
<1>2. Stacks' /\ Holds'
  BY DEF IInv, Stacks, Stack, Holds, Calls
<1>3. OneCancels'
  <2>1. \A k \in Managers : mgr[k].cancelling => mgr'[k].cancelling
    OBVIOUS
  <2> QED  BY <2>1, FrameTypes DEF IInv, OneCancels, Calls
<1>4. Members'
  BY DEF IInv, Members
<1>5. Notifiers'
  <2>1. \A k \in Managers : (mgr[k].state => mgr'[k].state)
                            /\ (mgr[k].cancelled => mgr'[k].cancelled)
    OBVIOUS
  <2> QED  BY <2>1, FrameTypes DEF IInv, Notifiers, Calls
<1>6. Young'
  BY DEF IInv, Young, Managers
<1>7. Kept'
  <2>1. /\ mgr'[Root].children = mgr[Root].children
        /\ mgr[Root].state => mgr'[Root].state
        /\ \A c \in mgr[Root].children : mgr'[c].removed = mgr[c].removed
    BY DEF IInv, TypeOK, Records, Managers
  <2> QED  BY <2>1 DEF IInv, Kept, Calls
<1>8. Drained'
  BY DEF IInv, Drained, AlreadyCancelled, Managers
<1> QED  BY <1>1, <1>2, <1>3, <1>4, <1>5, <1>6, <1>7, <1>8 DEF IInv

\* A callback that is taken in: the manager is not being cancelled.
LEMMA RegisterCallbackIInv ==
  ASSUME IInv, NEW u \in Users, RegisterCallback(u)
  PROVE  IInv'
<1> DEFINE m == ManagerOf[u]
<1>0. /\ m \in Managers /\ UNCHANGED <<life, frames, callback>>
      /\ life[m] = "live" /\ user[u] = "idle" /\ mgr \in [Managers -> Records]
  BY CancellationAssumption DEF RegisterCallback, IInv, TypeOK
<1>1. CASE ShouldRegister(mgr[m])
  <2>1. /\ user' = [user EXCEPT ![u] = "registered"]
        /\ ~mgr[m].cancelled /\ ~mgr[m].cancelling
        /\ mgr' = [mgr EXCEPT ![m].state = TRUE, ![m].callbacks = @ \cup {u}]
    BY <1>1 DEF RegisterCallback, ShouldRegister
  <2> HIDE DEF m
  <2>2. mgr' \in [Managers -> Records] /\ \A k \in Managers : k # m => mgr'[k] = mgr[k]
    BY <1>0, <2>1 DEF Records
  <2>3. /\ mgr'[m].state /\ mgr'[m].callbacks = mgr[m].callbacks \cup {u}
        /\ mgr'[m].cancelling = mgr[m].cancelling
        /\ mgr'[m].cancelled = mgr[m].cancelled
        /\ mgr'[m].notified = mgr[m].notified
        /\ mgr'[m].children = mgr[m].children
        /\ mgr'[m].removed = mgr[m].removed
    BY <1>0, <2>1 DEF Records
  <2>4. Placed'
    <3>1. ASSUME NEW v \in Users, v # u
          PROVE  /\ user'[v] = user[v]
                 /\ \A k \in Managers : v \in mgr'[k].callbacks <=> v \in mgr[k].callbacks
      BY <2>1, <2>2, <2>3, <3>1 DEF IInv, TypeOK
    <3>2. user'[u] = "registered"
      BY <2>1 DEF IInv, TypeOK
    <3>3. \A k \in Managers :
             /\ mgr[k].state => mgr'[k].state
             /\ AlreadyCancelled(mgr[k]) => AlreadyCancelled(mgr'[k])
             /\ k # m => u \notin mgr'[k].callbacks
      BY <1>0, <2>2, <2>3 DEF AlreadyCancelled, IInv, Placed, PlacedUser
    <3>4. \A k \in Managers : ~HasToRun(k, u) /\ ~Runs(k, u) /\ callback[u] = "idle"
      BY <1>0 DEF IInv, Placed, PlacedUser, Given
    <3>5. \A k \in Managers, v \in Users :
             (HasToRun(k, v)' <=> HasToRun(k, v)) /\ (Runs(k, v)' <=> Runs(k, v))
      BY <1>0 DEF HasToRun, Runs, Calls
    <3>6. u \in mgr'[m].callbacks /\ mgr'[m].state /\ m = ManagerOf[u]
      BY <2>3 DEF m
    <3>7. PlacedUser(u)'
      BY <1>0, <3>2, <3>3, <3>4, <3>5, <3>6 DEF PlacedUser, Given
    <3>8. ASSUME NEW v \in Users, v # u PROVE PlacedUser(v)'
      BY <1>0, <3>1, <3>3, <3>5, <3>8, StaysPlaced
    <3> QED  BY <3>7, <3>8 DEF Placed
  <2>5. \A k \in Managers : mgr'[k].callbacks # {} =>
                  mgr'[k].state /\ ~mgr[k].cancelled /\ ~mgr[k].cancelling
    BY <1>0, <2>1, <2>2, <2>3 DEF IInv, Members
  <2>6. user' \in [Users -> {"idle", "registered", "refused", "deregistered", "waiting",
                              "settled", "missed"}]
    BY <2>1 DEF IInv, TypeOK
  <2> QED  BY <1>0, <2>2, <2>3, <2>4, <2>5, <2>6, UserStep
<1>2. CASE ~ShouldRegister(mgr[m])
  <2>1. user' = [user EXCEPT ![u] = "refused"] /\ UNCHANGED mgr
    BY <1>2 DEF RegisterCallback
  <2>2. Placed'
    <3>1. \A v \in Users : user'[v] = IF v = u THEN "refused" ELSE user[v]
      BY <2>1 DEF IInv, TypeOK
    <3>2. \A k \in Managers, v \in Users :
             (HasToRun(k, v)' <=> HasToRun(k, v)) /\ (Runs(k, v)' <=> Runs(k, v))
      BY <1>0 DEF HasToRun, Runs, Calls
    <3>3. ASSUME NEW v \in Users, v # u PROVE PlacedUser(v)'
      BY <1>0, <2>1, <3>1, <3>2, <3>3, StaysPlaced
    <3>4. \A k \in Managers : ~HasToRun(k, u) /\ ~Runs(k, u) /\ u \notin mgr[k].callbacks
      BY <1>0 DEF IInv, Placed, PlacedUser, Given
    <3>5. PlacedUser(u)'
      BY <1>0, <2>1, <3>1, <3>2, <3>4 DEF IInv, Placed, PlacedUser, Given
    <3> QED  BY <3>3, <3>5 DEF Placed
  <2>3. \A k \in Managers : mgr[k].callbacks # {} =>
                  mgr[k].state /\ ~mgr[k].cancelled /\ ~mgr[k].cancelling
    BY DEF IInv, Members
  <2>4. user' \in [Users -> {"idle", "registered", "refused", "deregistered", "waiting",
                              "settled", "missed"}]
    BY <2>1 DEF IInv, TypeOK
  <2> QED  BY <1>0, <2>1, <2>2, <2>3, <2>4, UserStep
<1> QED  BY <1>1, <1>2

\* A callback that is taken back is in the table of its manager: nobody has it in hand.
LEMMA TakenBack ==
  ASSUME IInv, NEW u \in Users, user[u] = "registered", UNCHANGED <<life, frames, callback>>,
         NEW m \in Managers, m = ManagerOf[u], ~mgr[m].cancelled, ~mgr[m].cancelling,
         mgr' = [mgr EXCEPT ![m].callbacks = @ \ {u}],
         user' = [user EXCEPT ![u] = "deregistered"]
  PROVE  IInv'
<1>0. mgr \in [Managers -> Records]
  BY DEF IInv, TypeOK
<1>2. /\ callback[u] = "idle" /\ mgr[m].state
      /\ \A k \in Managers : ~HasToRun(k, u) /\ ~Runs(k, u)
  <2>1. \A k \in Managers : ~HasToRun(k, u) /\ ~Runs(k, u)
    BY InHand
  <2>2. u \in mgr[m].callbacks
    BY <2>1 DEF IInv, Placed, PlacedUser, Given, AlreadyCancelled
  <2> QED  BY <2>1, <2>2 DEF IInv, Placed, PlacedUser
<1>3. mgr' \in [Managers -> Records] /\ \A k \in Managers : k # m => mgr'[k] = mgr[k]
  <2>1. mgr' \in [Managers -> Records]
    BY <1>0 DEF Records
  <2>2. \A k \in Managers : k # m => mgr'[k] = mgr[k]
    BY <1>0
  <2> QED  BY <2>1, <2>2
<1>4. /\ mgr'[m].callbacks = mgr[m].callbacks \ {u}
      /\ mgr'[m].state = mgr[m].state
      /\ mgr'[m].cancelling = mgr[m].cancelling
      /\ mgr'[m].cancelled = mgr[m].cancelled
      /\ mgr'[m].notified = mgr[m].notified
      /\ mgr'[m].children = mgr[m].children
      /\ mgr'[m].removed = mgr[m].removed
  BY <1>0 DEF Records
<1>5. Placed'
  <2>1. ASSUME NEW v \in Users, v # u
        PROVE  /\ user'[v] = user[v]
               /\ \A k \in Managers : v \in mgr'[k].callbacks <=> v \in mgr[k].callbacks
    BY <1>3, <1>4, <2>1 DEF IInv, TypeOK
  <2>2. user'[u] = "deregistered"
    BY DEF IInv, TypeOK
  <2>3. \A k \in Managers :
           /\ mgr'[k].state = mgr[k].state /\ u \notin mgr'[k].callbacks
           /\ AlreadyCancelled(mgr[k]) => AlreadyCancelled(mgr'[k])
    BY <1>3, <1>4 DEF IInv, Placed, PlacedUser, AlreadyCancelled
  <2>6. \A k \in Managers, v \in Users :
           (HasToRun(k, v)' <=> HasToRun(k, v)) /\ (Runs(k, v)' <=> Runs(k, v))
    BY DEF HasToRun, Runs, Calls
  <2>4. PlacedUser(u)'
    BY <1>2, <2>2, <2>3, <2>6 DEF PlacedUser, Given
  <2>5. ASSUME NEW v \in Users, v # u PROVE PlacedUser(v)'
    BY <2>1, <2>3, <2>5, <2>6, StaysPlaced
  <2> QED  BY <2>4, <2>5 DEF Placed
<1>6. \A k \in Managers : mgr'[k].callbacks # {} =>
                mgr'[k].state /\ ~mgr[k].cancelled /\ ~mgr[k].cancelling
  BY <1>3, <1>4 DEF IInv, Members
<1>7. user' \in [Users -> {"idle", "registered", "refused", "deregistered", "waiting",
                            "settled", "missed"}]
  BY DEF IInv, TypeOK
<1> QED  BY <1>3, <1>4, <1>5, <1>6, <1>7, UserStep

\* A callback of a manager that is cancelled is over.
LEMMA CancelledIsOver ==
  ASSUME IInv, NEW u \in Users, user[u] \in Given, mgr[ManagerOf[u]].cancelled
  PROVE  callback[u] = "done"
<1>1. ManagerOf[u] \in Managers
  BY CancellationAssumption
<1>2. u \notin mgr[ManagerOf[u]].callbacks
  BY <1>1 DEF IInv, Members
<1>3. ~HasToRun(ManagerOf[u], u) /\ ~Runs(ManagerOf[u], u)
  BY <1>1, InHand DEF IInv, Members
<1> QED  BY <1>2, <1>3 DEF IInv, Placed, PlacedUser

\* A user that has lost its callback to StartCancel goes on, and it does not settle
\* before the callback is over.
LEMMA MovesOn ==
  ASSUME IInv, NEW u \in Users, user[u] \in Given, UNCHANGED <<mgr, life, frames, callback>>,
         NEW w \in {"waiting", "missed", "settled"},
         u \notin mgr[ManagerOf[u]].callbacks,
         w = "settled" => callback[u] = "done",
         user' = [user EXCEPT ![u] = w]
  PROVE  IInv'
<1>1. \A k \in Managers : u \notin mgr[k].callbacks
  BY DEF IInv, Placed, PlacedUser
<1>2. \A v \in Users : user'[v] = IF v = u THEN w ELSE user[v]
  BY DEF IInv, TypeOK
<1>3. Placed'
  <2>1. \A k \in Managers, v \in Users :
           (HasToRun(k, v)' <=> HasToRun(k, v)) /\ (Runs(k, v)' <=> Runs(k, v))
    BY DEF HasToRun, Runs, Calls
  <2>2. callback[u] = "done" => \A k \in Managers : ~HasToRun(k, u) /\ ~Runs(k, u)
    BY DEF IInv, Placed, PlacedUser
  <2>3. PlacedUser(u)'
    BY <1>1, <1>2, <2>1, <2>2, CancellationAssumption DEF IInv, Placed, PlacedUser, Given
  <2>4. ASSUME NEW v \in Users, v # u PROVE PlacedUser(v)'
    BY <1>2, <2>1, <2>4, StaysPlaced
  <2> QED  BY <2>3, <2>4 DEF Placed
<1>4. \A k \in Managers : mgr[k].callbacks # {} =>
                mgr[k].state /\ ~mgr[k].cancelled /\ ~mgr[k].cancelling
  BY DEF IInv, Members
<1>5. user' \in [Users -> {"idle", "registered", "refused", "deregistered", "waiting",
                            "settled", "missed"}]
  BY DEF IInv, TypeOK
<1>6. mgr \in [Managers -> Records]
  BY DEF IInv, TypeOK
<1> QED  BY <1>3, <1>4, <1>5, <1>6, UserStep

LEMMA DeregisterIInv ==
  ASSUME IInv, NEW u \in Users,
         DeregisterCallback(u) \/ TryDeregisterCallback(u) \/ DeregisterReturns(u)
  PROVE  IInv'
<1> DEFINE x == mgr[ManagerOf[u]]
<1>0. ManagerOf[u] \in Managers /\ UNCHANGED <<life, frames, callback>>
  BY CancellationAssumption DEF DeregisterCallback, TryDeregisterCallback, DeregisterReturns
<1>1. u \in x.callbacks => ~x.cancelled /\ ~x.cancelling
  BY <1>0 DEF IInv, Members
<1>2. CASE DeregisterReturns(u)
  <2>1. x.cancelled /\ user[u] = "waiting"
    BY <1>0, <1>2 DEF DeregisterReturns, IInv, Members
  <2>2. callback[u] = "done"
    BY <2>1, CancelledIsOver DEF Given
  <2>3. UNCHANGED mgr /\ user' = [user EXCEPT ![u] = "settled"]
    BY <1>2 DEF DeregisterReturns
  <2> QED  BY <1>0, <1>1, <2>1, <2>2, <2>3, MovesOn DEF Given
<1>3. CASE TryDeregisterCallback(u)
  <2>1. user[u] = "registered"
    BY <1>3 DEF TryDeregisterCallback
  <2>2. CASE x.cancelled \/ x.cancelling
    <3>1. user' = [user EXCEPT ![u] = "missed"] /\ UNCHANGED mgr
      BY <1>3, <2>2 DEF TryDeregisterCallback
    <3> QED  BY <1>0, <1>1, <2>1, <2>2, <3>1, MovesOn DEF Given
  <2>3. CASE ~(x.cancelled \/ x.cancelling)
    <3>1. /\ user' = [user EXCEPT ![u] = "deregistered"]
          /\ mgr' = [mgr EXCEPT ![ManagerOf[u]].callbacks = @ \ {u}]
      BY <1>3, <2>3 DEF TryDeregisterCallback
    <3> QED  BY <1>0, <2>1, <2>3, <3>1, TakenBack
  <2> QED  BY <2>2, <2>3
<1>4. CASE DeregisterCallback(u)
  <2> DEFINE w == Deregisters(x)
  <2>1. /\ user[u] = "registered" /\ user' = [user EXCEPT ![u] = w]
        /\ mgr' = IF user'[u] = "deregistered"
                  THEN [mgr EXCEPT ![ManagerOf[u]].callbacks = @ \ {u}] ELSE mgr
    BY <1>4 DEF DeregisterCallback
  <2>2. user'[u] = w
    BY <2>1 DEF IInv, TypeOK
  <2>3. x.state
    BY <2>1 DEF IInv, Placed, PlacedUser
  <2>4. CASE x.cancelled
    <3>1. w = "settled" /\ UNCHANGED mgr
      BY <2>1, <2>2, <2>4 DEF Deregisters
    <3>2. callback[u] = "done"
      BY <2>1, <2>4, CancelledIsOver DEF Given
    <3> QED  BY <1>0, <1>1, <2>1, <2>4, <3>1, <3>2, MovesOn DEF Given
  <2>5. CASE ~x.cancelled /\ x.cancelling
    <3>1. w = "waiting" /\ UNCHANGED mgr
      BY <2>1, <2>2, <2>3, <2>5 DEF Deregisters
    <3> QED  BY <1>0, <1>1, <2>1, <2>5, <3>1, MovesOn DEF Given
  <2>6. CASE ~x.cancelled /\ ~x.cancelling
    <3>1. w = "deregistered"
      BY <2>6 DEF Deregisters
    <3> QED  BY <1>0, <2>1, <2>2, <2>6, <3>1, TakenBack
  <2> QED  BY <2>4, <2>5, <2>6
<1> QED  BY <1>2, <1>3, <1>4

\* A stack has at most two calls.
LEMMA Depth ==
  ASSUME IInv, NEW t \in Threads
  PROVE  Len(frames[t]) = 0 \/ Len(frames[t]) = 1 \/ Len(frames[t]) = 2
<1>1. \A n \in Nat : n <= 2 => n = 0 \/ n = 1 \/ n = 2
  OBVIOUS
<1>2. Len(frames[t]) \in Nat /\ Len(frames[t]) <= 2
  BY EmptyStack DEF IInv, TypeOK, Stacks, Stack
<1> QED  BY <1>1, <1>2

\* The manager of a call in progress is alive.
LEMMA FrameLife ==
  ASSUME IInv, NEW t \in Threads, NEW i \in Calls(t), NEW c \in Children,
         frames[t][i].manager = c
  PROVE  life[c] \in {"accepted", "live", "waiting", "draining"}
<1>1. Len(frames[t]) \in Nat /\ Len(frames[t]) <= 2 /\ i \in 1..Len(frames[t])
  BY EmptyStack DEF IInv, TypeOK, Stacks, Stack, Calls
<1>2. CASE Len(frames[t]) = 1
  <2>1. i = 1
    BY <1>1, <1>2
  <2>2. CASE t \in Cancellers
    BY <1>2, <2>1, <2>2 DEF IInv, Stacks, Stack, Kept
  <2>3. CASE t \notin Cancellers
    <3>1. t = c
      BY <1>2, <2>1, <2>3 DEF IInv, Stacks, Stack
    <3> QED  BY <1>2, <3>1 DEF IInv, Kept
  <2> QED  BY <2>2, <2>3
<1>3. CASE Len(frames[t]) = 2
  <2>1. i = 1
    BY <1>1, <1>3, CancellationAssumption DEF IInv, Stacks, Stack
  <2> QED  BY <1>3, <2>1 DEF IInv, Kept, InUse
<1>4. Len(frames[t]) = 1 \/ Len(frames[t]) = 2
  <2>1. \A n \in Nat : \A j \in 1..n : n <= 2 => n = 1 \/ n = 2
    OBVIOUS
  <2> QED  BY <1>1, <2>1
<1> QED  BY <1>2, <1>3, <1>4

\* A child that its parent has in hand: the parent is being cancelled, and has state_.
LEMMA ParentCancels ==
  ASSUME IInv, NEW t \in Threads, NEW c \in Children,
         \/ \E i \in Calls(t) : c \in frames[t][i].kids
         \/ Len(frames[t]) = 2 /\ frames[t][1].manager = c
  PROVE  mgr[Root].cancelling /\ mgr[Root].state
<1>1. CASE \E i \in Calls(t) : c \in frames[t][i].kids
  <2>1. PICK i \in Calls(t) : c \in frames[t][i].kids
    BY <1>1
  <2>2. frames[t][i].at = "loop" /\ frames[t][i].manager = Root
    BY <2>1 DEF IInv, Holds
  <2> QED  BY <2>1, <2>2 DEF IInv, OneCancels, Kept
<1>2. CASE Len(frames[t]) = 2
  <2>1. 2 \in Calls(t) /\ frames[t][2].at = "loop" /\ frames[t][2].manager = Root
    BY <1>2 DEF IInv, Stacks, Stack, Calls
  <2> QED  BY <1>2, <2>1 DEF IInv, OneCancels, Kept
<1> QED  BY <1>1, <1>2

\* A step of a child's constructor or destructor that calls no StartCancel.
LEMMA QuietChildStep ==
  ASSUME IInv, UNCHANGED <<frames, user, callback>>, TypeOK',
         \A k \in Managers :
            /\ mgr'[k].cancelling = mgr[k].cancelling
            /\ mgr'[k].callbacks = mgr[k].callbacks
            /\ mgr[k].state => mgr'[k].state
            /\ mgr[k].state => mgr'[k].cancelled = mgr[k].cancelled,
         Members', Young', Kept', Drained'
  PROVE  IInv'
<1>1. Stacks' /\ Holds'
  BY DEF IInv, Stacks, Stack, Holds, Calls
<1>2. OneCancels'
  <2>1. \A k \in Managers : mgr[k].cancelling => mgr'[k].cancelling
    OBVIOUS
  <2> QED  BY <2>1, FrameTypes DEF IInv, OneCancels, Calls
<1>3. Notifiers'
  BY FrameTypes DEF IInv, Notifiers, Calls
<1>4. Placed'
  <2>1. \A k \in Managers, v \in Users :
           (HasToRun(k, v)' <=> HasToRun(k, v)) /\ (Runs(k, v)' <=> Runs(k, v))
    BY DEF HasToRun, Runs, Calls
  <2>2. \A k \in Managers :
           mgr[k].state /\ AlreadyCancelled(mgr[k]) => AlreadyCancelled(mgr'[k])
    BY DEF AlreadyCancelled
  <2> QED  BY <2>1, <2>2, StaysPlaced DEF Placed
<1> QED  BY <1>1, <1>2, <1>3, <1>4 DEF IInv

\* The life of one child goes on: what else is kept, and what must be shown of the child.
LEMMA KeptOthers ==
  ASSUME IInv, NEW c \in Children, UNCHANGED frames,
         \A k \in Managers : k # c => life'[k] = life[k],
         \A k \in Managers : k # c => mgr'[k].removed = mgr[k].removed,
         mgr[Root].state => mgr'[Root].state,
         mgr'[Root].children \subseteq mgr[Root].children \cup {c},
         c \in mgr'[Root].children => life'[c] \in {"accepted", "live"} /\ ~mgr'[c].removed,
         life'[c] \notin InUse => ~(mgr[Root].cancelling /\ mgr[Root].state) \/ life[c] \notin InUse,
         \A t \in Cancellers : Len(frames[t]) = 1 /\ Target[t] = c => life'[c] = "live",
         Len(frames[c]) # 0 => life'[c] = "draining"
  PROVE  Kept'
<1>1. life'[Root] = "live"
  BY CancellationAssumption DEF IInv, Kept, Managers
<1>2. \A k \in mgr'[Root].children : life'[k] \in {"accepted", "live"} /\ ~mgr'[k].removed
  BY DEF IInv, TypeOK, Records, Kept, Managers
<1>3. \A t \in Threads : \A i \in Calls(t) : \A k \in frames[t][i].kids :
          life'[k] \in InUse /\ mgr'[Root].state
  BY ParentCancels, FrameTypes DEF IInv, Kept, Managers
<1>4. \A t \in Threads : Len(frames[t]) = 2 =>
          life'[frames[t][1].manager] \in InUse /\ mgr'[Root].state
  BY ParentCancels DEF IInv, Kept, Stacks, Stack, Managers
<1>5. \A t \in Cancellers : Len(frames[t]) = 1 => life'[Target[t]] = "live"
  BY CancellationAssumption DEF IInv, Kept, Managers
<1>6. \A k \in Children : Len(frames[k]) # 0 => life'[k] = "draining"
  BY DEF IInv, Kept, Managers
<1> QED  BY <1>1, <1>2, <1>3, <1>4, <1>5, <1>6 DEF Kept, Calls

\* A child is constructed: nobody has it yet.
LEMMA ConstructChildIInv ==
  ASSUME IInv, NEW c \in Children, ConstructChild(c)
  PROVE  IInv'
<1> USE DEF Managers
<1>0. /\ life[c] = "none" /\ UNCHANGED <<frames, user, callback>> /\ c # Root
      /\ mgr \in [Managers -> Records]
  BY CancellationAssumption DEF ConstructChild, IInv, TypeOK
<1>1. ~mgr[c].state /\ ~mgr[c].cancelling /\ ~mgr[c].removed
  BY <1>0 DEF IInv, Young
<1>2. mgr[c].callbacks = {} /\ mgr[c].children = {} /\ ~mgr[c].notified
  BY <1>0, <1>1 DEF IInv, Members
<1>3. /\ c \notin mgr[Root].children /\ Len(frames[c]) = 0
      /\ \A t \in Cancellers : Len(frames[t]) = 1 => Target[t] # c
  BY <1>0 DEF IInv, Kept
<1>4. PICK g \in BOOLEAN :
        \/ /\ mgr' = [mgr EXCEPT ![c].removed = TRUE, ![c].cancelled = g]
           /\ life' = [life EXCEPT ![c] = "refused"]
        \/ /\ ~mgr[Root].cancelled /\ ~mgr[Root].cancelling
           /\ mgr' = [mgr EXCEPT ![Root].state = TRUE, ![Root].children = @ \cup {c},
                                 ![c].cancelled = g]
           /\ life' = [life EXCEPT ![c] = "accepted"]
  BY Zenon DEF ConstructChild
<1>5. CASE /\ mgr' = [mgr EXCEPT ![c].removed = TRUE, ![c].cancelled = g]
           /\ life' = [life EXCEPT ![c] = "refused"]
  <2>1. mgr' \in [Managers -> Records] /\ \A k \in Managers : k # c => mgr'[k] = mgr[k]
    <3> DEFINE x == [mgr[c] EXCEPT !.removed = TRUE, !.cancelled = g]
    <3>1. x \in Records
      <4>1. mgr[c] \in Records
        BY <1>0
      <4> QED  BY <4>1 DEF Records
    <3>2. mgr' = [mgr EXCEPT ![c] = x]
      BY <1>5
    <3> HIDE DEF x
    <3> QED  BY <1>0, <3>1, <3>2
  <2>2. /\ mgr'[c].cancelling = mgr[c].cancelling /\ mgr'[c].state = mgr[c].state
        /\ mgr'[c].callbacks = mgr[c].callbacks /\ mgr'[c].children = mgr[c].children
        /\ mgr'[c].notified = mgr[c].notified
    BY <1>0, <1>5 DEF Records
  <2>3. life'[c] = "refused" /\ \A k \in Managers : k # c => life'[k] = life[k]
    BY <1>5 DEF IInv, TypeOK
  <2>4. TypeOK'
    BY <1>0, <1>5, <2>1 DEF IInv, TypeOK
  <2>5. Members' /\ Young'
    BY <1>0, <1>1, <1>2, <2>1, <2>2, <2>3 DEF IInv, Members, Young
  <2>6. Kept'
    BY <1>0, <1>3, <2>1, <2>3, KeptOthers DEF InUse
  <2>7. Drained'
    BY <1>0, <1>3, <2>1, <2>3 DEF IInv, Drained
  <2> QED  BY <1>0, <1>1, <2>1, <2>2, <2>4, <2>5, <2>6, <2>7, QuietChildStep
<1>6. CASE /\ ~mgr[Root].cancelled /\ ~mgr[Root].cancelling
           /\ mgr' = [mgr EXCEPT ![Root].state = TRUE, ![Root].children = @ \cup {c},
                                 ![c].cancelled = g]
           /\ life' = [life EXCEPT ![c] = "accepted"]
  <2>1. mgr' \in [Managers -> Records]
        /\ \A k \in Managers : k # c /\ k # Root => mgr'[k] = mgr[k]
    <3> DEFINE x == [mgr[c] EXCEPT !.cancelled = g]
               y == [mgr[Root] EXCEPT !.state = TRUE, !.children = mgr[Root].children \cup {c}]
    <3>1. x \in Records /\ y \in Records
      <4>1. mgr[c] \in Records /\ mgr[Root] \in Records
        BY <1>0
      <4>2. x \in Records
        BY <4>1 DEF Records
      <4>3. y \in Records
        BY <4>1 DEF Records
      <4> QED  BY <4>2, <4>3
    <3>2. mgr' = [[mgr EXCEPT ![Root] = y] EXCEPT ![c] = x]
      BY <1>0, <1>6
    <3> HIDE DEF x, y
    <3> QED  BY <1>0, <3>1, <3>2
  <2>2. /\ mgr'[c].cancelling = mgr[c].cancelling /\ mgr'[c].state = mgr[c].state
        /\ mgr'[c].callbacks = mgr[c].callbacks /\ mgr'[c].children = mgr[c].children
        /\ mgr'[c].notified = mgr[c].notified /\ mgr'[c].removed = mgr[c].removed
    BY <1>0, <1>6 DEF Records
  <2>3. /\ mgr'[Root].cancelling = mgr[Root].cancelling /\ mgr'[Root].state
        /\ mgr'[Root].callbacks = mgr[Root].callbacks
        /\ mgr'[Root].children = mgr[Root].children \cup {c}
        /\ mgr'[Root].notified = mgr[Root].notified
        /\ mgr'[Root].cancelled = mgr[Root].cancelled
        /\ mgr'[Root].removed = mgr[Root].removed
    BY <1>0, <1>6 DEF Records
  <2>4. life'[c] = "accepted" /\ \A k \in Managers : k # c => life'[k] = life[k]
    BY <1>6 DEF IInv, TypeOK
  <2>5. TypeOK'
    BY <1>0, <1>6, <2>1 DEF IInv, TypeOK
  <2>6. Members'
    BY <1>0, <1>1, <1>2, <1>6, <2>1, <2>2, <2>3 DEF IInv, Members
  <2>7. Young'
    BY <1>0, <1>1, <2>1, <2>2, <2>4, CancellationAssumption DEF IInv, Young
  <2>8. Kept'
    BY <1>0, <1>1, <1>3, <2>1, <2>2, <2>3, <2>4, KeptOthers DEF InUse
  <2>9. Drained'
    BY <1>0, <1>3, <2>1, <2>4, CancellationAssumption DEF IInv, Drained
  <2> QED  BY <1>0, <1>1, <2>1, <2>2, <2>3, <2>5, <2>6, <2>7, <2>8, <2>9, QuietChildStep
<1> QED  BY <1>4, <1>5, <1>6

\* The constructor writes is_cancelled_, which a StartCancel of the parent may have set
\* before; nobody has registered anything with the child by then.
LEMMA ConstructorReturnsIInv ==
  ASSUME IInv, NEW c \in Children, ConstructorReturns(c)
  PROVE  IInv'
<1> USE DEF Managers
<1> DEFINE r == life[c] = "refused"
<1>0. /\ life[c] \in {"refused", "accepted"} /\ UNCHANGED <<frames, user, callback>>
      /\ mgr' = [mgr EXCEPT ![c].cancelled = r]
      /\ life' = [life EXCEPT ![c] = "live"]
      /\ mgr \in [Managers -> Records] /\ c # Root
  BY CancellationAssumption DEF ConstructorReturns, IInv, TypeOK
<1>1. ~mgr[c].state /\ (r => ~mgr[c].cancelling)
  BY <1>0 DEF IInv, Young
<1>2. mgr[c].callbacks = {} /\ mgr[c].children = {} /\ ~mgr[c].notified
  BY <1>0, <1>1 DEF IInv, Members
<1>3. /\ Len(frames[c]) = 0
      /\ \A t \in Cancellers : Len(frames[t]) = 1 => Target[t] # c
  BY <1>0 DEF IInv, Kept
<1>4. r \in BOOLEAN
  OBVIOUS
<1>5. life'[c] = "live" /\ \A k \in Managers : k # c => life'[k] = life[k]
  BY <1>0 DEF IInv, TypeOK
<1> HIDE DEF r
<1>6. mgr' \in [Managers -> Records] /\ \A k \in Managers : k # c => mgr'[k] = mgr[k]
  BY <1>0, <1>4 DEF Records
<1>7. /\ mgr'[c].cancelling = mgr[c].cancelling /\ mgr'[c].state = mgr[c].state
      /\ mgr'[c].callbacks = mgr[c].callbacks /\ mgr'[c].children = mgr[c].children
      /\ mgr'[c].notified = mgr[c].notified /\ mgr'[c].removed = mgr[c].removed
      /\ mgr'[c].cancelled = r
  BY <1>0 DEF Records
<1>8. TypeOK'
  BY <1>0, <1>6 DEF IInv, TypeOK
<1>9. Members' /\ Young'
  BY <1>0, <1>1, <1>2, <1>5, <1>6, <1>7 DEF IInv, Members, Young
<1>10. Kept'
  BY <1>0, <1>3, <1>5, <1>6, <1>7, KeptOthers DEF InUse, IInv, Kept
<1>11. Drained'
  BY <1>0, <1>3, <1>5, <1>6 DEF IInv, Drained
<1> QED  BY <1>0, <1>1, <1>6, <1>7, <1>8, <1>9, <1>10, <1>11, QuietChildStep

\* The destructor takes the child from its parent; while the parent is being cancelled
\* it waits.
LEMMA DestroyChildIInv ==
  ASSUME IInv, NEW c \in Children, DestroyChild(c)
  PROVE  IInv'
<1> USE DEF Managers
<1>0. /\ life[c] = "live" /\ UNCHANGED <<frames, user, callback>>
      /\ \A t \in Cancellers : Target[t] = c => frames[t] = <<>>
      /\ life' = [life EXCEPT ![c] = IF WaitsForParent(c) THEN "waiting" ELSE "destroying"]
      /\ mgr \in [Managers -> Records] /\ c # Root
  BY CancellationAssumption DEF DestroyChild, OwnerIsDone, IInv, TypeOK
<1>1. \A t \in Cancellers : Target[t] = c => Len(frames[t]) = 0
  BY <1>0, EmptyStack DEF IInv, TypeOK, Threads
<1>2. Len(frames[c]) = 0
  BY <1>0 DEF IInv, Kept
<1>3. /\ life'[c] \in {"waiting", "destroying"}
      /\ mgr[Root].cancelling /\ mgr[Root].state => life'[c] = "waiting"
      /\ \A k \in Managers : k # c => life'[k] = life[k]
  BY <1>0 DEF IInv, TypeOK, WaitsForParent
<1>4. /\ mgr' \in [Managers -> Records]
      /\ mgr'[Root].children = mgr[Root].children \ {c}
      /\ \A k \in Managers :
            /\ mgr'[k].cancelling = mgr[k].cancelling /\ mgr'[k].cancelled = mgr[k].cancelled
            /\ mgr'[k].state = mgr[k].state /\ mgr'[k].notified = mgr[k].notified
            /\ mgr'[k].callbacks = mgr[k].callbacks
            /\ mgr'[k].children \subseteq mgr[k].children
            /\ k # c => mgr'[k].removed = mgr[k].removed
  <2>1. CASE mgr[c].removed
    <3>1. mgr' = mgr /\ c \notin mgr[Root].children
      BY <2>1 DEF DestroyChild, IInv, Kept
    <3> QED  BY <1>0, <3>1
  <2>2. CASE ~mgr[c].removed
    <3>1. mgr' = [mgr EXCEPT ![Root].children = @ \ {c}, ![c].removed = TRUE]
      BY <2>2 DEF DestroyChild
    <3>2. mgr' \in [Managers -> Records]
      <4> DEFINE x == [mgr[c] EXCEPT !.removed = TRUE]
                 y == [mgr[Root] EXCEPT !.children = mgr[Root].children \ {c}]
      <4>1. x \in Records /\ y \in Records
        <5>1. mgr[c] \in Records /\ mgr[Root] \in Records
          BY <1>0
        <5>2. x \in Records
          BY <5>1 DEF Records
        <5>3. y \in Records
          BY <5>1 DEF Records
        <5> QED  BY <5>2, <5>3
      <4>2. mgr' = [[mgr EXCEPT ![Root] = y] EXCEPT ![c] = x]
        BY <1>0, <3>1
      <4> HIDE DEF x, y
      <4> QED  BY <1>0, <4>1, <4>2
    <3>3. \A k \in Managers : k # c /\ k # Root => mgr'[k] = mgr[k]
      BY <1>0, <3>1
    <3>4. /\ mgr'[c].cancelling = mgr[c].cancelling /\ mgr'[c].cancelled = mgr[c].cancelled
          /\ mgr'[c].state = mgr[c].state /\ mgr'[c].notified = mgr[c].notified
          /\ mgr'[c].callbacks = mgr[c].callbacks /\ mgr'[c].children = mgr[c].children
      BY <1>0, <3>1 DEF Records
    <3>5. /\ mgr'[Root].cancelling = mgr[Root].cancelling
          /\ mgr'[Root].cancelled = mgr[Root].cancelled
          /\ mgr'[Root].state = mgr[Root].state /\ mgr'[Root].notified = mgr[Root].notified
          /\ mgr'[Root].callbacks = mgr[Root].callbacks
          /\ mgr'[Root].children = mgr[Root].children \ {c}
          /\ mgr'[Root].removed = mgr[Root].removed
      <4>1. mgr'[Root] = [mgr[Root] EXCEPT !.children = mgr[Root].children \ {c}]
        BY <1>0, <3>1
      <4>2. mgr[Root] \in Records
        BY <1>0
      <4> QED  BY <4>1, <4>2 DEF Records
    <3> QED  BY <3>2, <3>3, <3>4, <3>5
  <2> QED  BY <2>1, <2>2
<1>5. TypeOK'
  BY <1>0, <1>4 DEF IInv, TypeOK
<1>6. Members'
  BY <1>4 DEF IInv, Members
<1>7. Young'
  BY <1>0, <1>3, <1>4 DEF IInv, Young
<1>8. Kept'
  <2>1. \A t \in Cancellers : ~(Len(frames[t]) = 1 /\ Target[t] = c)
    BY <1>1
  <2> QED  BY <1>0, <1>2, <1>3, <1>4, <2>1, KeptOthers DEF InUse
<1>9. Drained'
  BY <1>0, <1>2, <1>3, <1>4 DEF IInv, Drained, AlreadyCancelled
<1> QED  BY <1>0, <1>4, <1>5, <1>6, <1>7, <1>8, <1>9, QuietChildStep

\* The wait is over when the parent has been cancelled, and then it has no child in hand.
\* A destructor that has nothing to cancel, or has cancelled it, returns.
LEMMA DestructorIInv ==
  ASSUME IInv, NEW c \in Children, DeregisterChildReturns(c) \/ DestructorReturns(c)
  PROVE  IInv'
<1> USE DEF Managers
<1>0. UNCHANGED <<mgr, frames, user, callback>> /\ c # Root /\ mgr \in [Managers -> Records]
  BY CancellationAssumption DEF DeregisterChildReturns, DestructorReturns, IInv, TypeOK
<1>1. PICK l \in {"destroying", "freed"} :
         /\ life' = [life EXCEPT ![c] = l]
         /\ l = "destroying" => life[c] = "waiting" /\ mgr[Root].notified
         /\ l = "freed" => life[c] = "draining" /\ frames[c] = <<>>
  BY DEF DeregisterChildReturns, DestructorReturns
<1>2. life'[c] = l /\ \A k \in Managers : k # c => life'[k] = life[k]
  BY <1>1 DEF IInv, TypeOK
<1>3. Len(frames[c]) = 0
  BY <1>1, EmptyStack DEF IInv, TypeOK, Kept, Threads
<1>4. life[c] \in InUse => ~mgr[Root].cancelling
  BY <1>1 DEF InUse, IInv, Members
<1>5. TypeOK'
  BY <1>0, <1>1 DEF IInv, TypeOK
<1>6. Members' /\ Young'
  BY <1>0, <1>2 DEF IInv, Members, Young
<1>7. Kept'
  <2>1. \A t \in Cancellers : ~(Len(frames[t]) = 1 /\ Target[t] = c)
    BY <1>1 DEF IInv, Kept
  <2>2. c \notin mgr[Root].children
    BY <1>1 DEF IInv, Kept
  <2> QED  BY <1>0, <1>2, <1>3, <1>4, <2>1, <2>2, KeptOthers
<1>8. Drained'
  BY <1>0, <1>1, <1>2, <1>3 DEF IInv, Drained
<1> QED  BY <1>0, <1>5, <1>6, <1>7, <1>8, QuietChildStep

\* A thread enters StartCancel.
LEMMA CallIInv ==
  ASSUME IInv, NEW t \in Threads, frames[t] = <<>>, NEW m \in Managers, Call(t, m),
         m = (IF t \in Cancellers THEN Target[t] ELSE t),
         UNCHANGED <<mgr, user, callback>>, TypeOK',
         \A k \in Managers : k # m => life'[k] = life[k],
         IF t \in Cancellers THEN life'[m] = life[m] /\ life[m] = "live"
                             ELSE life[m] = "destroying" /\ life'[m] = "draining"
  PROVE  IInv'
<1>1. /\ frames' \in [Threads -> Seq(Frames)]
      /\ Len(frames'[t]) = 1 /\ Len(frames[t]) = 0
      /\ frames'[t][1] = Entry(m)
      /\ \A s \in Threads : s # t => frames'[s] = frames[s]
  BY Called DEF IInv, TypeOK
<1>2. /\ Entry(m).manager = m /\ Entry(m).at = "entry" /\ Entry(m).run = {}
      /\ Entry(m).running = {} /\ Entry(m).kids = {} /\ Entry(m).notification = FALSE
  BY DEF Entry
<1>3. /\ \A s \in Threads : \A i \in Calls(s)' :
            \/ s = t /\ i = 1 /\ frames'[s][i] = Entry(m)
            \/ s # t /\ i \in Calls(s) /\ frames'[s][i] = frames[s][i]
      /\ \A s \in Threads : \A i \in Calls(s) :
            i \in Calls(s)' /\ frames'[s][i] = frames[s][i]
  <2>1. Calls(t)' = {1} /\ Calls(t) = {}
    BY <1>1 DEF Calls
  <2>2. \A s \in Threads : s # t => Calls(s)' = Calls(s)
    BY <1>1 DEF Calls
  <2> QED  BY <1>1, <2>1, <2>2
<1>4. Stacks'
  <2>1. t \in Threads /\ frames'[t][1].manager = m
    BY <1>1, <1>2
  <2>2. Stack(t)'
    BY <1>1, <2>1 DEF Stack
  <2>3. ASSUME NEW s \in Threads, s # t PROVE Stack(s)'
    <3>1. frames'[s] = frames[s] /\ Stack(s)
      BY <1>1, <2>3 DEF IInv, Stacks
    <3> QED  BY <3>1 DEF Stack
  <2> QED  BY <2>2, <2>3 DEF Stacks
<1>5. Holds'
  BY <1>2, <1>3 DEF IInv, Holds
<1>6. OneCancels'
  <2>1. \A s \in Threads : \A i \in Calls(s)' : frames'[s][i].at = "loop" =>
           i \in Calls(s) /\ frames'[s][i] = frames[s][i]
    BY <1>2, <1>3
  <2> QED  BY <2>1 DEF IInv, OneCancels
<1>7. Members'
  BY DEF IInv, Members
<1>8. Notifiers'
  BY <1>2, <1>3 DEF IInv, Notifiers
<1>9. Young'
  BY DEF IInv, Young, Managers
<1>10. Kept'
  <2>1. life'[Root] = "live"
    BY CancellationAssumption DEF IInv, Kept, Managers
  <2>2. \A k \in mgr[Root].children : life'[k] \in {"accepted", "live"} /\ ~mgr[k].removed
    BY DEF IInv, TypeOK, Records, Kept, Managers
  <2>3. \A s \in Threads : \A i \in Calls(s) : \A c \in frames[s][i].kids :
            life'[c] \in InUse /\ mgr[Root].state
    BY FrameTypes DEF IInv, Kept, Managers, InUse
  <2>4. \A s \in Threads : Len(frames[s]) = 2 =>
            life'[frames[s][1].manager] \in InUse /\ mgr[Root].state
    BY DEF IInv, Kept, Stacks, Stack, Managers, InUse
  <2>5. \A s \in Cancellers : Len(frames'[s]) = 1 => life'[Target[s]] = "live"
    BY <1>1, CancellationAssumption DEF IInv, Kept, Threads
  <2>6. \A c \in Children : Len(frames'[c]) # 0 => life'[c] = "draining"
    BY <1>1, CancellationAssumption DEF IInv, Kept, Managers, Threads
  <2>7. \A s \in Threads : \A i \in Calls(s)' : \A c \in frames'[s][i].kids :
            life'[c] \in InUse /\ mgr[Root].state
    BY <1>2, <1>3, <2>3
  <2>8. \A s \in Threads : Len(frames'[s]) = 2 =>
            life'[frames'[s][1].manager] \in InUse /\ mgr[Root].state
    <3> SUFFICES ASSUME NEW s \in Threads, Len(frames'[s]) = 2
                 PROVE  life'[frames'[s][1].manager] \in InUse /\ mgr[Root].state
      OBVIOUS
    <3>1. Len(frames'[t]) # 2
      BY <1>1
    <3>2. frames'[s] = frames[s]
      BY <1>1, <3>1
    <3> QED  BY <2>4, <3>2
  <2> QED  BY <2>1, <2>2, <2>5, <2>6, <2>7, <2>8 DEF Kept
<1>11. Drained'
  <2>1. \A c \in Children : c = t \/ frames'[c] = frames[c]
    BY <1>1 DEF Threads
  <2>2. \A c \in Children : c = t => c = m /\ life'[c] = "draining"
    BY CancellationAssumption
  <2>3. \A c \in Children : c # t => life'[c] = life[c]
    BY CancellationAssumption DEF Managers
  <2> QED  BY <1>1, <1>2, <2>1, <2>2, <2>3 DEF IInv, Drained
<1>12. Placed'
  <2>1. \A k \in Managers, v \in Users :
           (HasToRun(k, v)' <=> HasToRun(k, v)) /\ (Runs(k, v)' <=> Runs(k, v))
    <3>1. \A k \in Managers, v \in Users : HasToRun(k, v)' <=> HasToRun(k, v)
      BY <1>2, <1>3 DEF HasToRun
    <3>2. \A k \in Managers, v \in Users : Runs(k, v)' <=> Runs(k, v)
      BY <1>2, <1>3 DEF Runs
    <3> QED  BY <3>1, <3>2
  <2> QED  BY <2>1, StaysPlaced DEF Placed
<1> QED
  BY <1>4, <1>5, <1>6, <1>7, <1>8, <1>9, <1>10, <1>11, <1>12 DEF IInv

LEMMA StartCancelIInv ==
  ASSUME IInv, NEW t \in Cancellers, StartCancel(t)
  PROVE  IInv'
<1>1. /\ t \in Threads /\ Target[t] \in Managers /\ frames[t] = <<>> /\ life[Target[t]] = "live"
      /\ Call(t, Target[t]) /\ UNCHANGED <<mgr, life, user, callback>>
  BY CancellationAssumption DEF StartCancel, Threads
<1>2. TypeOK'
  BY <1>1, Called DEF IInv, TypeOK
<1> QED  BY <1>1, <1>2, CallIInv

\* The destructor cancels what is registered; a child without state_ has nothing.
LEMMA DestructorCancelsIInv ==
  ASSUME IInv, NEW c \in Children, DestructorCancels(c)
  PROVE  IInv'
<1>1. /\ c \in Threads /\ c \in Managers /\ c \notin Cancellers /\ c # Root
      /\ life[c] = "destroying" /\ life' = [life EXCEPT ![c] = "draining"]
      /\ UNCHANGED <<mgr, user, callback>>
  BY CancellationAssumption DEF DestructorCancels, Threads, Managers
<1>2. Len(frames[c]) = 0 /\ frames[c] = <<>>
  BY <1>1, EmptyStack DEF IInv, TypeOK, Kept
<1>3. life'[c] = "draining" /\ \A k \in Managers : k # c => life'[k] = life[k]
  BY <1>1 DEF IInv, TypeOK
<1>4. CASE mgr[c].state
  <2>1. Call(c, c)
    BY <1>4 DEF DestructorCancels
  <2>2. TypeOK'
    BY <1>1, <1>2, <2>1, Called DEF IInv, TypeOK
  <2> QED  BY <1>1, <1>2, <1>3, <2>1, <2>2, CallIInv
<1>5. CASE ~mgr[c].state
  <2>1. UNCHANGED frames
    BY <1>5 DEF DestructorCancels
  <2>2. TypeOK'
    BY <1>1, <2>1 DEF IInv, TypeOK
  <2>3. Members' /\ Young'
    BY <1>1, <1>3 DEF IInv, Members, Young, Managers
  <2>4. Kept'
    <3>1. \A t \in Cancellers : ~(Len(frames[t]) = 1 /\ Target[t] = c)
      BY <1>1 DEF IInv, Kept
    <3>2. c \notin mgr[Root].children
      BY <1>1 DEF IInv, Kept
    <3> QED  BY <1>1, <1>2, <1>3, <2>1, <3>1, <3>2, KeptOthers DEF InUse
  <2>5. Drained'
    BY <1>1, <1>2, <1>3, <1>5, <2>1 DEF IInv, Drained, Managers
  <2> QED  BY <1>1, <2>1, <2>2, <2>3, <2>4, <2>5, QuietChildStep
<1> QED  BY <1>4, <1>5

\* A StartCancel that holds nothing returns.
LEMMA PopIInv ==
  ASSUME IInv, NEW t \in Threads, frames[t] # <<>>, Top(t).at # "loop", Return(t),
         UNCHANGED <<life, user, callback>>, mgr' \in [Managers -> Records],
         \A k \in Managers :
            /\ mgr'[k].cancelling = mgr[k].cancelling /\ mgr'[k].cancelled = mgr[k].cancelled
            /\ mgr'[k].state = mgr[k].state /\ mgr'[k].callbacks = mgr[k].callbacks
            /\ mgr'[k].children = mgr[k].children /\ mgr'[k].removed = mgr[k].removed,
         Members',
         t \in Children /\ mgr[t].state => AlreadyCancelled(mgr[t])
  PROVE  IInv'
<1>1. /\ frames' \in [Threads -> Seq(Frames)]
      /\ Len(frames[t]) \in Nat \ {0}
      /\ Len(frames'[t]) = Len(frames[t]) - 1
      /\ \A i \in 1..Len(frames'[t]) : frames'[t][i] = frames[t][i + 1]
      /\ \A s \in Threads : s # t => frames'[s] = frames[s]
  BY Popped DEF IInv, TypeOK
<1>2. /\ frames[t][1].at # "loop" /\ 1 \in Calls(t)
      /\ frames[t][1].run = {} /\ frames[t][1].running = {} /\ frames[t][1].kids = {}
  <2>1. Top(t) = frames[t][1] /\ 1 \in Calls(t)
    BY <1>1, EmptyStack DEF IInv, TypeOK, Calls
  <2> QED  BY <2>1 DEF IInv, Holds
<1>3. /\ \A s \in Threads : \A i \in Calls(s)' :
            \E j \in Calls(s) : /\ frames'[s][i] = frames[s][j]
                               /\ j = (IF s = t THEN i + 1 ELSE i)
      /\ \A s \in Threads : \A j \in Calls(s) :
            (s = t /\ j = 1) \/ \E i \in Calls(s)' : frames'[s][i] = frames[s][j]
  <2>1. \A i \in Calls(t)' : i + 1 \in Calls(t) /\ frames'[t][i] = frames[t][i + 1]
    BY <1>1 DEF Calls
  <2>2. \A j \in Calls(t) : j # 1 => j - 1 \in Calls(t)' /\ frames'[t][j - 1] = frames[t][j]
    BY <1>1 DEF Calls
  <2>3. \A s \in Threads : s # t => Calls(s)' = Calls(s) /\ frames'[s] = frames[s]
    BY <1>1 DEF Calls
  <2> QED  BY <2>1, <2>2, <2>3
<1>4. TypeOK'
  BY <1>1 DEF IInv, TypeOK
<1>5. \/ Len(frames[t]) = 1 /\ Len(frames'[t]) = 0
      \/ /\ Len(frames[t]) = 2 /\ Len(frames'[t]) = 1 /\ frames'[t][1] = frames[t][2]
         /\ t \in Cancellers /\ Target[t] = Root /\ frames[t][2].manager = Root
  <2>1. Len(frames[t]) = 1 \/ Len(frames[t]) = 2
    BY <1>1, Depth
  <2> QED  BY <1>1, <2>1 DEF IInv, Stacks, Stack
<1>6. Stacks'
  BY <1>1, <1>5 DEF IInv, Stacks, Stack
<1>7. Holds'
  BY <1>3 DEF IInv, Holds
<1>8. OneCancels'
  <2>1. ASSUME NEW s \in Threads, NEW i \in Calls(s)'
        PROVE  \E j \in Calls(s) : /\ frames'[s][i] = frames[s][j]
                                   /\ j = (IF s = t THEN i + 1 ELSE i)
    BY <1>3
  <2>2. \A k \in Managers : mgr[k].cancelling => mgr'[k].cancelling
    OBVIOUS
  <2>3. ASSUME NEW s \in Threads, NEW i \in Calls(s)', frames'[s][i].at = "loop"
        PROVE  mgr'[frames'[s][i].manager].cancelling
    BY <2>1, <2>2, <2>3, FrameTypes DEF IInv, OneCancels
  <2>4. ASSUME NEW s \in Threads, NEW i \in Calls(s)', frames'[s][i].at = "loop",
               NEW q \in Threads, NEW j \in Calls(q)', frames'[q][j].at = "loop",
               frames'[q][j].manager = frames'[s][i].manager
        PROVE  q = s /\ j = i
    <3>1. PICK a \in Calls(s) : frames'[s][i] = frames[s][a] /\ a = (IF s = t THEN i + 1 ELSE i)
      BY <2>1
    <3>2. PICK b \in Calls(q) : frames'[q][j] = frames[q][b] /\ b = (IF q = t THEN j + 1 ELSE j)
      BY <2>1
    <3>3. q = s /\ b = a
      BY <2>4, <3>1, <3>2 DEF IInv, OneCancels
    <3>4. i \in Int /\ j \in Int
      BY DEF Calls
    <3> QED  BY <3>1, <3>2, <3>3, <3>4
  <2> QED  BY <2>3, <2>4 DEF OneCancels
<1>9. Notifiers'
  <2>1. \A k \in Managers : mgr'[k].state = mgr[k].state /\ mgr'[k].cancelled = mgr[k].cancelled
    OBVIOUS
  <2> QED  BY <1>3, <2>1, FrameTypes DEF IInv, Notifiers
<1>10. Young'
  BY DEF IInv, Young, Managers
<1>11. Kept'
  <2>1. /\ mgr'[Root].children = mgr[Root].children /\ mgr'[Root].state = mgr[Root].state
        /\ \A c \in mgr[Root].children : mgr'[c].removed = mgr[c].removed
    BY DEF IInv, TypeOK, Records, Managers
  <2>2. \A s \in Threads : \A i \in Calls(s)' : \A c \in frames'[s][i].kids :
            life[c] \in InUse /\ mgr[Root].state
    BY <1>3 DEF IInv, Kept
  <2>3. \A s \in Threads : Len(frames'[s]) = 2 =>
            life[frames'[s][1].manager] \in InUse /\ mgr[Root].state
    <3>1. Len(frames'[t]) # 2
      BY <1>5
    <3> QED  BY <1>1, <3>1 DEF IInv, Kept
  <2>4. \A s \in Cancellers : Len(frames'[s]) = 1 => life[Target[s]] = "live"
    BY <1>1, <1>5 DEF IInv, Kept, Threads
  <2>5. \A c \in Children : Len(frames'[c]) # 0 => life[c] = "draining"
    BY <1>1, <1>5, CancellationAssumption DEF IInv, Kept, Threads
  <2> QED  BY <2>1, <2>2, <2>3, <2>4, <2>5 DEF IInv, Kept
<1>12. Drained'
  <2>1. ASSUME NEW c \in Children, c # t
        PROVE  frames'[c] = frames[c]
    BY <1>1, <2>1 DEF Threads
  <2>2. t \in Children => Len(frames'[t]) = 0
    BY <1>5, CancellationAssumption
  <2>3. \A c \in Children : /\ mgr'[c].state = mgr[c].state /\ mgr'[c].cancelled = mgr[c].cancelled
                            /\ AlreadyCancelled(mgr'[c]) <=> AlreadyCancelled(mgr[c])
    BY DEF AlreadyCancelled, Managers
  <2> QED  BY <2>1, <2>2, <2>3 DEF IInv, Drained
<1>13. Placed'
  <2>1. \A k \in Managers, v \in Users :
           (HasToRun(k, v)' <=> HasToRun(k, v)) /\ (Runs(k, v)' <=> Runs(k, v))
    <3> SUFFICES ASSUME NEW k \in Managers, NEW v \in Users
                 PROVE  (HasToRun(k, v)' <=> HasToRun(k, v)) /\ (Runs(k, v)' <=> Runs(k, v))
      OBVIOUS
    <3>1. HasToRun(k, v)' => HasToRun(k, v)
      BY <1>3 DEF HasToRun
    <3>2. HasToRun(k, v) => HasToRun(k, v)'
      BY <1>2, <1>3 DEF HasToRun
    <3>3. Runs(k, v)' => Runs(k, v)
      BY <1>3 DEF Runs
    <3>4. Runs(k, v) => Runs(k, v)'
      BY <1>2, <1>3 DEF Runs
    <3> QED  BY <3>1, <3>2, <3>3, <3>4
  <2>2. \A k \in Managers : AlreadyCancelled(mgr[k]) => AlreadyCancelled(mgr'[k])
    BY DEF AlreadyCancelled
  <2> QED  BY <2>1, <2>2, StaysPlaced DEF Placed
<1> QED
  BY <1>4, <1>6, <1>7, <1>8, <1>9, <1>10, <1>11, <1>12, <1>13 DEF IInv

\* The innermost StartCancel of a thread goes on with other locals.
LEMMA TopStep ==
  ASSUME IInv, NEW t \in Threads, frames[t] # <<>>, NEW f \in Frames,
         frames' = [frames EXCEPT ![t] = [@ EXCEPT ![1] = f]],
         f.manager = Top(t).manager
  PROVE  /\ frames' \in [Threads -> Seq(Frames)]
         /\ 1 \in Calls(t) /\ Top(t) = frames[t][1] /\ Top(t) \in Frames /\ frames'[t][1] = f
         /\ \A s \in Threads : Calls(s)' = Calls(s) /\ Len(frames'[s]) = Len(frames[s])
         /\ \A s \in Threads : \A i \in Calls(s) :
               /\ (s = t /\ i = 1) \/ frames'[s][i] = frames[s][i]
               /\ frames'[s][i].manager = frames[s][i].manager
         /\ Stacks'
<1>1. /\ frames' \in [Threads -> Seq(Frames)]
      /\ Len(frames[t]) \in Nat \ {0}
      /\ Len(frames'[t]) = Len(frames[t])
      /\ frames'[t][1] = f
      /\ \A i \in 1..Len(frames[t]) : i # 1 => frames'[t][i] = frames[t][i]
      /\ \A s \in Threads : s # t => frames'[s] = frames[s]
  BY Replaced DEF IInv, TypeOK
<1>2. 1 \in Calls(t) /\ Top(t) = frames[t][1] /\ Top(t) \in Frames
  BY <1>1, EmptyStack DEF IInv, TypeOK, Calls
<1>3. \A s \in Threads : Len(frames'[s]) = Len(frames[s])
  BY <1>1
<1>4. \A s \in Threads : Calls(s)' = Calls(s)
  BY <1>3 DEF Calls
<1>5. \A s \in Threads : \A i \in Calls(s) : (s = t /\ i = 1) \/ frames'[s][i] = frames[s][i]
  BY <1>1 DEF Calls
<1>6. \A s \in Threads : \A i \in Calls(s) : frames'[s][i].manager = frames[s][i].manager
  BY <1>1, <1>2, <1>5
<1>7. Stacks'
  <2> SUFFICES ASSUME NEW s \in Threads PROVE Stack(s)'
    BY DEF Stacks
  <2>1. Stack(s) /\ Len(frames'[s]) = Len(frames[s])
    BY <1>3 DEF IInv, Stacks
  <2>2. Len(frames[s]) = 1 => frames'[s][1].manager = frames[s][1].manager
    BY <1>6 DEF Calls
  <2>3. Len(frames[s]) = 2 =>
           frames'[s][1].manager = frames[s][1].manager /\ frames'[s][2] = frames[s][2]
    BY <1>5, <1>6 DEF Calls
  <2> QED  BY <2>1, <2>2, <2>3 DEF Stack
<1> QED  BY <1>1, <1>2, <1>3, <1>4, <1>5, <1>6, <1>7

\* Callbacks start and return between the two sections, where they change only the hands
\* of the StartCancel that runs them.
LEMMA CallbackStep ==
  ASSUME IInv, NEW t \in Threads, frames[t] # <<>>, NEW f \in Frames,
         frames' = [frames EXCEPT ![t] = [@ EXCEPT ![1] = f]],
         f.manager = Top(t).manager, f.at = "loop", Top(t).at = "loop",
         f.kids = Top(t).kids, f.notification = Top(t).notification,
         \A u, v \in f.running : u = v,
         UNCHANGED <<mgr, life, user>>,
         callback' \in [Users -> {"idle", "running", "done"}],
         Placed'
  PROVE  IInv'
<1>1. /\ frames' \in [Threads -> Seq(Frames)]
      /\ 1 \in Calls(t) /\ Top(t) = frames[t][1] /\ frames'[t][1] = f
      /\ \A s \in Threads : Calls(s)' = Calls(s) /\ Len(frames'[s]) = Len(frames[s])
      /\ \A s \in Threads : \A i \in Calls(s) :
            /\ (s = t /\ i = 1) \/ frames'[s][i] = frames[s][i]
            /\ frames'[s][i].manager = frames[s][i].manager
      /\ Stacks'
  BY TopStep
<1>2. \A s \in Threads : \A i \in Calls(s) :
         /\ frames'[s][i].at = frames[s][i].at
         /\ frames'[s][i].kids = frames[s][i].kids
         /\ frames'[s][i].notification = frames[s][i].notification
  BY <1>1
<1>3. TypeOK'
  BY <1>1 DEF IInv, TypeOK
<1>4. Holds'
  BY <1>1, <1>2 DEF IInv, Holds
<1>5. OneCancels'
  BY <1>1, <1>2 DEF IInv, OneCancels
<1>6. Members' /\ Young'
  BY DEF IInv, Members, Young
<1>7. Notifiers'
  BY <1>1, <1>2 DEF IInv, Notifiers
<1>8. Kept'
  <2>1. \A s \in Threads : \A i \in Calls(s)' : \A c \in frames'[s][i].kids :
           life[c] \in InUse /\ mgr[Root].state
    BY <1>1, <1>2 DEF IInv, Kept
  <2>2. \A s \in Threads : Len(frames'[s]) = 2 => frames'[s][1].manager = frames[s][1].manager
    BY <1>1 DEF Calls
  <2> QED  BY <1>1, <2>1, <2>2 DEF IInv, Kept, Threads
<1>9. Drained'
  <2>1. \A c \in Children : /\ Len(frames'[c]) = Len(frames[c])
                            /\ Len(frames[c]) # 0 => frames'[c][1].at = frames[c][1].at
    <3> SUFFICES ASSUME NEW c \in Children, Len(frames[c]) # 0
                 PROVE  1 \in Calls(c)
      BY <1>1, <1>2 DEF Threads
    <3> QED  BY EmptyStack DEF IInv, TypeOK, Threads, Calls
  <2> QED  BY <2>1 DEF IInv, Drained
<1> QED  BY <1>1, <1>3, <1>4, <1>5, <1>6, <1>7, <1>8, <1>9 DEF IInv

\* The StartCancel that has a callback in hand is the only one that has.
LEMMA OneHand ==
  ASSUME IInv, NEW t \in Threads, NEW i \in Calls(t), NEW s \in Threads, NEW j \in Calls(s),
         NEW u \in Users, u \in frames[t][i].run \cup frames[t][i].running,
         u \in frames[s][j].run \cup frames[s][j].running
  PROVE  s = t /\ j = i /\ frames[t][i].manager = ManagerOf[u]
<1>1. frames[t][i].manager \in Managers /\ frames[s][j].manager \in Managers
  BY FrameTypes DEF IInv
<1>2. /\ HasToRun(frames[t][i].manager, u) \/ Runs(frames[t][i].manager, u)
      /\ HasToRun(frames[s][j].manager, u) \/ Runs(frames[s][j].manager, u)
  BY DEF HasToRun, Runs
<1>3. frames[t][i].manager = ManagerOf[u] /\ frames[s][j].manager = ManagerOf[u]
  BY <1>1, <1>2, InHand
<1>4. frames[t][i].at = "loop" /\ frames[s][j].at = "loop"
  BY DEF IInv, Holds
<1> QED  BY <1>3, <1>4 DEF IInv, OneCancels

LEMMA CallbackStartsIInv ==
  ASSUME IInv, NEW t \in Threads, NEW u \in Users, CallbackStarts(t, u)
  PROVE  IInv'
<1> DEFINE f == [Top(t) EXCEPT !.run = @ \ {u}, !.running = {u}]
<1>0. /\ frames[t] # <<>> /\ Top(t).at = "loop" /\ Top(t).running = {} /\ u \in Top(t).run
      /\ callback' = [callback EXCEPT ![u] = "running"] /\ UNCHANGED <<mgr, life, user>>
  BY DEF CallbackStarts
<1>1. Top(t) = frames[t][1] /\ Top(t) \in Frames /\ 1 \in Calls(t) /\ frames[t] \in Seq(Frames)
  BY <1>0, EmptyStack DEF IInv, TypeOK, Calls
<1>2. f \in Frames
  BY <1>1 DEF Frames
<1>3. /\ f.manager = Top(t).manager /\ f.at = "loop" /\ f.kids = Top(t).kids
      /\ f.notification = Top(t).notification /\ f.run = Top(t).run \ {u} /\ f.running = {u}
  BY <1>0, <1>1 DEF Frames
<1>4. frames' = [frames EXCEPT ![t] = [@ EXCEPT ![1] = f]]
  <2> DEFINE g == [Top(t) EXCEPT !.run = @ \ {u}]
             new == [frames[t] EXCEPT ![1] = g]
             h == [frames EXCEPT ![t] = new]
  <2>1. frames' = [h EXCEPT ![t] = [h[t] EXCEPT ![1] = [h[t][1] EXCEPT !.running = {u}]]]
    BY <1>1 DEF CallbackStarts
  <2>2. h[t] = new
    BY DEF IInv, TypeOK
  <2>3. new[1] = g /\ [new EXCEPT ![1] = f] = [frames[t] EXCEPT ![1] = f]
    BY <1>1 DEF Calls
  <2>4. [g EXCEPT !.running = {u}] = f
    OBVIOUS
  <2> HIDE DEF f, g, new
  <2>5. frames' = [h EXCEPT ![t] = [frames[t] EXCEPT ![1] = f]]
    BY <2>1, <2>2, <2>3, <2>4
  <2> QED  BY <2>5 DEF IInv, TypeOK
<1> HIDE DEF f
<1>5. /\ frames'[t][1] = f
      /\ \A s \in Threads : Calls(s)' = Calls(s)
      /\ \A s \in Threads : \A i \in Calls(s) :
            /\ (s = t /\ i = 1) \/ frames'[s][i] = frames[s][i]
            /\ frames'[s][i].manager = frames[s][i].manager
  BY <1>0, <1>2, <1>3, <1>4, TopStep
<1>6. ManagerOf[u] = Top(t).manager /\ ManagerOf[u] \in Managers
  BY <1>0, <1>1, OneHand, CancellationAssumption
<1>7. callback' \in [Users -> {"idle", "running", "done"}]
  BY <1>0 DEF IInv, TypeOK
<1>8. ASSUME NEW v \in Users, v # u PROVE PlacedUser(v)'
  <2>1. callback'[v] = callback[v]
    BY <1>0, <1>8 DEF IInv, TypeOK
  <2>2. \A s \in Threads : \A i \in Calls(s) :
           /\ v \in frames'[s][i].run <=> v \in frames[s][i].run
           /\ v \in frames'[s][i].running <=> v \in frames[s][i].running
    BY <1>0, <1>1, <1>3, <1>5, <1>8
  <2>3. \A k \in Managers : (HasToRun(k, v)' <=> HasToRun(k, v)) /\ (Runs(k, v)' <=> Runs(k, v))
    <3> SUFFICES ASSUME NEW k \in Managers
                 PROVE (HasToRun(k, v)' <=> HasToRun(k, v)) /\ (Runs(k, v)' <=> Runs(k, v))
      OBVIOUS
    <3>1. HasToRun(k, v)' <=> HasToRun(k, v)
      BY <1>5, <2>2 DEF HasToRun
    <3>2. Runs(k, v)' <=> Runs(k, v)
      BY <1>5, <2>2 DEF Runs
    <3> QED  BY <3>1, <3>2
  <2> QED  BY <1>0, <2>1, <2>3, StaysPlaced
<1>9. PlacedUser(u)'
  <2>1. HasToRun(ManagerOf[u], u)
    BY <1>0, <1>1, <1>6 DEF HasToRun
  <2>2. user[u] \in Given /\ callback[u] = "idle" /\ mgr[ManagerOf[u]].cancelling
    BY <1>6, <2>1, InHand DEF IInv, Placed, PlacedUser
  <2>3. \A s \in Threads : \A i \in Calls(s) : u \notin frames'[s][i].run
    BY <1>0, <1>1, <1>3, <1>5, OneHand
  <2>4. \A k \in Managers : ~HasToRun(k, u)'
    BY <1>5, <2>3 DEF HasToRun
  <2>5. \A s \in Threads : \A i \in Calls(s) :
           u \in frames'[s][i].running => frames'[s][i].manager = ManagerOf[u]
    BY <1>0, <1>1, <1>3, <1>5, <1>6, OneHand
  <2>6. \A k \in Managers : Runs(k, u)' => k = ManagerOf[u]
    BY <1>5, <2>5 DEF Runs
  <2>7. Runs(ManagerOf[u], u)'
    <3>1. frames'[t][1].manager = ManagerOf[u] /\ u \in frames'[t][1].running /\ 1 \in Calls(t)'
      BY <1>1, <1>3, <1>5, <1>6
    <3> QED  BY <3>1 DEF Runs
  <2>8. callback'[u] = "running" /\ \A k \in Managers : u \notin mgr[k].callbacks
    <3>1. mgr[ManagerOf[u]].callbacks = {}
      BY <1>6, <2>2 DEF IInv, Members
    <3> QED  BY <1>0, <3>1 DEF IInv, TypeOK, Placed, PlacedUser
  <2>9. mgr[ManagerOf[u]].state /\ AlreadyCancelled(mgr[ManagerOf[u]])
    BY <2>2 DEF IInv, Placed, PlacedUser, Given, AlreadyCancelled
  <2> QED  BY <1>0, <2>2, <2>4, <2>6, <2>7, <2>8, <2>9 DEF PlacedUser, Given
<1>10. Placed'
  BY <1>8, <1>9 DEF Placed
<1> QED  BY <1>0, <1>2, <1>3, <1>4, <1>7, <1>10, CallbackStep

LEMMA CallbackReturnsIInv ==
  ASSUME IInv, NEW t \in Threads, NEW u \in Users, CallbackReturns(t, u)
  PROVE  IInv'
<1> DEFINE f == [Top(t) EXCEPT !.running = {}]
<1>0. /\ frames[t] # <<>> /\ u \in Top(t).running
      /\ callback' = [callback EXCEPT ![u] = "done"] /\ UNCHANGED <<mgr, life, user>>
  BY DEF CallbackReturns
<1>1. Top(t) = frames[t][1] /\ Top(t) \in Frames /\ 1 \in Calls(t) /\ frames[t] \in Seq(Frames)
  BY <1>0, EmptyStack DEF IInv, TypeOK, Calls
<1>2. f \in Frames
  BY <1>1 DEF Frames
<1>3. /\ f.manager = Top(t).manager /\ f.at = Top(t).at /\ f.kids = Top(t).kids
      /\ f.notification = Top(t).notification /\ f.run = Top(t).run /\ f.running = {}
  BY <1>1 DEF Frames
<1>4. frames' = [frames EXCEPT ![t] = [@ EXCEPT ![1] = f]]
  BY <1>0, <1>1 DEF CallbackReturns, IInv, TypeOK, Frames
<1> HIDE DEF f
<1>5. /\ frames'[t][1] = f
      /\ \A s \in Threads : Calls(s)' = Calls(s)
      /\ \A s \in Threads : \A i \in Calls(s) :
            /\ (s = t /\ i = 1) \/ frames'[s][i] = frames[s][i]
            /\ frames'[s][i].manager = frames[s][i].manager
  BY <1>0, <1>2, <1>3, <1>4, TopStep
<1>6. /\ ManagerOf[u] = Top(t).manager /\ ManagerOf[u] \in Managers /\ Top(t).at = "loop"
      /\ \A v \in Top(t).running : v = u
  <2>1. ManagerOf[u] = Top(t).manager /\ ManagerOf[u] \in Managers
    BY <1>0, <1>1, OneHand, CancellationAssumption
  <2>2. Top(t).at = "loop" /\ \A v \in Top(t).running : v = u
    BY <1>0, <1>1 DEF IInv, Holds
  <2> QED  BY <2>1, <2>2
<1>7. callback' \in [Users -> {"idle", "running", "done"}]
  BY <1>0 DEF IInv, TypeOK
<1>8. ASSUME NEW v \in Users, v # u PROVE PlacedUser(v)'
  <2>1. callback'[v] = callback[v]
    BY <1>0, <1>8 DEF IInv, TypeOK
  <2>2. \A s \in Threads : \A i \in Calls(s) :
           /\ v \in frames'[s][i].run <=> v \in frames[s][i].run
           /\ v \in frames'[s][i].running <=> v \in frames[s][i].running
    BY <1>0, <1>1, <1>3, <1>5, <1>6, <1>8
  <2>3. \A k \in Managers : (HasToRun(k, v)' <=> HasToRun(k, v)) /\ (Runs(k, v)' <=> Runs(k, v))
    <3> SUFFICES ASSUME NEW k \in Managers
                 PROVE (HasToRun(k, v)' <=> HasToRun(k, v)) /\ (Runs(k, v)' <=> Runs(k, v))
      OBVIOUS
    <3>1. HasToRun(k, v)' <=> HasToRun(k, v)
      BY <1>5, <2>2 DEF HasToRun
    <3>2. Runs(k, v)' <=> Runs(k, v)
      BY <1>5, <2>2 DEF Runs
    <3> QED  BY <3>1, <3>2
  <2> QED  BY <1>0, <2>1, <2>3, StaysPlaced
<1>9. PlacedUser(u)'
  <2>1. Runs(ManagerOf[u], u)
    BY <1>0, <1>1, <1>6 DEF Runs
  <2>2. user[u] \in Given /\ callback[u] = "running" /\ mgr[ManagerOf[u]].cancelling
    BY <1>6, <2>1, InHand DEF IInv, Placed, PlacedUser
  <2>3. \A k \in Managers : ~HasToRun(k, u)
    BY <2>2 DEF IInv, Placed, PlacedUser
  <2>4. \A s \in Threads : \A i \in Calls(s) : u \notin frames'[s][i].run
    <3>1. \A s \in Threads : \A i \in Calls(s) : u \notin frames[s][i].run
      BY <2>3, FrameTypes DEF IInv, HasToRun
    <3> QED  BY <1>1, <1>3, <1>5, <3>1
  <2>5. \A s \in Threads : \A i \in Calls(s) : u \notin frames'[s][i].running
    BY <1>0, <1>1, <1>3, <1>5, OneHand
  <2>6. \A k \in Managers : ~HasToRun(k, u)' /\ ~Runs(k, u)'
    BY <1>5, <2>4, <2>5 DEF HasToRun, Runs
  <2>7. callback'[u] = "done" /\ \A k \in Managers : u \notin mgr[k].callbacks
    BY <1>0, <2>2 DEF IInv, TypeOK, Placed, PlacedUser
  <2>8. mgr[ManagerOf[u]].state /\ AlreadyCancelled(mgr[ManagerOf[u]])
    BY <2>2 DEF IInv, Placed, PlacedUser, Given, AlreadyCancelled
  <2> QED  BY <1>0, <2>2, <2>6, <2>7, <2>8 DEF PlacedUser, Given
<1>10. Placed'
  BY <1>8, <1>9 DEF Placed
<1> QED  BY <1>0, <1>2, <1>3, <1>4, <1>6, <1>7, <1>10, CallbackStep

\* A StartCancel of the root calls the StartCancel of a child it has in hand.
LEMMA CancelChildIInv ==
  ASSUME IInv, NEW t \in Threads, NEW c \in Children, CancelChild(t, c)
  PROVE  IInv'
<1> DEFINE f == [Top(t) EXCEPT !.kids = @ \ {c}]
           e == Entry(c)
<1>0. /\ frames[t] # <<>> /\ Top(t).at = "loop" /\ Top(t).run = {} /\ Top(t).running = {}
      /\ c \in Top(t).kids /\ UNCHANGED <<mgr, life, user, callback>>
      /\ frames' = [frames EXCEPT ![t] = <<e, f>> \o Tail(@)]
  BY DEF CancelChild, CallbacksRun
<1>1. Top(t) = frames[t][1] /\ Top(t) \in Frames /\ 1 \in Calls(t)
  BY <1>0, EmptyStack DEF IInv, TypeOK, Calls
<1>2. /\ f \in Frames /\ f.manager = Top(t).manager /\ f.at = "loop" /\ f.run = {}
      /\ f.running = {} /\ f.kids \subseteq Top(t).kids /\ f.notification = Top(t).notification
  BY <1>0, <1>1 DEF Frames
<1>3. /\ e \in Frames /\ e.manager = c /\ e.at = "entry" /\ e.run = {} /\ e.running = {}
      /\ e.kids = {} /\ e.notification = FALSE
  BY DEF Entry, Frames, Managers
<1> HIDE DEF e, f
<1>4. Top(t).manager = Root /\ c # Root
  BY <1>0, <1>1, CancellationAssumption DEF IInv, Holds
<1>5. Len(frames[t]) = 1 /\ t \in Cancellers /\ Target[t] = Root /\ t \notin Children
  <2>1. Len(frames[t]) = 1 \/ Len(frames[t]) = 2
    BY <1>0, Depth, EmptyStack DEF IInv, TypeOK
  <2>2. Len(frames[t]) # 2
    BY <1>1, <1>4, CancellationAssumption DEF IInv, Stacks, Stack
  <2> QED  BY <1>1, <1>4, <2>1, <2>2, CancellationAssumption DEF IInv, Stacks, Stack, Threads
<1>6. /\ frames' \in [Threads -> Seq(Frames)]
      /\ Len(frames'[t]) = 2 /\ frames'[t][1] = e /\ frames'[t][2] = f
      /\ \A s \in Threads : s # t => frames'[s] = frames[s]
  <2>1. frames \in [Threads -> Seq(Frames)]
    BY DEF IInv, TypeOK
  <2>2. e \in Frames /\ f \in Frames /\ frames[t] # <<>> /\ Len(frames[t]) = 1
    BY <1>0, <1>2, <1>3, <1>5
  <2>3. frames' = [frames EXCEPT ![t] = <<e, f>> \o Tail(@)]
    BY <1>0
  <2> QED  BY <2>1, <2>2, <2>3, Pushed
<1>7. /\ \A s \in Threads : \A i \in Calls(s)' :
            \/ s = t /\ i = 1 /\ frames'[s][i] = e
            \/ s = t /\ i = 2 /\ frames'[s][i] = f
            \/ s # t /\ i \in Calls(s) /\ frames'[s][i] = frames[s][i]
      /\ \A s \in Threads : \A i \in Calls(s) :
            \/ s = t /\ i = 1 /\ 2 \in Calls(s)'
            \/ s # t /\ i \in Calls(s)' /\ frames'[s][i] = frames[s][i]
  <2>1. Calls(t) = {1} /\ Calls(t)' = {1, 2}
    BY <1>5, <1>6 DEF Calls
  <2>2. \A s \in Threads : s # t => Calls(s)' = Calls(s) /\ frames'[s] = frames[s]
    BY <1>6 DEF Calls
  <2> QED  BY <1>6, <2>1, <2>2
<1>8. TypeOK'
  BY <1>0, <1>6 DEF IInv, TypeOK
<1>9. Stacks'
  <2>1. Stack(t)'
    BY <1>2, <1>3, <1>4, <1>5, <1>6 DEF Stack
  <2>2. ASSUME NEW s \in Threads, s # t PROVE Stack(s)'
    <3>1. frames'[s] = frames[s] /\ Stack(s)
      BY <1>6, <2>2 DEF IInv, Stacks
    <3> QED  BY <3>1 DEF Stack
  <2> QED  BY <2>1, <2>2 DEF Stacks
<1>10. Holds'
  BY <1>2, <1>3, <1>4, <1>7 DEF IInv, Holds
<1>11. OneCancels'
  <2>1. \A s \in Threads : \A i \in Calls(s)' : frames'[s][i].at = "loop" =>
           \E j \in Calls(s) : /\ frames[s][j].at = "loop"
                               /\ frames[s][j].manager = frames'[s][i].manager
                               /\ IF s = t THEN i = 2 /\ j = 1 ELSE j = i
    BY <1>0, <1>1, <1>2, <1>3, <1>7
  <2>2. ASSUME NEW s \in Threads, NEW i \in Calls(s)', frames'[s][i].at = "loop"
        PROVE  mgr'[frames'[s][i].manager].cancelling
    <3>1. PICK j \in Calls(s) : /\ frames[s][j].at = "loop"
                                /\ frames[s][j].manager = frames'[s][i].manager
      BY <2>1, <2>2
    <3> QED  BY <1>0, <3>1 DEF IInv, OneCancels
  <2>3. ASSUME NEW s \in Threads, NEW i \in Calls(s)', frames'[s][i].at = "loop",
               NEW q \in Threads, NEW j \in Calls(q)', frames'[q][j].at = "loop",
               frames'[q][j].manager = frames'[s][i].manager
        PROVE  q = s /\ j = i
    BY <2>1, <2>3 DEF IInv, OneCancels
  <2> QED  BY <2>2, <2>3 DEF OneCancels
<1>12. Members' /\ Young'
  BY <1>0 DEF IInv, Members, Young
<1>13. Notifiers'
  <2> SUFFICES ASSUME NEW s \in Threads, NEW i \in Calls(s)', frames'[s][i].notification
               PROVE  /\ mgr[frames'[s][i].manager].state
                      /\ frames'[s][i].at = "notify" => mgr[frames'[s][i].manager].cancelled
    BY <1>0 DEF Notifiers
  <2>1. CASE s = t
    <3>1. frames'[s][i] = f
      BY <1>3, <1>7, <2>1
    <3>2. mgr[Root].state
      BY <1>1, <1>2, <1>4, <3>1 DEF IInv, Notifiers
    <3> QED  BY <1>2, <1>4, <3>1, <3>2
  <2>2. CASE s # t
    BY <1>7, <2>2 DEF IInv, Notifiers
  <2> QED  BY <2>1, <2>2
<1>14. Kept'
  <2>1. life[c] \in InUse /\ mgr[Root].state
    BY <1>0, <1>1 DEF IInv, Kept
  <2>2. \A s \in Threads : \A i \in Calls(s)' : \A k \in frames'[s][i].kids :
           life[k] \in InUse /\ mgr[Root].state
    BY <1>1, <1>2, <1>3, <1>7 DEF IInv, Kept
  <2>3. \A s \in Threads : Len(frames'[s]) = 2 =>
           life[frames'[s][1].manager] \in InUse /\ mgr[Root].state
    BY <1>3, <1>6, <2>1 DEF IInv, Kept
  <2>4. \A s \in Cancellers : Len(frames'[s]) = 1 => life[Target[s]] = "live"
    <3>1. Len(frames'[t]) # 1
      BY <1>6
    <3> QED  BY <1>6, <3>1 DEF IInv, Kept, Threads
  <2>5. \A k \in Children : Len(frames'[k]) # 0 => life[k] = "draining"
    BY <1>5, <1>6 DEF IInv, Kept, Threads
  <2> QED  BY <1>0, <2>2, <2>3, <2>4, <2>5 DEF IInv, Kept
<1>15. Drained'
  <2>1. \A k \in Children : frames'[k] = frames[k]
    BY <1>5, <1>6 DEF Threads
  <2> QED  BY <1>0, <2>1 DEF IInv, Drained
<1>16. Placed'
  <2>1. \A k \in Managers, v \in Users :
           (HasToRun(k, v)' <=> HasToRun(k, v)) /\ (Runs(k, v)' <=> Runs(k, v))
    <3> SUFFICES ASSUME NEW k \in Managers, NEW v \in Users
                 PROVE  (HasToRun(k, v)' <=> HasToRun(k, v)) /\ (Runs(k, v)' <=> Runs(k, v))
      OBVIOUS
    <3>1. HasToRun(k, v)' <=> HasToRun(k, v)
      BY <1>0, <1>1, <1>2, <1>3, <1>7 DEF HasToRun
    <3>2. Runs(k, v)' <=> Runs(k, v)
      BY <1>0, <1>1, <1>2, <1>3, <1>7 DEF Runs
    <3> QED  BY <3>1, <3>2
  <2> QED  BY <1>0, <2>1, StaysPlaced DEF Placed
<1> QED
  BY <1>8, <1>9, <1>10, <1>11, <1>12, <1>13, <1>14, <1>15, <1>16 DEF IInv

\* StartCancel notifies and returns.
LEMMA NotifyIInv ==
  ASSUME IInv, NEW t \in Threads, Notify(t)
  PROVE  IInv'
<1> DEFINE m == Top(t).manager
           n == mgr[m].notified \/ Top(t).notification
           x == [mgr[m] EXCEPT !.notified = n]
<1>0. /\ frames[t] # <<>> /\ Top(t).at = "notify" /\ Return(t)
      /\ UNCHANGED <<life, user, callback>>
      /\ mgr' = [mgr EXCEPT ![m].notified = n]
  BY DEF Notify, Notifies
<1>1. Top(t) = frames[t][1] /\ 1 \in Calls(t) /\ m \in Managers /\ mgr \in [Managers -> Records]
  BY <1>0, EmptyStack, FrameTypes DEF IInv, TypeOK, Calls
<1>2. n \in BOOLEAN
  <2>1. Top(t) \in Frames /\ mgr[m] \in Records
    BY <1>0, <1>1, EmptyStack DEF IInv, TypeOK
  <2> QED  BY <2>1 DEF Frames, Records
<1>3. n => mgr[m].state /\ mgr[m].cancelled
  BY <1>0, <1>1 DEF IInv, Notifiers, Members
<1> HIDE DEF n
<1>4. mgr' = [mgr EXCEPT ![m] = x]
  BY <1>0, <1>1
<1>5. mgr[m] \in Records
  BY <1>1
<1>6. /\ x \in Records /\ x.cancelling = mgr[m].cancelling /\ x.cancelled = mgr[m].cancelled
      /\ x.state = mgr[m].state /\ x.callbacks = mgr[m].callbacks
      /\ x.children = mgr[m].children /\ x.removed = mgr[m].removed /\ x.notified = n
  BY <1>2, <1>5 DEF Records
<1> HIDE DEF m, x
<1>7. mgr'[m] = x /\ mgr' \in [Managers -> Records]
      /\ \A k \in Managers : k # m => mgr'[k] = mgr[k]
  BY <1>1, <1>4, <1>6
<1>8. Members'
  BY <1>3, <1>6, <1>7 DEF IInv, Members
<1>9. t \in Children => mgr[t].cancelled
  <2>1. Len(frames[t]) # 0
    BY <1>0, EmptyStack DEF IInv, TypeOK
  <2> QED  BY <1>0, <1>1, <2>1 DEF IInv, Drained
<1>10. \A k \in Managers :
         /\ mgr'[k].cancelling = mgr[k].cancelling /\ mgr'[k].cancelled = mgr[k].cancelled
         /\ mgr'[k].state = mgr[k].state /\ mgr'[k].callbacks = mgr[k].callbacks
         /\ mgr'[k].children = mgr[k].children /\ mgr'[k].removed = mgr[k].removed
  BY <1>6, <1>7
<1> QED  BY <1>0, <1>7, <1>8, <1>9, <1>10, PopIInv DEF AlreadyCancelled

\* The second section: is_cancelled_ takes over from is_cancelling_, with nothing left in
\* hand.
LEMMA EndCancelIInv ==
  ASSUME IInv, NEW t \in Threads, EndCancel(t)
  PROVE  IInv'
<1> DEFINE m == Top(t).manager
           x == Cancelled(mgr[m])
           f == [Top(t) EXCEPT !.at = "notify"]
<1>0. /\ frames[t] # <<>> /\ Top(t).at = "loop" /\ Top(t).run = {} /\ Top(t).running = {}
      /\ Top(t).kids = {} /\ UNCHANGED <<life, user, callback>>
      /\ mgr' = [mgr EXCEPT ![m] = x]
      /\ frames' = [frames EXCEPT ![t][1].at = "notify"]
  BY DEF EndCancel, CallbacksRun
<1>1. /\ Top(t) = frames[t][1] /\ Top(t) \in Frames /\ 1 \in Calls(t) /\ frames[t] \in Seq(Frames)
      /\ m \in Managers /\ mgr \in [Managers -> Records] /\ mgr[m] \in Records
  BY <1>0, EmptyStack, FrameTypes DEF IInv, TypeOK, Calls
<1>2. /\ f \in Frames /\ f.manager = m /\ f.at = "notify" /\ f.run = {} /\ f.running = {}
      /\ f.kids = {} /\ f.notification = Top(t).notification
  BY <1>0, <1>1 DEF Frames
<1>3. frames' = [frames EXCEPT ![t] = [@ EXCEPT ![1] = f]]
  BY <1>0, <1>1 DEF IInv, TypeOK, Frames
<1>4. /\ x \in Records /\ x.cancelling = FALSE /\ x.cancelled = TRUE /\ x.state = mgr[m].state
      /\ x.callbacks = mgr[m].callbacks /\ x.children = mgr[m].children
      /\ x.removed = mgr[m].removed /\ x.notified = mgr[m].notified
  BY <1>1 DEF Cancelled, Records
<1> HIDE DEF f, x
<1>5. /\ frames' \in [Threads -> Seq(Frames)]
      /\ frames'[t][1] = f
      /\ \A s \in Threads : Calls(s)' = Calls(s) /\ Len(frames'[s]) = Len(frames[s])
      /\ \A s \in Threads : \A i \in Calls(s) :
            /\ (s = t /\ i = 1) \/ frames'[s][i] = frames[s][i]
            /\ frames'[s][i].manager = frames[s][i].manager
      /\ Stacks'
  BY <1>0, <1>2, <1>3, TopStep
<1>6. frames[t][1].manager = m
  BY <1>1
<1> HIDE DEF m
<1>7. /\ mgr' \in [Managers -> Records] /\ mgr'[m] = x
      /\ \A k \in Managers : k # m => mgr'[k] = mgr[k]
  BY <1>0, <1>1, <1>4
<1>8. mgr[m].cancelling
  BY <1>0, <1>1, <1>6 DEF IInv, OneCancels
<1>9. \A k \in Managers :
         /\ mgr'[k].state = mgr[k].state /\ mgr'[k].callbacks = mgr[k].callbacks
         /\ mgr'[k].children = mgr[k].children /\ mgr'[k].removed = mgr[k].removed
         /\ mgr'[k].notified = mgr[k].notified
         /\ mgr[k].cancelled => mgr'[k].cancelled
         /\ AlreadyCancelled(mgr[k]) => AlreadyCancelled(mgr'[k])
  BY <1>4, <1>7 DEF AlreadyCancelled
<1>10. TypeOK'
  BY <1>0, <1>5, <1>7 DEF IInv, TypeOK
<1>11. Holds'
  BY <1>2, <1>5 DEF IInv, Holds
<1>12. OneCancels'
  <2>1. \A s \in Threads : \A i \in Calls(s) : frames'[s][i].at = "loop" =>
           frames'[s][i] = frames[s][i] /\ frames[s][i].manager # m
    BY <1>0, <1>1, <1>2, <1>5, <1>6 DEF IInv, OneCancels
  <2>2. ASSUME NEW s \in Threads, NEW i \in Calls(s), frames'[s][i].at = "loop"
        PROVE  mgr'[frames'[s][i].manager].cancelling
    <3>1. frames'[s][i] = frames[s][i] /\ frames[s][i].manager # m
      BY <2>1, <2>2
    <3>2. frames[s][i].manager \in Managers /\ mgr[frames[s][i].manager].cancelling
      BY <2>2, <3>1, FrameTypes DEF IInv, OneCancels
    <3> QED  BY <1>7, <3>1, <3>2
  <2>3. ASSUME NEW s \in Threads, NEW i \in Calls(s), frames'[s][i].at = "loop",
               NEW q \in Threads, NEW j \in Calls(q), frames'[q][j].at = "loop",
               frames'[q][j].manager = frames'[s][i].manager
        PROVE  q = s /\ j = i
    BY <2>1, <2>3 DEF IInv, OneCancels
  <2> QED  BY <1>5, <2>2, <2>3 DEF OneCancels
<1>13. Members'
  BY <1>4, <1>7, <1>8 DEF IInv, Members
<1>14. Notifiers'
  <2> SUFFICES ASSUME NEW s \in Threads, NEW i \in Calls(s), frames'[s][i].notification
               PROVE  /\ mgr'[frames'[s][i].manager].state
                      /\ frames'[s][i].at = "notify" => mgr'[frames'[s][i].manager].cancelled
    BY <1>5 DEF Notifiers
  <2>1. CASE s = t /\ i = 1
    <3>1. mgr[m].state
      BY <1>1, <1>2, <1>5, <1>6, <2>1 DEF IInv, Notifiers
    <3> QED  BY <1>1, <1>4, <1>5, <1>6, <1>7, <1>9, <2>1, <3>1
  <2>2. CASE ~(s = t /\ i = 1)
    BY <1>5, <1>9, <2>2, FrameTypes DEF IInv, Notifiers
  <2> QED  BY <2>1, <2>2
<1>15. Young'
  BY <1>0, <1>4, <1>7, <1>9 DEF IInv, Young, Managers
<1>16. Kept'
  <2>1. \A s \in Threads : \A i \in Calls(s)' : \A c \in frames'[s][i].kids :
           life[c] \in InUse /\ mgr[Root].state
    BY <1>2, <1>5 DEF IInv, Kept
  <2>2. \A s \in Threads : Len(frames'[s]) = 2 => frames'[s][1].manager = frames[s][1].manager
    BY <1>5 DEF Calls
  <2>3. /\ mgr'[Root].children = mgr[Root].children /\ mgr'[Root].state = mgr[Root].state
        /\ \A c \in mgr[Root].children : mgr'[c].removed = mgr[c].removed
    BY <1>9 DEF IInv, TypeOK, Records, Managers
  <2> QED  BY <1>0, <1>5, <2>1, <2>2, <2>3 DEF IInv, Kept, Threads
<1>17. Drained'
  <2> SUFFICES ASSUME NEW c \in Children PROVE
               /\ Len(frames'[c]) # 0 /\ frames'[c][1].at = "notify" => mgr'[c].cancelled
               /\ life[c] = "freed" \/ (life[c] = "draining" /\ Len(frames'[c]) = 0)
                     => (mgr'[c].state => AlreadyCancelled(mgr'[c]))
    BY <1>0 DEF Drained
  <2>1. c \in Threads /\ c \in Managers /\ Len(frames'[c]) = Len(frames[c])
    BY <1>5 DEF Threads, Managers
  <2>2. Len(frames[c]) # 0 => 1 \in Calls(c)
    BY <2>1, EmptyStack DEF IInv, TypeOK, Calls
  <2>3. c = t => m = c
    <3>1. c \notin Cancellers /\ Len(frames[c]) # 2
      BY <2>1, CancellationAssumption DEF IInv, Stacks, Stack
    <3>2. c = t => Len(frames[c]) = 1
      BY <1>0, <2>1, <3>1, Depth, EmptyStack DEF IInv, TypeOK
    <3> QED  BY <1>6, <2>1, <3>1, <3>2 DEF IInv, Stacks, Stack
  <2>4. CASE c = t
    <3>1. mgr'[c].cancelled /\ AlreadyCancelled(mgr'[c])
      BY <1>4, <1>7, <2>3, <2>4 DEF AlreadyCancelled
    <3> QED  BY <3>1
  <2>5. CASE c # t
    <3>1. Len(frames[c]) # 0 => frames'[c][1] = frames[c][1]
      BY <1>5, <2>1, <2>2, <2>5
    <3> QED  BY <1>9, <2>1, <3>1 DEF IInv, Drained
  <2> QED  BY <2>4, <2>5
<1>18. Placed'
  <2>1. \A s \in Threads : \A i \in Calls(s) :
           frames'[s][i].run = frames[s][i].run /\ frames'[s][i].running = frames[s][i].running
    BY <1>0, <1>1, <1>2, <1>5
  <2>2. \A k \in Managers, v \in Users :
           (HasToRun(k, v)' <=> HasToRun(k, v)) /\ (Runs(k, v)' <=> Runs(k, v))
    <3> SUFFICES ASSUME NEW k \in Managers, NEW v \in Users
                 PROVE  (HasToRun(k, v)' <=> HasToRun(k, v)) /\ (Runs(k, v)' <=> Runs(k, v))
      OBVIOUS
    <3>1. HasToRun(k, v)' <=> HasToRun(k, v)
      <4>1. ASSUME NEW s \in Threads, NEW i \in Calls(s)
            PROVE  /\ frames'[s][i].manager = frames[s][i].manager
                   /\ frames'[s][i].run = frames[s][i].run
        BY <1>5, <2>1
      <4>2. \A s \in Threads : Calls(s)' = Calls(s)
        BY <1>5
      <4> QED  BY <4>1, <4>2 DEF HasToRun
    <3>2. Runs(k, v)' <=> Runs(k, v)
      BY <1>5, <2>1 DEF Runs
    <3> QED  BY <3>1, <3>2
  <2> QED  BY <1>0, <1>9, <2>2, StaysPlaced DEF Placed
<1> QED
  BY <1>5, <1>10, <1>11, <1>12, <1>13, <1>14, <1>15, <1>16, <1>17, <1>18 DEF IInv

\* The first section takes the callbacks and the children in hand and sets
\* is_cancelling_; a manager that is cancelled already is left alone.
LEMMA BeginCancelIInv ==
  ASSUME IInv, NEW t \in Threads, BeginCancel(t)
  PROVE  IInv'
<1> DEFINE m == Top(t).manager
           x == mgr[m]
           y == [x EXCEPT !.cancelling = TRUE, !.callbacks = {}, !.children = {}]
           f == [Top(t) EXCEPT !.at = "loop", !.run = x.callbacks, !.kids = x.children,
                               !.notification = x.state]
<1>0. frames[t] # <<>> /\ Top(t).at = "entry" /\ UNCHANGED <<life, user, callback>>
  BY DEF BeginCancel
<1>1. /\ Top(t) = frames[t][1] /\ Top(t) \in Frames /\ 1 \in Calls(t) /\ frames[t] \in Seq(Frames)
      /\ m \in Managers /\ mgr \in [Managers -> Records] /\ x \in Records
  BY <1>0, EmptyStack, FrameTypes DEF IInv, TypeOK, Calls
<1>2. Top(t).run = {} /\ Top(t).running = {} /\ Top(t).kids = {}
  BY <1>0, <1>1 DEF IInv, Holds
<1>3. t \in Children => m = t
  <2>1. t \in Children => t \notin Cancellers /\ Len(frames[t]) # 2
    BY CancellationAssumption DEF IInv, Stacks, Stack
  <2>2. t \in Children => Len(frames[t]) = 1
    BY <1>0, <2>1, Depth, EmptyStack DEF IInv, TypeOK
  <2> QED  BY <1>1, <2>1, <2>2 DEF IInv, Stacks, Stack
<1>4. CASE AlreadyCancelled(x)
  <2>1. Return(t) /\ UNCHANGED mgr
    BY <1>4 DEF BeginCancel
  <2>2. Members'
    BY <2>1 DEF IInv, Members
  <2>3. t \in Children /\ mgr[t].state => AlreadyCancelled(mgr[t])
    BY <1>3, <1>4
  <2>4. mgr' \in [Managers -> Records] /\ Top(t).at # "loop"
    BY <1>0, <1>1, <2>1
  <2> HIDE DEF m, x
  <2> QED  BY <1>0, <2>1, <2>2, <2>3, <2>4, PopIInv
<1>5. CASE ~AlreadyCancelled(x)
  <2>1. /\ mgr' = [k \in Managers |-> IF k = m THEN y
                                      ELSE IF k \in x.children
                                      THEN [mgr[k] EXCEPT !.removed = TRUE] ELSE mgr[k]]
        /\ frames' = [frames EXCEPT ![t] = [@ EXCEPT ![1] = f]]
    BY <1>1, <1>5 DEF BeginCancel
  <2>2. /\ y \in Records /\ y.cancelling = TRUE /\ y.cancelled = x.cancelled
        /\ y.state = x.state /\ y.callbacks = {} /\ y.children = {}
        /\ y.removed = x.removed /\ y.notified = x.notified
    BY <1>1 DEF Records
  <2>3. /\ f \in Frames /\ f.manager = m /\ f.at = "loop" /\ f.run = x.callbacks
        /\ f.running = {} /\ f.kids = x.children /\ f.notification = x.state
    BY <1>1, <1>2 DEF Frames, Records
  <2>4. /\ ~x.cancelling /\ ~x.cancelled
        /\ x.children # {} => m = Root /\ x.state
        /\ \A c \in x.children : life[c] \in {"accepted", "live"} /\ c \in Children
    <3>1. /\ ~x.cancelling /\ ~x.cancelled
          /\ x.children # {} => m = Root /\ x.state
      BY <1>1, <1>5 DEF AlreadyCancelled, IInv, Members
    <3>2. x.children \subseteq Children
      BY <1>1 DEF Records
    <3> QED  BY <3>1, <3>2 DEF IInv, Kept
  <2>5. frames[t][1].manager = m /\ x = mgr[m]
    BY <1>1
  <2> HIDE DEF y, f
  <2>6. /\ frames' \in [Threads -> Seq(Frames)]
        /\ frames'[t][1] = f
        /\ \A s \in Threads : Calls(s)' = Calls(s) /\ Len(frames'[s]) = Len(frames[s])
        /\ \A s \in Threads : \A i \in Calls(s) :
              /\ (s = t /\ i = 1) \/ frames'[s][i] = frames[s][i]
              /\ frames'[s][i].manager = frames[s][i].manager
        /\ Stacks'
    BY <1>0, <2>1, <2>3, TopStep
  <2> HIDE DEF m, x
  <2>7. \A k \in Managers :
           /\ mgr'[k] \in Records
           /\ k = m => mgr'[k] = y
           /\ k # m =>
                /\ mgr'[k].cancelling = mgr[k].cancelling /\ mgr'[k].cancelled = mgr[k].cancelled
                /\ mgr'[k].callbacks = mgr[k].callbacks /\ mgr'[k].children = mgr[k].children
                /\ mgr'[k].state = mgr[k].state /\ mgr'[k].notified = mgr[k].notified
                /\ k \notin x.children => mgr'[k].removed = mgr[k].removed
    <3> SUFFICES ASSUME NEW k \in Managers, k # m
                 PROVE
                /\ mgr'[k] \in Records
                /\ mgr'[k].cancelling = mgr[k].cancelling /\ mgr'[k].cancelled = mgr[k].cancelled
                /\ mgr'[k].callbacks = mgr[k].callbacks /\ mgr'[k].children = mgr[k].children
                /\ mgr'[k].state = mgr[k].state /\ mgr'[k].notified = mgr[k].notified
                /\ k \notin x.children => mgr'[k].removed = mgr[k].removed
      BY <2>1, <2>2
    <3>1. mgr[k] \in Records
      BY <1>1
    <3>2. CASE k \in x.children
      <4>1. mgr'[k] = [mgr[k] EXCEPT !.removed = TRUE]
        BY <2>1, <3>2
      <4> QED  BY <3>1, <3>2, <4>1 DEF Records
    <3>3. CASE k \notin x.children
      BY <2>1, <3>1, <3>3
    <3> QED  BY <3>2, <3>3
  <2>8. \A k \in Managers :
           /\ mgr'[k].state = mgr[k].state /\ mgr'[k].cancelled = mgr[k].cancelled
           /\ mgr'[k].notified = mgr[k].notified
           /\ mgr[k].cancelling => mgr'[k].cancelling
           /\ mgr'[k].children \subseteq mgr[k].children
           /\ AlreadyCancelled(mgr[k]) => AlreadyCancelled(mgr'[k])
    BY <2>2, <2>5, <2>7 DEF AlreadyCancelled
  <2>9. TypeOK'
    <3>1. mgr' \in [Managers -> Records]
      BY <2>1, <2>7
    <3> QED  BY <1>0, <2>6, <3>1 DEF IInv, TypeOK
  <2>10. Holds'
    BY <2>3, <2>4, <2>6 DEF IInv, Holds
  <2>11. OneCancels'
    <3>1. \A s \in Threads : \A i \in Calls(s) :
             frames[s][i].at = "loop" => frames[s][i].manager # m
      BY <2>4, <2>5 DEF IInv, OneCancels
    <3>2. \A s \in Threads : \A i \in Calls(s) :
             frames'[s][i].at = "loop" => (s = t /\ i = 1) \/ frames[s][i].at = "loop"
      BY <2>6
    <3>3. mgr'[m].cancelling /\ frames[t][1].manager = m
      BY <1>1, <2>2, <2>5, <2>7
    <3>4. \A s \in Threads : \A i \in Calls(s) :
             frames'[s][i].at = "loop" => mgr'[frames'[s][i].manager].cancelling
      BY <2>6, <2>8, <3>2, <3>3, FrameTypes DEF IInv, OneCancels
    <3>5. ASSUME NEW s \in Threads, NEW i \in Calls(s), frames'[s][i].at = "loop",
                 NEW q \in Threads, NEW j \in Calls(q), frames'[q][j].at = "loop",
                 frames'[q][j].manager = frames'[s][i].manager
          PROVE  q = s /\ j = i
      <4>1. frames[q][j].manager = frames[s][i].manager
        BY <2>6, <3>5
      <4>2. /\ (s = t /\ i = 1) \/ frames[s][i].at = "loop"
            /\ (q = t /\ j = 1) \/ frames[q][j].at = "loop"
        BY <3>2, <3>5
      <4> QED  BY <3>1, <3>3, <4>1, <4>2 DEF IInv, OneCancels
    <3> QED  BY <2>6, <3>4, <3>5 DEF OneCancels
  <2>12. Members'
    BY <2>2, <2>4, <2>5, <2>7 DEF IInv, Members
  <2>13. Notifiers'
    <3> SUFFICES ASSUME NEW s \in Threads, NEW i \in Calls(s), frames'[s][i].notification
                 PROVE  /\ mgr'[frames'[s][i].manager].state
                        /\ frames'[s][i].at = "notify" => mgr'[frames'[s][i].manager].cancelled
      BY <2>6 DEF Notifiers
    <3>1. CASE s = t /\ i = 1
      BY <1>1, <2>3, <2>5, <2>6, <2>8, <3>1
    <3>2. CASE ~(s = t /\ i = 1)
      BY <2>6, <2>8, <3>2, FrameTypes DEF IInv, Notifiers
    <3> QED  BY <3>1, <3>2
  <2>14. Young'
    <3>1. m \in Children => life[m] \notin {"none", "refused"}
      BY <1>1, <2>5, FrameLife
    <3>2. \A c \in Children : life[c] = "none" => c \notin x.children
      BY <2>4
    <3>3. \A c \in Children : c \in Managers
      BY DEF Managers
    <3>4. \A c \in Children : life[c] \in {"none", "refused"} => ~mgr'[c].cancelling
      BY <2>7, <3>1, <3>3 DEF IInv, Young
    <3>5. \A c \in Children : life[c] = "none" => ~mgr'[c].removed
      BY <2>2, <2>5, <2>7, <3>1, <3>2, <3>3 DEF IInv, Young
    <3> QED  BY <1>0, <2>8, <3>3, <3>4, <3>5 DEF IInv, Young
  <2>15. Kept'
    <3>1. \A s \in Threads : \A i \in Calls(s)' : \A c \in frames'[s][i].kids :
             life[c] \in InUse /\ mgr[Root].state
      <4>1. \A c \in f.kids : life[c] \in InUse /\ mgr[Root].state
        BY <2>3, <2>4, <2>5 DEF InUse
      <4> QED  BY <2>6, <4>1 DEF IInv, Kept
    <3>2. \A s \in Threads : Len(frames'[s]) = 2 => frames'[s][1].manager = frames[s][1].manager
      BY <2>6 DEF Calls
    <3>3. /\ mgr'[Root].state = mgr[Root].state /\ life[Root] = "live"
          /\ \A c \in mgr'[Root].children : life[c] \in {"accepted", "live"} /\ ~mgr'[c].removed
      <4>1. mgr'[Root].state = mgr[Root].state /\ life[Root] = "live"
        BY <2>8 DEF Managers, IInv, Kept
      <4>2. CASE m = Root
        BY <1>1, <2>2, <2>7, <4>1, <4>2
      <4>3. CASE m # Root
        <5>1. x.children = {} /\ mgr'[Root].children = mgr[Root].children
          BY <2>4, <2>7, <4>3 DEF Managers
        <5>2. \A c \in mgr[Root].children : c \in Managers
          BY <1>1 DEF Managers, Records
        <5>3. \A c \in mgr[Root].children : mgr'[c].removed = mgr[c].removed
          BY <2>2, <2>5, <2>7, <5>1, <5>2
        <5> QED  BY <4>1, <5>1, <5>3 DEF IInv, Kept
      <4> QED  BY <4>2, <4>3
    <3> QED  BY <1>0, <2>6, <3>1, <3>2, <3>3 DEF IInv, Kept, Threads
  <2>16. Drained'
    <3> SUFFICES ASSUME NEW c \in Children PROVE
                 /\ Len(frames'[c]) # 0 /\ frames'[c][1].at = "notify" => mgr'[c].cancelled
                 /\ life[c] = "freed" \/ (life[c] = "draining" /\ Len(frames'[c]) = 0)
                       => (mgr'[c].state => AlreadyCancelled(mgr'[c]))
      BY <1>0 DEF Drained
    <3>1. c \in Threads /\ c \in Managers /\ Len(frames'[c]) = Len(frames[c])
      BY <2>6 DEF Threads, Managers
    <3>2. Len(frames[c]) # 0 => 1 \in Calls(c)
      BY <3>1, EmptyStack DEF IInv, TypeOK, Calls
    <3>3. Len(frames[c]) # 0 /\ frames'[c][1].at = "notify" => frames'[c][1] = frames[c][1]
      BY <2>3, <2>6, <3>1, <3>2
    <3> QED  BY <2>8, <3>1, <3>3 DEF IInv, Drained
  <2>17. ASSUME NEW v \in Users PROVE PlacedUser(v)'
    <3>1. \A s \in Threads : \A i \in Calls(s) :
             /\ v \in frames'[s][i].run =>
                   v \in frames[s][i].run \/ (frames[s][i].manager = m /\ v \in x.callbacks)
             /\ v \in frames[s][i].run => v \in frames'[s][i].run
             /\ v \in frames'[s][i].running <=> v \in frames[s][i].running
      BY <1>1, <1>2, <2>3, <2>5, <2>6
    <3>2. \A k \in Managers :
             /\ HasToRun(k, v)' => HasToRun(k, v) \/ (k = m /\ v \in x.callbacks)
             /\ HasToRun(k, v) => HasToRun(k, v)'
             /\ Runs(k, v)' <=> Runs(k, v)
      <4> SUFFICES ASSUME NEW k \in Managers
                   PROVE  /\ HasToRun(k, v)' => HasToRun(k, v) \/ (k = m /\ v \in x.callbacks)
                          /\ HasToRun(k, v) => HasToRun(k, v)'
                          /\ Runs(k, v)' <=> Runs(k, v)
        OBVIOUS
      <4>1. HasToRun(k, v)' => HasToRun(k, v) \/ (k = m /\ v \in x.callbacks)
        BY <2>6, <3>1 DEF HasToRun
      <4>2. HasToRun(k, v) => HasToRun(k, v)'
        BY <2>6, <3>1 DEF HasToRun
      <4>3. Runs(k, v)' <=> Runs(k, v)
        BY <2>6, <3>1 DEF Runs
      <4> QED  BY <4>1, <4>2, <4>3
    <3>3. \A k \in Managers : k = m /\ v \in x.callbacks => HasToRun(k, v)'
      <4>1. 1 \in Calls(t)' /\ frames'[t][1].manager = m /\ frames'[t][1].run = x.callbacks
        BY <1>1, <2>3, <2>6
      <4> QED  BY <4>1 DEF HasToRun
    <3>4. v \in x.callbacks =>
             m = ManagerOf[v] /\ user[v] = "registered" /\ callback[v] = "idle"
      BY <1>1, <2>5 DEF IInv, Placed, PlacedUser
    <3>5. CASE v \in x.callbacks
      <4>1. AlreadyCancelled(mgr'[m]) /\ \A k \in Managers : v \notin mgr'[k].callbacks
        <5>1. AlreadyCancelled(mgr'[m])
          BY <1>1, <2>2, <2>7 DEF AlreadyCancelled
        <5> QED  BY <1>1, <2>2, <2>7, <3>4, <3>5, <5>1 DEF IInv, Placed, PlacedUser
      <4>2. mgr'[m].state
        BY <1>1, <2>5, <2>8, <3>5 DEF IInv, Members
      <4>3. \A k \in Managers : ~Runs(k, v)
        BY <3>4, <3>5 DEF IInv, Placed, PlacedUser
      <4>4. \A k \in Managers : HasToRun(k, v)' => k = ManagerOf[v]
        BY <3>2, <3>4, <3>5 DEF IInv, Placed, PlacedUser
      <4>5. HasToRun(ManagerOf[v], v)'
        BY <1>1, <3>3, <3>4, <3>5
      <4> QED  BY <1>0, <3>2, <3>4, <3>5, <4>1, <4>2, <4>3, <4>4, <4>5 DEF PlacedUser, Given
    <3>6. CASE v \notin x.callbacks
      <4>1. \A k \in Managers : v \in mgr'[k].callbacks <=> v \in mgr[k].callbacks
        BY <2>2, <2>5, <2>7, <3>6
      <4> QED  BY <1>0, <2>8, <3>2, <3>6, <4>1, StaysPlaced
    <3> QED  BY <3>5, <3>6
  <2>18. Placed'
    BY <2>17 DEF Placed
  <2> QED
    BY <2>6, <2>9, <2>10, <2>11, <2>12, <2>13, <2>14, <2>15, <2>16, <2>18 DEF IInv
<1> QED  BY <1>4, <1>5

LEMMA NextIInv ==
  ASSUME IInv, [Next]_vars
  PROVE  IInv'
<1>1. CASE UNCHANGED vars
  BY <1>1 DEF vars, IInv, TypeOK, Stacks, Stack, Holds, OneCancels, Members, Notifiers, Young,
              Kept, Drained, Placed, PlacedUser, HasToRun, Runs, Calls, AlreadyCancelled
<1>2. ASSUME NEW t \in Threads, ThreadStep(t) PROVE IInv'
  BY <1>2, BeginCancelIInv, CallbackStartsIInv, CallbackReturnsIInv, CancelChildIInv,
     EndCancelIInv, NotifyIInv DEF ThreadStep
<1>3. ASSUME NEW t \in Cancellers, StartCancel(t) PROVE IInv'
  BY <1>3, StartCancelIInv
<1>4. ASSUME NEW u \in Users, UserCalls(u) \/ DeregisterReturns(u) PROVE IInv'
  BY <1>4, RegisterCallbackIInv, DeregisterIInv DEF UserCalls
<1>5. ASSUME NEW c \in Children, ConstructChild(c) \/ DestroyChild(c) \/ ChildStep(c) PROVE IInv'
  BY <1>5, ConstructChildIInv, DestroyChildIInv, ConstructorReturnsIInv, DestructorIInv,
     DestructorCancelsIInv DEF ChildStep
<1> QED  BY <1>1, <1>2, <1>3, <1>4, <1>5 DEF Next

LEMMA AlwaysIInv == Spec => []IInv
<1>1. Init => IInv
  BY InitIInv
<1>2. IInv /\ [Next]_vars => IInv'
  BY NextIInv
<1> QED  BY <1>1, <1>2, PTL DEF Spec

-----------------------------------------------------------------------------
(* The theorems.                                                            *)

\* A callback that DeregisterCallback or TryDeregisterCallback took back is never invoked,
\* and one that DeregisterCallback could not take back has returned by then.
THEOREM DeregistrationIsFinal == Spec => []DeregisterSettles
<1>1. IInv => DeregisterSettles
  BY DEF IInv, Placed, PlacedUser, DeregisterSettles
<1> QED  BY <1>1, AlwaysIInv, PTL

\* No callback is forgotten by a StartCancel, whatever registers between its two sections,
\* nor by the destructor of its manager.
THEOREM NoCallbackIsForgotten == Spec => []CallbacksReached
<1>1. IInv => CallbacksReached
  <2> SUFFICES ASSUME IInv, NEW u \in Users, \A t \in Threads : frames[t] = <<>>,
                      user[u] = "registered",
                      mgr[ManagerOf[u]].cancelled \/ life[ManagerOf[u]] = "freed"
               PROVE  callback[u] = "done"
    BY DEF CallbacksReached
  <2> DEFINE m == ManagerOf[u]
  <2>1. m \in Managers /\ mgr[m].state
    BY CancellationAssumption DEF IInv, Placed, PlacedUser
  <2>2. AlreadyCancelled(mgr[m])
    <3>1. life[m] = "freed" => m \in Children
      BY <2>1 DEF IInv, Kept, Managers
    <3> QED  BY <2>1, <3>1 DEF IInv, Drained, AlreadyCancelled
  <2>3. mgr[m].callbacks = {}
    BY <2>1, <2>2 DEF IInv, Members, AlreadyCancelled
  <2>4. \A t \in Threads : Calls(t) = {}
    BY DEF Calls
  <2>5. ~HasToRun(m, u) /\ ~Runs(m, u)
    BY <2>4 DEF HasToRun, Runs
  <2> QED  BY <2>3, <2>5 DEF IInv, Placed, PlacedUser, Given
<1> QED  BY <1>1, AlwaysIInv, PTL

\* No StartCancel is inside a manager, or holds a child, whose destructor has returned:
\* the wait of DeregisterChild is enough.
THEOREM NoManagerIsUsedAfterFree == Spec => []NoUseAfterFree
<1>1. IInv => NoUseAfterFree
  <2> SUFFICES ASSUME IInv, NEW t \in Threads, NEW i \in Calls(t)
               PROVE  /\ life[frames[t][i].manager] # "freed"
                      /\ \A c \in frames[t][i].kids : life[c] # "freed"
    BY DEF NoUseAfterFree, Calls
  <2>1. \A c \in frames[t][i].kids : life[c] # "freed"
    BY DEF IInv, Kept, InUse
  <2>2. CASE frames[t][i].manager = Root
    BY <2>1, <2>2 DEF IInv, Kept
  <2>3. CASE frames[t][i].manager \in Children
    BY <2>1, <2>3, FrameLife
  <2> QED  BY <2>2, <2>3, FrameTypes DEF IInv, Managers
<1> QED  BY <1>1, AlwaysIInv, PTL

=============================================================================
