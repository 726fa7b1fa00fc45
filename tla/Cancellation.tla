---------------------------- MODULE Cancellation ----------------------------
(***************************************************************************)
(* tsl::CancellationManager (xla/tsl/framework/cancellation.{h,cc}): a root *)
(* manager, its children, callbacks registered and deregistered by user     *)
(* threads, and StartCancel running them with the mutex released.           *)
(*                                                                         *)
(* Every section under a manager's mu_ is one action.  A thread inside      *)
(* StartCancel has a stack of frames, since cancelling the root cancels its *)
(* children on the same thread.  The doubly linked list of children is a    *)
(* set: StartCancel may take them in any order.  Status and logging are     *)
(* left out.                                                               *)
(*                                                                         *)
(* The callers keep the rules of the header: a callback calls no method of  *)
(* its manager, and a manager is destroyed only when no call of its owner's *)
(* own threads is inside it (a call made by the parent's StartCancel may    *)
(* be).  The root outlives its children.                                   *)
(***************************************************************************)
EXTENDS Integers, Sequences

CONSTANTS
    Root, Children,   \* the managers
    Users,            \* callbacks, each with the thread and the token that own it
    ManagerOf,        \* user -> the manager it registers with
    Cancellers,       \* threads that call StartCancel
    Target            \* canceller -> the manager it cancels

Managers == {Root} \cup Children
Threads == Cancellers \cup Children   \* a child's owner thread is named by it

ASSUME CancellationAssumption ==
    /\ Root \notin Children
    /\ ManagerOf \in [Users -> Managers]
    /\ Target \in [Cancellers -> Managers]
    /\ Cancellers \cap Children = {}

VARIABLES
    mgr,      \* the members of each manager
    life,     \* manager -> where it is between construction and destruction
    frames,   \* thread -> its active StartCancel calls, innermost first
    user,     \* user -> where it is
    callback  \* user -> "idle", "running", "done": what became of its callback

vars == <<mgr, life, frames, user, callback>>

\* class CancellationManager.  `state` says state_ is allocated; `notified` that
\* state_->cancelled_notification is.
FreshManager ==
    [cancelling |-> FALSE, cancelled |-> FALSE, state |-> FALSE,
     notified |-> FALSE, callbacks |-> {}, children |-> {}, removed |-> FALSE]

Init ==
    /\ mgr = [m \in Managers |-> FreshManager]
    /\ life = [m \in Managers |-> IF m = Root THEN "live" ELSE "none"]
    /\ frames = [t \in Threads |-> <<>>]
    /\ user = [u \in Users |-> "idle"]
    /\ callback = [u \in Users |-> "idle"]

Top(t) == Head(frames[t])
Return(t) == frames' = [frames EXCEPT ![t] = Tail(@)]
\* The locals of StartCancelWithStatus.
Entry(m) ==
    [manager |-> m, at |-> "entry", run |-> {}, running |-> {}, kids |-> {},
     notification |-> FALSE]
Call(t, m) == frames' = [frames EXCEPT ![t] = <<Entry(m)>> \o @]

-----------------------------------------------------------------------------
(* StartCancel.                                                             *)

StartCancel(t) ==
    /\ frames[t] = <<>>
    /\ t \in Cancellers
    /\ life[Target[t]] = "live"
    /\ Call(t, Target[t])
    /\ UNCHANGED <<mgr, life, user, callback>>

AlreadyCancelled(x) == x.cancelled \/ x.cancelling

\* The first section under mu_.
BeginCancel(t) ==
    /\ frames[t] # <<>>
    /\ Top(t).at = "entry"
    /\ LET m == Top(t).manager
           x == mgr[m]
       IN IF AlreadyCancelled(x)
          THEN Return(t) /\ UNCHANGED mgr
          ELSE /\ mgr' = [k \in Managers |->
                            IF k = m
                            THEN [x EXCEPT !.cancelling = TRUE, !.callbacks = {},
                                           !.children = {}]
                            ELSE IF k \in x.children
                            THEN [mgr[k] EXCEPT !.removed = TRUE] ELSE mgr[k]]
               /\ frames' = [frames EXCEPT ![t][1] =
                    [@ EXCEPT !.at = "loop", !.run = x.callbacks, !.kids = x.children,
                              !.notification = x.state]]
    /\ UNCHANGED <<life, user, callback>>

\* A callback starts, with no mutex held.
CallbackStarts(t, u) ==
    /\ frames[t] # <<>>
    /\ Top(t).at = "loop"
    /\ Top(t).running = {}
    /\ u \in Top(t).run
    /\ frames' = [frames EXCEPT ![t][1].run = @ \ {u}, ![t][1].running = {u}]
    /\ callback' = [callback EXCEPT ![u] = "running"]
    /\ UNCHANGED <<mgr, life, user>>

CallbackReturns(t, u) ==
    /\ frames[t] # <<>>
    /\ u \in Top(t).running
    /\ frames' = [frames EXCEPT ![t][1].running = {}]
    /\ callback' = [callback EXCEPT ![u] = "done"]
    /\ UNCHANGED <<mgr, life, user>>

CallbacksRun(t) ==
    /\ frames[t] # <<>>
    /\ Top(t).at = "loop"
    /\ Top(t).run = {}
    /\ Top(t).running = {}

\* child->StartCancelWithStatus(status).
CancelChild(t, c) ==
    /\ CallbacksRun(t)
    /\ c \in Top(t).kids
    /\ LET rest == [Top(t) EXCEPT !.kids = @ \ {c}]
       IN frames' = [frames EXCEPT ![t] = <<Entry(c), rest>> \o Tail(@)]
    /\ UNCHANGED <<mgr, life, user, callback>>

Cancelled(x) == [x EXCEPT !.cancelling = FALSE, !.cancelled = TRUE]

\* The second section under mu_.
EndCancel(t) ==
    /\ CallbacksRun(t)
    /\ Top(t).kids = {}
    /\ mgr' = [mgr EXCEPT ![Top(t).manager] = Cancelled(@)]
    /\ frames' = [frames EXCEPT ![t][1].at = "notify"]
    /\ UNCHANGED <<life, user, callback>>

\* Mutant: only a cancellation that came from the parent notifies.
NotifiesNested(t) == Top(t).notification /\ Len(frames[t]) > 1
Notifies(t) == Top(t).notification

Notify(t) ==
    /\ frames[t] # <<>>
    /\ Top(t).at = "notify"
    /\ mgr' = [mgr EXCEPT ![Top(t).manager].notified = @ \/ Notifies(t)]
    /\ Return(t)
    /\ UNCHANGED <<life, user, callback>>

-----------------------------------------------------------------------------
(* Callbacks.                                                               *)

\* Mutant: a manager whose callbacks are being run still takes new ones.
ShouldRegisterUntilCancelled(x) == ~x.cancelled
ShouldRegister(x) == ~x.cancelled /\ ~x.cancelling

\* RegisterCallbackConfig, and RegisterCancellationCallback which calls it.
RegisterCallback(u) ==
    /\ user[u] = "idle"
    /\ life[ManagerOf[u]] = "live"
    /\ LET x == mgr[ManagerOf[u]]
       IN IF ShouldRegister(x)
          THEN /\ mgr' = [mgr EXCEPT ![ManagerOf[u]].state = TRUE,
                                    ![ManagerOf[u]].callbacks = @ \cup {u}]
               /\ user' = [user EXCEPT ![u] = "registered"]
          ELSE /\ user' = [user EXCEPT ![u] = "refused"]
               /\ UNCHANGED mgr
    /\ UNCHANGED <<life, frames, callback>>

\* What DeregisterCallback does with the manager as it finds it.
\* Mutant: it does not wait for the callbacks of a cancellation in progress.
DeregistersQuickly(x) == IF x.cancelled \/ x.cancelling THEN "settled" ELSE "deregistered"
Deregisters(x) ==
    IF x.cancelled THEN "settled"
    ELSE IF x.cancelling
         THEN IF x.state THEN "waiting" ELSE "settled"
         ELSE "deregistered"

DeregisterCallback(u) ==
    /\ user[u] = "registered"
    /\ life[ManagerOf[u]] = "live"
    /\ user' = [user EXCEPT ![u] = Deregisters(mgr[ManagerOf[u]])]
    /\ mgr' = IF user'[u] = "deregistered"
              THEN [mgr EXCEPT ![ManagerOf[u]].callbacks = @ \ {u}] ELSE mgr
    /\ UNCHANGED <<life, frames, callback>>

\* cancelled_notification->WaitForNotification().
DeregisterReturns(u) ==
    /\ user[u] = "waiting"
    /\ mgr[ManagerOf[u]].notified
    /\ user' = [user EXCEPT ![u] = "settled"]
    /\ UNCHANGED <<mgr, life, frames, callback>>

TryDeregisterCallback(u) ==
    /\ user[u] = "registered"
    /\ life[ManagerOf[u]] = "live"
    /\ LET x == mgr[ManagerOf[u]]
       IN IF x.cancelled \/ x.cancelling
          THEN user' = [user EXCEPT ![u] = "missed"] /\ UNCHANGED mgr
          ELSE /\ user' = [user EXCEPT ![u] = "deregistered"]
               /\ mgr' = [mgr EXCEPT ![ManagerOf[u]].callbacks = @ \ {u}]
    /\ UNCHANGED <<life, frames, callback>>

-----------------------------------------------------------------------------
(* Children.                                                                *)

\* The constructor up to the return of RegisterChild, which refuses the child of a
\* cancelled parent.  is_cancelled_ has not been written yet: a std::atomic_bool
\* built by default may hold anything.
ConstructChild(c) ==
    /\ life[c] = "none"
    /\ \E garbage \in BOOLEAN :
         IF mgr[Root].cancelled \/ mgr[Root].cancelling
         THEN /\ mgr' = [mgr EXCEPT ![c].removed = TRUE, ![c].cancelled = garbage]
              /\ life' = [life EXCEPT ![c] = "refused"]
         ELSE /\ mgr' = [mgr EXCEPT ![Root].state = TRUE,
                                    ![Root].children = @ \cup {c},
                                    ![c].cancelled = garbage]
              /\ life' = [life EXCEPT ![c] = "accepted"]
    /\ UNCHANGED <<frames, user, callback>>

\* is_cancelled_ = parent->RegisterChild(this).
ConstructorReturns(c) ==
    /\ life[c] \in {"refused", "accepted"}
    /\ mgr' = [mgr EXCEPT ![c].cancelled = (life[c] = "refused")]
    /\ life' = [life EXCEPT ![c] = "live"]
    /\ UNCHANGED <<frames, user, callback>>

\* No user and no canceller of its owner is inside c.
OwnerIsDone(c) ==
    /\ \A u \in Users : ManagerOf[u] = c => user[u] # "waiting"
    /\ \A t \in Cancellers : Target[t] = c => frames[t] = <<>>

\* DeregisterChild waits for a StartCancel of the parent in progress; with no
\* state_ (and then no accepted child) the address it takes is null.
\* Mutant: it waits only for a child that StartCancel has not taken yet.
WaitsForParentListed(c) == mgr[Root].cancelling /\ mgr[Root].state /\ ~mgr[c].removed
WaitsForParent(c) == mgr[Root].cancelling /\ mgr[Root].state

\* The destructor: parent_->DeregisterChild(this).
DestroyChild(c) ==
    /\ life[c] = "live"
    /\ OwnerIsDone(c)
    /\ mgr' = IF mgr[c].removed THEN mgr
              ELSE [mgr EXCEPT ![Root].children = @ \ {c},
                               ![c].removed = TRUE]
    /\ life' = [life EXCEPT ![c] =
                   IF WaitsForParent(c) THEN "waiting" ELSE "destroying"]
    /\ UNCHANGED <<frames, user, callback>>

DeregisterChildReturns(c) ==
    /\ life[c] = "waiting"
    /\ mgr[Root].notified
    /\ life' = [life EXCEPT ![c] = "destroying"]
    /\ UNCHANGED <<mgr, frames, user, callback>>

\* if (state_) StartCancel().
DestructorCancels(c) ==
    /\ life[c] = "destroying"
    /\ life' = [life EXCEPT ![c] = "draining"]
    /\ IF mgr[c].state THEN Call(c, c) ELSE UNCHANGED frames
    /\ UNCHANGED <<mgr, user, callback>>

DestructorReturns(c) ==
    /\ life[c] = "draining"
    /\ frames[c] = <<>>
    /\ life' = [life EXCEPT ![c] = "freed"]
    /\ UNCHANGED <<mgr, frames, user, callback>>

-----------------------------------------------------------------------------
(* The specification.                                                       *)

ThreadStep(t) ==
    \/ BeginCancel(t)
    \/ \E u \in Users : CallbackStarts(t, u) \/ CallbackReturns(t, u)
    \/ \E c \in Children : CancelChild(t, c)
    \/ EndCancel(t)
    \/ Notify(t)

UserCalls(u) ==
    \/ RegisterCallback(u)
    \/ DeregisterCallback(u)
    \/ TryDeregisterCallback(u)

ChildStep(c) ==
    \/ ConstructorReturns(c)
    \/ DeregisterChildReturns(c)
    \/ DestructorCancels(c)
    \/ DestructorReturns(c)

Next ==
    \/ \E t \in Threads : ThreadStep(t)
    \/ \E t \in Cancellers : StartCancel(t)
    \/ \E u \in Users : UserCalls(u) \/ DeregisterReturns(u)
    \/ \E c \in Children : ConstructChild(c) \/ DestroyChild(c) \/ ChildStep(c)

Spec == Init /\ [][Next]_vars

\* Threads inside a call keep running and callbacks return.
FairSpec ==
    /\ Spec
    /\ \A t \in Threads : WF_vars(ThreadStep(t))
    /\ \A u \in Users : WF_vars(DeregisterReturns(u))
    /\ \A c \in Children : WF_vars(ChildStep(c))

-----------------------------------------------------------------------------
(* Properties.                                                              *)

\* What DeregisterCallback and TryDeregisterCallback promise: a callback they took
\* back is never invoked, and when DeregisterCallback returned false the callback
\* has returned, so that its owner may free what it uses.
DeregisterSettles ==
    \A u \in Users :
        /\ user[u] = "deregistered" => callback[u] = "idle"
        /\ user[u] = "settled" => callback[u] = "done"

\* A callback registered while StartCancel is at work, which takes the callbacks
\* under one lock and marks the manager cancelled under another, is refused or
\* invoked, never forgotten; a manager that is freed forgets none either.
CallbacksReached ==
    \A u \in Users :
        /\ \A t \in Threads : frames[t] = <<>>
        /\ user[u] = "registered"
        /\ mgr[ManagerOf[u]].cancelled \/ life[ManagerOf[u]] = "freed"
        => callback[u] = "done"

\* The parent's StartCancel, which works on its list without the mutex, never
\* reaches a child whose destructor has returned.
NoUseAfterFree ==
    \A t \in Threads : \A i \in 1..Len(frames[t]) :
        /\ life[frames[t][i].manager] # "freed"
        /\ \A c \in frames[t][i].kids : life[c] # "freed"

\* DeregisterCallback returns and a destructor that waits for the parent's
\* StartCancel returns: the wait for the notification always ends.
WaitsEnd ==
    /\ \A u \in Users : user[u] = "waiting" ~> user[u] # "waiting"
    /\ \A c \in Children : life[c] = "waiting" ~> life[c] = "freed"

=============================================================================
