-------------------------- MODULE AsyncValueProofs --------------------------
(***************************************************************************)
(* Theorems about AsyncValue, for any number of threads, values, waiters    *)
(* and groups.  The lists of waiters and the stacks hold between them all   *)
(* that is left to do; the invariant says where each duty is (`loc`, which  *)
(* is not part of the state), that it is in one place, and that every       *)
(* reference counted in `refcount` has one owner.                           *)
(***************************************************************************)
EXTENDS AsyncValue, FiniteSetTheorems, SequenceTheorems, TLAPS

-----------------------------------------------------------------------------
(* The calls that can be on a stack.                                        *)

EAndThen(n) == [op |-> "AndThen", node |-> n]
ECas(n, x) == [op |-> "compare_exchange", node |-> n, expected |-> x]
EStore(v, s) == [op |-> "store", av |-> v, s |-> s]
ENotify(v, s) == [op |-> "NotifyAvailable", av |-> v, s |-> s]
ERun(l) == [op |-> "RunWaiters", list |-> l]
ECall(w) == [op |-> "call", w |-> w]
EForward(i) == [op |-> "ForwardTo", av |-> i, to |-> Target[i]]
ESet(i, u, s) == [op |-> "SetValue", av |-> i, to |-> u, s |-> s]
EAddRef(u) == [op |-> "AddRef", av |-> u]
ESub(v) == [op |-> "DropRef_fetch_sub", av |-> v]
EScan(k, un) == [op |-> "scan", k |-> k, unavailable |-> un]
ECount(k) == [op |-> "fetch_sub", k |-> k]
EWait(w) == [op |-> "WaitForNotification", w |-> w]

Outcomes == {"Concrete", "Error"}
Links == Nodes \cup {Nil}
Places == 1..Len(Group)
Callbacks == Waiters \cup {Callee}

Entries ==
    UNION {{EAndThen(n) : n \in Nodes},
           {ECas(n, x) : n \in Nodes, x \in Links \X Unavailable},
           {EStore(v, s) : v \in Concrete, s \in Outcomes},
           {ENotify(v, s) : v \in Values, s \in Outcomes},
           {ERun(l) : l \in Links},
           {ECall(w) : w \in Callbacks},
           {EForward(i) : i \in Indirect},
           {ESet(i, u, s) : i \in Indirect, u \in Concrete, s \in Outcomes},
           {EAddRef(u) : u \in Concrete},
           {Drop(v) : v \in Values} \cup {ESub(v) : v \in Values},
           {EScan(k, un) : k \in 1..Len(Group) + 1, un \in Seq(Places)},
           {ECount(k) : k \in Places},
           {EWait(w) : w \in Waiters}}

\* The entries of a stack, counted from its bottom.
H(t) == Len(stack[t])
From(s, k) == s[Len(s) - k + 1]
At(t, k) == From(stack[t], k)

-----------------------------------------------------------------------------
(* Duties: to set a value, to run its list, to run a waiter, to count.      *)

NoDuty == <<"none", 0>>

DutySet ==
    ({"set", "run"} \X Values) \cup ({"waiter"} \X Callbacks) \cup ({"count"} \X Places)

NodeDuty(n) ==
    CASE n.kind = "user" -> <<"waiter", n.of>>
      [] n.kind = "forward" -> <<"set", n.of>>
      [] n.kind = "countdown" -> <<"count", n.of>>
      [] n.kind = "last" -> <<"waiter", Callee>>

Duty(e) ==
    CASE e.op \in {"AndThen", "compare_exchange"} -> NodeDuty(e.node)
      [] e.op \in {"NotifyAvailable", "ForwardTo", "SetValue"} -> <<"set", e.av>>
      [] e.op = "RunWaiters" -> IF e.list = Nil THEN NoDuty ELSE <<"run", e.list.av>>
      [] e.op = "call" -> <<"waiter", e.w>>
      [] e.op = "scan" -> <<"waiter", Callee>>
      [] e.op = "fetch_sub" -> <<"count", e.k>>
      [] OTHER -> NoDuty

\* Where a duty can be: on a stack, with a node that has rank r in its list, nowhere
\* yet, done, or divided among the counted values.
Place(t, k) == <<"at", t, k>>
Ranked(n, r) == <<"list", n, r>>
Unborn == <<"unborn", 0, 0>>
Over == <<"over", 0, 0>>
Divided == <<"divided", 0, 0>>

\* The values that e uses without a reference of its own.
NodeGuards(n) == IF n.kind = "forward" THEN {} ELSE {n.av}

Guards(e) ==
    CASE e.op \in {"AndThen", "compare_exchange"} -> NodeGuards(e.node)
      [] e.op \in {"store", "NotifyAvailable", "ForwardTo", "SetValue"} -> {e.av}
      [] e.op = "RunWaiters" -> IF e.list = Nil THEN {} ELSE {e.list.av}
      [] e.op = "call" -> IF e.w \in Waiters THEN {On[e.w]} ELSE {}
      [] e.op = "scan" -> {Group[k] : k \in Places}
      [] OTHER -> {}

\* The values that e has a reference to.
NodeOwns(n) ==
    CASE n.kind = "user" /\ n.of \in Owning -> {n.av}
      [] n.kind = "forward" -> {n.of, n.av}
      [] OTHER -> {}

Owns(e) ==
    CASE e.op \in {"AndThen", "compare_exchange"} -> NodeOwns(e.node)
      [] e.op \in {"DropRef", "DropRef_fetch_sub"} -> {e.av}
      [] e.op \in {"ForwardTo", "SetValue"} -> {e.to}
      [] OTHER -> {}

-----------------------------------------------------------------------------
(* The invariant.                                                           *)

Types ==
    /\ stack \in [Threads -> Seq(Entries)]
    /\ state \in [Values -> Unavailable \cup Outcomes]
    /\ head \in [Values -> Links]
    /\ next \in [Nodes -> Links]
    /\ value \in [Indirect -> Concrete \cup {Nil}]
    /\ payload \in [Concrete -> {"none", "data", "error"}]
    /\ refcount \in [Values -> Nat]
    /\ freed \subseteq Values
    /\ counter \in Nat
    /\ holds \in [Threads -> SUBSET Values]
    /\ produced \subseteq Values
    /\ asked \subseteq Callbacks
    /\ ran \in [Callbacks -> {0, 1}]

\* Duty d can be at x: the duty of a node is with that node, in its list.
Fits(d, x) ==
    \/ x \in {Unborn, Over} \/ (\E t, k : x = Place(t, k))
    \/ x = Divided /\ d[1] = "waiter"
    \/ \E n \in Nodes : NodeDuty(n) = d /\ \E r \in Nat : x = Ranked(n, r)

\* A duty on a stack is there only.
Located(loc) ==
    /\ DOMAIN loc = DutySet
    /\ \A d \in DutySet : Fits(d, loc[d])
    /\ \A t \in Threads : \A k \in 1..H(t) :
          Duty(At(t, k)) # NoDuty => loc[Duty(At(t, k))] = Place(t, k)
    /\ \A d \in DutySet : \A t, k : loc[d] = Place(t, k) =>
          t \in Threads /\ k \in 1..H(t) /\ Duty(At(t, k)) = d

\* How far a duty has come.
Progress(loc) ==
    /\ \A v \in Values :
          /\ loc[<<"set", v>>] = Unborn <=> v \notin produced
          /\ loc[<<"set", v>>] = Over <=> Available(v)
    /\ \A w \in Callbacks :
          /\ loc[<<"waiter", w>>] = Unborn <=> w \notin asked
          /\ loc[<<"waiter", w>>] = Over <=> ran[w] = 1

\* f is the first node of the list of v, in which ranks fall by one.
FirstOf(loc, v, f) ==
    /\ f \in Nodes => f.av = v /\ \E r \in Nat : loc[NodeDuty(f)] = Ranked(f, r)
    /\ \A n \in Nodes, r \in Nat : n.av = v /\ loc[NodeDuty(n)] = Ranked(n, r) =>
          /\ f \in Nodes
          /\ \E x \in Nat : loc[NodeDuty(f)] = Ranked(f, x) /\ x >= r

Lists(loc) ==
    /\ \A n \in Nodes : \A m, r : loc[NodeDuty(n)] = Ranked(m, r) => r \in Nat \ {0}
    /\ \A n, m \in Nodes, r \in Nat :
          /\ loc[NodeDuty(n)] = Ranked(n, r) /\ loc[NodeDuty(m)] = Ranked(m, r)
          /\ n.av = m.av
          => n = m
    /\ \A n \in Nodes, r \in Nat : loc[NodeDuty(n)] = Ranked(n, r) =>
          IF r = 1 THEN next[n] = Nil
          ELSE /\ next[n] \in Nodes /\ next[n].av = n.av
               /\ loc[NodeDuty(next[n])] = Ranked(next[n], r - 1)
    /\ \A v \in Values :
          /\ ~Available(v) => FirstOf(loc, v, head[v])
          /\ Available(v) => head[v] = Nil
          /\ Available(v) /\ loc[<<"run", v>>] = Over => FirstOf(loc, v, Nil)
          /\ loc[<<"run", v>>] # Over =>
                /\ Available(v)
                /\ \E t \in Threads : \E k \in 1..H(t) :
                      /\ loc[<<"run", v>>] = Place(t, k)
                      /\ FirstOf(loc, v, At(t, k).list)

\* v stays alive while entry k of thread t is there: the thread has a reference, or
\* drops one further down.
Protected(t, k, v) == v \in holds[t] \/ \E j \in 1..k - 1 : At(t, j) = Drop(v)

Guarded ==
    \A t \in Threads : \A k \in 1..H(t) : \A v \in Guards(At(t, k)) : Protected(t, k, v)

\* What data_store_ holds in a value with that outcome.
Stored(s) == IF s = "Error" THEN "error" ELSE "data"

\* The value that stands for i has outcome s.
Forwarded(i, u, s) == state[Target[i]] = s /\ state[u] = s

\* The waiter of the one value of the span that was not available.
NodeFact(n) == n.kind = "last" => \A p \in Places \ {n.of} : Available(Group[p])

\* What a pending call relies on.
Fact(e) ==
    /\ e.op \in {"AndThen", "compare_exchange"} => NodeFact(e.node)
    /\ e.op = "compare_exchange" => next[e.node] = e.expected[1]
    /\ e.op = "NotifyAvailable" /\ e.av \in Indirect =>
          value[e.av] \in Concrete /\ Forwarded(e.av, value[e.av], e.s)
    /\ e.op = "call" => \A v \in Needs(e.w) : Available(v)
    /\ e.op = "SetValue" => Forwarded(e.av, e.to, e.s)
    /\ e.op = "fetch_sub" => Available(Group[e.k])
    /\ e.op = "scan" =>
          /\ \A j \in 1..Len(e.unavailable) : e.unavailable[j] < e.k
          /\ \A i, j \in 1..Len(e.unavailable) : e.unavailable[i] = e.unavailable[j] => i = j
          /\ \A p \in 1..e.k - 1 :
                Available(Group[p]) \/ \E j \in 1..Len(e.unavailable) : e.unavailable[j] = p

\* ... and what it relies on below it: a store is on top of its NotifyAvailable, and the
\* AddRef of ForwardTo on what else Unwrap does.
Shape(t, k) ==
    LET e == At(t, k) IN
    /\ e.op = "store" => k = H(t) /\ k > 1 /\ At(t, k - 1) = ENotify(e.av, e.s)
    /\ e.op = "NotifyAvailable" /\ e.av \in Concrete =>
          payload[e.av] = Stored(e.s) \/ (H(t) = k + 1 /\ At(t, k + 1) = EStore(e.av, e.s))
    /\ e.op = "AddRef" =>
          /\ k = H(t) /\ k > 2
          /\ \E v \in Indirect : At(t, k - 1) = Drop(v) /\ value[v] = e.av
          /\ \E i \in Indirect, s \in Outcomes : At(t, k - 2) = ESet(i, e.av, s)

Facts == \A t \in Threads : \A k \in 1..H(t) : Fact(At(t, k)) /\ Shape(t, k)

Contents ==
    /\ \A v \in Concrete : Available(v) => payload[v] = Stored(state[v])
    /\ \A v \in Concrete \ produced : Born[v] = "Unconstructed" \/ payload[v] = "data"
    /\ \A i \in Indirect \ freed : Available(i) => value[i] \in Concrete /\ state[value[i]] = state[i]
    /\ \A i \in Indirect : value[i] # Nil =>
          \/ Available(i)
          \/ \E t \in Threads : \E k \in 1..H(t) : \E s \in Outcomes :
                At(t, k) = ENotify(i, s)
    /\ \A i \in Indirect \cap freed : value[i] = Nil

\* The counted values that have not been counted off.
Active(loc) == {k \in Places : loc[<<"count", k>>] # Over}

Counted(loc) ==
    /\ IF loc[<<"waiter", Callee>>] = Divided
       THEN /\ counter = Cardinality(Active(loc)) /\ counter > 0
            /\ \A k \in Places \ Active(loc) : Available(Group[k])
       ELSE Active(loc) = {}
    /\ \A n \in Nodes, r \in Nat : loc[NodeDuty(n)] = Ranked(n, r) => NodeFact(n)

\* The references to v: of threads, of calls on stacks (the one of a SetValue is taken
\* by the AddRef before it), of nodes in lists, and of indirect values.
Own(t, k) ==
    IF At(t, k).op = "SetValue" /\ H(t) = k + 2 /\ At(t, k + 2).op = "AddRef" THEN {}
    ELSE Owns(At(t, k))

ByThreads(v) == {t \in Threads : v \in holds[t]}
ByCalls(v) == {p \in Threads \X Nat : p[2] \in 1..H(p[1]) /\ v \in Own(p[1], p[2])}
ByNodes(loc, v) == {n \in Nodes : v \in NodeOwns(n) /\ \E r \in Nat : loc[NodeDuty(n)] = Ranked(n, r)}
ByValues(v) == {i \in Indirect : value[i] = v}

Counts(loc) ==
    \A v \in Values :
        /\ IsFiniteSet(ByThreads(v)) /\ IsFiniteSet(ByCalls(v))
        /\ IsFiniteSet(ByNodes(loc, v)) /\ IsFiniteSet(ByValues(v))
        /\ refcount[v] = Cardinality(ByThreads(v)) + Cardinality(ByCalls(v))
                           + Cardinality(ByNodes(loc, v)) + Cardinality(ByValues(v))
        /\ v \in freed <=> refcount[v] = 0

Inv(loc) ==
    /\ Types /\ Located(loc) /\ Progress(loc) /\ Lists(loc) /\ Guarded /\ Facts
    /\ Contents /\ Counted(loc) /\ Counts(loc)

-----------------------------------------------------------------------------
(* Nodes and entries.                                                       *)

\* The four kinds of nodes.
LEMMA NodeForms ==
    ASSUME NEW n \in Nodes
    PROVE  \/ \E w \in Waiters : n = User(w)
           \/ \E i \in Indirect : n = Forward(i)
           \/ \E k \in Places : n = Countdown(k)
           \/ \E k \in Places : n = Last(k)
BY DEF Nodes, Places

\* What a node of each kind does, uses and owns.
LEMMA NodeTable ==
    /\ \A w \in Waiters :
          /\ User(w) \in Nodes /\ User(w).kind = "user" /\ User(w).of = w /\ User(w).av = On[w]
          /\ NodeDuty(User(w)) = <<"waiter", w>> /\ NodeGuards(User(w)) = {On[w]}
          /\ NodeOwns(User(w)) = IF w \in Owning THEN {On[w]} ELSE {}
    /\ \A i \in Indirect :
          /\ Forward(i) \in Nodes /\ Forward(i).kind = "forward"
          /\ Forward(i).of = i /\ Forward(i).av = Target[i]
          /\ NodeDuty(Forward(i)) = <<"set", i>> /\ NodeGuards(Forward(i)) = {}
          /\ NodeOwns(Forward(i)) = {i, Target[i]}
    /\ \A k \in Places :
          /\ Countdown(k) \in Nodes /\ Countdown(k).kind = "countdown"
          /\ Countdown(k).of = k /\ Countdown(k).av = Group[k]
          /\ NodeDuty(Countdown(k)) = <<"count", k>> /\ NodeGuards(Countdown(k)) = {Group[k]}
          /\ NodeOwns(Countdown(k)) = {}
    /\ \A k \in Places :
          /\ Last(k) \in Nodes /\ Last(k).kind = "last" /\ Last(k).of = k /\ Last(k).av = Group[k]
          /\ NodeDuty(Last(k)) = <<"waiter", Callee>> /\ NodeGuards(Last(k)) = {Group[k]}
          /\ NodeOwns(Last(k)) = {}
BY DEF Nodes, Places, User, Forward, Countdown, Last, NodeDuty, NodeGuards, NodeOwns

\* The values of a node.
LEMMA NodeValues ==
    ASSUME NEW n \in Nodes
    PROVE  /\ n.av \in Values /\ NodeDuty(n) \in DutySet
           /\ NodeGuards(n) \subseteq {n.av} /\ NodeOwns(n) \subseteq Values
           /\ n # Nil
<1>1. /\ \A w \in Waiters : On[w] \in Values
      /\ \A i \in Indirect : i \in Values /\ Target[i] \in Values
      /\ \A k \in Places : Group[k] \in Values
  BY KindsAssumption DEF Values, Places
<1>2. /\ n.av \in Values
      /\ NodeGuards(n) \subseteq {n.av} /\ NodeOwns(n) \subseteq Values
  BY <1>1, NodeForms, NodeTable
<1>3. NodeDuty(n) \in DutySet
  BY <1>1, NodeForms, NodeTable DEF DutySet, Callbacks
<1> QED
  BY <1>2, <1>3, NilAssumption

\* An entry is known by its op.
LEMMA EntryForms ==
    ASSUME NEW e \in Entries
    PROVE  /\ e.op = "AndThen" => \E n \in Nodes : e = EAndThen(n)
           /\ e.op = "compare_exchange" =>
                \E n \in Nodes, x \in Links \X Unavailable : e = ECas(n, x)
           /\ e.op = "store" => \E v \in Concrete, s \in Outcomes : e = EStore(v, s)
           /\ e.op = "NotifyAvailable" => \E v \in Values, s \in Outcomes : e = ENotify(v, s)
           /\ e.op = "RunWaiters" => \E l \in Links : e = ERun(l)
           /\ e.op = "call" => \E w \in Callbacks : e = ECall(w)
           /\ e.op = "ForwardTo" => \E i \in Indirect : e = EForward(i)
           /\ e.op = "SetValue" =>
                \E i \in Indirect, u \in Concrete, s \in Outcomes : e = ESet(i, u, s)
           /\ e.op = "AddRef" => \E u \in Concrete : e = EAddRef(u)
           /\ e.op = "DropRef" => \E v \in Values : e = Drop(v)
           /\ e.op = "DropRef_fetch_sub" => \E v \in Values : e = ESub(v)
           /\ e.op = "scan" =>
                \E k \in 1..Len(Group) + 1, un \in Seq(Places) : e = EScan(k, un)
           /\ e.op = "fetch_sub" => \E k \in Places : e = ECount(k)
           /\ e.op = "WaitForNotification" => \E w \in Waiters : e = EWait(w)
BY DEF Entries, EAndThen, ECas, EStore, ENotify, ERun, ECall, EForward, ESet, EAddRef, Drop,
       ESub, EScan, ECount, EWait

\* The entries that are made.
LEMMA EntriesMade ==
    /\ \A n \in Nodes : EAndThen(n) \in Entries
    /\ \A n \in Nodes, x \in Links \X Unavailable : ECas(n, x) \in Entries
    /\ \A v \in Concrete, s \in Outcomes : EStore(v, s) \in Entries
    /\ \A v \in Values, s \in Outcomes : ENotify(v, s) \in Entries
    /\ \A l \in Links : ERun(l) \in Entries
    /\ \A w \in Callbacks : ECall(w) \in Entries
    /\ \A i \in Indirect : EForward(i) \in Entries
    /\ \A i \in Indirect, u \in Concrete, s \in Outcomes : ESet(i, u, s) \in Entries
    /\ \A u \in Concrete : EAddRef(u) \in Entries
    /\ \A v \in Values : Drop(v) \in Entries /\ ESub(v) \in Entries
    /\ \A k \in 1..Len(Group) + 1, un \in Seq(Places) : EScan(k, un) \in Entries
    /\ \A k \in Places : ECount(k) \in Entries
    /\ \A w \in Waiters : EWait(w) \in Entries
<1>1. \A n \in Nodes : EAndThen(n) \in Entries
  BY DEF Entries
<1>2. \A n \in Nodes, x \in Links \X Unavailable : ECas(n, x) \in Entries
  BY DEF Entries
<1>3. \A v \in Concrete, s \in Outcomes : EStore(v, s) \in Entries
  BY DEF Entries
<1>4. \A v \in Values, s \in Outcomes : ENotify(v, s) \in Entries
  BY DEF Entries
<1>5. \A l \in Links : ERun(l) \in Entries
  BY DEF Entries
<1>6. \A w \in Callbacks : ECall(w) \in Entries
  BY DEF Entries
<1>7. \A i \in Indirect : EForward(i) \in Entries
  BY DEF Entries
<1>8. \A i \in Indirect, u \in Concrete, s \in Outcomes : ESet(i, u, s) \in Entries
  BY DEF Entries
<1>9. \A u \in Concrete : EAddRef(u) \in Entries
  BY DEF Entries
<1>10. \A v \in Values : Drop(v) \in Entries /\ ESub(v) \in Entries
  BY DEF Entries
<1>11. \A k \in 1..Len(Group) + 1, un \in Seq(Places) : EScan(k, un) \in Entries
  BY DEF Entries
<1>12. \A k \in Places : ECount(k) \in Entries
  BY DEF Entries
<1>13. \A w \in Waiters : EWait(w) \in Entries
  BY DEF Entries
<1> QED
  BY <1>1, <1>2, <1>3, <1>4, <1>5, <1>6, <1>7, <1>8, <1>9, <1>10, <1>11, <1>12, <1>13

\* What an entry of each kind has to do, uses and owns.
LEMMA Table ==
    /\ \A n : /\ EAndThen(n).op = "AndThen" /\ EAndThen(n).node = n
              /\ Duty(EAndThen(n)) = NodeDuty(n)
              /\ Guards(EAndThen(n)) = NodeGuards(n) /\ Owns(EAndThen(n)) = NodeOwns(n)
    /\ \A n, x : /\ ECas(n, x).op = "compare_exchange" /\ ECas(n, x).node = n
                 /\ ECas(n, x).expected = x
                 /\ Duty(ECas(n, x)) = NodeDuty(n)
                 /\ Guards(ECas(n, x)) = NodeGuards(n) /\ Owns(ECas(n, x)) = NodeOwns(n)
    /\ \A v, s : /\ EStore(v, s).op = "store" /\ EStore(v, s).av = v /\ EStore(v, s).s = s
                 /\ Duty(EStore(v, s)) = NoDuty
                 /\ Guards(EStore(v, s)) = {v} /\ Owns(EStore(v, s)) = {}
    /\ \A v, s : /\ ENotify(v, s).op = "NotifyAvailable" /\ ENotify(v, s).av = v
                 /\ ENotify(v, s).s = s /\ Duty(ENotify(v, s)) = <<"set", v>>
                 /\ Guards(ENotify(v, s)) = {v} /\ Owns(ENotify(v, s)) = {}
    /\ \A l : /\ ERun(l).op = "RunWaiters" /\ ERun(l).list = l
              /\ Duty(ERun(l)) = IF l = Nil THEN NoDuty ELSE <<"run", l.av>>
              /\ Guards(ERun(l)) = (IF l = Nil THEN {} ELSE {l.av}) /\ Owns(ERun(l)) = {}
    /\ \A w : /\ ECall(w).op = "call" /\ ECall(w).w = w /\ Duty(ECall(w)) = <<"waiter", w>>
              /\ Guards(ECall(w)) = (IF w \in Waiters THEN {On[w]} ELSE {}) /\ Owns(ECall(w)) = {}
    /\ \A i : /\ EForward(i).op = "ForwardTo" /\ EForward(i).av = i /\ EForward(i).to = Target[i]
              /\ Duty(EForward(i)) = <<"set", i>>
              /\ Guards(EForward(i)) = {i} /\ Owns(EForward(i)) = {Target[i]}
    /\ \A i, u, s : /\ ESet(i, u, s).op = "SetValue" /\ ESet(i, u, s).av = i
                    /\ ESet(i, u, s).to = u /\ ESet(i, u, s).s = s
                    /\ Duty(ESet(i, u, s)) = <<"set", i>>
                    /\ Guards(ESet(i, u, s)) = {i} /\ Owns(ESet(i, u, s)) = {u}
    /\ \A u : /\ EAddRef(u).op = "AddRef" /\ EAddRef(u).av = u /\ Duty(EAddRef(u)) = NoDuty
              /\ Guards(EAddRef(u)) = {} /\ Owns(EAddRef(u)) = {}
    /\ \A v : /\ Drop(v).op = "DropRef" /\ Drop(v).av = v /\ Duty(Drop(v)) = NoDuty
              /\ Guards(Drop(v)) = {} /\ Owns(Drop(v)) = {v}
    /\ \A v : /\ ESub(v).op = "DropRef_fetch_sub" /\ ESub(v).av = v /\ Duty(ESub(v)) = NoDuty
              /\ Guards(ESub(v)) = {} /\ Owns(ESub(v)) = {v}
    /\ \A k, un : /\ EScan(k, un).op = "scan" /\ EScan(k, un).k = k
                  /\ EScan(k, un).unavailable = un
                  /\ Duty(EScan(k, un)) = <<"waiter", Callee>>
                  /\ Guards(EScan(k, un)) = {Group[j] : j \in Places} /\ Owns(EScan(k, un)) = {}
    /\ \A k : /\ ECount(k).op = "fetch_sub" /\ ECount(k).k = k /\ Duty(ECount(k)) = <<"count", k>>
              /\ Guards(ECount(k)) = {} /\ Owns(ECount(k)) = {}
    /\ \A w : /\ EWait(w).op = "WaitForNotification" /\ EWait(w).w = w /\ Duty(EWait(w)) = NoDuty
              /\ Guards(EWait(w)) = {} /\ Owns(EWait(w)) = {}
BY DEF EAndThen, ECas, EStore, ENotify, ERun, ECall, EForward, ESet, EAddRef, Drop, ESub, EScan,
       ECount, EWait, Duty, Guards, Owns

-----------------------------------------------------------------------------
(* Steps on a stack.                                                        *)

\* The stack of t keeps its b lowest entries and has es on top of them.
Becomes(t, b, es) ==
    /\ stack' \in [Threads -> Seq(Entries)]
    /\ H(t)' = b + Len(es)
    /\ \A k \in 1..b : From(stack'[t], k) = At(t, k)
    /\ \A j \in 1..Len(es) : From(stack'[t], b + Len(es) - j + 1) = es[j]
    /\ \A u \in Threads \ {t} : H(u)' = H(u) /\ \A k \in 1..H(u) : At(u, k)' = At(u, k)

\* The size of a stack, and its entries.
LEMMA StackTypes ==
    ASSUME stack \in [Threads -> Seq(Entries)], NEW t \in Threads
    PROVE  /\ H(t) \in Nat
           /\ \A k \in 1..H(t) : At(t, k) \in Entries
           /\ stack[t] # <<>> => H(t) > 0 /\ At(t, H(t)) = Head(stack[t])
           /\ stack[t] = <<>> => H(t) = 0
BY DEF H, At, From

\* The current step of t is replaced by the calls of es.
LEMMA ThenBecomes ==
    ASSUME stack \in [Threads -> Seq(Entries)], NEW t \in Threads, stack[t] # <<>>,
           NEW es \in Seq(Entries), Then(t, es)
    PROVE  Becomes(t, H(t) - 1, es)
<1> DEFINE s == stack[t]
           new == es \o Tail(s)
<1>1. /\ s \in Seq(Entries) /\ Tail(s) \in Seq(Entries) /\ Len(s) \in Nat /\ Len(s) > 0
      /\ Len(Tail(s)) = Len(s) - 1
      /\ \A k \in 1..Len(s) - 1 : Tail(s)[k] = s[k + 1]
  OBVIOUS
<1>2. /\ stack' = [stack EXCEPT ![t] = new]
      /\ new \in Seq(Entries) /\ Len(new) = Len(es) + Len(s) - 1
      /\ \A k \in 1..Len(es) : new[k] = es[k]
      /\ \A k \in Len(es) + 1..Len(new) : new[k] = Tail(s)[k - Len(es)]
  BY <1>1 DEF Then
<1>3. /\ stack' \in [Threads -> Seq(Entries)] /\ stack'[t] = new
      /\ \A u \in Threads \ {t} : stack'[u] = stack[u]
  BY <1>2
<1> HIDE DEF new
<1>4. H(t)' = H(t) - 1 + Len(es)
  BY <1>1, <1>2, <1>3 DEF H
<1>5. ASSUME NEW k \in 1..H(t) - 1
      PROVE  At(t, k)' = At(t, k)
  <2> DEFINE p == Len(new) - k + 1
  <2>1. p \in Len(es) + 1..Len(new) /\ H(t) - k \in 1..Len(s) - 1 /\ p - Len(es) = H(t) - k
    BY <1>1, <1>2, <1>5 DEF H
  <2> HIDE DEF p
  <2>2. new[p] = Tail(s)[H(t) - k]
    BY <1>2, <2>1
  <2>3. Tail(s)[H(t) - k] = s[H(t) - k + 1]
    BY <1>1, <2>1
  <2>4. At(t, k)' = new[p]
    BY <1>3 DEF At, From, H, p
  <2> QED
    BY <2>2, <2>3, <2>4 DEF At, From, H
<1>6. ASSUME NEW j \in 1..Len(es)
      PROVE  From(stack'[t], H(t) - 1 + Len(es) - j + 1) = es[j]
  <2>1. Len(new) - (H(t) - 1 + Len(es) - j + 1) + 1 = j
    BY <1>1, <1>2 DEF H
  <2> QED
    BY <1>2, <1>3, <2>1 DEF From
<1>7. ASSUME NEW u \in Threads \ {t}
      PROVE  H(u)' = H(u) /\ \A k \in 1..H(u) : At(u, k)' = At(u, k)
  BY <1>3 DEF At, From, H
<1> QED
  BY <1>3, <1>4, <1>5, <1>6, <1>7 DEF Becomes, At

\* A thread that was idle begins a call.
LEMMA BeginBecomes ==
    ASSUME stack \in [Threads -> Seq(Entries)], NEW t \in Threads,
           NEW es \in Seq(Entries), Begin(t, es)
    PROVE  H(t) = 0 /\ Becomes(t, 0, es)
<1>1. stack[t] = <<>> /\ stack' = [stack EXCEPT ![t] = es]
  BY DEF Begin, Idle
<1>2. /\ stack' \in [Threads -> Seq(Entries)] /\ stack'[t] = es
      /\ \A u \in Threads \ {t} : stack'[u] = stack[u]
  BY <1>1
<1> QED
  BY <1>1, <1>2 DEF Becomes, At, From, H

\* The entries after a step of t, seen from below.
LEMMA BecomesAt ==
    ASSUME NEW t \in Threads, NEW b \in Nat, NEW es \in Seq(Entries), Becomes(t, b, es)
    PROVE  /\ \A k \in 1..b : At(t, k)' = At(t, k)
           /\ \A j \in 1..Len(es) : At(t, b + Len(es) - j + 1)' = es[j]
           /\ \A k \in b + 1..b + Len(es) : At(t, k)' = es[b + Len(es) - k + 1]
<1>1. /\ \A k \in 1..b : At(t, k)' = At(t, k)
      /\ \A j \in 1..Len(es) : At(t, b + Len(es) - j + 1)' = es[j]
  BY DEF Becomes, At
<1>2. ASSUME NEW k \in b + 1..b + Len(es)
      PROVE  At(t, k)' = es[b + Len(es) - k + 1]
  <2> DEFINE j == b + Len(es) - k + 1
  <2>1. Len(es) \in Nat
    OBVIOUS
  <2>2. j \in 1..Len(es) /\ b + Len(es) - j + 1 = k
    BY <1>2, <2>1
  <2> QED
    BY <1>1, <2>2
<1> QED
  BY <1>1, <1>2

\* loc2 moves the duties of a step with its calls and leaves the others alone.
Moves(t, b, es, loc, loc2) ==
    /\ DOMAIN loc2 = DutySet
    /\ \A d \in DutySet : Fits(d, loc2[d])
    /\ \A j \in 1..Len(es) : Duty(es[j]) # NoDuty =>
          loc2[Duty(es[j])] = Place(t, b + Len(es) - j + 1)
    /\ \A d \in DutySet :
          \/ loc2[d] = loc[d] /\ \A k : loc[d] = Place(t, k) => k <= b
          \/ /\ \A u, k : loc[d] = Place(u, k) => u = t /\ k > b
             /\ \A u, k : loc2[d] = Place(u, k) =>
                   \E j \in 1..Len(es) :
                      u = t /\ k = b + Len(es) - j + 1 /\ Duty(es[j]) = d

\* The duties stay where loc says, if those of the step are moved with its calls.
LEMMA LocatedStep ==
    ASSUME stack \in [Threads -> Seq(Entries)], NEW loc, Located(loc),
           NEW t \in Threads, NEW b \in Nat, b <= H(t),
           NEW es \in Seq(Entries), Becomes(t, b, es),
           NEW loc2, Moves(t, b, es, loc, loc2)
    PROVE  Located(loc2)'
<1> USE DEF Moves
<1>1. \A e \in Entries : Duty(e) = NoDuty \/ Duty(e) \in DutySet
  <2> TAKE e \in Entries
  <2>1. /\ e.op \in {"AndThen", "compare_exchange"} => e.node \in Nodes
        /\ e.op \in {"NotifyAvailable", "ForwardTo", "SetValue"} => e.av \in Values
        /\ e.op = "RunWaiters" => e.list \in Links
        /\ e.op = "call" => e.w \in Callbacks
        /\ e.op = "fetch_sub" => e.k \in Places
    BY EntryForms, Table DEF Values
  <2>2. /\ \A n \in Nodes : NodeDuty(n) \in DutySet /\ n.av \in Values
        /\ Callee \in Callbacks
    BY NodeValues DEF Callbacks
  <2> QED
    BY <2>1, <2>2 DEF Duty, DutySet, Links
<1>2. ASSUME NEW u \in Threads, NEW k \in 1..H(u)', Duty(At(u, k)') # NoDuty
      PROVE  loc2[Duty(At(u, k)')] = Place(u, k)
  <2>1. CASE u # t
    <3>1. k \in 1..H(u) /\ At(u, k)' = At(u, k) /\ At(u, k) \in Entries
      BY <1>2, <2>1, StackTypes DEF Becomes
    <3>2. loc[Duty(At(u, k))] = Place(u, k) /\ Duty(At(u, k)) \in DutySet
      BY <1>1, <1>2, <3>1 DEF Located
    <3> QED
      BY <2>1, <3>1, <3>2 DEF Place
  <2>2. CASE u = t /\ k \in 1..b
    <3>1. k \in 1..H(u) /\ At(u, k)' = At(u, k) /\ At(u, k) \in Entries
      BY <2>2, BecomesAt, StackTypes
    <3>2. loc[Duty(At(u, k))] = Place(u, k) /\ Duty(At(u, k)) \in DutySet
      BY <1>1, <1>2, <3>1 DEF Located
    <3> QED
      BY <2>2, <3>1, <3>2 DEF Place
  <2>3. CASE u = t /\ k \notin 1..b
    <3>1. k \in b + 1..b + Len(es)
      BY <1>2, <2>3 DEF Becomes
    <3> DEFINE j == b + Len(es) - k + 1
    <3>2. j \in 1..Len(es) /\ b + Len(es) - j + 1 = k
      BY <3>1
    <3>3. At(t, k)' = es[j]
      BY <3>1, BecomesAt
    <3> QED
      BY <1>2, <2>3, <3>2, <3>3
  <2> QED
    BY <2>1, <2>2, <2>3
<1>3. ASSUME NEW d \in DutySet, NEW u, NEW k, loc2[d] = Place(u, k)
      PROVE  u \in Threads /\ k \in 1..H(u)' /\ Duty(At(u, k)') = d
  <2>1. CASE loc2[d] = loc[d] /\ \A j : loc[d] = Place(t, j) => j <= b
    <3>0. loc[d] = Place(u, k)
      BY <1>3, <2>1
    <3>1. u \in Threads /\ k \in 1..H(u) /\ Duty(At(u, k)) = d
      BY <3>0, Zenon DEF Located
    <3>2. CASE u # t
      BY <3>1, <3>2 DEF Becomes
    <3>3. CASE u = t
      <4>0. k <= b
        BY <2>1, <3>0, <3>3
      <4>1. k \in 1..b
        BY <3>1, <3>3, <4>0, StackTypes
      <4>2. At(u, k)' = At(u, k)
        BY <3>3, <4>1, BecomesAt
      <4>3. H(t)' = b + Len(es) /\ Len(es) \in Nat
        BY DEF Becomes
      <4> QED
        BY <3>1, <3>3, <4>1, <4>2, <4>3
    <3> QED
      BY <3>2, <3>3
  <2>2. CASE \E j \in 1..Len(es) : u = t /\ k = b + Len(es) - j + 1 /\ Duty(es[j]) = d
    <3>1. PICK j \in 1..Len(es) : u = t /\ k = b + Len(es) - j + 1 /\ Duty(es[j]) = d
      BY <2>2
    <3>2. H(t)' = b + Len(es) /\ Len(es) \in Nat
      BY DEF Becomes
    <3>3. At(t, k)' = es[j]
      BY <3>1, BecomesAt
    <3> QED
      BY <3>1, <3>2, <3>3
  <2> QED
    BY <1>3, <2>1, <2>2
<1> QED
  BY <1>2, <1>3 DEF Located

\* No duty moves in a step whose calls have the duties of the entry they replace, or none.
LEMMA LocatedSame ==
    ASSUME stack \in [Threads -> Seq(Entries)], NEW loc, Located(loc),
           NEW t \in Threads, NEW b \in Nat, H(t) = b + 1,
           NEW es \in Seq(Entries), Becomes(t, b, es),
           \A j \in 1..Len(es) : Duty(es[j]) = IF j = Len(es) THEN Duty(At(t, H(t))) ELSE NoDuty,
           es = <<>> => Duty(At(t, H(t))) = NoDuty
    PROVE  Located(loc)'
<1> DEFINE d0 == Duty(At(t, H(t)))
<1>1. H(t) \in 1..H(t) /\ Len(es) \in Nat
  OBVIOUS
<1>2. d0 # NoDuty => loc[d0] = Place(t, b + 1)
  BY <1>1 DEF Located
<1>3. DOMAIN loc = DutySet
  BY DEF Located
<1>4. \A j \in 1..Len(es) : Duty(es[j]) # NoDuty => loc[Duty(es[j])] = Place(t, b + Len(es) - j + 1)
  BY <1>1, <1>2
<1>5. ASSUME NEW d \in DutySet
      PROVE  \/ loc[d] = loc[d] /\ \A k : loc[d] = Place(t, k) => k <= b
             \/ /\ \A u, k : loc[d] = Place(u, k) => u = t /\ k > b
                /\ \A u, k : loc[d] = Place(u, k) =>
                      \E j \in 1..Len(es) : u = t /\ k = b + Len(es) - j + 1 /\ Duty(es[j]) = d
  <2>1. CASE loc[d] = Place(t, b + 1)
    <3>1. d0 = d
      BY <2>1 DEF Located
    <3>2. d # NoDuty
      BY DEF DutySet, NoDuty
    <3>3. Len(es) \in 1..Len(es) /\ Duty(es[Len(es)]) = d /\ b + Len(es) - Len(es) + 1 = b + 1
      BY <1>1, <3>1, <3>2
    <3> QED
      BY <2>1, <3>3 DEF Place
  <2>2. CASE loc[d] # Place(t, b + 1)
    <3>1. \A k : loc[d] = Place(t, k) => k \in 1..b + 1 /\ k # b + 1
      BY <2>2 DEF Located
    <3> QED
      BY <3>1
  <2> QED
    BY <2>1, <2>2
<1>6. b <= H(t)
  OBVIOUS
<1> HIDE DEF d0
<1>7. Moves(t, b, es, loc, loc)
  <2>1. \A d \in DutySet : Fits(d, loc[d])
    BY DEF Located
  <2> QED
    BY <1>3, <1>4, <1>5, <2>1, Zenon DEF Moves
<1> QED
  BY <1>6, <1>7, LocatedStep

\* Places on stacks are told from other places by their tag.
LEMMA PlaceTag == \A t, k : Place(t, k)[1] = "at"
BY DEF Place

\* A step of t that moves the duties of M, among them the one of the entry it replaces.
LEMMA MovesSome ==
    ASSUME stack \in [Threads -> Seq(Entries)], NEW loc, Located(loc),
           NEW t \in Threads, NEW b \in Nat, H(t) \in {b, b + 1}, NEW es \in Seq(Entries),
           NEW M \in SUBSET DutySet, NEW loc2, DOMAIN loc2 = DutySet,
           \A d \in DutySet \ M : loc2[d] = loc[d], \A d \in M : Fits(d, loc2[d]),
           H(t) = b + 1 /\ Duty(At(t, H(t))) # NoDuty => Duty(At(t, H(t))) \in M,
           \A d \in M : loc[d][1] # "at" \/ (H(t) = b + 1 /\ Duty(At(t, H(t))) = d),
           \A d \in M : \/ loc2[d][1] # "at"
                        \/ \E j \in 1..Len(es) :
                              Duty(es[j]) = d /\ loc2[d] = Place(t, b + Len(es) - j + 1),
           \A j \in 1..Len(es) : Duty(es[j]) # NoDuty =>
              loc2[Duty(es[j])] = Place(t, b + Len(es) - j + 1)
    PROVE  Moves(t, b, es, loc, loc2)
<1>0. NoDuty \notin DutySet
  BY DEF DutySet, NoDuty
<1>1. ASSUME NEW d \in DutySet \ M
      PROVE  loc2[d] = loc[d] /\ \A k : loc[d] = Place(t, k) => k <= b
  <2>1. ASSUME NEW k, loc[d] = Place(t, k)
        PROVE  k <= b
    <3>1. k \in 1..H(t) /\ Duty(At(t, k)) = d
      BY <2>1, Zenon DEF Located
    <3>2. ~(H(t) = b + 1 /\ k = H(t))
      BY <1>0, <1>1, <3>1
    <3> QED
      BY <3>1, <3>2
  <2> QED
    BY <1>1, <2>1
<1>2. ASSUME NEW d \in M
      PROVE  /\ \A u, k : loc[d] = Place(u, k) => u = t /\ k > b
             /\ \A u, k : loc2[d] = Place(u, k) =>
                   \E j \in 1..Len(es) : u = t /\ k = b + Len(es) - j + 1 /\ Duty(es[j]) = d
  <2>1. ASSUME NEW u, NEW k, loc[d] = Place(u, k)
        PROVE  u = t /\ k > b
    <3>1. loc[d][1] = "at"
      BY <2>1 DEF Place
    <3>2. H(t) = b + 1 /\ Duty(At(t, H(t))) = d
      BY <1>2, <3>1
    <3>3. H(t) \in 1..H(t) /\ d # NoDuty
      BY <1>0, <3>2
    <3>4. loc[d] = Place(t, H(t))
      BY <3>2, <3>3 DEF Located
    <3> QED
      BY <2>1, <3>2, <3>4 DEF Place
  <2>2. ASSUME NEW u, NEW k, loc2[d] = Place(u, k)
        PROVE  \E j \in 1..Len(es) : u = t /\ k = b + Len(es) - j + 1 /\ Duty(es[j]) = d
    <3>1. loc2[d][1] = "at"
      BY <2>2, PlaceTag
    <3>2. PICK j \in 1..Len(es) : Duty(es[j]) = d /\ loc2[d] = Place(t, b + Len(es) - j + 1)
      BY <1>2, <3>1
    <3>3. u = t /\ k = b + Len(es) - j + 1
      BY <2>2, <3>2 DEF Place
    <3> QED
      BY <3>2, <3>3
  <2> QED
    BY <2>1, <2>2
<1>3. ASSUME NEW d \in DutySet
      PROVE  \/ loc2[d] = loc[d] /\ \A k : loc[d] = Place(t, k) => k <= b
             \/ /\ \A u, k : loc[d] = Place(u, k) => u = t /\ k > b
                /\ \A u, k : loc2[d] = Place(u, k) =>
                      \E j \in 1..Len(es) :
                         u = t /\ k = b + Len(es) - j + 1 /\ Duty(es[j]) = d
  <2>1. CASE d \in M
    BY <2>1, <1>2, Zenon
  <2>2. CASE d \notin M
    BY <2>2, <1>1, Zenon
  <2> QED
    BY <2>1, <2>2
<1>4. \A d \in DutySet : Fits(d, loc2[d])
  <2>1. \A d \in DutySet : Fits(d, loc[d])
    BY DEF Located
  <2> QED
    BY <2>1
<1> QED
  BY <1>3, <1>4, Zenon DEF Moves

\* What the entries of a step use is protected: by what protected the entry they replace,
\* by the thread, or by a reference dropped after them.
LEMMA GuardedStep ==
    ASSUME stack \in [Threads -> Seq(Entries)], Guarded, NEW t \in Threads, NEW b \in Nat,
           NEW es \in Seq(Entries), Becomes(t, b, es),
           \/ H(t) = b + 1 /\ holds' = holds
           \/ H(t) = 0 /\ b = 0 /\ \A u \in Threads \ {t} : holds'[u] = holds[u],
           \A j \in 1..Len(es) : \A v \in Guards(es[j]) :
              \/ v \in holds'[t]
              \/ \E i \in j + 1..Len(es) : es[i] = Drop(v)
              \/ H(t) = b + 1 /\ v \in Guards(At(t, H(t)))
    PROVE  Guarded'
<1>0. Len(es) \in Nat
  OBVIOUS
<1> SUFFICES ASSUME NEW u \in Threads, NEW k \in 1..H(u)', NEW v \in Guards(At(u, k)')
             PROVE  v \in holds'[u] \/ \E j \in 1..k - 1 : At(u, j)' = Drop(v)
  BY DEF Guarded, Protected
<1>1. CASE u # t
  <2>1. /\ k \in 1..H(u) /\ At(u, k)' = At(u, k) /\ holds'[u] = holds[u]
        /\ \A j \in 1..k - 1 : At(u, j)' = At(u, j)
    BY <1>1, StackTypes DEF Becomes
  <2> QED
    BY <2>1 DEF Guarded, Protected
<1>2. CASE u = t /\ k <= b
  <2>1. /\ k \in 1..b /\ H(t) = b + 1
        /\ \A j \in 1..b : At(t, j)' = At(t, j)
    BY <1>2, BecomesAt
  <2> QED
    BY <1>2, <2>1 DEF Guarded, Protected
<1>3. CASE u = t /\ k > b
  <2> DEFINE j == b + Len(es) - k + 1
  <2>1. k \in b + 1..b + Len(es) /\ j \in 1..Len(es) /\ b + Len(es) - j + 1 = k
    BY <1>0, <1>3 DEF Becomes
  <2>2. At(t, k)' = es[j]
    BY <2>1, BecomesAt
  <2>3. CASE v \in holds'[t]
    BY <1>3, <2>3
  <2>4. ASSUME NEW i \in j + 1..Len(es), es[i] = Drop(v)
        PROVE  \E m \in 1..k - 1 : At(t, m)' = Drop(v)
    <3> DEFINE m == b + Len(es) - i + 1
    <3>1. m \in 1..k - 1 /\ i \in 1..Len(es)
      BY <1>0, <2>1, <2>4
    <3>2. At(t, m)' = es[i]
      BY <3>1, BecomesAt
    <3> QED
      BY <2>4, <3>1, <3>2
  <2>5. CASE H(t) = b + 1 /\ v \in Guards(At(t, H(t)))
    <3>1. H(t) \in 1..H(t)
      BY <2>5
    <3>2. v \in holds[t] \/ \E m \in 1..b : At(t, m) = Drop(v)
      BY <2>5, <3>1 DEF Guarded, Protected
    <3>3. holds' = holds
      BY <2>5
    <3>4. \A m \in 1..b : m \in 1..k - 1 /\ At(t, m)' = At(t, m)
      BY <2>1, BecomesAt
    <3> QED
      BY <1>3, <3>2, <3>3, <3>4
  <2> QED
    BY <1>3, <2>1, <2>2, <2>3, <2>4, <2>5
<1> QED
  BY <1>1, <1>2, <1>3 DEF Becomes

\* Availability is for ever.
Stable == \A v \in Values : Available(v) => state'[v] = state[v]

\* A pending call may still rely on what it relied on.
LEMMA FactStable ==
    ASSUME NEW e \in Entries, Fact(e), Stable,
           e.op = "compare_exchange" => next'[e.node] = next[e.node],
           e.op = "NotifyAvailable" /\ e.av \in Indirect => value'[e.av] = value[e.av]
    PROVE  Fact(e)'
<1>1. /\ \A v \in Values : Available(v) => Available(v)' /\ state'[v] = state[v]
      /\ \A v \in Values : state[v] \in Outcomes => Available(v)
      /\ \A i \in Indirect : Target[i] \in Values
      /\ Concrete \subseteq Values
  BY KindsAssumption DEF Stable, Available, Unavailable, Outcomes, Values
<1>2. ASSUME NEW i \in Indirect, NEW u \in Concrete, NEW s \in Outcomes, Forwarded(i, u, s)
      PROVE  Forwarded(i, u, s)'
  BY <1>1, <1>2 DEF Forwarded
<1>3. e.op = "compare_exchange" => next'[e.node] = e.expected[1]
  BY DEF Fact
<1>4. e.op = "NotifyAvailable" /\ e.av \in Indirect =>
          value'[e.av] \in Concrete /\ Forwarded(e.av, value[e.av], e.s)'
  <2>1. e.op = "NotifyAvailable" => e.s \in Outcomes
    BY EntryForms, Table
  <2>2. SUFFICES ASSUME e.op = "NotifyAvailable", e.av \in Indirect
                 PROVE  value'[e.av] \in Concrete /\ Forwarded(e.av, value[e.av], e.s)'
    OBVIOUS
  <2>3. value[e.av] \in Concrete /\ Forwarded(e.av, value[e.av], e.s) /\ value'[e.av] = value[e.av]
    BY <2>2 DEF Fact
  <2> QED
    BY <1>1, <2>1, <2>2, <2>3 DEF Forwarded
<1>5. e.op = "call" => \A v \in Needs(e.w) : Available(v)'
  <2>1. e.op = "call" => Needs(e.w) \subseteq Values
    BY EntryForms, Table, KindsAssumption DEF Needs, Callbacks
  <2> QED
    BY <1>1, <2>1 DEF Fact
<1>6. e.op = "SetValue" => Forwarded(e.av, e.to, e.s)'
  <2>1. e.op = "SetValue" => e.av \in Indirect /\ e.to \in Concrete /\ e.s \in Outcomes
    BY EntryForms, Table
  <2> QED
    BY <1>2, <2>1 DEF Fact
<1>7. \A k \in Places : Group[k] \in Values
  BY KindsAssumption DEF Places
<1>8. e.op = "fetch_sub" => Available(Group[e.k])'
  <2>1. e.op = "fetch_sub" => e.k \in Places
    BY EntryForms, Table
  <2> QED
    BY <1>1, <1>7, <2>1 DEF Fact
<1>9. e.op = "scan" => \A p \in 1..e.k - 1 :
          Available(Group[p])' \/ \E j \in 1..Len(e.unavailable) : e.unavailable[j] = p
  <2>1. e.op = "scan" => \A p \in 1..e.k - 1 : Group[p] \in Values
    <3>1. e.op = "scan" => e.k \in 1..Len(Group) + 1
      BY EntryForms, Table
    <3>2. Len(Group) \in Nat
      BY KindsAssumption
    <3>3. e.op = "scan" => \A p \in 1..e.k - 1 : p \in Places
      BY <3>1, <3>2 DEF Places
    <3> QED
      BY <1>7, <3>3
  <2> QED
    BY <1>1, <2>1 DEF Fact
<1>10. e.op \in {"AndThen", "compare_exchange"} => NodeFact(e.node)'
  BY <1>1, <1>7 DEF Fact, NodeFact
<1> QED
  BY <1>3, <1>4, <1>5, <1>6, <1>8, <1>9, <1>10 DEF Fact

\* What the entries that a step of t keeps rely on is left alone.
Keeps(t, b) ==
    \A u \in Threads : \A k \in 1..H(u) : u # t \/ k <= b =>
        LET e == At(u, k) IN
        /\ e.op = "compare_exchange" => next'[e.node] = next[e.node]
        /\ e.op = "NotifyAvailable" /\ e.av \in Indirect => value'[e.av] = value[e.av]
        /\ e.op = "NotifyAvailable" /\ e.av \in Concrete =>
              payload'[e.av] = payload[e.av] \/ payload'[e.av] = Stored(e.s)
        /\ u # t /\ e.op = "DropRef" /\ e.av \in Indirect /\ value[e.av] # Nil =>
              value'[e.av] = value[e.av]

\* Facts, after a step whose calls rely on what is there.
LEMMA FactsShape ==
    ASSUME stack \in [Threads -> Seq(Entries)], Facts, Stable, NEW t \in Threads, NEW b \in Nat,
           NEW es \in Seq(Entries), Becomes(t, b, es), Keeps(t, b),
           (H(t) = 0 /\ b = 0) \/ H(t) = b + 1,
           H(t) = b + 1 /\ At(t, H(t)).op = "store" =>
              \E v, s : b > 0 /\ At(t, b) = ENotify(v, s) /\ payload'[v] = Stored(s),
           \A j \in 1..Len(es) : Fact(es[j])' /\ Shape(t, b + Len(es) - j + 1)'
    PROVE  Facts'
<1>0. Len(es) \in Nat
  OBVIOUS
<1> SUFFICES ASSUME NEW u \in Threads, NEW k \in 1..H(u)'
             PROVE  Fact(At(u, k))' /\ Shape(u, k)'
  BY DEF Facts
<1>1. ASSUME NEW x \in Threads, NEW m \in 1..H(x), x # t \/ m <= b
      PROVE  Fact(At(x, m))
  BY <1>1 DEF Facts
<1>2. CASE u # t
  <2>1. /\ H(u)' = H(u) /\ k \in 1..H(u) /\ H(u) \in Nat
        /\ \A j \in 1..H(u) : At(u, j)' = At(u, j) /\ At(u, j) \in Entries
    BY <1>2, StackTypes DEF Becomes
  <2>2. PICK e : e = At(u, k)
    OBVIOUS
  <2>3. e \in Entries /\ Fact(e) /\ Shape(u, k) /\ At(u, k)' = e
    BY <2>1, <2>2 DEF Facts
  <2>4. /\ e.op = "compare_exchange" => next'[e.node] = next[e.node]
        /\ e.op = "NotifyAvailable" /\ e.av \in Indirect => value'[e.av] = value[e.av]
        /\ e.op = "NotifyAvailable" /\ e.av \in Concrete =>
              payload'[e.av] = payload[e.av] \/ payload'[e.av] = Stored(e.s)
    BY <1>2, <2>1, <2>2 DEF Keeps
  <2>5. Fact(e)'
    BY <2>3, <2>4, FactStable
  <2>6. e.op = "store" => k = H(u)' /\ k > 1 /\ At(u, k - 1)' = ENotify(e.av, e.s)
    BY <2>1, <2>2, <2>3 DEF Shape
  <2>7. e.op = "NotifyAvailable" /\ e.av \in Concrete =>
          payload'[e.av] = Stored(e.s) \/ (H(u)' = k + 1 /\ At(u, k + 1)' = EStore(e.av, e.s))
    <3>1. H(u) = k + 1 => At(u, k + 1)' = At(u, k + 1)
      BY <2>1
    <3> QED
      BY <2>1, <2>2, <2>3, <2>4, <3>1 DEF Shape
  <2>8. e.op = "AddRef" =>
          /\ k = H(u)' /\ k > 2
          /\ \E v \in Indirect : At(u, k - 1)' = Drop(v) /\ value'[v] = e.av
          /\ \E i \in Indirect, s \in Outcomes : At(u, k - 2)' = ESet(i, e.av, s)
    <3>1. SUFFICES ASSUME e.op = "AddRef"
                   PROVE  /\ k = H(u)' /\ k > 2
                          /\ \E v \in Indirect : At(u, k - 1)' = Drop(v) /\ value'[v] = e.av
                          /\ \E i \in Indirect, s \in Outcomes : At(u, k - 2)' = ESet(i, e.av, s)
      OBVIOUS
    <3>2. /\ k = H(u) /\ k > 2
          /\ \E v \in Indirect : At(u, k - 1) = Drop(v) /\ value[v] = e.av
          /\ \E i \in Indirect, s \in Outcomes : At(u, k - 2) = ESet(i, e.av, s)
      BY <2>2, <2>3, <3>1 DEF Shape
    <3>3. k - 1 \in 1..H(u) /\ k - 2 \in 1..H(u)
      BY <2>1, <3>2
    <3>4. PICK v \in Indirect : At(u, k - 1) = Drop(v) /\ value[v] = e.av
      BY <3>2
    <3>5. Drop(v).op = "DropRef" /\ Drop(v).av = v
      BY Table
    <3>6. e.av # Nil
      <4>1. e.av \in Concrete
        BY <2>3, <3>1, EntryForms, Table
      <4> QED
        BY <4>1, NilAssumption DEF Values
    <3>7. value'[v] = value[v]
      BY <1>2, <3>3, <3>4, <3>5, <3>6 DEF Keeps
    <3> QED
      BY <2>1, <3>2, <3>3, <3>4, <3>7
  <2> QED
    BY <2>3, <2>5, <2>6, <2>7, <2>8 DEF Shape
<1>3. CASE u = t /\ k <= b
  <2>1. /\ k \in 1..b /\ k \in 1..H(t) /\ H(t) \in Nat /\ At(t, k)' = At(t, k)
        /\ At(t, k) \in Entries
    BY <1>3, BecomesAt, StackTypes
  <2>2. PICK e : e = At(t, k)
    OBVIOUS
  <2>3. e \in Entries /\ Fact(e) /\ Shape(t, k) /\ At(t, k)' = e
    BY <2>1, <2>2 DEF Facts
  <2>4. /\ e.op = "compare_exchange" => next'[e.node] = next[e.node]
        /\ e.op = "NotifyAvailable" /\ e.av \in Indirect => value'[e.av] = value[e.av]
        /\ e.op = "NotifyAvailable" /\ e.av \in Concrete =>
              payload'[e.av] = payload[e.av] \/ payload'[e.av] = Stored(e.s)
    BY <1>3, <2>1, <2>2 DEF Keeps
  <2>5. Fact(e)'
    BY <2>3, <2>4, FactStable
  <2>6. CASE H(t) = b + 1
    <3>1. e.op \notin {"store", "AddRef"}
      BY <2>1, <2>2, <2>3, <2>6 DEF Shape
    <3>2. e.op = "NotifyAvailable" /\ H(t) = k + 1 /\ At(t, k + 1) = EStore(e.av, e.s) =>
            payload'[e.av] = Stored(e.s)
      <4>1. SUFFICES ASSUME e.op = "NotifyAvailable", H(t) = k + 1, At(t, k + 1) = EStore(e.av, e.s)
                     PROVE  payload'[e.av] = Stored(e.s)
        OBVIOUS
      <4>2. At(t, H(t)).op = "store" /\ k = b
        BY <2>6, <4>1, Table
      <4>3. PICK v, s : At(t, b) = ENotify(v, s) /\ payload'[v] = Stored(s)
        BY <2>6, <4>2
      <4> QED
        BY <2>2, <4>2, <4>3, Table
    <3> QED
      BY <1>3, <2>2, <2>3, <2>4, <2>5, <3>1, <3>2 DEF Shape
  <2> QED
    BY <2>1, <2>6
<1>4. CASE u = t /\ k > b
  <2> DEFINE j == b + Len(es) - k + 1
  <2>1. k \in b + 1..b + Len(es) /\ j \in 1..Len(es) /\ b + Len(es) - j + 1 = k
    BY <1>0, <1>4 DEF Becomes
  <2>2. At(t, k)' = es[j]
    BY <2>1, BecomesAt
  <2> QED
    BY <1>4, <2>1, <2>2
<1> QED
  BY <1>2, <1>3, <1>4 DEF Becomes

\* Facts, for a step that neither ends nor begins with a store or an AddRef.
LEMMA FactsStep ==
    ASSUME stack \in [Threads -> Seq(Entries)], Facts, Stable, NEW t \in Threads, NEW b \in Nat,
           NEW es \in Seq(Entries), Becomes(t, b, es), Keeps(t, b),
           (H(t) = 0 /\ b = 0) \/ (H(t) = b + 1 /\ At(t, H(t)).op # "store"),
           \A j \in 1..Len(es) :
              /\ es[j].op \notin {"store", "AddRef"}
              /\ Fact(es[j])'
              /\ es[j].op = "NotifyAvailable" /\ es[j].av \in Concrete =>
                    payload'[es[j].av] = Stored(es[j].s)
    PROVE  Facts'
<1>1. ASSUME NEW j \in 1..Len(es)
      PROVE  Shape(t, b + Len(es) - j + 1)'
  <2>1. At(t, b + Len(es) - j + 1)' = es[j]
    BY BecomesAt
  <2>2. PICK k : k = b + Len(es) - j + 1
    OBVIOUS
  <2>3. Shape(t, k)'
    BY <2>1, <2>2 DEF Shape
  <2> QED
    BY <2>2, <2>3
<1>2. /\ (H(t) = 0 /\ b = 0) \/ H(t) = b + 1
      /\ H(t) = b + 1 /\ At(t, H(t)).op = "store" =>
            \E v, s : b > 0 /\ At(t, b) = ENotify(v, s) /\ payload'[v] = Stored(s)
      /\ \A j \in 1..Len(es) : Fact(es[j])' /\ Shape(t, b + Len(es) - j + 1)'
  BY <1>1
<1> QED
  BY <1>2, FactsShape

\* The number of references that calls have, from who gives one up and who gets one.
LEMMA CallsCount ==
    ASSUME stack \in [Threads -> Seq(Entries)], stack' \in [Threads -> Seq(Entries)],
           NEW t \in Threads, NEW b \in Nat, H(t) \in {b, b + 1}, b <= H(t)',
           NEW v, IsFiniteSet(ByCalls(v)),
           \A u \in Threads \ {t} : H(u)' = H(u) /\ \A k \in 1..H(u) : Own(u, k)' = Own(u, k),
           \A k \in 1..b : Own(t, k)' = Own(t, k),
           \A j, k \in b + 1..H(t)' : v \in Own(t, j)' /\ v \in Own(t, k)' => j = k
    PROVE  /\ IsFiniteSet(ByCalls(v)')
           /\ Cardinality(ByCalls(v)') =
                Cardinality(ByCalls(v)) - (IF H(t) = b + 1 /\ v \in Own(t, b + 1) THEN 1 ELSE 0)
                  + (IF \E k \in b + 1..H(t)' : v \in Own(t, k)' THEN 1 ELSE 0)
<1> DEFINE S == ByCalls(v)
           old == IF H(t) = b + 1 /\ v \in Own(t, b + 1) THEN {<<t, b + 1>>} ELSE {}
           T == S \ old
<1>1. \A u \in Threads : H(u) \in Nat /\ H(u)' \in Nat
  BY DEF H
<1>2. old \subseteq S
  BY <1>1 DEF ByCalls
<1>3. /\ IsFiniteSet(T)
      /\ Cardinality(T) = Cardinality(S) - (IF H(t) = b + 1 /\ v \in Own(t, b + 1) THEN 1 ELSE 0)
  <2>1. CASE H(t) = b + 1 /\ v \in Own(t, b + 1)
    <3>1. old = {<<t, b + 1>>} /\ <<t, b + 1>> \in S
      BY <1>2, <2>1
    <3>2. T = S \ {<<t, b + 1>>}
      BY <3>1
    <3>3. IsFiniteSet(S)
      OBVIOUS
    <3> HIDE DEF S, T, old
    <3>4. IsFiniteSet(S \ {<<t, b + 1>>}) /\ Cardinality(S \ {<<t, b + 1>>}) = Cardinality(S) - 1
      BY <3>1, <3>3, FS_RemoveElement
    <3> QED
      BY <2>1, <3>2, <3>4
  <2>2. CASE ~(H(t) = b + 1 /\ v \in Own(t, b + 1))
    <3>1. T = S
      BY <2>2
    <3>2. Cardinality(S) \in Nat
      BY FS_CardinalityType
    <3> HIDE DEF S, T
    <3> QED
      BY <2>2, <3>1, <3>2 DEF S
  <2> QED
    BY <2>1, <2>2
<1>4. ASSUME NEW p \in Threads \X Nat, p[1] # t \/ p[2] <= b
      PROVE  p \in ByCalls(v)' <=> p \in T
  <2>1. PICK u \in Threads, k \in Nat : p = <<u, k>>
    OBVIOUS
  <2>2. p \notin old
    BY <1>4, <2>1
  <2>3. p \in S <=> k \in 1..H(u) /\ v \in Own(u, k)
    BY <2>1 DEF ByCalls
  <2>4. p \in ByCalls(v)' <=> k \in 1..H(u)' /\ v \in Own(u, k)'
    BY <2>1 DEF ByCalls
  <2>5. CASE u # t
    BY <2>2, <2>3, <2>4, <2>5
  <2>6. CASE u = t
    <3>1. k \in 1..H(u) <=> k \in 1..H(u)'
      BY <1>1, <1>4, <2>1, <2>6
    <3>2. k \in 1..H(u) => Own(u, k)' = Own(u, k)
      BY <1>4, <2>1, <2>6
    <3> QED
      BY <2>2, <2>3, <2>4, <3>1, <3>2
  <2> QED
    BY <2>5, <2>6
<1>5. \A p \in T : p \in Threads \X Nat /\ (p[1] # t \/ p[2] <= b)
  <2> SUFFICES ASSUME NEW p \in T
               PROVE  p \in Threads \X Nat /\ (p[1] # t \/ p[2] <= b)
    OBVIOUS
  <2>1. PICK u \in Threads, k \in Nat : p = <<u, k>> /\ k \in 1..H(u) /\ v \in Own(u, k)
    BY DEF ByCalls
  <2>2. u = t => k # b + 1
    BY <2>1
  <2> QED
    BY <1>1, <2>1, <2>2
<1>6. CASE \E k \in b + 1..H(t)' : v \in Own(t, k)'
  <2>1. PICK k \in b + 1..H(t)' : v \in Own(t, k)'
    BY <1>6
  <2> DEFINE q == <<t, k>>
  <2>2. q \notin T /\ k \in Nat /\ k > b
    <3>1. k \in Nat /\ k > b
      BY <1>1, <2>1
    <3>2. q[1] = t /\ q[2] = k
      OBVIOUS
    <3> HIDE DEF q, T
    <3> QED
      BY <1>5, <3>1, <3>2
  <2>3. ByCalls(v)' = T \cup {q}
    <3>1. q \in ByCalls(v)'
      BY <1>1, <2>1, <2>2 DEF ByCalls
    <3>2. ASSUME NEW p \in ByCalls(v)', p \notin T
          PROVE  p = q
      <4>1. PICK u \in Threads, j \in Nat : p = <<u, j>> /\ j \in 1..H(u)' /\ v \in Own(u, j)'
        BY <3>2 DEF ByCalls
      <4>2. u = t /\ j > b
        <5>1. p \in Threads \X Nat /\ p[1] = u /\ p[2] = j
          BY <4>1
        <5> HIDE DEF T
        <5>2. ~(p[1] # t \/ p[2] <= b)
          BY <1>4, <3>2, <5>1
        <5> QED
          BY <4>1, <5>1, <5>2
      <4>3. j \in b + 1..H(t)'
        BY <1>1, <4>1, <4>2
      <4> QED
        BY <2>1, <4>1, <4>2, <4>3
    <3>3. T \subseteq ByCalls(v)'
      BY <1>4, <1>5
    <3> HIDE DEF T, q
    <3> QED
      BY <3>1, <3>2, <3>3
  <2> HIDE DEF T, q, S
  <2>4. IsFiniteSet(T \cup {q}) /\ Cardinality(T \cup {q}) = Cardinality(T) + 1
    BY <1>3, <2>2, FS_AddElement
  <2> QED
    BY <1>3, <1>6, <2>3, <2>4 DEF S
<1>7. CASE ~\E k \in b + 1..H(t)' : v \in Own(t, k)'
  <2>1. ByCalls(v)' = T
    <3>1. ASSUME NEW p \in ByCalls(v)'
          PROVE  p \in T
      <4>1. PICK u \in Threads, j \in Nat : p = <<u, j>> /\ j \in 1..H(u)' /\ v \in Own(u, j)'
        BY <3>1 DEF ByCalls
      <4>2. u # t \/ j <= b
        BY <1>1, <1>7, <4>1
      <4> QED
        BY <1>4, <3>1, <4>1, <4>2
    <3>2. T \subseteq ByCalls(v)'
      BY <1>4, <1>5
    <3> HIDE DEF T
    <3> QED
      BY <3>1, <3>2
  <2>2. Cardinality(T) \in Nat
    BY <1>3, FS_CardinalityType
  <2> HIDE DEF T, S
  <2> QED
    BY <1>3, <1>7, <2>1, <2>2 DEF S
<1> QED
  BY <1>6, <1>7

\* The number of references that calls have after a step without AddRef.
LEMMA CallsStep ==
    ASSUME stack \in [Threads -> Seq(Entries)], Facts, NEW t \in Threads, NEW b \in Nat,
           NEW es \in Seq(Entries), Becomes(t, b, es),
           (H(t) = 0 /\ b = 0) \/ (H(t) = b + 1 /\ At(t, H(t)).op # "AddRef"),
           \A j \in 1..Len(es) : es[j].op # "AddRef",
           NEW v, IsFiniteSet(ByCalls(v)),
           \A i, j \in 1..Len(es) : v \in Owns(es[i]) /\ v \in Owns(es[j]) => i = j
    PROVE  /\ IsFiniteSet(ByCalls(v)')
           /\ Cardinality(ByCalls(v)') =
                Cardinality(ByCalls(v))
                  - (IF H(t) = b + 1 /\ v \in Owns(At(t, H(t))) THEN 1 ELSE 0)
                  + (IF \E j \in 1..Len(es) : v \in Owns(es[j]) THEN 1 ELSE 0)
<1>1. /\ Len(es) \in Nat /\ H(t)' = b + Len(es) /\ stack' \in [Threads -> Seq(Entries)]
      /\ \A k \in 1..b : At(t, k)' = At(t, k)
      /\ \A k \in b + 1..b + Len(es) : At(t, k)' = es[b + Len(es) - k + 1]
  <2>1. Len(es) \in Nat /\ H(t)' = b + Len(es) /\ stack' \in [Threads -> Seq(Entries)]
    BY DEF Becomes
  <2> QED
    BY <2>1, BecomesAt
<1>2. ASSUME NEW u \in Threads \ {t}
      PROVE  H(u)' = H(u) /\ \A k \in 1..H(u) : Own(u, k)' = Own(u, k)
  <2>1. H(u)' = H(u) /\ H(u) \in Nat /\ \A k \in 1..H(u) : At(u, k)' = At(u, k)
    BY StackTypes DEF Becomes
  <2>2. ASSUME NEW k \in 1..H(u)
        PROVE  Own(u, k)' = Own(u, k)
    <3>1. H(u) = k + 2 => At(u, k + 2)' = At(u, k + 2)
      BY <2>1
    <3> QED
      BY <2>1, <3>1 DEF Own
  <2> QED
    BY <2>1, <2>2
<1>3. \A k \in 1..b + Len(es) : b + Len(es) = k + 2 => At(t, k + 2)'.op # "AddRef"
  <2> SUFFICES ASSUME NEW k \in 1..b + Len(es), b + Len(es) = k + 2
               PROVE  At(t, k + 2)'.op # "AddRef"
    OBVIOUS
  <2>1. CASE Len(es) = 0
    <3>1. At(t, k + 2)' = At(t, k + 2) /\ H(t) = b + 1 /\ k + 2 \in 1..H(t) /\ k + 2 < H(t)
      BY <1>1, <2>1
    <3>2. Shape(t, k + 2)
      BY <3>1 DEF Facts
    <3> QED
      BY <3>1, <3>2 DEF Shape
  <2>2. CASE Len(es) > 0
    <3>1. k + 2 \in b + 1..b + Len(es) /\ b + Len(es) - (k + 2) + 1 = 1
      BY <1>1, <2>2
    <3>2. At(t, k + 2)' = es[1] /\ 1 \in 1..Len(es)
      BY <1>1, <2>2, <3>1
    <3> QED
      BY <3>2
  <2> QED
    BY <1>1, <2>1, <2>2
<1>4. ASSUME NEW k \in 1..b
      PROVE  Own(t, k)' = Own(t, k)
  <2>1. k \in 1..b + Len(es) /\ H(t) = b + 1
    BY <1>1
  <2>2. ~(H(t) = k + 2 /\ At(t, k + 2).op = "AddRef")
    BY <2>1
  <2>3. ~(H(t)' = k + 2 /\ At(t, k + 2)'.op = "AddRef")
    BY <1>1, <1>3, <2>1
  <2> QED
    BY <1>1, <2>2, <2>3 DEF Own
<1>5. ASSUME NEW k \in b + 1..b + Len(es)
      PROVE  Own(t, k)' = Owns(es[b + Len(es) - k + 1])
  <2>1. k \in 1..b + Len(es)
    BY <1>1
  <2>2. ~(H(t)' = k + 2 /\ At(t, k + 2)'.op = "AddRef")
    BY <1>1, <1>3, <2>1
  <2> QED
    BY <1>1, <2>2 DEF Own
<1>6. ASSUME NEW j \in b + 1..H(t)', NEW k \in b + 1..H(t)', v \in Own(t, j)', v \in Own(t, k)'
      PROVE  j = k
  <2>1. j \in b + 1..b + Len(es) /\ k \in b + 1..b + Len(es)
    BY <1>1, <1>6
  <2>2. b + Len(es) - j + 1 \in 1..Len(es) /\ b + Len(es) - k + 1 \in 1..Len(es)
    BY <1>1, <2>1
  <2>3. b + Len(es) - j + 1 = b + Len(es) - k + 1
    BY <1>5, <1>6, <2>1, <2>2
  <2> QED
    BY <1>1, <2>1, <2>3
<1>7. H(t) = b + 1 => Own(t, b + 1) = Owns(At(t, H(t)))
  <2>1. H(t) = b + 1 => H(t) # b + 1 + 2
    OBVIOUS
  <2> QED
    BY <2>1 DEF Own
<1>8. (\E k \in b + 1..H(t)' : v \in Own(t, k)') <=> \E j \in 1..Len(es) : v \in Owns(es[j])
  <2>1. ASSUME NEW k \in b + 1..H(t)', v \in Own(t, k)'
        PROVE  \E j \in 1..Len(es) : v \in Owns(es[j])
    <3>1. b + Len(es) - k + 1 \in 1..Len(es) /\ k \in b + 1..b + Len(es)
      BY <1>1, <2>1
    <3> QED
      BY <1>5, <2>1, <3>1
  <2>2. ASSUME NEW j \in 1..Len(es), v \in Owns(es[j])
        PROVE  \E k \in b + 1..H(t)' : v \in Own(t, k)'
    <3> DEFINE k == b + Len(es) - j + 1
    <3>1. k \in b + 1..H(t)' /\ k \in b + 1..b + Len(es) /\ b + Len(es) - k + 1 = j
      BY <1>1, <2>2
    <3>2. v \in Own(t, k)'
      BY <1>5, <2>2, <3>1
    <3> QED
      BY <3>1, <3>2
  <2> QED
    BY <2>1, <2>2
<1>9. b <= H(t)' /\ H(t) \in {b, b + 1}
  BY <1>1
<1> QED
  BY <1>1, <1>2, <1>4, <1>6, <1>7, <1>8, <1>9, CallsCount

-----------------------------------------------------------------------------
(* References.                                                              *)

\* A finite set with an element is counted.
LEMMA NonEmptyCount ==
    ASSUME NEW S, IsFiniteSet(S)
    PROVE  /\ Cardinality(S) \in Nat
           /\ \A x \in S : Cardinality(S) > 0
           /\ \A x, y \in S : x # y => Cardinality(S) > 1
           /\ S = {} => Cardinality(S) = 0
<1>1. Cardinality(S) \in Nat
  BY FS_CardinalityType
<1>2. Cardinality(S) = 0 <=> S = {}
  BY FS_EmptySet
<1>3. ASSUME NEW x \in S, NEW y \in S, x # y
      PROVE  Cardinality(S) > 1
  <2>1. IsFiniteSet(S \ {x}) /\ Cardinality(S \ {x}) = Cardinality(S) - 1
    BY FS_RemoveElement
  <2>2. S \ {x} # {}
    BY <1>3
  <2>3. Cardinality(S \ {x}) # 0 /\ Cardinality(S \ {x}) \in Nat
    BY <2>1, <2>2, FS_EmptySet, FS_CardinalityType
  <2> QED
    BY <1>1, <2>1, <2>3
<1> QED
  BY <1>1, <1>2, <1>3

\* Who has a reference keeps the value alive.
LEMMA Referenced ==
    ASSUME NEW loc, Counts(loc), NEW v \in Values,
           \/ \E t \in Threads : v \in holds[t]
           \/ \E t \in Threads : \E k \in 1..H(t) : k \in Nat /\ v \in Own(t, k)
           \/ \E n \in Nodes, r \in Nat : v \in NodeOwns(n) /\ loc[NodeDuty(n)] = Ranked(n, r)
           \/ \E i \in Indirect : value[i] = v
    PROVE  refcount[v] \in Nat /\ refcount[v] > 0 /\ v \notin freed
<1>1. /\ IsFiniteSet(ByThreads(v)) /\ IsFiniteSet(ByCalls(v))
      /\ IsFiniteSet(ByNodes(loc, v)) /\ IsFiniteSet(ByValues(v))
      /\ refcount[v] = Cardinality(ByThreads(v)) + Cardinality(ByCalls(v))
                         + Cardinality(ByNodes(loc, v)) + Cardinality(ByValues(v))
      /\ v \in freed <=> refcount[v] = 0
  BY DEF Counts
<1>2. /\ Cardinality(ByThreads(v)) \in Nat /\ Cardinality(ByCalls(v)) \in Nat
      /\ Cardinality(ByNodes(loc, v)) \in Nat /\ Cardinality(ByValues(v)) \in Nat
  BY <1>1, NonEmptyCount
<1>3. \/ ByThreads(v) # {} \/ ByCalls(v) # {} \/ ByNodes(loc, v) # {} \/ ByValues(v) # {}
  <2>1. ASSUME NEW t \in Threads, NEW k \in 1..H(t), k \in Nat, v \in Own(t, k)
        PROVE  ByCalls(v) # {}
    <3>1. <<t, k>> \in ByCalls(v)
      BY <2>1 DEF ByCalls
    <3> QED
      BY <3>1
  <2>2. (\E t \in Threads : v \in holds[t]) => ByThreads(v) # {}
    BY DEF ByThreads
  <2>3. (\E n \in Nodes, r \in Nat : v \in NodeOwns(n) /\ loc[NodeDuty(n)] = Ranked(n, r))
          => ByNodes(loc, v) # {}
    BY DEF ByNodes
  <2>4. (\E i \in Indirect : value[i] = v) => ByValues(v) # {}
    BY DEF ByValues
  <2> QED
    BY <2>1, <2>2, <2>3, <2>4
<1>4. \/ Cardinality(ByThreads(v)) > 0 \/ Cardinality(ByCalls(v)) > 0
      \/ Cardinality(ByNodes(loc, v)) > 0 \/ Cardinality(ByValues(v)) > 0
  BY <1>1, <1>3, NonEmptyCount
<1> QED
  BY <1>1, <1>2, <1>4

\* The last reference is the only one.
LEMMA OnlyReference ==
    ASSUME NEW loc, Counts(loc), NEW v \in Values, refcount[v] = 1,
           NEW t \in Threads, NEW k \in 1..H(t), k \in Nat, v \in Own(t, k)
    PROVE  /\ \A u \in Threads : v \notin holds[u]
           /\ \A u \in Threads : \A j \in 1..H(u) :
                 j \in Nat /\ v \in Own(u, j) => u = t /\ j = k
           /\ \A i \in Indirect : value[i] # v
<1>1. /\ IsFiniteSet(ByThreads(v)) /\ IsFiniteSet(ByCalls(v))
      /\ IsFiniteSet(ByNodes(loc, v)) /\ IsFiniteSet(ByValues(v))
      /\ refcount[v] = Cardinality(ByThreads(v)) + Cardinality(ByCalls(v))
                         + Cardinality(ByNodes(loc, v)) + Cardinality(ByValues(v))
  BY DEF Counts
<1>2. /\ Cardinality(ByThreads(v)) \in Nat /\ Cardinality(ByCalls(v)) \in Nat
      /\ Cardinality(ByNodes(loc, v)) \in Nat /\ Cardinality(ByValues(v)) \in Nat
  BY <1>1, NonEmptyCount
<1>3. <<t, k>> \in ByCalls(v)
  BY DEF ByCalls
<1>4. Cardinality(ByCalls(v)) > 0
  BY <1>1, <1>3, NonEmptyCount
<1>5. Cardinality(ByThreads(v)) = 0 /\ Cardinality(ByValues(v)) = 0 /\ Cardinality(ByCalls(v)) = 1
  BY <1>1, <1>2, <1>4
<1>6. \A u \in Threads : v \notin holds[u]
  <2>1. \A u \in ByThreads(v) : FALSE
    BY <1>1, <1>5, NonEmptyCount
  <2> QED
    BY <2>1 DEF ByThreads
<1>7. \A i \in Indirect : value[i] # v
  <2>1. \A i \in ByValues(v) : FALSE
    BY <1>1, <1>5, NonEmptyCount
  <2> QED
    BY <2>1 DEF ByValues
<1>8. ASSUME NEW u \in Threads, NEW j \in 1..H(u), j \in Nat, v \in Own(u, j)
      PROVE  u = t /\ j = k
  <2>1. <<u, j>> \in ByCalls(v)
    BY <1>8 DEF ByCalls
  <2>2. ~(<<u, j>> # <<t, k>>)
    BY <1>1, <1>3, <1>5, <2>1, NonEmptyCount
  <2> QED
    BY <2>2
<1> QED
  BY <1>6, <1>7, <1>8

\* What a pending call uses is alive, and its protection is someone's reference.
LEMMA GuardsAlive ==
    ASSUME stack \in [Threads -> Seq(Entries)], holds \in [Threads -> SUBSET Values],
           NEW loc, Counts(loc), Guarded,
           NEW t \in Threads, NEW k \in 1..H(t), NEW v \in Guards(At(t, k))
    PROVE  /\ v \in Values /\ v \notin freed /\ refcount[v] \in Nat /\ refcount[v] > 0
           /\ v \in holds[t] \/ \E j \in 1..k - 1 : j \in Nat /\ j \in 1..H(t) /\ v \in Own(t, j)
<1>1. Protected(t, k, v)
  BY DEF Guarded
<1>2. H(t) \in Nat /\ \A j \in 1..H(t) : At(t, j) \in Entries
  BY StackTypes
<1>3. ASSUME NEW j \in 1..k - 1, At(t, j) = Drop(v)
      PROVE  v \in Values /\ j \in 1..H(t) /\ j \in Nat /\ v \in Own(t, j)
  <2>1. j \in 1..H(t) /\ j \in Nat
    BY <1>2, <1>3
  <2>2. At(t, j) \in Entries /\ At(t, j).op = "DropRef" /\ At(t, j).av = v
    BY <1>2, <1>3, <2>1, Table
  <2>3. v \in Values
    BY <2>2, EntryForms, Table
  <2>4. Own(t, j) = Owns(Drop(v))
    BY <1>3, <2>2 DEF Own
  <2> QED
    BY <2>1, <2>3, <2>4, Table
<1>4. \/ v \in holds[t] /\ v \in Values
      \/ v \in Values /\ \E j \in 1..k - 1 : j \in Nat /\ j \in 1..H(t) /\ v \in Own(t, j)
  BY <1>1, <1>3 DEF Protected
<1> QED
  BY <1>4, Referenced

\* What a call that drops the last reference drops is used by nobody else.
LEMMA LastUse ==
    ASSUME stack \in [Threads -> Seq(Entries)], holds \in [Threads -> SUBSET Values],
           NEW loc, Counts(loc), Guarded, NEW v \in Values, refcount[v] = 1,
           NEW t \in Threads, H(t) > 0, At(t, H(t)) \in {Drop(v), ESub(v)}
    PROVE  /\ \A u \in Threads : \A k \in 1..H(u) : v \notin Guards(At(u, k))
           /\ \A u \in Threads : \A k \in 1..H(u) : At(u, k) = Drop(v) => u = t /\ k = H(t)
           /\ \A i \in Indirect : value[i] # v
<1>1. \A u \in Threads : H(u) \in Nat
  BY StackTypes
<1>2. H(t) \in 1..H(t) /\ H(t) \in Nat /\ v \in Own(t, H(t))
  <2>1. Owns(At(t, H(t))) = {v} /\ At(t, H(t)).op # "SetValue"
    BY Table
  <2> QED
    BY <1>1, <2>1 DEF Own
<1>3. /\ \A u \in Threads : v \notin holds[u]
      /\ \A u \in Threads : \A j \in 1..H(u) :
            j \in Nat /\ v \in Own(u, j) => u = t /\ j = H(t)
      /\ \A i \in Indirect : value[i] # v
  BY <1>2, OnlyReference
<1>4. ASSUME NEW u \in Threads, NEW k \in 1..H(u), At(u, k) = Drop(v)
      PROVE  u = t /\ k = H(t)
  <2>1. k \in Nat /\ Own(u, k) = {v}
    BY <1>1, <1>4, Table DEF Own
  <2> QED
    BY <1>3, <2>1
<1>5. ASSUME NEW u \in Threads, NEW k \in 1..H(u), v \in Guards(At(u, k))
      PROVE  FALSE
  <2>1. \E j \in 1..k - 1 : j \in Nat /\ j \in 1..H(u) /\ v \in Own(u, j)
    BY <1>3, <1>5, GuardsAlive
  <2>2. PICK j \in 1..k - 1 : j \in Nat /\ j \in 1..H(u) /\ v \in Own(u, j)
    BY <2>1
  <2>3. u = t /\ j = H(t)
    BY <1>3, <2>2
  <2> QED
    BY <1>1, <2>2, <2>3
<1> QED
  BY <1>3, <1>4, <1>5

-----------------------------------------------------------------------------
(* Steps that leave lists, contents and counters alone.                     *)

\* The nodes in lists stay where they are.
SameRanks(loc, loc2) ==
    \A n \in Nodes : \A m, r : loc2[NodeDuty(n)] = Ranked(m, r) <=> loc[NodeDuty(n)] = Ranked(m, r)

\* Places in lists have a tag of their own.
LEMMA RankTag == \A n, r : Ranked(n, r)[1] = "list"
BY DEF Ranked

\* Duties that move between stacks, and to their end, change no list.
LEMMA SameRanksIf ==
    ASSUME NEW loc, NEW loc2,
           \A d \in DutySet : loc2[d] = loc[d] \/ (loc[d][1] # "list" /\ loc2[d][1] # "list")
    PROVE  SameRanks(loc, loc2)
<1> SUFFICES ASSUME NEW n \in Nodes, NEW m, NEW r
             PROVE  loc2[NodeDuty(n)] = Ranked(m, r) <=> loc[NodeDuty(n)] = Ranked(m, r)
  BY DEF SameRanks
<1>1. NodeDuty(n) \in DutySet
  BY NodeValues
<1> QED
  BY <1>1, RankTag

\* The lists, after a step that changes none.
LEMMA ListsStep ==
    ASSUME stack \in [Threads -> Seq(Entries)], NEW loc, Located(loc), Lists(loc),
           NEW t \in Threads, NEW b \in Nat, NEW es \in Seq(Entries), Becomes(t, b, es),
           (H(t) = 0 /\ b = 0) \/ (H(t) = b + 1 /\ Duty(At(t, H(t)))[1] # "run"),
           NEW loc2, SameRanks(loc, loc2),
           \A v \in Values : loc2[<<"run", v>>] = loc[<<"run", v>>],
           UNCHANGED <<head, state>>,
           \A n \in Nodes, r \in Nat : loc[NodeDuty(n)] = Ranked(n, r) => next'[n] = next[n]
    PROVE  Lists(loc2)'
<1>1. \A n \in Nodes : \A m, r : loc2[NodeDuty(n)] = Ranked(m, r) <=> loc[NodeDuty(n)] = Ranked(m, r)
  BY DEF SameRanks
<1>2. ASSUME NEW v, NEW f, FirstOf(loc, v, f)
      PROVE  FirstOf(loc2, v, f)
  BY <1>1, <1>2 DEF FirstOf
<1>3. \A n \in Nodes : \A m, r : loc2[NodeDuty(n)] = Ranked(m, r) => r \in Nat \ {0}
  BY <1>1 DEF Lists
<1>4. \A n, m \in Nodes, r \in Nat :
          /\ loc2[NodeDuty(n)] = Ranked(n, r) /\ loc2[NodeDuty(m)] = Ranked(m, r)
          /\ n.av = m.av
          => n = m
  BY <1>1 DEF Lists
<1>5. ASSUME NEW n \in Nodes, NEW r \in Nat, loc2[NodeDuty(n)] = Ranked(n, r)
      PROVE  IF r = 1 THEN next'[n] = Nil
             ELSE /\ next'[n] \in Nodes /\ next'[n].av = n.av
                  /\ loc2[NodeDuty(next'[n])] = Ranked(next'[n], r - 1)
  <2>1. loc[NodeDuty(n)] = Ranked(n, r)
    BY <1>1, <1>5
  <2>2. /\ next'[n] = next[n]
        /\ IF r = 1 THEN next[n] = Nil
           ELSE /\ next[n] \in Nodes /\ next[n].av = n.av
                /\ loc[NodeDuty(next[n])] = Ranked(next[n], r - 1)
    BY <2>1 DEF Lists
  <2> QED
    BY <1>1, <2>2
<1>6. ASSUME NEW v \in Values
      PROVE  /\ ~Available(v)' => FirstOf(loc2, v, head'[v])
             /\ Available(v)' => head'[v] = Nil
             /\ Available(v)' /\ loc2[<<"run", v>>] = Over => FirstOf(loc2, v, Nil)
             /\ loc2[<<"run", v>>] # Over =>
                   /\ Available(v)'
                   /\ \E u \in Threads : \E k \in 1..H(u)' :
                         loc2[<<"run", v>>] = Place(u, k) /\ FirstOf(loc2, v, At(u, k)'.list)
  <2>1. /\ ~Available(v) => FirstOf(loc, v, head[v])
        /\ Available(v) => head[v] = Nil
        /\ Available(v) /\ loc[<<"run", v>>] = Over => FirstOf(loc, v, Nil)
        /\ loc[<<"run", v>>] # Over =>
              /\ Available(v)
              /\ \E u \in Threads : \E k \in 1..H(u) :
                    loc[<<"run", v>>] = Place(u, k) /\ FirstOf(loc, v, At(u, k).list)
    BY DEF Lists
  <2>2. Available(v)' <=> Available(v)
    BY DEF Available
  <2>3. loc2[<<"run", v>>] = loc[<<"run", v>>]
    OBVIOUS
  <2>4. ASSUME loc[<<"run", v>>] # Over
        PROVE  \E u \in Threads : \E k \in 1..H(u)' :
                  loc[<<"run", v>>] = Place(u, k) /\ FirstOf(loc2, v, At(u, k)'.list)
    <3>0. PICK u \in Threads : \E k \in 1..H(u) :
              loc[<<"run", v>>] = Place(u, k) /\ FirstOf(loc, v, At(u, k).list)
      BY <2>1, <2>4
    <3>1. PICK k \in 1..H(u) : loc[<<"run", v>>] = Place(u, k) /\ FirstOf(loc, v, At(u, k).list)
      BY <3>0
    <3>2. <<"run", v>> \in DutySet
      BY DEF DutySet
    <3>3. Duty(At(u, k)) = <<"run", v>>
      BY <3>1, <3>2 DEF Located
    <3>4. CASE u # t
      <4>1. k \in 1..H(u)' /\ At(u, k)' = At(u, k)
        BY <3>1, <3>4 DEF Becomes
      <4> QED
        BY <1>2, <3>1, <4>1
    <3>5. CASE u = t
      <4>1. k # H(t)
        BY <3>3, <3>5
      <4>2. k \in 1..b
        BY <3>1, <3>5, <4>1
      <4>3. At(u, k)' = At(u, k)
        BY <3>5, <4>2, BecomesAt
      <4>4. k \in 1..H(u)'
        BY <3>5, <4>2 DEF Becomes
      <4> QED
        BY <1>2, <3>1, <4>3, <4>4
    <3> QED
      BY <3>4, <3>5
  <2> QED
    BY <1>2, <2>1, <2>2, <2>3, <2>4
<1> HIDE DEF SameRanks
<1> QED
  BY <1>3, <1>4, <1>5, <1>6 DEF Lists, FirstOf

\* What values hold, after a step that publishes and destroys none and fills only one that
\* is being set.
LEMMA ContentsStep ==
    ASSUME stack \in [Threads -> Seq(Entries)], Contents,
           NEW t \in Threads, NEW b \in Nat, NEW es \in Seq(Entries), Becomes(t, b, es),
           (H(t) = 0 /\ b = 0) \/ (H(t) = b + 1 /\ At(t, H(t)).op # "NotifyAvailable"),
           UNCHANGED <<state, value, freed>>, produced \subseteq produced',
           \A v \in Concrete : payload'[v] = payload[v] \/ (~Available(v) /\ v \in produced)
    PROVE  Contents'
<1>1. \A v : Available(v)' <=> Available(v)
  BY DEF Available
<1>2. ASSUME NEW i \in Indirect, NEW u \in Threads, NEW k \in 1..H(u), NEW s \in Outcomes,
             At(u, k) = ENotify(i, s)
      PROVE  \E x \in Threads : \E j \in 1..H(x)' : \E z \in Outcomes : At(x, j)' = ENotify(i, z)
  <2>1. CASE u # t
    <3>1. k \in 1..H(u)' /\ At(u, k)' = At(u, k)
      BY <1>2, <2>1 DEF Becomes
    <3> QED
      BY <1>2, <3>1
  <2>2. CASE u = t
    <3>1. k # H(t)
      BY <1>2, <2>2, Table
    <3>2. k \in 1..b
      BY <1>2, <2>2, <3>1
    <3>3. At(u, k)' = At(u, k)
      BY <2>2, <3>2, BecomesAt
    <3>4. k \in 1..H(u)'
      BY <2>2, <3>2 DEF Becomes
    <3> QED
      BY <1>2, <3>3, <3>4
  <2> QED
    BY <2>1, <2>2
<1>3. ASSUME NEW i \in Indirect, value'[i] # Nil
      PROVE  \/ Available(i)'
             \/ \E x \in Threads : \E j \in 1..H(x)' : \E z \in Outcomes : At(x, j)' = ENotify(i, z)
  <2>1. \/ Available(i)
        \/ \E u \in Threads : \E k \in 1..H(u) : \E s \in Outcomes : At(u, k) = ENotify(i, s)
    BY <1>3 DEF Contents
  <2> QED
    BY <1>1, <1>2, <2>1
<1>4. /\ \A v \in Concrete : Available(v)' => payload'[v] = Stored(state'[v])
      /\ \A v \in Concrete \ produced' : Born[v] = "Unconstructed" \/ payload'[v] = "data"
      /\ \A i \in Indirect \ freed' :
            Available(i)' => value'[i] \in Concrete /\ state'[value'[i]] = state'[i]
      /\ \A i \in Indirect \cap freed' : value'[i] = Nil
  BY <1>1 DEF Contents
<1> QED
  BY <1>3, <1>4 DEF Contents, Stored

\* The count, after a step that counts nothing off.
LEMMA CountedStep ==
    ASSUME NEW loc, Counted(loc), NEW loc2, SameRanks(loc, loc2), Stable, counter' = counter,
           \A k \in Places : loc2[<<"count", k>>] = Over <=> loc[<<"count", k>>] = Over,
           loc2[<<"waiter", Callee>>] = Divided <=> loc[<<"waiter", Callee>>] = Divided
    PROVE  Counted(loc2)'
<1>1. Active(loc2) = Active(loc)
  BY DEF Active
<1>2. /\ \A k \in Places : Group[k] \in Values
      /\ \A v \in Values : Available(v) => Available(v)'
  BY KindsAssumption DEF Places, Stable, Available
<1>3. \A n \in Nodes : NodeFact(n) => NodeFact(n)'
  BY <1>2 DEF NodeFact
<1>4. \A n \in Nodes, r \in Nat : loc2[NodeDuty(n)] = Ranked(n, r) => NodeFact(n)'
  BY <1>3 DEF Counted, SameRanks
<1>5. Active(loc2)' = Active(loc2)
  BY DEF Active
<1> QED
  BY <1>1, <1>2, <1>4, <1>5 DEF Counted

\* The calls of a step may rely on what they rely on, and what they use is protected.
Backed(t, b, es) ==
    \A j \in 1..Len(es) :
        /\ es[j].op \notin {"store", "AddRef"}
        /\ Fact(es[j])'
        /\ es[j].op = "NotifyAvailable" /\ es[j].av \in Concrete =>
              payload'[es[j].av] = Stored(es[j].s)
        /\ \A v \in Guards(es[j]) :
              \/ v \in holds'[t]
              \/ \E i \in j + 1..Len(es) : es[i] = Drop(v)
              \/ H(t) = b + 1 /\ v \in Guards(At(t, H(t)))

\* What a step keeps that publishes, stores and destroys nothing and runs no list.
LEMMA QuietStep ==
    ASSUME NEW loc, Inv(loc), NEW t \in Threads, NEW b \in Nat, NEW es \in Seq(Entries),
           Becomes(t, b, es),
           \/ H(t) = 0 /\ b = 0 /\ \A u \in Threads \ {t} : holds'[u] = holds[u]
           \/ /\ H(t) = b + 1 /\ holds' = holds
              /\ At(t, H(t)).op \notin {"store", "AddRef", "NotifyAvailable"}
              /\ Duty(At(t, H(t)))[1] # "run",
           UNCHANGED <<state, head, payload, value, freed>>, produced \subseteq produced',
           \A n \in Nodes :
              next'[n] = next[n] \/ (H(t) = b + 1 /\ loc[NodeDuty(n)] = Place(t, b + 1)),
           NEW loc2,
           \A d \in DutySet : loc2[d] = loc[d] \/ (loc[d][1] # "list" /\ loc2[d][1] # "list"),
           \A v \in Values : loc2[<<"run", v>>] = loc[<<"run", v>>],
           Backed(t, b, es)
    PROVE  SameRanks(loc, loc2) /\ Lists(loc2)' /\ Guarded' /\ Facts' /\ Contents'
<1> USE DEF Backed
<1>1. /\ stack \in [Threads -> Seq(Entries)] /\ Located(loc) /\ Lists(loc) /\ Guarded /\ Facts
      /\ Contents
  BY DEF Inv, Types
<1>2. SameRanks(loc, loc2)
  BY SameRanksIf
<1>3. \A n \in Nodes, r \in Nat : loc[NodeDuty(n)] = Ranked(n, r) => next'[n] = next[n]
  BY PlaceTag, RankTag
<1>4. Lists(loc2)'
  <2>1. (H(t) = 0 /\ b = 0) \/ (H(t) = b + 1 /\ Duty(At(t, H(t)))[1] # "run")
    OBVIOUS
  <2>2. UNCHANGED <<head, state>>
    OBVIOUS
  <2> QED
    BY <1>1, <1>2, <1>3, <2>1, <2>2, ListsStep
<1>5. Guarded'
  <2>1. \/ H(t) = b + 1 /\ holds' = holds
        \/ H(t) = 0 /\ b = 0 /\ \A u \in Threads \ {t} : holds'[u] = holds[u]
    OBVIOUS
  <2> QED
    BY <1>1, <2>1, GuardedStep
<1>6. Contents'
  <2>1. (H(t) = 0 /\ b = 0) \/ (H(t) = b + 1 /\ At(t, H(t)).op # "NotifyAvailable")
    OBVIOUS
  <2>2. UNCHANGED <<state, payload, value, freed>>
    OBVIOUS
  <2> QED
    BY <1>1, <2>1, <2>2, ContentsStep
<1>7. Stable
  BY DEF Stable
<1>8. Keeps(t, b)
  <2> SUFFICES ASSUME NEW u \in Threads, NEW k \in 1..H(u), u # t \/ k <= b,
                      At(u, k).op = "compare_exchange"
               PROVE  next'[At(u, k).node] = next[At(u, k).node]
    BY DEF Keeps
  <2>1. At(u, k) \in Entries
    BY <1>1, StackTypes
  <2>2. At(u, k).node \in Nodes /\ Duty(At(u, k)) = NodeDuty(At(u, k).node)
    BY <2>1, EntryForms, Table
  <2>3. NodeDuty(At(u, k).node) # NoDuty
    <3>1. NodeDuty(At(u, k).node) \in DutySet
      BY <2>2, NodeValues
    <3> QED
      BY <3>1 DEF DutySet, NoDuty
  <2>4. loc[NodeDuty(At(u, k).node)] = Place(u, k)
    BY <1>1, <2>2, <2>3 DEF Located
  <2>5. Place(u, k) # Place(t, b + 1)
    BY DEF Place
  <2> QED
    BY <2>2, <2>4, <2>5
<1>9. Facts'
  <2>1. (H(t) = 0 /\ b = 0) \/ (H(t) = b + 1 /\ At(t, H(t)).op \notin {"store", "AddRef"})
    OBVIOUS
  <2>2. \A j \in 1..Len(es) :
              /\ es[j].op \notin {"store", "AddRef"}
              /\ Fact(es[j])'
              /\ es[j].op = "NotifyAvailable" /\ es[j].av \in Concrete =>
                    payload'[es[j].av] = Stored(es[j].s)
    OBVIOUS
  <2> QED
    BY <1>1, <1>7, <1>8, <2>1, <2>2, FactsStep
<1> QED
  BY <1>2, <1>4, <1>5, <1>6, <1>9

\* The step changes the count of v by the references that the thread and the replaced entry
\* give up and its calls get.
Accounts(t, b, es, gone, v) ==
    /\ \A i, j \in 1..Len(es) : v \in Owns(es[i]) /\ v \in Owns(es[j]) => i = j
    /\ refcount'[v] = refcount[v] - (IF v = gone THEN 1 ELSE 0)
                        - (IF H(t) = b + 1 /\ v \in Owns(At(t, H(t))) THEN 1 ELSE 0)
                        + (IF \E j \in 1..Len(es) : v \in Owns(es[j]) THEN 1 ELSE 0)
    /\ refcount'[v] = 0 <=> refcount[v] = 0

\* The references, after a step of t without AddRef in which t may give one up to its calls.
LEMMA CountsStep ==
    ASSUME NEW loc, Inv(loc), NEW t \in Threads, NEW b \in Nat, NEW es \in Seq(Entries),
           Becomes(t, b, es),
           (H(t) = 0 /\ b = 0) \/ (H(t) = b + 1 /\ At(t, H(t)).op # "AddRef"),
           \A j \in 1..Len(es) : es[j].op # "AddRef",
           NEW loc2, SameRanks(loc, loc2), UNCHANGED <<value, freed>>, NEW gone,
           \/ gone = Nil /\ holds' = holds
           \/ gone \in holds[t] /\ holds' = [holds EXCEPT ![t] = @ \ {gone}],
           \A v \in Values : Accounts(t, b, es, gone, v)
    PROVE  Counts(loc2)'
<1> USE DEF Accounts
<1>0. /\ stack \in [Threads -> Seq(Entries)] /\ Facts /\ Counts(loc)
      /\ holds \in [Threads -> SUBSET Values] /\ refcount \in [Values -> Nat]
  BY DEF Inv, Types
<1> SUFFICES ASSUME NEW v \in Values
             PROVE  /\ IsFiniteSet(ByThreads(v)') /\ IsFiniteSet(ByCalls(v)')
                    /\ IsFiniteSet(ByNodes(loc2, v)') /\ IsFiniteSet(ByValues(v)')
                    /\ refcount'[v] = Cardinality(ByThreads(v)') + Cardinality(ByCalls(v)')
                           + Cardinality(ByNodes(loc2, v)') + Cardinality(ByValues(v)')
                    /\ v \in freed' <=> refcount'[v] = 0
  BY DEF Counts
<1>1. /\ IsFiniteSet(ByThreads(v)) /\ IsFiniteSet(ByCalls(v))
      /\ IsFiniteSet(ByNodes(loc, v)) /\ IsFiniteSet(ByValues(v))
      /\ refcount[v] = Cardinality(ByThreads(v)) + Cardinality(ByCalls(v))
                         + Cardinality(ByNodes(loc, v)) + Cardinality(ByValues(v))
      /\ v \in freed <=> refcount[v] = 0
  BY <1>0 DEF Counts
<1>2. ByNodes(loc2, v)' = ByNodes(loc, v) /\ ByValues(v)' = ByValues(v)
  <2>1. ByNodes(loc2, v)' = ByNodes(loc2, v)
    BY DEF ByNodes
  <2>2. \A n \in Nodes : \A r \in Nat :
          loc2[NodeDuty(n)] = Ranked(n, r) <=> loc[NodeDuty(n)] = Ranked(n, r)
    BY DEF SameRanks
  <2>3. ByNodes(loc2, v) = ByNodes(loc, v)
    BY <2>2 DEF ByNodes
  <2> QED
    BY <2>1, <2>3 DEF ByValues
<1>3. /\ IsFiniteSet(ByThreads(v)')
      /\ Cardinality(ByThreads(v)') = Cardinality(ByThreads(v)) - (IF v = gone THEN 1 ELSE 0)
  <2>1. CASE v = gone
    <3>1. gone \in holds[t] /\ holds' = [holds EXCEPT ![t] = @ \ {gone}]
      BY <2>1, NilAssumption
    <3>2. t \in ByThreads(v) /\ ByThreads(v)' = ByThreads(v) \ {t}
      BY <1>0, <2>1, <3>1 DEF ByThreads
    <3> QED
      BY <1>1, <2>1, <3>2, FS_RemoveElement
  <2>2. CASE v # gone
    <3>1. ByThreads(v)' = ByThreads(v)
      BY <1>0, <2>2 DEF ByThreads
    <3>2. Cardinality(ByThreads(v)) \in Nat
      BY <1>1, FS_CardinalityType
    <3> QED
      BY <1>1, <2>2, <3>1, <3>2
  <2> QED
    BY <2>1, <2>2
<1>4. /\ IsFiniteSet(ByCalls(v)')
      /\ Cardinality(ByCalls(v)') =
            Cardinality(ByCalls(v))
              - (IF H(t) = b + 1 /\ v \in Owns(At(t, H(t))) THEN 1 ELSE 0)
              + (IF \E j \in 1..Len(es) : v \in Owns(es[j]) THEN 1 ELSE 0)
  <2>1. \A i, j \in 1..Len(es) : v \in Owns(es[i]) /\ v \in Owns(es[j]) => i = j
    OBVIOUS
  <2> QED
    BY ONLY <1>0, <1>1, <2>1, CallsStep, t \in Threads, b \in Nat, es \in Seq(Entries),
        Becomes(t, b, es), \A j \in 1..Len(es) : es[j].op # "AddRef",
        (H(t) = 0 /\ b = 0) \/ (H(t) = b + 1 /\ At(t, H(t)).op # "AddRef")
<1>5. /\ Cardinality(ByThreads(v)) \in Nat /\ Cardinality(ByCalls(v)) \in Nat
      /\ Cardinality(ByNodes(loc, v)) \in Nat /\ Cardinality(ByValues(v)) \in Nat
  BY <1>1, FS_CardinalityType
<1>6. refcount'[v] = Cardinality(ByThreads(v)') + Cardinality(ByCalls(v)')
                           + Cardinality(ByNodes(loc2, v)') + Cardinality(ByValues(v)')
  <2> DEFINE g == IF v = gone THEN 1 ELSE 0
             o == IF H(t) = b + 1 /\ v \in Owns(At(t, H(t))) THEN 1 ELSE 0
             n == IF \E j \in 1..Len(es) : v \in Owns(es[j]) THEN 1 ELSE 0
  <2>1. g \in Int /\ o \in Int /\ n \in Int
    OBVIOUS
  <2>2. /\ refcount'[v] = refcount[v] - g - o + n
        /\ Cardinality(ByThreads(v)') = Cardinality(ByThreads(v)) - g
        /\ Cardinality(ByCalls(v)') = Cardinality(ByCalls(v)) - o + n
    BY <1>3, <1>4, Zenon
  <2> HIDE DEF g, o, n
  <2>3. /\ Cardinality(ByNodes(loc2, v)') = Cardinality(ByNodes(loc, v))
        /\ Cardinality(ByValues(v)') = Cardinality(ByValues(v))
    BY <1>2, Zenon
  <2> QED
    BY <1>1, <1>5, <2>1, <2>2, <2>3
<1> QED
  BY <1>1, <1>2, <1>3, <1>4, <1>6

-----------------------------------------------------------------------------
(* Running a waiter.                                                        *)

\* Two calls, the first and then the second.
LEMMA PairOf ==
    ASSUME NEW S, NEW a \in S, NEW c \in S
    PROVE  <<a>> \o <<c>> = <<a, c>>
<1>1. <<a>> \in Seq(S) /\ <<c>> \in Seq(S) /\ <<a, c>> \in Seq(S)
  OBVIOUS
<1>2. PICK s : s = <<a>> \o <<c>>
  OBVIOUS
<1>3. s \in Seq(S) /\ Len(s) = 2 /\ s[1] = a /\ s[2] = c
  BY <1>1, <1>2
<1>4. PICK z : z = <<a, c>>
  OBVIOUS
<1>5. z \in Seq(S) /\ Len(z) = 2 /\ z[1] = a /\ z[2] = c
  BY <1>1, <1>4
<1>6. \A i \in 1..Len(s) : s[i] = z[i]
  BY <1>3, <1>5
<1>7. s = z
  BY <1>3, <1>5, <1>6, SeqEqual
<1> QED
  BY <1>2, <1>4, <1>7

\* What RunWaiterAndDeleteWaiterNode does for a node of each kind.
LEMMA RunWaiterCases ==
    ASSUME NEW n \in Nodes
    PROVE  \/ \E w \in Waiters : /\ n = User(w)
                                 /\ \/ w \in Owning /\ RunWaiter(n) = <<ECall(w), Drop(On[w])>>
                                    \/ w \notin Owning /\ RunWaiter(n) = <<ECall(w)>>
           \/ \E i \in Indirect : n = Forward(i) /\ RunWaiter(n) = <<EForward(i), Drop(i)>>
           \/ \E k \in Places : n = Countdown(k) /\ RunWaiter(n) = <<ECount(k)>>
           \/ \E k \in Places : n = Last(k) /\ RunWaiter(n) = <<ECall(Callee)>>
<1>1. ASSUME NEW w \in Waiters, n = User(w)
      PROVE  \/ w \in Owning /\ RunWaiter(n) = <<ECall(w), Drop(On[w])>>
             \/ w \notin Owning /\ RunWaiter(n) = <<ECall(w)>>
  <2>1. n.kind = "user" /\ n.of = w /\ n.av = On[w]
    BY <1>1, NodeTable
  <2>2. RunWaiter(n) = <<ECall(w)>> \o IF w \in Owning THEN <<Drop(On[w])>> ELSE <<>>
    BY <2>1 DEF RunWaiter, ECall
  <2>3. CASE w \in Owning
    <3>1. <<ECall(w)>> \o <<Drop(On[w])>> = <<ECall(w), Drop(On[w])>>
      BY PairOf, ECall(w) \in {ECall(w), Drop(On[w])}, Drop(On[w]) \in {ECall(w), Drop(On[w])}
    <3> QED
      BY <2>2, <2>3, <3>1
  <2>4. CASE w \notin Owning
    <3>1. <<ECall(w)>> \o <<>> = <<ECall(w)>>
      OBVIOUS
    <3> QED
      BY <2>2, <2>4, <3>1
  <2> QED
    BY <2>3, <2>4
<1>2. ASSUME NEW i \in Indirect, n = Forward(i)
      PROVE  RunWaiter(n) = <<EForward(i), Drop(i)>>
  <2>1. n.kind = "forward" /\ n.of = i /\ n.av = Target[i]
    BY <1>2, NodeTable
  <2> QED
    BY <2>1 DEF RunWaiter, EForward
<1>3. ASSUME NEW k \in Places, n = Countdown(k)
      PROVE  RunWaiter(n) = <<ECount(k)>>
  <2>1. n.kind = "countdown" /\ n.of = k
    BY <1>3, NodeTable
  <2> QED
    BY <2>1 DEF RunWaiter, ECount
<1>4. ASSUME NEW k \in Places, n = Last(k)
      PROVE  RunWaiter(n) = <<ECall(Callee)>>
  <2>1. n.kind = "last"
    BY <1>4, NodeTable
  <2> QED
    BY <2>1 DEF RunWaiter, ECall
<1> QED
  BY <1>1, <1>2, <1>3, <1>4, NodeForms

\* One call that does what the node is for, and at most one reference dropped after it.
RunsOnly(n, c) ==
    /\ c \in Entries /\ c.op \in {"call", "ForwardTo", "fetch_sub"} /\ Duty(c) = NodeDuty(n)
    /\ NodeFact(n) /\ Available(n.av) => Fact(c)

\* The calls that run the waiter of a node: what they do, use and own.
LEMMA RunWaiterForm ==
    ASSUME NEW n \in Nodes
    PROVE  \/ \E c : /\ RunWaiter(n) = <<c>> /\ RunsOnly(n, c)
                     /\ Guards(c) \subseteq NodeGuards(n) /\ Owns(c) = NodeOwns(n)
           \/ \E c : \E x \in Values :
                     /\ RunWaiter(n) = <<c, Drop(x)>> /\ RunsOnly(n, c)
                     /\ Guards(c) \subseteq NodeGuards(n) \cup {x}
                     /\ NodeOwns(n) = Owns(c) \cup {x} /\ x \notin Owns(c)
<1>1. ASSUME NEW w \in Waiters, n = User(w)
      PROVE  /\ RunsOnly(n, ECall(w)) /\ Guards(ECall(w)) \subseteq NodeGuards(n)
             /\ Owns(ECall(w)) = {}
  <2>1. ECall(w) \in Entries /\ Duty(ECall(w)) = NodeDuty(n) /\ ECall(w).op = "call"
        /\ ECall(w).w = w
    BY <1>1, EntriesMade, Table, NodeTable DEF Callbacks
  <2>2. Needs(w) = {n.av}
    BY <1>1, NodeTable, KindsAssumption DEF Needs
  <2>3. Available(n.av) => Fact(ECall(w))
    BY <2>1, <2>2 DEF Fact
  <2> QED
    BY <1>1, <2>1, <2>3, Table, NodeTable DEF RunsOnly
<1>2. ASSUME NEW i \in Indirect, n = Forward(i)
      PROVE  /\ RunsOnly(n, EForward(i)) /\ Guards(EForward(i)) = {i}
             /\ Owns(EForward(i)) = {Target[i]}
             /\ i \in Values /\ Target[i] # i
  <2>1. EForward(i) \in Entries /\ Duty(EForward(i)) = NodeDuty(n) /\ EForward(i).op = "ForwardTo"
    BY <1>2, EntriesMade, Table, NodeTable
  <2>2. Fact(EForward(i))
    BY <2>1 DEF Fact
  <2>3. {i} \in SUBSET Indirect /\ {i} # {}
    OBVIOUS
  <2>4. Target[i] # i
    BY <2>3, ForwardAssumption
  <2> QED
    BY <2>1, <2>2, <2>4, Table DEF RunsOnly, Values
<1>3. ASSUME NEW k \in Places, n = Countdown(k)
      PROVE  RunsOnly(n, ECount(k)) /\ Guards(ECount(k)) = {} /\ Owns(ECount(k)) = {}
  <2>1. ECount(k) \in Entries /\ Duty(ECount(k)) = NodeDuty(n) /\ ECount(k).op = "fetch_sub"
        /\ ECount(k).k = k /\ n.av = Group[k]
    BY <1>3, EntriesMade, Table, NodeTable
  <2>2. Available(n.av) => Fact(ECount(k))
    BY <2>1 DEF Fact
  <2> QED
    BY <2>1, <2>2, Table DEF RunsOnly
<1>4. ASSUME NEW k \in Places, n = Last(k)
      PROVE  /\ RunsOnly(n, ECall(Callee)) /\ Guards(ECall(Callee)) = {}
             /\ Owns(ECall(Callee)) = {}
  <2>1. ECall(Callee) \in Entries /\ Duty(ECall(Callee)) = NodeDuty(n)
        /\ ECall(Callee).op = "call" /\ ECall(Callee).w = Callee
        /\ n.kind = "last" /\ n.of = k /\ n.av = Group[k]
    BY <1>4, EntriesMade, Table, NodeTable DEF Callbacks
  <2>2. Needs(Callee) = {Group[p] : p \in Places}
    BY DEF Needs, Places
  <2>3. NodeFact(n) /\ Available(n.av) => \A p \in Places : Available(Group[p])
    BY <2>1 DEF NodeFact
  <2>4. NodeFact(n) /\ Available(n.av) => Fact(ECall(Callee))
    BY <2>1, <2>2, <2>3 DEF Fact
  <2> QED
    BY <2>1, <2>4, Table, KindsAssumption DEF RunsOnly
<1>5. CASE \E w \in Waiters : /\ n = User(w)
                              /\ \/ w \in Owning /\ RunWaiter(n) = <<ECall(w), Drop(On[w])>>
                                 \/ w \notin Owning /\ RunWaiter(n) = <<ECall(w)>>
  <2>1. PICK w \in Waiters : /\ n = User(w)
                             /\ \/ w \in Owning /\ RunWaiter(n) = <<ECall(w), Drop(On[w])>>
                                \/ w \notin Owning /\ RunWaiter(n) = <<ECall(w)>>
    BY <1>5
  <2>2. On[w] \in Values
    BY KindsAssumption
  <2>3. NodeOwns(n) = IF w \in Owning THEN {On[w]} ELSE {}
    BY <2>1, NodeTable
  <2> QED
    BY <1>1, <2>1, <2>2, <2>3
<1>6. CASE \E i \in Indirect : n = Forward(i) /\ RunWaiter(n) = <<EForward(i), Drop(i)>>
  <2>1. PICK i \in Indirect : n = Forward(i) /\ RunWaiter(n) = <<EForward(i), Drop(i)>>
    BY <1>6
  <2>2. NodeOwns(n) = {i, Target[i]}
    BY <2>1, NodeTable
  <2>3. i \in Values /\ RunWaiter(n) = <<EForward(i), Drop(i)>> /\ RunsOnly(n, EForward(i))
        /\ Guards(EForward(i)) \subseteq NodeGuards(n) \cup {i}
        /\ NodeOwns(n) = Owns(EForward(i)) \cup {i} /\ i \notin Owns(EForward(i))
    BY <1>2, <2>1, <2>2
  <2> QED
    BY <2>3
<1>7. CASE \E k \in Places : n = Countdown(k) /\ RunWaiter(n) = <<ECount(k)>>
  <2>1. PICK k \in Places : n = Countdown(k) /\ RunWaiter(n) = <<ECount(k)>>
    BY <1>7
  <2>2. NodeOwns(n) = {}
    BY <2>1, NodeTable
  <2>3. /\ RunWaiter(n) = <<ECount(k)>> /\ RunsOnly(n, ECount(k))
        /\ Guards(ECount(k)) \subseteq NodeGuards(n) /\ Owns(ECount(k)) = NodeOwns(n)
    BY <1>3, <2>1, <2>2
  <2> QED
    BY <2>3
<1>8. CASE \E k \in Places : n = Last(k) /\ RunWaiter(n) = <<ECall(Callee)>>
  BY <1>4, <1>8, NodeTable
<1> QED
  BY <1>5, <1>6, <1>7, <1>8, RunWaiterCases

-----------------------------------------------------------------------------
(* Steps within a call.                                                     *)

\* The entry on top of a stack.
LEMMA TopOf ==
    ASSUME Types, NEW t \in Threads, NEW op, Top(t, op)
    PROVE  \E b \in Nat :
              /\ H(t) = b + 1 /\ H(t) - 1 = b /\ H(t) \in 1..H(t)
              /\ At(t, H(t)) = Head(stack[t]) /\ stack[t] # <<>>
              /\ Head(stack[t]) \in Entries /\ Head(stack[t]).op = op
<1>1. stack \in [Threads -> Seq(Entries)] /\ stack[t] # <<>> /\ Head(stack[t]).op = op
  BY DEF Types, Top
<1>2. /\ H(t) \in Nat /\ H(t) > 0 /\ At(t, H(t)) = Head(stack[t])
      /\ \A k \in 1..H(t) : At(t, k) \in Entries
  BY <1>1, StackTypes
<1>3. H(t) - 1 \in Nat /\ H(t) = (H(t) - 1) + 1 /\ H(t) \in 1..H(t)
  BY <1>2
<1> QED
  BY <1>1, <1>2, <1>3

\* A duty is where the entry is that has it.
LEMMA DutyAt ==
    ASSUME stack \in [Threads -> Seq(Entries)], NEW loc, Located(loc),
           NEW t \in Threads, NEW k \in 1..H(t), NEW d \in DutySet, Duty(At(t, k)) = d
    PROVE  loc[d] = Place(t, k) /\ loc[d][1] = "at"
<1>1. d # NoDuty
  BY DEF DutySet, NoDuty
<1> QED
  BY <1>1, PlaceTag DEF Located

\* Duties that move from stack to stack are neither begun nor ended.
LEMMA AtToAt ==
    ASSUME NEW loc, Progress(loc), Counted(loc), NEW loc2,
           UNCHANGED <<state, produced, asked, ran, counter>>,
           \A d \in DutySet : loc2[d] = loc[d] \/ (loc[d][1] = "at" /\ loc2[d][1] = "at")
    PROVE  SameRanks(loc, loc2) /\ Progress(loc2)' /\ Counted(loc2)'
<1>1. /\ Unborn[1] # "at" /\ Over[1] # "at" /\ Divided[1] # "at"
  BY DEF Unborn, Over, Divided
<1>2. \A d \in DutySet : /\ loc2[d] = Unborn <=> loc[d] = Unborn
                         /\ loc2[d] = Over <=> loc[d] = Over
                         /\ loc2[d] = Divided <=> loc[d] = Divided
  BY <1>1
<1>3. SameRanks(loc, loc2)
  BY SameRanksIf
<1>4. /\ \A v \in Values : <<"set", v>> \in DutySet
      /\ \A w \in Callbacks : <<"waiter", w>> \in DutySet
      /\ \A k \in Places : <<"count", k>> \in DutySet
      /\ <<"waiter", Callee>> \in DutySet
  BY DEF DutySet, Callbacks
<1>5. Stable
  BY DEF Stable
<1>6. Counted(loc2)'
  BY <1>2, <1>3, <1>4, <1>5, CountedStep
<1>7. Progress(loc2)'
  BY <1>2, <1>4 DEF Progress, Available
<1> QED
  BY <1>3, <1>6, <1>7

\* A step within a call that changes only the stack, a link of the step's own node and
\* references that the step accounts for.
LEMMA PlainStep ==
    ASSUME NEW loc, Inv(loc), NEW t \in Threads, NEW b \in Nat, NEW es \in Seq(Entries),
           Becomes(t, b, es), H(t) = b + 1,
           At(t, H(t)).op \notin {"store", "AddRef", "NotifyAvailable"},
           Duty(At(t, H(t)))[1] # "run",
           UNCHANGED <<state, head, payload, value, freed, holds, produced, asked, ran, counter>>,
           next' \in [Nodes -> Links], refcount' \in [Values -> Nat],
           \A n \in Nodes : next'[n] = next[n] \/ loc[NodeDuty(n)] = Place(t, b + 1),
           NEW loc2, Located(loc2)',
           \A d \in DutySet : loc2[d] = loc[d] \/ (loc[d][1] = "at" /\ loc2[d][1] = "at"),
           \A v \in Values : loc2[<<"run", v>>] = loc[<<"run", v>>],
           Backed(t, b, es), \A v \in Values : Accounts(t, b, es, Nil, v)
    PROVE  Inv(loc2)'
<1>1. Types'
  BY DEF Inv, Types, Becomes
<1>2. /\ \/ H(t) = 0 /\ b = 0 /\ \A u \in Threads \ {t} : holds'[u] = holds[u]
         \/ /\ H(t) = b + 1 /\ holds' = holds
            /\ At(t, H(t)).op \notin {"store", "AddRef", "NotifyAvailable"}
            /\ Duty(At(t, H(t)))[1] # "run"
      /\ UNCHANGED <<state, head, payload, value, freed>> /\ produced \subseteq produced'
      /\ \A n \in Nodes :
            next'[n] = next[n] \/ (H(t) = b + 1 /\ loc[NodeDuty(n)] = Place(t, b + 1))
      /\ \A d \in DutySet : loc2[d] = loc[d] \/ (loc[d][1] # "list" /\ loc2[d][1] # "list")
  OBVIOUS
<1>4. SameRanks(loc, loc2) /\ Lists(loc2)' /\ Guarded' /\ Facts' /\ Contents'
  BY <1>2, QuietStep
<1>5. Progress(loc2)' /\ Counted(loc2)'
  BY AtToAt DEF Inv
<1>6. Counts(loc2)'
  <2>1. PICK gone : gone = Nil
    OBVIOUS
  <2>2. /\ \/ gone = Nil /\ holds' = holds
           \/ gone \in holds[t] /\ holds' = [holds EXCEPT ![t] = @ \ {gone}]
        /\ (H(t) = 0 /\ b = 0) \/ (H(t) = b + 1 /\ At(t, H(t)).op # "AddRef")
        /\ UNCHANGED <<value, freed>>
        /\ \A v \in Values : Accounts(t, b, es, gone, v)
    BY <2>1
  <2>3. \A j \in 1..Len(es) : es[j].op # "AddRef"
    BY DEF Backed
  <2> QED
    BY <1>4, <2>2, <2>3, CountsStep
<1> QED
  BY <1>1, <1>4, <1>5, <1>6 DEF Inv

\* The calls of es run the waiter of n: what they use and own.
RunsNode(n, es) ==
    /\ es = RunWaiter(n) /\ Len(es) \in {1, 2} /\ RunsOnly(n, es[1])
    /\ Len(es) = 2 => \E x \in Values : es[2] = Drop(x)
    /\ \A v \in Guards(es[1]) : v \in NodeGuards(n) \/ (Len(es) = 2 /\ es[2] = Drop(v))
    /\ \A v : \A i, j \in 1..Len(es) : v \in Owns(es[i]) /\ v \in Owns(es[j]) => i = j
    /\ \A v : v \in NodeOwns(n) <=> \E j \in 1..Len(es) : v \in Owns(es[j])

\* RunWaiter, entry by entry.
LEMMA RunWaiterUse ==
    ASSUME NEW n \in Nodes
    PROVE  \E es \in Seq(Entries) : RunsNode(n, es)
<1>1. ASSUME NEW c, RunWaiter(n) = <<c>>, RunsOnly(n, c), Guards(c) \subseteq NodeGuards(n),
             Owns(c) = NodeOwns(n)
      PROVE  \E es \in Seq(Entries) : RunsNode(n, es)
  <2>1. c \in Entries
    BY <1>1 DEF RunsOnly
  <2>2. PICK es : es = <<c>>
    OBVIOUS
  <2>3. es \in Seq(Entries) /\ Len(es) = 1 /\ es[1] = c
    BY <2>1, <2>2
  <2>4. 1..Len(es) = {1}
    BY <2>3
  <2>5. /\ \A v : \A i, j \in 1..Len(es) : v \in Owns(es[i]) /\ v \in Owns(es[j]) => i = j
        /\ \A v : v \in NodeOwns(n) <=> \E j \in 1..Len(es) : v \in Owns(es[j])
        /\ \A v \in Guards(es[1]) : v \in NodeGuards(n) \/ (Len(es) = 2 /\ es[2] = Drop(v))
    BY <1>1, <2>3, <2>4
  <2>6. RunsNode(n, es)
    BY <1>1, <2>2, <2>3, <2>5 DEF RunsNode
  <2> QED
    BY <2>3, <2>6
<1>2. ASSUME NEW c, NEW x \in Values, RunWaiter(n) = <<c, Drop(x)>>, RunsOnly(n, c),
             Guards(c) \subseteq NodeGuards(n) \cup {x},
             NodeOwns(n) = Owns(c) \cup {x}, x \notin Owns(c)
      PROVE  \E es \in Seq(Entries) : RunsNode(n, es)
  <2>1. c \in Entries /\ Drop(x) \in Entries /\ Owns(Drop(x)) = {x}
    BY <1>2, EntriesMade, Table DEF RunsOnly
  <2>2. PICK es : es = <<c, Drop(x)>>
    OBVIOUS
  <2>3. es \in Seq(Entries) /\ Len(es) = 2 /\ es[1] = c /\ es[2] = Drop(x)
    BY <2>1, <2>2
  <2>4. 1..Len(es) = {1, 2}
    BY <2>3
  <2>5. /\ \A v : \A i, j \in 1..Len(es) : v \in Owns(es[i]) /\ v \in Owns(es[j]) => i = j
        /\ \A v : v \in NodeOwns(n) <=> \E j \in 1..Len(es) : v \in Owns(es[j])
        /\ \A v \in Guards(es[1]) : v \in NodeGuards(n) \/ (Len(es) = 2 /\ es[2] = Drop(v))
    BY <1>2, <2>1, <2>3, <2>4
  <2>6. RunsNode(n, es)
    BY <1>2, <2>2, <2>3, <2>5 DEF RunsNode
  <2> QED
    BY <2>3, <2>6
<1> QED
  BY <1>1, <1>2, RunWaiterForm

\* To run a list is no node's duty.
LEMMA NodeNoRun == \A n \in Nodes : NodeDuty(n)[1] \in {"waiter", "set", "count"}
<1> SUFFICES ASSUME NEW n \in Nodes
             PROVE  NodeDuty(n)[1] \in {"waiter", "set", "count"}
  OBVIOUS
<1> QED
  BY NodeForms, NodeTable

\* AndThen and EnqueueWaiterListNode find the value available.
LEMMA RunNow ==
    ASSUME NEW loc, Inv(loc), NEW t \in Threads, NEW op \in {"AndThen", "compare_exchange"},
           Top(t, op), NEW n, n = Head(stack[t]).node, Available(n.av), Then(t, RunWaiter(n)),
           UNCHANGED <<state, head, next, value, payload, refcount, freed, counter, holds,
                       produced, asked, ran>>
    PROVE  \E loc2 : Inv(loc2)'
<1>0. Types /\ stack \in [Threads -> Seq(Entries)] /\ Located(loc) /\ Facts
  BY DEF Inv, Types
<1>1. PICK b \in Nat :
              /\ H(t) = b + 1 /\ H(t) - 1 = b /\ H(t) \in 1..H(t)
              /\ At(t, H(t)) = Head(stack[t]) /\ stack[t] # <<>>
              /\ Head(stack[t]) \in Entries /\ Head(stack[t]).op = op
  BY <1>0, TopOf
<1>2. PICK e : e = At(t, H(t))
  OBVIOUS
<1>3. /\ n \in Nodes /\ Duty(e) = NodeDuty(n) /\ Guards(e) = NodeGuards(n)
      /\ Owns(e) = NodeOwns(n) /\ e.op = op /\ e.node = n
  BY <1>1, <1>2, EntryForms, Table
<1>4. NodeFact(n)
  BY <1>0, <1>1, <1>2, <1>3 DEF Facts, Fact
<1>5. PICK es \in Seq(Entries) : RunsNode(n, es)
  BY <1>3, RunWaiterUse
<1>6. /\ Len(es) \in {1, 2} /\ Fact(es[1]) /\ es[1] \in Entries
      /\ es[1].op \in {"call", "ForwardTo", "fetch_sub"} /\ Duty(es[1]) = NodeDuty(n)
      /\ Len(es) = 2 => es[2].op = "DropRef" /\ Duty(es[2]) = NoDuty /\ Guards(es[2]) = {}
  BY <1>4, <1>5, Table DEF RunsNode, RunsOnly
<1>7. Becomes(t, b, es)
  BY <1>0, <1>1, <1>5, ThenBecomes DEF RunsNode
<1>8. NodeDuty(n) \in DutySet /\ loc[NodeDuty(n)] = Place(t, b + 1) /\ loc[NodeDuty(n)][1] = "at"
  <2>1. NodeDuty(n) \in DutySet
    BY <1>3, NodeValues
  <2> QED
    BY <1>0, <1>1, <1>2, <1>3, <2>1, DutyAt
<1> DEFINE d0 == NodeDuty(n)
           top == Place(t, b + Len(es))
           loc2 == [loc EXCEPT ![d0] = top]
<1>9. /\ DOMAIN loc2 = DutySet /\ loc2[d0] = top /\ top[1] = "at"
      /\ \A d \in DutySet \ {d0} : loc2[d] = loc[d]
  <2>1. DOMAIN loc = DutySet
    BY <1>0 DEF Located
  <2> QED
    BY <1>8, <2>1, PlaceTag
<1> HIDE DEF loc2, top
<1>10. 1..Len(es) = IF Len(es) = 1 THEN {1} ELSE {1, 2}
  BY <1>6
<1>11. \A j \in 1..Len(es) : Duty(es[j]) # NoDuty => j = 1
  BY <1>6, <1>10
<1>12. Located(loc2)'
  <2>1. \A d \in {d0} : \/ loc2[d][1] # "at"
                        \/ \E j \in 1..Len(es) :
                              Duty(es[j]) = d /\ loc2[d] = Place(t, b + Len(es) - j + 1)
    <3>1. 1 \in 1..Len(es) /\ b + Len(es) - 1 + 1 = b + Len(es)
      BY <1>6
    <3> QED
      BY <1>6, <1>9, <3>1 DEF top
  <2>2. \A j \in 1..Len(es) : Duty(es[j]) # NoDuty =>
              loc2[Duty(es[j])] = Place(t, b + Len(es) - j + 1)
    <3>1. b + Len(es) - 1 + 1 = b + Len(es)
      BY <1>6
    <3> QED
      BY <1>6, <1>9, <1>11, <3>1 DEF top
  <2>3. Moves(t, b, es, loc, loc2)
    <3>1. {d0} \in SUBSET DutySet /\ H(t) \in {b, b + 1}
      BY <1>1, <1>8
    <3>2. H(t) = b + 1 /\ Duty(At(t, H(t))) # NoDuty => Duty(At(t, H(t))) \in {d0}
      BY <1>2, <1>3
    <3>3. \A d \in {d0} : loc[d][1] # "at" \/ (H(t) = b + 1 /\ Duty(At(t, H(t))) = d)
      BY <1>1, <1>2, <1>3
    <3>4. \A d \in {d0} : Fits(d, loc2[d])
      BY <1>9 DEF Fits, top
    <3> QED
      BY <1>0, <1>9, <2>1, <2>2, <3>1, <3>2, <3>3, <3>4, MovesSome
  <2> QED
    BY <1>0, <1>1, <1>7, <2>3, LocatedStep
<1>13. Backed(t, b, es)
  <2>1. Stable
    BY DEF Stable
  <2>2. Fact(es[1])'
    BY <1>6, <2>1, FactStable
  <2>3. Len(es) = 2 => Fact(es[2])'
    BY <1>6 DEF Fact
  <2>4. \A v \in Guards(es[1]) :
              \/ \E i \in 1 + 1..Len(es) : es[i] = Drop(v)
              \/ H(t) = b + 1 /\ v \in Guards(At(t, H(t)))
    <3>1. \A v \in Guards(es[1]) : v \in NodeGuards(n) \/ (Len(es) = 2 /\ es[2] = Drop(v))
      BY <1>5 DEF RunsNode
    <3>2. Len(es) = 2 => 2 \in 1 + 1..Len(es)
      OBVIOUS
    <3> QED
      BY <1>1, <1>2, <1>3, <3>1, <3>2
  <2> QED
    BY <1>6, <1>10, <2>2, <2>3, <2>4 DEF Backed
<1>14. ASSUME NEW v \in Values
       PROVE  Accounts(t, b, es, Nil, v)
  <2>1. /\ \A i, j \in 1..Len(es) : v \in Owns(es[i]) /\ v \in Owns(es[j]) => i = j
        /\ v \in Owns(At(t, H(t))) <=> \E j \in 1..Len(es) : v \in Owns(es[j])
    BY <1>2, <1>3, <1>5 DEF RunsNode
  <2>2. v # Nil /\ refcount[v] \in Nat /\ refcount'[v] = refcount[v]
    BY <1>0, NilAssumption DEF Types
  <2> QED
    BY <1>1, <2>1, <2>2 DEF Accounts
<1>15. /\ At(t, H(t)).op \notin {"store", "AddRef", "NotifyAvailable"}
       /\ Duty(At(t, H(t)))[1] # "run"
       /\ next' \in [Nodes -> Links] /\ refcount' \in [Values -> Nat]
       /\ \A m \in Nodes : next'[m] = next[m] \/ loc[NodeDuty(m)] = Place(t, b + 1)
       /\ \A d \in DutySet : loc2[d] = loc[d] \/ (loc[d][1] = "at" /\ loc2[d][1] = "at")
       /\ \A v \in Values : loc2[<<"run", v>>] = loc[<<"run", v>>]
  <2>1. NodeDuty(n)[1] # "run"
    BY <1>3, NodeNoRun
  <2>2. \A v \in Values : <<"run", v>> \in DutySet \ {d0}
    BY <2>1 DEF DutySet
  <2> QED
    BY <1>0, <1>2, <1>3, <1>8, <1>9, <2>1, <2>2 DEF Types
<1>16. Inv(loc2)'
  BY <1>1, <1>7, <1>12, <1>13, <1>14, <1>15, PlainStep
<1> QED
  BY <1>16

\* The references of e, which goes, and of c, which comes, are accounted for.
Passes(e, c) ==
    \A v \in Values :
        /\ refcount'[v] = refcount[v] - (IF v \in Owns(e) THEN 1 ELSE 0)
                            + (IF v \in Owns(c) THEN 1 ELSE 0)
        /\ refcount'[v] = 0 <=> refcount[v] = 0

\* A step within a call that goes on with one other call, which has the same duty.
LEMMA OneCall ==
    ASSUME NEW loc, Inv(loc), NEW t \in Threads, NEW b \in Nat, H(t) = b + 1, H(t) - 1 = b,
           stack[t] # <<>>, NEW e, e = At(t, H(t)),
           e.op \notin {"store", "AddRef", "NotifyAvailable"}, Duty(e)[1] # "run",
           NEW c \in Entries, c.op \notin {"store", "AddRef", "NotifyAvailable"},
           Then(t, <<c>>), Duty(c) = Duty(e), Guards(c) \subseteq Guards(e), Fact(c)',
           UNCHANGED <<state, head, payload, value, freed, holds, produced, asked, ran, counter>>,
           next' \in [Nodes -> Links], refcount' \in [Values -> Nat],
           \A n \in Nodes : next'[n] = next[n] \/ loc[NodeDuty(n)] = Place(t, b + 1),
           Passes(e, c)
    PROVE  Inv(loc)'
<1> USE DEF Passes
<1>0. stack \in [Threads -> Seq(Entries)] /\ Located(loc) /\ refcount \in [Values -> Nat]
  BY DEF Inv, Types
<1>1. PICK es : es = <<c>>
  OBVIOUS
<1>2. es \in Seq(Entries) /\ Len(es) = 1 /\ es[1] = c /\ 1..Len(es) = {1} /\ es # <<>>
  BY <1>1
<1>3. Becomes(t, b, es)
  BY <1>0, <1>1, <1>2, ThenBecomes
<1>4. Located(loc)'
  BY <1>0, <1>2, <1>3, LocatedSame
<1>5. Backed(t, b, es)
  BY <1>2 DEF Backed
<1>6. ASSUME NEW v \in Values
      PROVE  Accounts(t, b, es, Nil, v)
  <2>1. /\ \A i, j \in 1..Len(es) : v \in Owns(es[i]) /\ v \in Owns(es[j]) => i = j
        /\ (\E j \in 1..Len(es) : v \in Owns(es[j])) <=> v \in Owns(c)
        /\ (H(t) = b + 1 /\ v \in Owns(At(t, H(t)))) <=> v \in Owns(e)
    BY <1>2
  <2>2. v # Nil /\ refcount[v] \in Nat
    BY <1>0, NilAssumption
  <2>3. refcount[v] - (IF v = Nil THEN 1 ELSE 0) = refcount[v]
    BY <2>2
  <2> QED
    BY <2>1, <2>3 DEF Accounts
<1>7. /\ \A d \in DutySet : loc[d] = loc[d] \/ (loc[d][1] = "at" /\ loc[d][1] = "at")
      /\ \A v \in Values : loc[<<"run", v>>] = loc[<<"run", v>>]
  OBVIOUS
<1> QED
  BY <1>2, <1>3, <1>4, <1>5, <1>6, <1>7, PlainStep

\* A step that ends a call which has no duty and no reference.
LEMMA NoCall ==
    ASSUME NEW loc, Inv(loc), NEW t \in Threads, NEW b \in Nat, H(t) = b + 1, H(t) - 1 = b,
           stack[t] # <<>>, NEW e, e = At(t, H(t)),
           e.op \notin {"store", "AddRef", "NotifyAvailable"}, Duty(e) = NoDuty, Owns(e) = {},
           Then(t, <<>>),
           UNCHANGED <<state, head, next, payload, value, refcount, freed, holds, produced, asked,
                       ran, counter>>
    PROVE  Inv(loc)'
<1>0. /\ stack \in [Threads -> Seq(Entries)] /\ Located(loc) /\ refcount \in [Values -> Nat]
      /\ next \in [Nodes -> Links]
  BY DEF Inv, Types
<1>1. PICK es : es = <<>>
  OBVIOUS
<1>2. es \in Seq(Entries) /\ Len(es) = 0 /\ 1..Len(es) = {}
  BY <1>1
<1>3. Becomes(t, b, es)
  BY <1>0, <1>1, <1>2, ThenBecomes
<1>4. Located(loc)'
  BY <1>0, <1>2, <1>3, LocatedSame
<1>5. Backed(t, b, es)
  BY <1>2 DEF Backed
<1>6. ASSUME NEW v \in Values
      PROVE  Accounts(t, b, es, Nil, v)
  <2>1. v # Nil /\ refcount[v] \in Nat
    BY <1>0, NilAssumption
  <2> QED
    BY <1>2, <2>1 DEF Accounts
<1>7. Duty(At(t, H(t)))[1] # "run"
  BY DEF NoDuty
<1>8. /\ \A d \in DutySet : loc[d] = loc[d] \/ (loc[d][1] = "at" /\ loc[d][1] = "at")
      /\ \A v \in Values : loc[<<"run", v>>] = loc[<<"run", v>>]
      /\ \A n \in Nodes : next'[n] = next[n] \/ loc[NodeDuty(n)] = Place(t, b + 1)
      /\ next' \in [Nodes -> Links] /\ refcount' \in [Values -> Nat]
  BY <1>0
<1> QED
  BY <1>2, <1>3, <1>4, <1>5, <1>6, <1>7, <1>8, PlainStep

\* AndThen and EnqueueWaiterListNode find it unavailable: the node is linked to the word seen.
LEMMA LinkNow ==
    ASSUME NEW loc, Inv(loc), NEW t \in Threads, NEW op \in {"AndThen", "compare_exchange"},
           Top(t, op), NEW n, n = Head(stack[t]).node, ~Available(n.av),
           Then(t, <<ECas(n, Word(n.av))>>), next' = [next EXCEPT ![n] = head[n.av]],
           UNCHANGED <<state, head, value, payload, refcount, freed, counter, holds,
                       produced, asked, ran>>
    PROVE  Inv(loc)'
<1>0. Types /\ stack \in [Threads -> Seq(Entries)] /\ Located(loc) /\ Facts
  BY DEF Inv, Types
<1>1. PICK b \in Nat :
              /\ H(t) = b + 1 /\ H(t) - 1 = b /\ H(t) \in 1..H(t)
              /\ At(t, H(t)) = Head(stack[t]) /\ stack[t] # <<>>
              /\ Head(stack[t]) \in Entries /\ Head(stack[t]).op = op
  BY <1>0, TopOf
<1>2. PICK e : e = At(t, H(t))
  OBVIOUS
<1>3. /\ n \in Nodes /\ Duty(e) = NodeDuty(n) /\ Guards(e) = NodeGuards(n)
      /\ Owns(e) = NodeOwns(n) /\ e.op = op /\ e.node = n
  BY <1>1, <1>2, EntryForms, Table
<1>4. n.av \in Values /\ NodeDuty(n) \in DutySet
  BY <1>3, NodeValues
<1>5. head[n.av] \in Links /\ state[n.av] \in Unavailable
  BY <1>0, <1>4 DEF Types, Available
<1>6. PICK x \in Links \X Unavailable : x = Word(n.av) /\ x[1] = head[n.av]
  <2>1. Word(n.av) \in Links \X Unavailable /\ Word(n.av)[1] = head[n.av]
    BY <1>5 DEF Word
  <2> QED
    BY <2>1, Zenon
<1>7. PICK c \in Entries :
          /\ c = ECas(n, x) /\ c.op = "compare_exchange" /\ Duty(c) = Duty(e)
          /\ Guards(c) = Guards(e) /\ Owns(c) = Owns(e) /\ c.node = n /\ c.expected = x
  BY <1>3, EntriesMade, Table
<1>8. Then(t, <<c>>)
  BY <1>6, <1>7
<1>9. /\ next' \in [Nodes -> Links] /\ next'[n] = head[n.av]
      /\ \A m \in Nodes : m # n => next'[m] = next[m]
  BY <1>0, <1>3, <1>5 DEF Types
<1>10. loc[NodeDuty(n)] = Place(t, b + 1)
  BY <1>0, <1>1, <1>2, <1>3, <1>4, DutyAt
<1>11. Fact(c)'
  <2>1. Fact(e)
    BY <1>0, <1>1, <1>2 DEF Facts
  <2>2. NodeFact(n)
    BY <1>3, <2>1 DEF Fact
  <2>3. NodeFact(n)'
    BY <2>2 DEF NodeFact, Available
  <2> QED
    BY <1>6, <1>7, <1>9, <2>3 DEF Fact
<1>12. refcount' \in [Values -> Nat] /\ \A v \in Values : refcount[v] \in Nat
  BY <1>0 DEF Types
<1>13. Duty(e)[1] # "run"
  BY <1>3, NodeNoRun
<1>14. Passes(e, c)
  BY <1>7, <1>12 DEF Passes
<1>15. \A m \in Nodes : next'[m] = next[m] \/ loc[NodeDuty(m)] = Place(t, b + 1)
  BY <1>9, <1>10
<1>16. UNCHANGED <<state, head, payload, value, freed, holds, produced, asked, ran, counter>>
  OBVIOUS
<1>17. /\ e.op \notin {"store", "AddRef", "NotifyAvailable"}
       /\ c.op \notin {"store", "AddRef", "NotifyAvailable"}
       /\ Guards(c) \subseteq Guards(e)
  BY <1>3, <1>7
<1> QED
  BY <1>1, <1>2, <1>7, <1>8, <1>9, <1>11, <1>12, <1>13, <1>14, <1>15, <1>16, <1>17, OneCall

\* AndThen: run the waiter or load the word and link the node.
LEMMA AndThenKeeps ==
    ASSUME NEW loc, Inv(loc), NEW t \in Threads, AndThen(t)
    PROVE  \E loc2 : Inv(loc2)'
<1>1. Top(t, "AndThen")
  BY DEF AndThen
<1>2. PICK n : n = Head(stack[t]).node
  OBVIOUS
<1>3. CASE Available(n.av)
  <2>1. /\ Then(t, RunWaiter(n))
        /\ UNCHANGED <<state, head, next, value, payload, refcount, freed, counter, holds,
                       produced, asked, ran>>
    BY <1>2, <1>3 DEF AndThen
  <2> QED
    BY <1>1, <1>2, <1>3, <2>1, RunNow
<1>4. CASE ~Available(n.av)
  <2>1. /\ Then(t, <<ECas(n, Word(n.av))>>) /\ next' = [next EXCEPT ![n] = head[n.av]]
        /\ UNCHANGED <<state, head, value, payload, refcount, freed, counter, holds,
                       produced, asked, ran>>
    BY <1>2, <1>4 DEF AndThen, ECas
  <2> QED
    BY <1>1, <1>2, <1>4, <2>1, LinkNow
<1> QED
  BY <1>3, <1>4

\* The references, after a step that moves some from calls to nodes or back.
LEMMA CountsMoved ==
    ASSUME NEW loc, Inv(loc), NEW loc2, UNCHANGED <<refcount, freed, holds, value>>,
           \A v \in Values :
              /\ IsFiniteSet(ByCalls(v)') /\ IsFiniteSet(ByNodes(loc2, v))
              /\ Cardinality(ByCalls(v)') + Cardinality(ByNodes(loc2, v))
                   = Cardinality(ByCalls(v)) + Cardinality(ByNodes(loc, v))
    PROVE  Counts(loc2)'
<1> SUFFICES ASSUME NEW v \in Values
             PROVE  /\ IsFiniteSet(ByThreads(v)') /\ IsFiniteSet(ByCalls(v)')
                    /\ IsFiniteSet(ByNodes(loc2, v)') /\ IsFiniteSet(ByValues(v)')
                    /\ refcount'[v] = Cardinality(ByThreads(v)') + Cardinality(ByCalls(v)')
                           + Cardinality(ByNodes(loc2, v)') + Cardinality(ByValues(v)')
                    /\ v \in freed' <=> refcount'[v] = 0
  BY DEF Counts
<1>1. /\ IsFiniteSet(ByThreads(v)) /\ IsFiniteSet(ByCalls(v))
      /\ IsFiniteSet(ByNodes(loc, v)) /\ IsFiniteSet(ByValues(v))
      /\ refcount[v] = Cardinality(ByThreads(v)) + Cardinality(ByCalls(v))
                         + Cardinality(ByNodes(loc, v)) + Cardinality(ByValues(v))
      /\ v \in freed <=> refcount[v] = 0
  BY DEF Inv, Counts
<1>2. /\ ByThreads(v)' = ByThreads(v) /\ ByValues(v)' = ByValues(v)
      /\ ByNodes(loc2, v)' = ByNodes(loc2, v)
  BY DEF ByThreads, ByValues, ByNodes
<1>3. /\ IsFiniteSet(ByCalls(v)') /\ IsFiniteSet(ByNodes(loc2, v))
      /\ Cardinality(ByCalls(v)') + Cardinality(ByNodes(loc2, v))
                   = Cardinality(ByCalls(v)) + Cardinality(ByNodes(loc, v))
  OBVIOUS
<1>4. /\ Cardinality(ByThreads(v)) \in Nat /\ Cardinality(ByCalls(v)) \in Nat
      /\ Cardinality(ByNodes(loc, v)) \in Nat /\ Cardinality(ByValues(v)) \in Nat
      /\ Cardinality(ByCalls(v)') \in Nat /\ Cardinality(ByNodes(loc2, v)) \in Nat
  BY <1>1, <1>3, FS_CardinalityType
<1>5. refcount'[v] = Cardinality(ByThreads(v)) + Cardinality(ByCalls(v)')
                       + Cardinality(ByNodes(loc2, v)) + Cardinality(ByValues(v))
  BY <1>1, <1>3, <1>4
<1> QED
  BY <1>1, <1>2, <1>3, <1>5

\* Node n gets rank R, in front of the list of v.
Pushed(loc, loc2, v, n, R) ==
    /\ R \in Nat \ {0}
    /\ head[v] \in Nodes => loc[NodeDuty(head[v])] = Ranked(head[v], R - 1)
    /\ head[v] \notin Nodes => R = 1
    /\ loc2[NodeDuty(n)] = Ranked(n, R)
    /\ \A d \in DutySet \ {NodeDuty(n)} : loc2[d] = loc[d]

\* The lists, after node n has been put in front of the list of v.
LEMMA ListsPush ==
    ASSUME stack \in [Threads -> Seq(Entries)], NEW loc, Located(loc), Lists(loc),
           NEW t \in Threads, NEW b \in Nat, NEW es \in Seq(Entries), es = <<>>, Becomes(t, b, es),
           H(t) = b + 1, NEW n \in Nodes, NEW v \in Values, v = n.av, ~Available(v), next[n] = head[v],
           loc[NodeDuty(n)][1] = "at", Duty(At(t, H(t)))[1] # "run",
           head' = [head EXCEPT ![v] = n], UNCHANGED <<state, next>>,
           head \in [Values -> Links],
           NEW R, NEW loc2, Pushed(loc, loc2, v, n, R)
    PROVE  Lists(loc2)'
<1> USE DEF Pushed
<1>0. v \in Values /\ head[v] \in Links
  BY NodeValues
<1>1. \A m \in Nodes : NodeDuty(m) \in DutySet
  BY NodeValues
<1>2. \A m, r : loc[NodeDuty(n)] # Ranked(m, r)
  BY RankTag
<1>3. \A m \in Nodes : \A k, r : loc[NodeDuty(m)] = Ranked(k, r) =>
          NodeDuty(m) # NodeDuty(n) /\ loc2[NodeDuty(m)] = Ranked(k, r)
  BY <1>1, <1>2
<1>4. \A m \in Nodes : \A k, r : loc2[NodeDuty(m)] = Ranked(k, r) =>
          \/ loc[NodeDuty(m)] = Ranked(k, r)
          \/ NodeDuty(m) = NodeDuty(n) /\ k = n /\ r = R
  <2> SUFFICES ASSUME NEW m \in Nodes, NEW k, NEW r, loc2[NodeDuty(m)] = Ranked(k, r),
                      NodeDuty(m) = NodeDuty(n)
               PROVE  k = n /\ r = R
    BY <1>1
  <2>1. Ranked(k, r) = Ranked(n, R)
    OBVIOUS
  <2> QED
    BY <2>1 DEF Ranked
<1>5. FirstOf(loc, v, head[v])
  BY <1>0 DEF Lists
<1>6. ASSUME NEW m \in Nodes, NEW r \in Nat, m.av = v, loc[NodeDuty(m)] = Ranked(m, r)
      PROVE  r < R
  <2>1. PICK x \in Nat : head[v] \in Nodes /\ loc[NodeDuty(head[v])] = Ranked(head[v], x) /\ x >= r
    BY <1>5, <1>6 DEF FirstOf
  <2>2. Ranked(head[v], x) = Ranked(head[v], R - 1)
    BY <2>1
  <2>3. x = R - 1
    BY <2>2 DEF Ranked
  <2> QED
    BY <1>6, <2>1, <2>3
<1>7. \A m \in Nodes : \A k, r : loc2[NodeDuty(m)] = Ranked(k, r) => r \in Nat \ {0}
  BY <1>4 DEF Lists
<1>8. ASSUME NEW k \in Nodes, NEW m \in Nodes, NEW r \in Nat,
             loc2[NodeDuty(k)] = Ranked(k, r), loc2[NodeDuty(m)] = Ranked(m, r), k.av = m.av
      PROVE  k = m
  <2>1. /\ loc[NodeDuty(k)] = Ranked(k, r) \/ (k = n /\ r = R)
        /\ loc[NodeDuty(m)] = Ranked(m, r) \/ (m = n /\ r = R)
    BY <1>4, <1>8
  <2>2. CASE loc[NodeDuty(k)] = Ranked(k, r) /\ loc[NodeDuty(m)] = Ranked(m, r)
    BY <1>8, <2>2 DEF Lists
  <2>3. CASE loc[NodeDuty(k)] = Ranked(k, r) /\ m = n /\ r = R
    BY <1>6, <1>8, <2>3
  <2>4. CASE loc[NodeDuty(m)] = Ranked(m, r) /\ k = n /\ r = R
    BY <1>6, <1>8, <2>4
  <2> QED
    BY <2>1, <2>2, <2>3, <2>4
<1>9. ASSUME NEW m \in Nodes, NEW r \in Nat, loc2[NodeDuty(m)] = Ranked(m, r)
      PROVE  IF r = 1 THEN next'[m] = Nil
             ELSE /\ next'[m] \in Nodes /\ next'[m].av = m.av
                  /\ loc2[NodeDuty(next'[m])] = Ranked(next'[m], r - 1)
  <2>1. CASE loc[NodeDuty(m)] = Ranked(m, r)
    <3>1. IF r = 1 THEN next[m] = Nil
          ELSE /\ next[m] \in Nodes /\ next[m].av = m.av
               /\ loc[NodeDuty(next[m])] = Ranked(next[m], r - 1)
      BY <2>1 DEF Lists
    <3> QED
      BY <1>3, <3>1
  <2>2. CASE m = n /\ r = R
    <3>1. CASE head[v] \in Nodes
      <4>1. head[v].av = v /\ \E x \in Nat : loc[NodeDuty(head[v])] = Ranked(head[v], x)
        BY <1>5, <3>1 DEF FirstOf
      <4>2. PICK x \in Nat : loc[NodeDuty(head[v])] = Ranked(head[v], x)
        BY <4>1
      <4>3. Ranked(head[v], x) = Ranked(head[v], R - 1)
        BY <3>1, <4>2
      <4>4. x = R - 1 /\ x # 0
        BY <3>1, <4>2, <4>3 DEF Ranked, Lists
      <4>5. loc2[NodeDuty(head[v])] = Ranked(head[v], R - 1)
        BY <1>3, <3>1
      <4> QED
        BY <2>2, <3>1, <4>1, <4>4, <4>5
    <3>2. CASE head[v] \notin Nodes
      BY <1>0, <2>2, <3>2 DEF Links
    <3> QED
      BY <3>1, <3>2
  <2> QED
    BY <1>4, <1>9, <2>1, <2>2
<1>10. ASSUME NEW u, u # v, NEW f, FirstOf(loc, u, f)
       PROVE  FirstOf(loc2, u, f)
  <2>1. f \in Nodes => f.av = u /\ \E r \in Nat : loc2[NodeDuty(f)] = Ranked(f, r)
    BY <1>3, <1>10 DEF FirstOf
  <2>2. ASSUME NEW m \in Nodes, NEW r \in Nat, m.av = u, loc2[NodeDuty(m)] = Ranked(m, r)
        PROVE  f \in Nodes /\ \E x \in Nat : loc2[NodeDuty(f)] = Ranked(f, x) /\ x >= r
    <3>1. loc[NodeDuty(m)] = Ranked(m, r)
      BY <1>4, <1>10, <2>2
    <3>2. f \in Nodes /\ \E x \in Nat : loc[NodeDuty(f)] = Ranked(f, x) /\ x >= r
      BY <1>10, <2>2, <3>1 DEF FirstOf
    <3> QED
      BY <1>3, <3>2
  <2> QED
    BY <2>1, <2>2 DEF FirstOf
<1>11. FirstOf(loc2, v, n)
  <2>1. ASSUME NEW m \in Nodes, NEW r \in Nat, m.av = v, loc2[NodeDuty(m)] = Ranked(m, r)
        PROVE  R >= r
    <3>1. loc[NodeDuty(m)] = Ranked(m, r) \/ r = R
      BY <1>4, <2>1
    <3> QED
      BY <1>6, <2>1, <3>1
  <2> QED
    BY <2>1 DEF FirstOf
<1>12. ASSUME NEW u \in Values
       PROVE  /\ ~Available(u)' => FirstOf(loc2, u, head'[u])
              /\ Available(u)' => head'[u] = Nil
              /\ Available(u)' /\ loc2[<<"run", u>>] = Over => FirstOf(loc2, u, Nil)
              /\ loc2[<<"run", u>>] # Over =>
                    /\ Available(u)'
                    /\ \E x \in Threads : \E k \in 1..H(x)' :
                          loc2[<<"run", u>>] = Place(x, k) /\ FirstOf(loc2, u, At(x, k)'.list)
  <2>1. /\ ~Available(u) => FirstOf(loc, u, head[u])
        /\ Available(u) => head[u] = Nil
        /\ Available(u) /\ loc[<<"run", u>>] = Over => FirstOf(loc, u, Nil)
        /\ loc[<<"run", u>>] # Over =>
              /\ Available(u)
              /\ \E x \in Threads : \E k \in 1..H(x) :
                    loc[<<"run", u>>] = Place(x, k) /\ FirstOf(loc, u, At(x, k).list)
    BY DEF Lists
  <2>2. Available(u)' <=> Available(u)
    BY DEF Available
  <2>3. loc2[<<"run", u>>] = loc[<<"run", u>>] /\ <<"run", u>> \in DutySet
    <3>1. <<"run", u>> \in DutySet /\ NodeDuty(n)[1] # "run"
      BY NodeNoRun DEF DutySet
    <3>2. <<"run", u>> # NodeDuty(n)
      BY <3>1
    <3> QED
      BY <3>1, <3>2
  <2>4. head'[u] = IF u = v THEN n ELSE head[u]
    BY <1>0
  <2>5. ASSUME loc[<<"run", u>>] # Over
        PROVE  \E x \in Threads : \E k \in 1..H(x)' :
                  loc[<<"run", u>>] = Place(x, k) /\ FirstOf(loc2, u, At(x, k)'.list)
    <3>1. PICK x \in Threads : \E k \in 1..H(x) :
              loc[<<"run", u>>] = Place(x, k) /\ FirstOf(loc, u, At(x, k).list)
      BY <2>1, <2>5
    <3>2. PICK k \in 1..H(x) : loc[<<"run", u>>] = Place(x, k) /\ FirstOf(loc, u, At(x, k).list)
      BY <3>1
    <3>3. Duty(At(x, k)) = <<"run", u>>
      BY <2>3, <3>2 DEF Located
    <3>4. u # v
      BY <2>1, <2>5
    <3>5. k \in 1..H(x)' /\ At(x, k)' = At(x, k)
      <4>1. CASE x # t
        BY <3>2, <4>1 DEF Becomes
      <4>2. CASE x = t
        <5>1. k # H(t)
          BY <3>3, <4>2
        <5>2. k \in 1..b
          BY <3>2, <4>2, <5>1
        <5>3. Len(es) = 0
          OBVIOUS
        <5>4. At(x, k)' = At(x, k)
          BY <4>2, <5>2, <5>3, BecomesAt
        <5> QED
          BY <4>2, <5>2, <5>3, <5>4 DEF Becomes
      <4> QED
        BY <4>1, <4>2
    <3> QED
      BY <1>10, <3>2, <3>4, <3>5
  <2> QED
    BY <1>10, <1>11, <2>1, <2>2, <2>3, <2>4, <2>5
<1>13. \A u \in Values :
          (/\ ~Available(u) => FirstOf(loc2, u, head[u])
           /\ Available(u) => head[u] = Nil
           /\ Available(u) /\ loc2[<<"run", u>>] = Over => FirstOf(loc2, u, Nil)
           /\ loc2[<<"run", u>>] # Over =>
                 /\ Available(u)
                 /\ \E x \in Threads : \E k \in 1..H(x) :
                       loc2[<<"run", u>>] = Place(x, k) /\ FirstOf(loc2, u, At(x, k).list))'
  BY <1>12
<1> QED
  BY <1>7, <1>8, <1>9, <1>13 DEF Lists

\* The exchange succeeds: the node is in the list, and its references go with it.
LEMMA PushKeeps ==
    ASSUME NEW loc, Inv(loc), NEW t \in Threads, Top(t, "compare_exchange"),
           NEW n, n = Head(stack[t]).node, Word(n.av) = Head(stack[t]).expected,
           head' = [head EXCEPT ![n.av] = n], Then(t, <<>>),
           UNCHANGED <<state, next, value, payload, refcount, freed, counter, holds,
                       produced, asked, ran>>
    PROVE  \E loc2 : Inv(loc2)'
<1>0. /\ Types /\ stack \in [Threads -> Seq(Entries)] /\ Located(loc) /\ Facts /\ Lists(loc)
      /\ Progress(loc) /\ Guarded /\ Contents /\ Counted(loc) /\ Counts(loc)
      /\ head \in [Values -> Links]
  BY DEF Inv, Types
<1>1. PICK b \in Nat :
              /\ H(t) = b + 1 /\ H(t) - 1 = b /\ H(t) \in 1..H(t)
              /\ At(t, H(t)) = Head(stack[t]) /\ stack[t] # <<>>
              /\ Head(stack[t]) \in Entries /\ Head(stack[t]).op = "compare_exchange"
  BY <1>0, TopOf
<1>2. PICK e : e = At(t, H(t))
  OBVIOUS
<1>3. /\ n \in Nodes /\ Duty(e) = NodeDuty(n) /\ Guards(e) = NodeGuards(n)
      /\ Owns(e) = NodeOwns(n) /\ e.op = "compare_exchange" /\ e.node = n
      /\ e.expected \in Links \X Unavailable
  BY <1>1, <1>2, EntryForms, Table
<1>4. PICK v \in Values : v = n.av /\ NodeDuty(n) \in DutySet
  BY <1>3, NodeValues
<1>5. head[v] = e.expected[1] /\ state[v] \in Unavailable /\ ~Available(v) /\ head[v] \in Links
  BY <1>1, <1>2, <1>3, <1>4 DEF Word, Available
<1>6. Fact(e)
  BY <1>0, <1>1, <1>2 DEF Facts
<1>7. next[n] = head[v] /\ NodeFact(n)
  BY <1>3, <1>5, <1>6 DEF Fact
<1>8. loc[NodeDuty(n)] = Place(t, b + 1) /\ loc[NodeDuty(n)][1] = "at"
  BY <1>0, <1>1, <1>2, <1>3, <1>4, DutyAt
<1>9. PICK R \in Nat \ {0} :
          /\ head[v] \in Nodes => loc[NodeDuty(head[v])] = Ranked(head[v], R - 1)
          /\ head[v] \notin Nodes => R = 1
  <2>1. CASE head[v] \in Nodes
    <3>1. FirstOf(loc, v, head[v])
      BY <1>0, <1>5 DEF Lists
    <3>2. PICK r \in Nat : loc[NodeDuty(head[v])] = Ranked(head[v], r)
      BY <2>1, <3>1 DEF FirstOf
    <3>3. r + 1 \in Nat \ {0} /\ (r + 1) - 1 = r
      OBVIOUS
    <3> QED
      BY <2>1, <3>2, <3>3
  <2>2. CASE head[v] \notin Nodes
    BY <2>2
  <2> QED
    BY <2>1, <2>2
<1> DEFINE d0 == NodeDuty(n)
           loc2 == [loc EXCEPT ![d0] = Ranked(n, R)]
<1>10. /\ DOMAIN loc2 = DutySet /\ loc2[d0] = Ranked(n, R) /\ loc2[d0][1] = "list"
       /\ \A d \in DutySet \ {d0} : loc2[d] = loc[d]
  <2>1. DOMAIN loc = DutySet
    BY <1>0 DEF Located
  <2> QED
    BY <1>4, <2>1, RankTag
<1> HIDE DEF loc2
<1>11. PICK es : es = <<>>
  OBVIOUS
<1>12. es \in Seq(Entries) /\ Len(es) = 0 /\ 1..Len(es) = {} /\ Becomes(t, b, es)
  <2>1. es \in Seq(Entries) /\ Len(es) = 0 /\ 1..Len(es) = {}
    BY <1>11
  <2> QED
    BY <1>0, <1>1, <1>11, <2>1, ThenBecomes
<1>13. Located(loc2)'
  <2>1. Moves(t, b, es, loc, loc2)
    <3>1. {d0} \in SUBSET DutySet /\ H(t) \in {b, b + 1}
      BY <1>1, <1>4
    <3>2. /\ H(t) = b + 1 /\ Duty(At(t, H(t))) # NoDuty => Duty(At(t, H(t))) \in {d0}
          /\ \A d \in {d0} : loc[d][1] # "at" \/ (H(t) = b + 1 /\ Duty(At(t, H(t))) = d)
          /\ \A d \in {d0} : \/ loc2[d][1] # "at"
                             \/ \E j \in 1..Len(es) :
                                   Duty(es[j]) = d /\ loc2[d] = Place(t, b + Len(es) - j + 1)
          /\ \A j \in 1..Len(es) : Duty(es[j]) # NoDuty =>
                loc2[Duty(es[j])] = Place(t, b + Len(es) - j + 1)
      BY <1>1, <1>2, <1>3, <1>10, <1>12
    <3>3. \A d \in {d0} : Fits(d, loc2[d])
      BY <1>3, <1>10 DEF Fits
    <3> QED
      BY <1>0, <1>10, <1>12, <3>1, <3>2, <3>3, MovesSome
  <2>2. b <= H(t)
    BY <1>1
  <2> QED
    BY <1>0, <1>12, <2>1, <2>2, LocatedStep
<1>14. Lists(loc2)'
  <2>1. Duty(At(t, H(t)))[1] # "run"
    BY <1>2, <1>3, NodeNoRun
  <2>2. head' = [head EXCEPT ![v] = n] /\ UNCHANGED <<state, next>>
    BY <1>4
  <2>3. es \in Seq(Entries) /\ es = <<>> /\ Becomes(t, b, es)
    BY <1>11, <1>12
  <2>4. Pushed(loc, loc2, v, n, R)
    BY <1>9, <1>10 DEF Pushed
  <2>5. H(t) = b + 1 /\ n \in Nodes /\ v = n.av
    BY <1>1, <1>3, <1>4
  <2> QED
    BY <1>0, <1>5, <1>7, <1>8, <2>1, <2>2, <2>3, <2>4, <2>5, ListsPush
<1>15. Guarded'
  BY <1>0, <1>1, <1>12, GuardedStep
<1>16. Stable
  BY DEF Stable
<1>17. Facts'
  <2>1. Keeps(t, b)
    BY DEF Keeps
  <2>2. At(t, H(t)).op \notin {"store", "AddRef"}
    BY <1>2, <1>3
  <2> QED
    BY <1>0, <1>1, <1>12, <1>16, <2>1, <2>2, FactsStep
<1>18. Contents'
  <2>1. At(t, H(t)).op # "NotifyAvailable" /\ UNCHANGED <<state, payload, value, freed>>
        /\ produced \subseteq produced'
    BY <1>2, <1>3
  <2> QED
    BY <1>0, <1>1, <1>12, <2>1, ContentsStep
<1>19. \A d \in DutySet : /\ loc2[d] = Unborn <=> loc[d] = Unborn
                          /\ loc2[d] = Over <=> loc[d] = Over
                          /\ loc2[d] = Divided <=> loc[d] = Divided
  <2>1. \A x \in {Unborn, Over, Divided} : x[1] # "at" /\ x[1] # "list"
    BY DEF Unborn, Over, Divided
  <2> QED
    BY <1>8, <1>10, <2>1
<1>20. /\ \A u \in Values : <<"set", u>> \in DutySet
       /\ \A w \in Callbacks : <<"waiter", w>> \in DutySet
       /\ \A k \in Places : <<"count", k>> \in DutySet
       /\ <<"waiter", Callee>> \in DutySet
  BY DEF DutySet, Callbacks
<1>21. Progress(loc2)'
  BY <1>0, <1>19, <1>20 DEF Progress, Available
<1>22. Counted(loc2)'
  <2>1. \A m \in Nodes, r \in Nat : loc2[NodeDuty(m)] = Ranked(m, r) => NodeFact(m)
    <3> SUFFICES ASSUME NEW m \in Nodes, NEW r \in Nat, loc2[NodeDuty(m)] = Ranked(m, r)
                 PROVE  NodeFact(m)
      OBVIOUS
    <3>1. NodeDuty(m) \in DutySet
      BY NodeValues
    <3>2. CASE NodeDuty(m) # d0
      BY <1>0, <1>10, <3>1, <3>2 DEF Counted
    <3>3. CASE NodeDuty(m) = d0
      <4>1. Ranked(m, r) = Ranked(n, R)
        BY <1>10, <3>3
      <4>2. m = n
        BY <4>1 DEF Ranked
      <4> QED
        BY <1>7, <4>2
    <3> QED
      BY <3>2, <3>3
  <2>2. \A m \in Nodes, r \in Nat : loc2[NodeDuty(m)] = Ranked(m, r) => NodeFact(m)'
    BY <2>1 DEF NodeFact, Available
  <2>3. Active(loc2) = Active(loc)
    BY <1>19, <1>20 DEF Active
  <2>4. loc2[<<"waiter", Callee>>] = Divided <=> loc[<<"waiter", Callee>>] = Divided
    BY <1>19, <1>20
  <2>5. IF loc2[<<"waiter", Callee>>] = Divided
        THEN /\ counter' = Cardinality(Active(loc2)) /\ counter' > 0
             /\ \A k \in Places \ Active(loc2) : Available(Group[k])'
        ELSE Active(loc2) = {}
    BY <1>0, <2>3, <2>4 DEF Counted, Available
  <2>6. Active(loc2)' = Active(loc2)
    BY DEF Active
  <2> QED
    BY <2>2, <2>5, <2>6 DEF Counted
<1>23. Counts(loc2)'
  <2>1. ASSUME NEW u \in Values
        PROVE  /\ IsFiniteSet(ByCalls(u)') /\ IsFiniteSet(ByNodes(loc2, u))
               /\ Cardinality(ByCalls(u)') + Cardinality(ByNodes(loc2, u))
                   = Cardinality(ByCalls(u)) + Cardinality(ByNodes(loc, u))
    <3>1. IsFiniteSet(ByCalls(u)) /\ IsFiniteSet(ByNodes(loc, u))
      BY <1>0 DEF Counts
    <3>2. /\ IsFiniteSet(ByCalls(u)')
          /\ Cardinality(ByCalls(u)') =
                Cardinality(ByCalls(u))
                  - (IF H(t) = b + 1 /\ u \in Owns(At(t, H(t))) THEN 1 ELSE 0)
                  + (IF \E j \in 1..Len(es) : u \in Owns(es[j]) THEN 1 ELSE 0)
      <4>1. At(t, H(t)).op # "AddRef" /\ \A j \in 1..Len(es) : es[j].op # "AddRef"
        BY <1>2, <1>3, <1>12
      <4>2. \A i, j \in 1..Len(es) : u \in Owns(es[i]) /\ u \in Owns(es[j]) => i = j
        BY <1>12
      <4>0. es \in Seq(Entries) /\ Becomes(t, b, es)
        BY <1>12
      <4>3. (H(t) = 0 /\ b = 0) \/ (H(t) = b + 1 /\ At(t, H(t)).op # "AddRef")
        BY <1>1, <4>1
      <4> QED
        BY ONLY <1>0, <3>1, <4>0, t \in Threads, b \in Nat,
            <4>1, <4>2, <4>3, CallsStep
    <3>3. Cardinality(ByCalls(u)) \in Nat /\ Cardinality(ByNodes(loc, u)) \in Nat
      BY <3>1, FS_CardinalityType
    <3>4. Cardinality(ByCalls(u)') = Cardinality(ByCalls(u)) - (IF u \in NodeOwns(n) THEN 1 ELSE 0)
      BY <1>1, <1>2, <1>3, <1>12, <3>2, <3>3
    <3>5. \A m \in Nodes : \A r \in Nat :
            loc2[NodeDuty(m)] = Ranked(m, r) <=>
                (loc[NodeDuty(m)] = Ranked(m, r) \/ (m = n /\ r = R))
      <4> SUFFICES ASSUME NEW m \in Nodes, NEW r \in Nat
                   PROVE  loc2[NodeDuty(m)] = Ranked(m, r) <=>
                            (loc[NodeDuty(m)] = Ranked(m, r) \/ (m = n /\ r = R))
        OBVIOUS
      <4>1. NodeDuty(m) \in DutySet
        BY NodeValues
      <4>2. CASE NodeDuty(m) # d0
        BY <1>10, <4>1, <4>2
      <4>3. CASE NodeDuty(m) = d0
        <5>1. loc[NodeDuty(m)] # Ranked(m, r)
          BY <1>8, <4>3, RankTag
        <5>2. Ranked(n, R) = Ranked(m, r) <=> (m = n /\ r = R)
          BY DEF Ranked
        <5> QED
          BY <1>10, <4>3, <5>1, <5>2
      <4> QED
        BY <4>2, <4>3
    <3>6. n \notin ByNodes(loc, u)
      <4>1. \A r : loc[NodeDuty(n)] # Ranked(n, r)
        BY <1>8, RankTag
      <4> QED
        BY <4>1 DEF ByNodes
    <3>7. ByNodes(loc2, u) = IF u \in NodeOwns(n) THEN ByNodes(loc, u) \cup {n} ELSE ByNodes(loc, u)
      BY <1>3, <3>5 DEF ByNodes
    <3>8. CASE u \in NodeOwns(n)
      <4>1. IsFiniteSet(ByNodes(loc2, u)) /\ Cardinality(ByNodes(loc2, u)) = Cardinality(ByNodes(loc, u)) + 1
        <5>1. ByNodes(loc2, u) = ByNodes(loc, u) \cup {n}
          BY <3>7, <3>8
        <5> QED
          BY ONLY <3>1, <3>6, <5>1, FS_AddElement
      <4> QED
        BY <3>2, <3>3, <3>4, <3>8, <4>1
    <3>9. CASE u \notin NodeOwns(n)
      BY <3>1, <3>2, <3>3, <3>4, <3>7, <3>9
    <3> QED
      BY <3>8, <3>9
  <2>2. UNCHANGED <<refcount, freed, holds, value>>
    OBVIOUS
  <2> QED
    BY <2>1, <2>2, CountsMoved
<1>24. Types'
  <2>1. head' \in [Values -> Links]
    BY <1>0, <1>3, <1>4 DEF Links
  <2> QED
    BY <1>0, <1>12, <2>1 DEF Types, Becomes
<1> QED
  BY <1>13, <1>14, <1>15, <1>17, <1>18, <1>21, <1>22, <1>23, <1>24 DEF Inv

\* EnqueueWaiterListNode: pushed, run or tried again.
LEMMA EnqueueKeeps ==
    ASSUME NEW loc, Inv(loc), NEW t \in Threads, EnqueueWaiterListNode(t)
    PROVE  \E loc2 : Inv(loc2)'
<1>1. Top(t, "compare_exchange")
  BY DEF EnqueueWaiterListNode
<1>2. PICK n : n = Head(stack[t]).node
  OBVIOUS
<1>3. PICK call : call = Head(stack[t])
  OBVIOUS
<1>4. UNCHANGED <<state, value, payload, refcount, freed, counter, holds, produced, asked, ran>>
  BY DEF EnqueueWaiterListNode
<1>5. CASE /\ Word(n.av) = call.expected /\ head' = [head EXCEPT ![n.av] = n]
           /\ Then(t, <<>>) /\ UNCHANGED next
  BY <1>1, <1>2, <1>3, <1>4, <1>5, PushKeeps
<1>6. CASE Available(n.av) /\ Then(t, RunWaiter(n)) /\ UNCHANGED <<head, next>>
  <2>1. UNCHANGED <<state, head, next, value, payload, refcount, freed, counter, holds,
                    produced, asked, ran>>
    BY <1>4, <1>6
  <2> QED
    BY <1>1, <1>2, <1>6, <2>1, RunNow
<1>7. CASE /\ ~Available(n.av) /\ Then(t, <<[call EXCEPT !.expected = Word(n.av)]>>)
           /\ next' = Relinked(n) /\ UNCHANGED head
  <2>1. call \in Entries /\ call.op = "compare_exchange"
    <3>1. Types
      BY DEF Inv
    <3> QED
      BY <1>1, <1>3, <3>1, TopOf
  <2>2. PICK m \in Nodes, x \in Links \X Unavailable : call = ECas(m, x)
    BY <2>1, EntryForms
  <2>3. m = n
    BY <1>2, <1>3, <2>2, Table
  <2>4. [call EXCEPT !.expected = Word(n.av)] = ECas(n, Word(n.av))
    BY <2>2, <2>3 DEF ECas
  <2>5. Then(t, <<ECas(n, Word(n.av))>>) /\ next' = [next EXCEPT ![n] = head[n.av]]
    BY <1>7, <2>4 DEF Relinked
  <2>6. UNCHANGED <<state, head, value, payload, refcount, freed, counter, holds,
                    produced, asked, ran>>
    BY <1>4, <1>7
  <2> QED
    BY <1>1, <1>2, <1>7, <2>5, <2>6, LinkNow
<1> QED
  BY <1>2, <1>3, <1>5, <1>6, <1>7 DEF EnqueueWaiterListNode

\* The end of BlockUntilReady.
LEMMA WakeKeeps ==
    ASSUME NEW loc, Inv(loc), NEW t \in Threads, Wake(t)
    PROVE  Inv(loc)'
<1>0. Types /\ Top(t, "WaitForNotification") /\ Then(t, <<>>)
  BY DEF Inv, Wake
<1>1. PICK b \in Nat :
              /\ H(t) = b + 1 /\ H(t) - 1 = b /\ H(t) \in 1..H(t)
              /\ At(t, H(t)) = Head(stack[t]) /\ stack[t] # <<>>
              /\ Head(stack[t]) \in Entries /\ Head(stack[t]).op = "WaitForNotification"
  BY <1>0, TopOf
<1>2. PICK e : e = At(t, H(t))
  OBVIOUS
<1>3. e.op = "WaitForNotification" /\ Duty(e) = NoDuty /\ Owns(e) = {}
  BY <1>1, <1>2, EntryForms, Table
<1>4. UNCHANGED <<state, head, next, payload, value, refcount, freed, holds, produced, asked,
                  ran, counter>>
  BY DEF Wake
<1> QED
  BY <1>0, <1>1, <1>2, <1>3, <1>4, NoCall

\* ForwardTo finds the value available and concrete.
LEMMA ForwardConcrete ==
    ASSUME NEW loc, Inv(loc), NEW t \in Threads, Top(t, "ForwardTo"),
           NEW i, i = Head(stack[t]).av, NEW v, v = Head(stack[t]).to,
           Available(v), v \notin Indirect,
           Then(t, <<[op |-> "SetValue", av |-> i, to |-> v, s |-> state[v]]>>),
           UNCHANGED <<state, head, next, value, payload, refcount, freed, counter, holds,
                       produced, asked, ran>>
    PROVE  Inv(loc)'
<1>0. Types /\ \A u \in Values : refcount[u] \in Nat
  BY DEF Inv, Types
<1>1. PICK b \in Nat :
              /\ H(t) = b + 1 /\ H(t) - 1 = b /\ H(t) \in 1..H(t)
              /\ At(t, H(t)) = Head(stack[t]) /\ stack[t] # <<>>
              /\ Head(stack[t]) \in Entries /\ Head(stack[t]).op = "ForwardTo"
  BY <1>0, TopOf
<1>2. PICK e : e = At(t, H(t))
  OBVIOUS
<1>3. /\ i \in Indirect /\ v = Target[i] /\ e.op = "ForwardTo" /\ Duty(e) = <<"set", i>>
      /\ Guards(e) = {i} /\ Owns(e) = {v}
  BY <1>1, <1>2, EntryForms, Table
<1>4. v \in Concrete /\ v \in Values
  BY <1>3, KindsAssumption DEF Values
<1>5. PICK s \in Outcomes : s = state[v]
  BY <1>0, <1>4 DEF Types, Available
<1>6. PICK c \in Entries :
          /\ c = ESet(i, v, s) /\ c.op = "SetValue" /\ c.av = i /\ c.to = v /\ c.s = s
          /\ Duty(c) = Duty(e) /\ Guards(c) = {i} /\ Owns(c) = {v}
  BY <1>3, <1>4, EntriesMade, Table
<1>7. Then(t, <<c>>)
  BY <1>5, <1>6 DEF ESet
<1>8. Fact(c)'
  <2>1. Forwarded(i, v, s)'
    BY <1>3, <1>5 DEF Forwarded
  <2> QED
    BY <1>6, <2>1 DEF Fact
<1>9. Passes(e, c)
  BY <1>0, <1>3, <1>6 DEF Passes
<1>10. /\ e.op \notin {"store", "AddRef", "NotifyAvailable"}
       /\ c.op \notin {"store", "AddRef", "NotifyAvailable"}
       /\ Guards(c) \subseteq Guards(e) /\ Duty(e)[1] # "run"
       /\ next' \in [Nodes -> Links] /\ refcount' \in [Values -> Nat]
       /\ \A n \in Nodes : next'[n] = next[n] \/ loc[NodeDuty(n)] = Place(t, b + 1)
  BY <1>0, <1>3, <1>6 DEF Types
<1>11. UNCHANGED <<state, head, payload, value, freed, holds, produced, asked, ran, counter>>
  OBVIOUS
<1> QED
  BY <1>1, <1>2, <1>6, <1>7, <1>8, <1>9, <1>10, <1>11, OneCall

\* ForwardTo finds it unavailable: a waiter with a reference to the indirect value.
LEMMA ForwardLater ==
    ASSUME NEW loc, Inv(loc), NEW t \in Threads, Top(t, "ForwardTo"),
           NEW i, i = Head(stack[t]).av, NEW v, v = Head(stack[t]).to,
           refcount' = [refcount EXCEPT ![i] = @ + 1],
           Then(t, <<[op |-> "AndThen", node |-> Forward(i)]>>),
           UNCHANGED <<state, head, next, value, payload, freed, counter, holds,
                       produced, asked, ran>>
    PROVE  Inv(loc)'
<1>0. /\ Types /\ refcount \in [Values -> Nat] /\ stack \in [Threads -> Seq(Entries)]
      /\ holds \in [Threads -> SUBSET Values] /\ Counts(loc) /\ Guarded
  BY DEF Inv, Types
<1>1. PICK b \in Nat :
              /\ H(t) = b + 1 /\ H(t) - 1 = b /\ H(t) \in 1..H(t)
              /\ At(t, H(t)) = Head(stack[t]) /\ stack[t] # <<>>
              /\ Head(stack[t]) \in Entries /\ Head(stack[t]).op = "ForwardTo"
  BY <1>0, TopOf
<1>2. PICK e : e = At(t, H(t))
  OBVIOUS
<1>3. /\ i \in Indirect /\ v = Target[i] /\ e.op = "ForwardTo" /\ Duty(e) = <<"set", i>>
      /\ Guards(e) = {i} /\ Owns(e) = {v}
  BY <1>1, <1>2, EntryForms, Table
<1>4. i \in Values /\ v # i
  <2>1. {i} \in SUBSET Indirect /\ {i} # {}
    BY <1>3
  <2>2. \E j \in {i} : Target[j] \notin {i}
    BY <2>1, ForwardAssumption
  <2> QED
    BY <1>3, <2>2 DEF Values
<1>5. refcount[i] > 0
  <2>1. i \in Guards(At(t, H(t)))
    BY <1>2, <1>3
  <2> QED
    BY <1>0, <1>1, <2>1, GuardsAlive
<1>6. PICK c \in Entries :
          /\ c = EAndThen(Forward(i)) /\ c.op = "AndThen" /\ c.node = Forward(i)
          /\ Duty(c) = Duty(e) /\ Guards(c) = {} /\ Owns(c) = {i, v}
  BY <1>3, EntriesMade, Table, NodeTable
<1>7. Then(t, <<c>>)
  BY <1>6 DEF EAndThen
<1>8. Fact(c)'
  <2>1. Forward(i).kind # "last"
    BY <1>3, NodeTable
  <2> QED
    BY <1>6, <2>1 DEF Fact, NodeFact
<1>9. refcount' \in [Values -> Nat]
  BY <1>0, <1>4
<1>10. Passes(e, c)
  <2> SUFFICES ASSUME NEW u \in Values
               PROVE  /\ refcount'[u] = refcount[u] - (IF u \in Owns(e) THEN 1 ELSE 0)
                                          + (IF u \in Owns(c) THEN 1 ELSE 0)
                      /\ refcount'[u] = 0 <=> refcount[u] = 0
    BY DEF Passes
  <2>1. refcount[u] \in Nat /\ refcount'[u] = IF u = i THEN refcount[u] + 1 ELSE refcount[u]
    BY <1>0, <1>4
  <2> QED
    BY <1>3, <1>4, <1>5, <1>6, <2>1
<1>11. /\ e.op \notin {"store", "AddRef", "NotifyAvailable"}
       /\ c.op \notin {"store", "AddRef", "NotifyAvailable"}
       /\ Guards(c) \subseteq Guards(e) /\ Duty(e)[1] # "run"
       /\ next' \in [Nodes -> Links]
       /\ \A n \in Nodes : next'[n] = next[n] \/ loc[NodeDuty(n)] = Place(t, b + 1)
  BY <1>0, <1>3, <1>6 DEF Types
<1>12. UNCHANGED <<state, head, payload, value, freed, holds, produced, asked, ran, counter>>
  OBVIOUS
<1> QED
  BY <1>1, <1>2, <1>6, <1>7, <1>8, <1>9, <1>10, <1>11, <1>12, OneCall

\* RunWhenReady looks at the next value.
LEMMA ScanKeeps ==
    ASSUME NEW loc, Inv(loc), NEW t \in Threads, Scan(t)
    PROVE  Inv(loc)'
<1>0. /\ Types /\ Facts /\ Top(t, "scan") /\ \A u \in Values : refcount[u] \in Nat
  BY DEF Inv, Types, Scan
<1>1. PICK b \in Nat :
              /\ H(t) = b + 1 /\ H(t) - 1 = b /\ H(t) \in 1..H(t)
              /\ At(t, H(t)) = Head(stack[t]) /\ stack[t] # <<>>
              /\ Head(stack[t]) \in Entries /\ Head(stack[t]).op = "scan"
  BY <1>0, TopOf
<1>2. PICK e : e = At(t, H(t))
  OBVIOUS
<1>3. PICK k \in 1..Len(Group) + 1, un \in Seq(Places) : e = EScan(k, un)
  BY <1>1, <1>2, EntryForms
<1>4. /\ e.op = "scan" /\ e.k = k /\ e.unavailable = un /\ Duty(e) = <<"waiter", Callee>>
      /\ Owns(e) = {} /\ Guards(e) = {Group[j] : j \in Places}
  BY <1>3, Table
<1>5. k <= Len(Group) /\ k \in Places /\ k + 1 \in 1..Len(Group) + 1 /\ Len(Group) \in Nat
  <2>1. k <= Len(Group)
    BY <1>1, <1>2, <1>4 DEF Scan
  <2>2. Len(Group) \in Nat
    BY KindsAssumption
  <2> QED
    BY <2>1, <2>2 DEF Places
<1>6. PICK un2 \in Seq(Places) : un2 = IF Available(Group[k]) THEN un ELSE Append(un, k)
  <2>1. Append(un, k) \in Seq(Places)
    BY <1>5
  <2> QED
    BY <2>1
<1>7. PICK c \in Entries :
          /\ c = EScan(k + 1, un2) /\ c.op = "scan" /\ c.k = k + 1 /\ c.unavailable = un2
          /\ Duty(c) = Duty(e) /\ Guards(c) = Guards(e) /\ Owns(c) = Owns(e)
  BY <1>4, <1>5, EntriesMade, Table
<1>8. Then(t, <<c>>)
  <2>1. Then(t, <<[e EXCEPT !.k = @ + 1,
                     !.unavailable = IF Available(Group[e.k]) THEN @ ELSE Append(@, e.k)]>>)
    BY <1>1, <1>2 DEF Scan
  <2>2. PICK z : z = [e EXCEPT !.k = @ + 1,
                        !.unavailable = IF Available(Group[e.k]) THEN @ ELSE Append(@, e.k)]
    OBVIOUS
  <2>3. DOMAIN e = {"op", "k", "unavailable"}
    BY <1>3 DEF EScan
  <2>4. z = [e EXCEPT !.k = k + 1, !.unavailable = un2]
    BY <1>4, <1>6, <2>2
  <2>5. /\ DOMAIN z = {"op", "k", "unavailable"}
        /\ z.op = "scan" /\ z.k = k + 1 /\ z.unavailable = un2
    BY <1>4, <2>3, <2>4
  <2>6. z = [x \in {"op", "k", "unavailable"} |-> z[x]]
    BY <2>5, <2>4
  <2>7. z = c
    BY <1>7, <2>5, <2>6 DEF EScan
  <2> QED
    BY <2>1, <2>2, <2>7
<1>9. UNCHANGED <<state, head, next, value, payload, refcount, freed, counter, holds, produced,
                  asked, ran>>
  BY DEF Scan
<1>10. Fact(c)'
  <2>1. /\ \A j \in 1..Len(un) : un[j] < k
        /\ \A i, j \in 1..Len(un) : un[i] = un[j] => i = j
        /\ \A p \in 1..k - 1 : Available(Group[p]) \/ \E j \in 1..Len(un) : un[j] = p
    <3>1. Fact(e)
      BY <1>0, <1>1, <1>2 DEF Facts
    <3> QED
      BY <1>4, <3>1 DEF Fact
  <2>2. CASE Available(Group[k])
    <3>1. un2 = un
      BY <1>6, <2>2
    <3>2. \A p \in 1..(k + 1) - 1 : Available(Group[p]) \/ \E j \in 1..Len(un) : un[j] = p
      <4>1. \A p \in 1..(k + 1) - 1 : p \in 1..k - 1 \/ p = k
        OBVIOUS
      <4> QED
        BY <2>1, <2>2, <4>1
    <3>3. \A p \in 1..(k + 1) - 1 : Available(Group[p])' \/ \E j \in 1..Len(un) : un[j] = p
      BY <1>9, <3>2 DEF Available
    <3>4. \A j \in 1..Len(un) : un[j] < k + 1
      <4>1. \A j \in 1..Len(un) : un[j] \in Nat
        BY <1>3 DEF Places
      <4> QED
        BY <2>1, <4>1
    <3>5. /\ \A j \in 1..Len(un2) : un2[j] < k + 1
          /\ \A i, j \in 1..Len(un2) : un2[i] = un2[j] => i = j
          /\ \A p \in 1..(k + 1) - 1 :
                Available(Group[p])' \/ \E j \in 1..Len(un2) : un2[j] = p
      BY <2>1, <3>1, <3>3, <3>4
    <3> QED
      BY <1>7, <3>5 DEF Fact
  <2>3. CASE ~Available(Group[k])
    <3>1. /\ un2 = Append(un, k) /\ Len(un2) = Len(un) + 1 /\ un2[Len(un) + 1] = k
          /\ Len(un) \in Nat /\ \A j \in 1..Len(un) : un2[j] = un[j] /\ un[j] \in Nat
      BY <1>3, <1>6, <2>3 DEF Places
    <3>2. \A j \in 1..Len(un2) : j \in 1..Len(un) \/ j = Len(un) + 1
      BY <3>1
    <3>3. \A j \in 1..Len(un2) : un2[j] < k + 1
      BY <2>1, <3>1, <3>2
    <3>4. \A i, j \in 1..Len(un2) : un2[i] = un2[j] => i = j
      BY <2>1, <3>1, <3>2
    <3>5. \A p \in 1..(k + 1) - 1 : Available(Group[p]) \/ \E j \in 1..Len(un2) : un2[j] = p
      <4>1. \A p \in 1..(k + 1) - 1 : p \in 1..k - 1 \/ p = k
        OBVIOUS
      <4>2. \A j \in 1..Len(un) : j \in 1..Len(un2)
        BY <3>1
      <4>3. Len(un) + 1 \in 1..Len(un2)
        BY <3>1
      <4> QED
        BY <2>1, <3>1, <4>1, <4>2, <4>3
    <3>6. \A p \in 1..(k + 1) - 1 : Available(Group[p])' \/ \E j \in 1..Len(un2) : un2[j] = p
      BY <1>9, <3>5 DEF Available
    <3> QED
      BY <1>7, <3>3, <3>4, <3>6 DEF Fact
  <2> QED
    BY <2>2, <2>3
<1>11. Passes(e, c)
  BY <1>0, <1>7, <1>9 DEF Passes
<1>12. /\ e.op \notin {"store", "AddRef", "NotifyAvailable"}
       /\ c.op \notin {"store", "AddRef", "NotifyAvailable"}
       /\ Guards(c) \subseteq Guards(e) /\ Duty(e)[1] # "run"
       /\ next' \in [Nodes -> Links] /\ refcount' \in [Values -> Nat]
       /\ \A n \in Nodes : next'[n] = next[n] \/ loc[NodeDuty(n)] = Place(t, b + 1)
  BY <1>0, <1>4, <1>7, <1>9 DEF Types
<1>13. UNCHANGED <<state, head, payload, value, freed, holds, produced, asked, ran, counter>>
  BY <1>9
<1> QED
  BY <1>1, <1>2, <1>7, <1>8, <1>10, <1>11, <1>12, <1>13, OneCall

\* The values of a sequence without repetitions are as many as it is long.
LEMMA CountSeq ==
    ASSUME NEW S, NEW s \in Seq(S), \A i, j \in 1..Len(s) : s[i] = s[j] => i = j
    PROVE  Cardinality({s[j] : j \in 1..Len(s)}) = Len(s)
<1> DEFINE T == {s[j] : j \in 1..Len(s)}
<1>1. Len(s) \in Nat /\ s \in [1..Len(s) -> T]
  OBVIOUS
<1>2. \A x \in T : \E j \in 1..Len(s) : s[j] = x
  OBVIOUS
<1> HIDE DEF T
<1>3. s \in Surjection(1..Len(s), T)
  BY <1>1, <1>2 DEF Surjection
<1>4. s \in Injection(1..Len(s), T)
  BY <1>1 DEF Injection, IsInjective
<1>5. IsFiniteSet(1..Len(s)) /\ Cardinality(1..Len(s)) = Len(s)
  <2>1. /\ IsFiniteSet(1..Len(s))
        /\ Cardinality(1..Len(s)) = IF 1 > Len(s) THEN 0 ELSE Len(s) - 1 + 1
    BY <1>1, FS_Interval
  <2> QED
    BY <1>1, <2>1
<1>6. Cardinality(T) = Cardinality(1..Len(s))
  BY <1>3, <1>4, <1>5, FS_Surjection
<1> QED
  BY <1>5, <1>6 DEF T

\* The scan found one value unavailable or none.
LEMMA EndScanOne ==
    ASSUME NEW loc, Inv(loc), NEW t \in Threads, Top(t, "scan"), NEW un,
           un = Head(stack[t]).unavailable, Head(stack[t]).k > Len(Group),
           \/ Len(un) = 0 /\ Then(t, <<[op |-> "call", w |-> Callee]>>)
           \/ Len(un) = 1 /\ Then(t, <<[op |-> "AndThen", node |-> Last(un[1])]>>),
           UNCHANGED <<state, head, next, value, payload, refcount, freed, counter, holds,
                       produced, asked, ran>>
    PROVE  Inv(loc)'
<1>0. /\ Types /\ Facts /\ \A u \in Values : refcount[u] \in Nat
  BY DEF Inv, Types
<1>1. PICK b \in Nat :
              /\ H(t) = b + 1 /\ H(t) - 1 = b /\ H(t) \in 1..H(t)
              /\ At(t, H(t)) = Head(stack[t]) /\ stack[t] # <<>>
              /\ Head(stack[t]) \in Entries /\ Head(stack[t]).op = "scan"
  BY <1>0, TopOf
<1>2. PICK e : e = At(t, H(t))
  OBVIOUS
<1>3. PICK k \in 1..Len(Group) + 1, x \in Seq(Places) : e = EScan(k, x)
  BY <1>1, <1>2, EntryForms
<1>4. /\ e.op = "scan" /\ e.k = k /\ e.unavailable = un /\ un \in Seq(Places)
      /\ Duty(e) = <<"waiter", Callee>>
      /\ Owns(e) = {} /\ Guards(e) = {Group[j] : j \in Places}
  BY <1>1, <1>2, <1>3, Table
<1>5. \A p \in Places : Available(Group[p]) \/ \E j \in 1..Len(un) : un[j] = p
  <2>1. Len(Group) \in Nat
    BY KindsAssumption
  <2>2. 1..k - 1 = Places
    BY <1>1, <1>2, <1>4, <2>1 DEF Places
  <2>3. Fact(e)
    BY <1>0, <1>1, <1>2 DEF Facts
  <2>4. \A p \in 1..k - 1 : Available(Group[p]) \/ \E j \in 1..Len(un) : un[j] = p
    BY <1>4, <2>3 DEF Fact
  <2> QED
    BY <2>2, <2>4
<1>6. \E c \in Entries :
          /\ Then(t, <<c>>) /\ Fact(c)' /\ c.op \in {"call", "AndThen"}
          /\ Duty(c) = Duty(e) /\ Guards(c) \subseteq Guards(e) /\ Owns(c) = {}
  <2>1. CASE Len(un) = 0 /\ Then(t, <<[op |-> "call", w |-> Callee]>>)
    <3>1. PICK c \in Entries :
            /\ c = ECall(Callee) /\ c.op = "call" /\ c.w = Callee /\ Owns(c) = {}
            /\ Duty(c) = Duty(e) /\ Guards(c) = {}
      BY <1>4, EntriesMade, Table, KindsAssumption DEF Callbacks
    <3>2. \A p \in Places : Available(Group[p])
      BY <1>5, <2>1
    <3>3. \A v \in Needs(Callee) : Available(v)'
      BY <3>2 DEF Needs, Places, Available
    <3>4. Fact(c)'
      BY <3>1, <3>3 DEF Fact
    <3>5. Then(t, <<c>>)
      BY <2>1, <3>1 DEF ECall
    <3> QED
      BY <3>1, <3>4, <3>5
  <2>2. CASE Len(un) = 1 /\ Then(t, <<[op |-> "AndThen", node |-> Last(un[1])]>>)
    <3>1. PICK p \in Places : p = un[1]
      BY <1>4, <2>2
    <3>2. PICK c \in Entries :
            /\ c = EAndThen(Last(p)) /\ c.op = "AndThen" /\ c.node = Last(p) /\ Owns(c) = {}
            /\ Duty(c) = Duty(e) /\ Guards(c) = {Group[p]}
      BY <1>4, EntriesMade, Table, NodeTable
    <3>3. \A q \in Places \ {p} : Available(Group[q])'
      <4>1. \A q \in Places \ {p} : Available(Group[q])
        BY <1>5, <2>2, <3>1
      <4> QED
        BY <4>1 DEF Available
    <3>4. NodeFact(Last(p))'
      BY <3>3, NodeTable DEF NodeFact
    <3>5. Fact(c)'
      BY <3>2, <3>4 DEF Fact
    <3>6. Then(t, <<c>>)
      BY <2>2, <3>1, <3>2 DEF EAndThen
    <3> QED
      BY <1>4, <3>2, <3>5, <3>6
  <2> QED
    BY <2>1, <2>2
<1>7. PICK c \in Entries :
          /\ Then(t, <<c>>) /\ Fact(c)' /\ c.op \in {"call", "AndThen"}
          /\ Duty(c) = Duty(e) /\ Guards(c) \subseteq Guards(e) /\ Owns(c) = {}
  BY <1>6
<1>8. Passes(e, c)
  BY <1>0, <1>4, <1>7 DEF Passes
<1>9. /\ e.op \notin {"store", "AddRef", "NotifyAvailable"}
      /\ c.op \notin {"store", "AddRef", "NotifyAvailable"}
      /\ Duty(e)[1] # "run"
      /\ next' \in [Nodes -> Links] /\ refcount' \in [Values -> Nat]
      /\ \A n \in Nodes : next'[n] = next[n] \/ loc[NodeDuty(n)] = Place(t, b + 1)
  BY <1>0, <1>4, <1>7 DEF Types
<1>10. UNCHANGED <<state, head, payload, value, freed, holds, produced, asked, ran, counter>>
  OBVIOUS
<1> QED
  BY <1>1, <1>2, <1>7, <1>8, <1>9, <1>10, OneCall

\* The scan found several: the duty to run the callee is divided among them.
LEMMA EndScanMany ==
    ASSUME NEW loc, Inv(loc), NEW t \in Threads, Top(t, "scan"), NEW un,
           un = Head(stack[t]).unavailable, Head(stack[t]).k > Len(Group), Len(un) > 1,
           Then(t, [k \in 1..Len(un) |-> [op |-> "AndThen", node |-> Countdown(un[k])]]),
           counter' = Len(un),
           UNCHANGED <<state, head, next, value, payload, refcount, freed, holds,
                       produced, asked, ran>>
    PROVE  \E loc2 : Inv(loc2)'
<1>0. /\ Types /\ Facts /\ stack \in [Threads -> Seq(Entries)] /\ Located(loc) /\ Progress(loc)
      /\ Counted(loc) /\ \A u \in Values : refcount[u] \in Nat
  BY DEF Inv, Types
<1>1. PICK b \in Nat :
              /\ H(t) = b + 1 /\ H(t) - 1 = b /\ H(t) \in 1..H(t)
              /\ At(t, H(t)) = Head(stack[t]) /\ stack[t] # <<>>
              /\ Head(stack[t]) \in Entries /\ Head(stack[t]).op = "scan"
  BY <1>0, TopOf
<1>2. PICK e : e = At(t, H(t))
  OBVIOUS
<1>3. PICK k \in 1..Len(Group) + 1, x \in Seq(Places) : e = EScan(k, x)
  BY <1>1, <1>2, EntryForms
<1>4. /\ e.op = "scan" /\ e.k = k /\ e.unavailable = un /\ un \in Seq(Places)
      /\ Duty(e) = <<"waiter", Callee>>
      /\ Owns(e) = {} /\ Guards(e) = {Group[j] : j \in Places}
  BY <1>1, <1>2, <1>3, Table
<1>5. /\ \A p \in Places : Available(Group[p]) \/ \E j \in 1..Len(un) : un[j] = p
      /\ \A i, j \in 1..Len(un) : un[i] = un[j] => i = j
  <2>1. Len(Group) \in Nat
    BY KindsAssumption
  <2>2. 1..k - 1 = Places
    BY <1>1, <1>2, <1>4, <2>1 DEF Places
  <2>3. Fact(e)
    BY <1>0, <1>1, <1>2 DEF Facts
  <2>4. \A p \in 1..k - 1 : Available(Group[p]) \/ \E j \in 1..Len(un) : un[j] = p
    BY <1>4, <2>3 DEF Fact
  <2>5. \A i, j \in 1..Len(un) : un[i] = un[j] => i = j
    BY <1>4, <2>3 DEF Fact
  <2> QED
    BY <2>2, <2>4, <2>5
<1>6. PICK L \in Nat : L = Len(un) /\ L > 1
  BY <1>4
<1>7. \A j \in 1..L : un[j] \in Places
  BY <1>4, <1>6
<1>8. PICK es \in Seq(Entries) : es = [j \in 1..L |-> EAndThen(Countdown(un[j]))]
  <2>1. \A j \in 1..L : EAndThen(Countdown(un[j])) \in Entries
    BY <1>7, EntriesMade, NodeTable
  <2>2. [j \in 1..L |-> EAndThen(Countdown(un[j]))] \in Seq(Entries)
    BY <2>1
  <2> QED
    BY <2>2
<1>9. /\ Len(es) = L
      /\ \A j \in 1..L : /\ es[j] \in Entries /\ es[j].op = "AndThen"
                         /\ es[j].node = Countdown(un[j])
                         /\ Duty(es[j]) = <<"count", un[j]>> /\ Owns(es[j]) = {}
                         /\ Guards(es[j]) \subseteq Guards(e)
  <2>1. Len(es) = L /\ \A j \in 1..L : es[j] = EAndThen(Countdown(un[j]))
    BY <1>8
  <2> QED
    BY <1>4, <1>7, <2>1, EntriesMade, Table, NodeTable
<1>10. Becomes(t, b, es)
  <2>1. Then(t, es)
    BY <1>6, <1>8 DEF EAndThen
  <2> QED
    BY <1>0, <1>1, <2>1, ThenBecomes
<1> DEFINE d0 == <<"waiter", Callee>>
           CountOf(j) == <<"count", un[j]>>
           M == {d0} \cup {CountOf(j) : j \in 1..L}
<1>11. /\ d0 \in DutySet /\ M \in SUBSET DutySet
       /\ \A j \in 1..L : CountOf(j) # d0
       /\ \A i, j \in 1..L : CountOf(i) = CountOf(j) => i = j
  <2>1. d0 \in DutySet /\ \A j \in 1..L : CountOf(j) \in DutySet
    BY <1>7 DEF DutySet, Callbacks
  <2>2. \A j \in 1..L : CountOf(j) # d0 /\ CountOf(j)[2] = un[j]
    OBVIOUS
  <2>3. ASSUME NEW i \in 1..L, NEW j \in 1..L, CountOf(i) = CountOf(j)
        PROVE  i = j
    <3>1. un[i] = un[j]
      BY <2>3
    <3> QED
      BY <1>5, <1>6, <3>1
  <2> HIDE DEF d0, CountOf
  <2> QED
    BY <2>1, <2>2, <2>3
<1>12. loc[d0] = Place(t, b + 1) /\ loc[d0][1] = "at"
  <2>1. H(t) \in 1..H(t) /\ Duty(At(t, H(t))) = d0 /\ d0 \in DutySet
    BY <1>1, <1>2, <1>4, <1>11
  <2> HIDE DEF d0
  <2>2. loc[d0] = Place(t, H(t)) /\ loc[d0][1] = "at"
    BY <1>0, <2>1, DutyAt
  <2> QED
    BY <1>1, <2>2
<1>13. Active(loc) = {} /\ \A j \in 1..L : loc[CountOf(j)] = Over
  <2>1. loc[d0] # Divided
    BY <1>12 DEF Divided
  <2>2. Active(loc) = {}
    BY <1>0, <2>1 DEF Counted
  <2> QED
    BY <1>7, <2>2 DEF Active
<1>14. \E loc2 : /\ DOMAIN loc2 = DutySet /\ loc2[d0] = Divided
                 /\ \A j \in 1..L : loc2[CountOf(j)] = Place(t, b + L - j + 1)
                 /\ \A d \in DutySet \ M : loc2[d] = loc[d]
  <2> DEFINE pos(d) == CHOOSE j \in 1..L : CountOf(j) = d
             f == [d \in DutySet |-> IF d = d0 THEN Divided
                                     ELSE IF d \in M THEN Place(t, b + L - pos(d) + 1)
                                     ELSE loc[d]]
  <2>1. \A j \in 1..L : pos(CountOf(j)) = j
    BY <1>11
  <2>2. \A j \in 1..L : CountOf(j) \in DutySet /\ CountOf(j) \in M
    BY <1>11
  <2> HIDE DEF pos
  <2>3. DOMAIN f = DutySet /\ f[d0] = Divided /\ \A d \in DutySet \ M : f[d] = loc[d]
    BY <1>11
  <2>4. ASSUME NEW j \in 1..L
        PROVE  f[CountOf(j)] = Place(t, b + L - j + 1)
    <3>1. f[CountOf(j)] = Place(t, b + L - pos(CountOf(j)) + 1)
      BY <1>11, <2>2, Zenon
    <3> QED
      BY <2>1, <3>1
  <2> HIDE DEF f
  <2> QED
    BY <2>3, <2>4
<1>15. PICK loc2 : /\ DOMAIN loc2 = DutySet /\ loc2[d0] = Divided
                   /\ \A j \in 1..L : loc2[CountOf(j)] = Place(t, b + L - j + 1)
                   /\ \A d \in DutySet \ M : loc2[d] = loc[d]
  BY <1>14
<1>16. Located(loc2)'
  <2>1. loc2[d0][1] # "at"
    BY <1>15 DEF Divided
  <2>2. H(t) \in {b, b + 1} /\ b <= H(t)
    BY <1>1
  <2>3. Over[1] # "at"
    BY DEF Over
  <2>4. \A d \in M : loc[d][1] # "at" \/ (H(t) = b + 1 /\ Duty(At(t, H(t))) = d)
    BY <1>1, <1>2, <1>4, <1>13, <2>3
  <2>5. \A d \in M : \/ loc2[d][1] # "at"
                     \/ \E j \in 1..Len(es) :
                           Duty(es[j]) = d /\ loc2[d] = Place(t, b + Len(es) - j + 1)
    <3> SUFFICES ASSUME NEW d \in M, d # d0
                 PROVE  \E j \in 1..Len(es) :
                           Duty(es[j]) = d /\ loc2[d] = Place(t, b + Len(es) - j + 1)
      BY <2>1
    <3>1. PICK j \in 1..L : d = CountOf(j)
      OBVIOUS
    <3>2. Duty(es[j]) = d /\ loc2[d] = Place(t, b + L - j + 1)
      BY <1>9, <1>15, <3>1
    <3> QED
      BY <1>9, <3>2
  <2>6. \A j \in 1..Len(es) : Duty(es[j]) # NoDuty =>
              loc2[Duty(es[j])] = Place(t, b + Len(es) - j + 1)
    BY <1>9, <1>15
  <2>7. H(t) = b + 1 /\ Duty(At(t, H(t))) # NoDuty => Duty(At(t, H(t))) \in M
    BY <1>2, <1>4
  <2>9. \A d \in M : Fits(d, loc2[d])
    <3>1. Fits(d0, loc2[d0])
      BY <1>15 DEF Fits
    <3>2. \A j \in 1..L : Fits(CountOf(j), loc2[CountOf(j)])
      BY <1>15, PlaceTag DEF Fits
    <3> QED
      BY <3>1, <3>2
  <2> HIDE DEF M, d0, CountOf
  <2>8. Moves(t, b, es, loc, loc2)
    BY <1>0, <1>11, <1>15, <2>2, <2>4, <2>5, <2>6, <2>7, <2>9, MovesSome
  <2> QED
    BY <1>0, <1>10, <2>2, <2>8, LocatedStep
<1>17. \A d \in DutySet : \/ loc2[d] = loc[d]
                          \/ /\ loc[d][1] # "list" /\ loc2[d][1] # "list"
                             /\ d[1] \in {"waiter", "count"}
  <2>1. Over[1] # "list" /\ Divided[1] # "list"
    BY DEF Over, Divided
  <2> SUFFICES ASSUME NEW d \in M
               PROVE  /\ loc[d][1] # "list" /\ loc2[d][1] # "list"
                      /\ d[1] \in {"waiter", "count"}
    BY <1>15
  <2>2. CASE d = d0
    BY <1>12, <1>15, <2>1, <2>2
  <2>3. CASE \E j \in 1..L : d = CountOf(j)
    <3>1. PICK j \in 1..L : d = CountOf(j)
      BY <2>3
    <3>2. loc[d] = Over /\ loc2[d] = Place(t, b + L - j + 1) /\ d[1] = "count"
      BY <1>13, <1>15, <3>1
    <3> QED
      BY <2>1, <3>2, PlaceTag
  <2> QED
    BY <2>2, <2>3
<1>18. SameRanks(loc, loc2) /\ Lists(loc2)' /\ Guarded' /\ Facts' /\ Contents'
  <2>1. \A v \in Values : loc2[<<"run", v>>] = loc[<<"run", v>>]
    BY <1>17 DEF DutySet
  <2>2. Backed(t, b, es)
    <3> SUFFICES ASSUME NEW j \in 1..Len(es)
                 PROVE  /\ es[j].op \notin {"store", "AddRef", "NotifyAvailable"} /\ Fact(es[j])'
                        /\ \A v \in Guards(es[j]) : v \in Guards(At(t, H(t)))
      BY <1>1 DEF Backed
    <3>1. PICK c, p : c = es[j] /\ p = un[j]
      OBVIOUS
    <3>2. c.op = "AndThen" /\ c.node = Countdown(p) /\ p \in Places
      BY <1>7, <1>9, <3>1
    <3>3. NodeFact(c.node)'
      BY <3>2, NodeTable DEF NodeFact
    <3>4. Fact(c)'
      BY <3>2, <3>3 DEF Fact
    <3> QED
      BY <1>2, <1>9, <3>1, <3>2, <3>4
  <2>3. /\ At(t, H(t)).op \notin {"store", "AddRef", "NotifyAvailable"}
        /\ Duty(At(t, H(t)))[1] # "run"
    BY <1>2, <1>4
  <2>4. /\ \A d \in DutySet : loc2[d] = loc[d] \/ (loc[d][1] # "list" /\ loc2[d][1] # "list")
        /\ \A n \in Nodes :
              next'[n] = next[n] \/ (H(t) = b + 1 /\ loc[NodeDuty(n)] = Place(t, b + 1))
        /\ UNCHANGED <<state, head, payload, value, freed>> /\ produced \subseteq produced'
    BY <1>17
  <2>5. \/ H(t) = 0 /\ b = 0 /\ \A u \in Threads \ {t} : holds'[u] = holds[u]
        \/ /\ H(t) = b + 1 /\ holds' = holds
           /\ At(t, H(t)).op \notin {"store", "AddRef", "NotifyAvailable"}
           /\ Duty(At(t, H(t)))[1] # "run"
    BY <1>1, <2>3
  <2> QED
    BY <1>10, <2>1, <2>2, <2>4, <2>5, QuietStep
<1>19. Progress(loc2)'
  <2>1. Divided # Unborn /\ Divided # Over /\ loc[d0] # Unborn /\ loc[d0] # Over
    BY <1>12 DEF Divided, Unborn, Over
  <2>2. /\ \A v \in Values : loc2[<<"set", v>>] = loc[<<"set", v>>]
        /\ \A w \in Callbacks \ {Callee} : loc2[<<"waiter", w>>] = loc[<<"waiter", w>>]
    <3>1. \A v \in Values : <<"set", v>> \in DutySet \ M
      BY DEF DutySet
    <3>2. \A w \in Callbacks \ {Callee} : <<"waiter", w>> \in DutySet \ M
      BY DEF DutySet
    <3> QED
      BY <1>15, <3>1, <3>2
  <2> QED
    BY <1>0, <1>15, <2>1, <2>2 DEF Progress, Available
<1>20. Counted(loc2)'
  <2>1. Active(loc2) = {un[j] : j \in 1..L}
    <3>1. \A j \in 1..L : un[j] \in Active(loc2)
      <4> TAKE j \in 1..L
      <4>1. loc2[CountOf(j)][1] = "at" /\ Over[1] # "at"
        BY <1>15, PlaceTag DEF Over
      <4>2. loc2[<<"count", un[j]>>] # Over
        BY <4>1
      <4> QED
        BY <1>7, <4>2 DEF Active
    <3>2. ASSUME NEW p \in Active(loc2)
          PROVE  \E j \in 1..L : un[j] = p
      <4>1. p \in Places /\ loc2[<<"count", p>>] # Over
        BY <3>2 DEF Active
      <4>2. loc[<<"count", p>>] = Over /\ <<"count", p>> \in DutySet
        BY <1>13, <4>1 DEF Active, DutySet
      <4>3. <<"count", p>> \in M
        BY <1>15, <4>1, <4>2
      <4> QED
        BY <4>3
    <3> QED
      BY <3>1, <3>2
  <2>2. Cardinality(Active(loc2)) = L
    BY <1>4, <1>5, <1>6, <2>1, CountSeq
  <2>3. \A p \in Places \ Active(loc2) : Available(Group[p])'
    BY <1>5, <1>6, <2>1 DEF Available
  <2>4. \A n \in Nodes, r \in Nat : loc2[NodeDuty(n)] = Ranked(n, r) => NodeFact(n)'
    BY <1>0, <1>18 DEF Counted, SameRanks, NodeFact, Available
  <2>5. Active(loc2)' = Active(loc2)
    BY DEF Active
  <2> QED
    BY <1>6, <1>15, <2>2, <2>3, <2>4, <2>5 DEF Counted
<1>21. Counts(loc2)'
  <2>1. PICK gone : gone = Nil
    OBVIOUS
  <2>2. ASSUME NEW v \in Values
        PROVE  Accounts(t, b, es, gone, v)
    <3>1. v # gone /\ refcount[v] \in Nat /\ refcount'[v] = refcount[v]
      BY <1>0, <2>1, NilAssumption
    <3>2. ~(\E j \in 1..Len(es) : v \in Owns(es[j])) /\ v \notin Owns(At(t, H(t)))
      BY <1>2, <1>4, <1>9
    <3> QED
      BY <3>1, <3>2 DEF Accounts
  <2>3. /\ \/ gone = Nil /\ holds' = holds
           \/ gone \in holds[t] /\ holds' = [holds EXCEPT ![t] = @ \ {gone}]
        /\ (H(t) = 0 /\ b = 0) \/ (H(t) = b + 1 /\ At(t, H(t)).op # "AddRef")
        /\ UNCHANGED <<value, freed>>
        /\ \A j \in 1..Len(es) : es[j].op # "AddRef"
    BY <1>1, <1>2, <1>4, <1>9, <2>1
  <2> QED
    BY <1>10, <1>18, <2>2, <2>3, CountsStep
<1>22. Types'
  <2>1. counter' \in Nat
    BY <1>6
  <2> QED
    BY <1>0, <1>10, <2>1 DEF Types, Becomes
<1> QED
  BY <1>16, <1>18, <1>19, <1>20, <1>21, <1>22 DEF Inv

\* The end of the scan.
LEMMA EndScanKeeps ==
    ASSUME NEW loc, Inv(loc), NEW t \in Threads, EndScan(t)
    PROVE  \E loc2 : Inv(loc2)'
<1>1. Top(t, "scan") /\ Types
  BY DEF EndScan, Inv
<1>2. PICK un : un = Head(stack[t]).unavailable
  OBVIOUS
<1>3. un \in Seq(Places)
  <2>1. Head(stack[t]) \in Entries /\ Head(stack[t]).op = "scan"
    BY <1>1, TopOf
  <2> QED
    BY <1>2, <2>1, EntryForms, Table
<1>4. /\ Head(stack[t]).k > Len(Group)
      /\ UNCHANGED <<state, head, next, value, payload, refcount, freed, holds, produced, asked,
                     ran>>
  BY DEF EndScan
<1>8. Len(un) \in Nat
  BY <1>3
<1>5. CASE Len(un) = 0
  <2>1. Then(t, <<[op |-> "call", w |-> Callee]>>) /\ counter' = counter
    BY <1>2, <1>5 DEF EndScan
  <2>2. UNCHANGED <<state, head, next, value, payload, refcount, freed, counter, holds,
                    produced, asked, ran>>
    BY <1>4, <2>1
  <2>3. Inv(loc)'
    BY <1>1, <1>2, <1>4, <1>5, <2>1, <2>2, EndScanOne
  <2> QED
    BY <2>3
<1>6. CASE Len(un) = 1
  <2>1. Then(t, <<[op |-> "AndThen", node |-> Last(un[1])]>>) /\ counter' = counter
    <3>1. Len(un) # 0 /\ ~(Len(un) > 1)
      BY <1>6
    <3> QED
      BY <1>2, <1>6, <3>1 DEF EndScan
  <2>2. UNCHANGED <<state, head, next, value, payload, refcount, freed, counter, holds,
                    produced, asked, ran>>
    BY <1>4, <2>1
  <2>3. Inv(loc)'
    BY <1>1, <1>2, <1>4, <1>6, <2>1, <2>2, EndScanOne
  <2> QED
    BY <2>3
<1>7. CASE Len(un) > 1
  <2>1. /\ Then(t, [k \in 1..Len(un) |-> [op |-> "AndThen", node |-> Countdown(un[k])]])
        /\ counter' = Len(un)
    <3>1. Len(un) # 0 /\ Len(un) # 1
      BY <1>7, <1>8
    <3> QED
      BY <1>2, <1>7, <3>1 DEF EndScan, StartCount
  <2> QED
    BY <1>1, <1>2, <1>4, <1>7, <2>1, EndScanMany
<1>9. Len(un) = 0 \/ Len(un) = 1 \/ Len(un) > 1
  <2>1. \A x \in Nat : x = 0 \/ x = 1 \/ x > 1
    OBVIOUS
  <2> QED
    BY ONLY <1>8, <2>1, Zenon
<1> QED
  BY <1>5, <1>6, <1>7, <1>9

-----------------------------------------------------------------------------
(* Steps that end a duty or start one.                                      *)

\* A step of t that moves the duties of M, none of which is in a list or runs one.
Shifts(t, b, es, M, loc, loc2) ==
    /\ DOMAIN loc2 = DutySet
    /\ \A d \in DutySet \ M : loc2[d] = loc[d]
    /\ \A d \in M : /\ Fits(d, loc2[d]) /\ d[1] # "run"
                    /\ loc[d][1] # "list" /\ loc2[d][1] # "list"
    /\ H(t) = b + 1 /\ Duty(At(t, H(t))) # NoDuty => Duty(At(t, H(t))) \in M
    /\ \A d \in M : loc[d][1] # "at" \/ (H(t) = b + 1 /\ Duty(At(t, H(t))) = d)
    /\ \A d \in M : \/ loc2[d][1] # "at"
                    \/ \E j \in 1..Len(es) :
                          Duty(es[j]) = d /\ loc2[d] = Place(t, b + Len(es) - j + 1)
    /\ \A j \in 1..Len(es) : Duty(es[j]) # NoDuty =>
          loc2[Duty(es[j])] = Place(t, b + Len(es) - j + 1)

\* How the step of t changes what the threads hold: gone is given up, unless it is Nil.
GivesUp(t, gone) ==
    \/ gone = Nil /\ holds' = holds
    \/ gone \in holds[t] /\ holds' = [holds EXCEPT ![t] = @ \ {gone}]

\* Where duties are and what else holds, after such a step.
LEMMA ShiftsStep ==
    ASSUME NEW loc, Inv(loc), NEW t \in Threads, NEW b \in Nat, NEW es \in Seq(Entries),
           Becomes(t, b, es),
           \/ H(t) = 0 /\ b = 0
           \/ /\ H(t) = b + 1 /\ holds' = holds
              /\ At(t, H(t)).op \notin {"store", "AddRef", "NotifyAvailable"}
              /\ Duty(At(t, H(t)))[1] # "run",
           UNCHANGED <<state, head, next, payload, value, freed>>, produced \subseteq produced',
           NEW gone, GivesUp(t, gone),
           NEW M \in SUBSET DutySet, NEW loc2, Shifts(t, b, es, M, loc, loc2),
           Backed(t, b, es), \A v \in Values : Accounts(t, b, es, gone, v)
    PROVE  /\ SameRanks(loc, loc2) /\ Located(loc2)' /\ Lists(loc2)' /\ Guarded' /\ Facts'
           /\ Contents' /\ Counts(loc2)'
<1>0. stack \in [Threads -> Seq(Entries)] /\ Located(loc) /\ holds \in [Threads -> SUBSET Values]
  BY DEF Inv, Types
<1>1. H(t) \in {b, b + 1} /\ b <= H(t)
  OBVIOUS
<1>2. Located(loc2)'
  <2>1. /\ DOMAIN loc2 = DutySet
        /\ \A d \in DutySet \ M : loc2[d] = loc[d]
        /\ \A d \in M : Fits(d, loc2[d])
        /\ H(t) = b + 1 /\ Duty(At(t, H(t))) # NoDuty => Duty(At(t, H(t))) \in M
        /\ \A d \in M : loc[d][1] # "at" \/ (H(t) = b + 1 /\ Duty(At(t, H(t))) = d)
        /\ \A d \in M : \/ loc2[d][1] # "at"
                        \/ \E j \in 1..Len(es) :
                              Duty(es[j]) = d /\ loc2[d] = Place(t, b + Len(es) - j + 1)
        /\ \A j \in 1..Len(es) : Duty(es[j]) # NoDuty =>
              loc2[Duty(es[j])] = Place(t, b + Len(es) - j + 1)
    BY DEF Shifts
  <2>2. Moves(t, b, es, loc, loc2)
    BY <1>0, <1>1, <2>1, MovesSome
  <2> QED
    BY <1>0, <1>1, <2>2, LocatedStep
<1>3. SameRanks(loc, loc2) /\ Lists(loc2)' /\ Guarded' /\ Facts' /\ Contents'
  <2>1. \A d \in DutySet : loc2[d] = loc[d] \/ (loc[d][1] # "list" /\ loc2[d][1] # "list")
    BY DEF Shifts
  <2>2. \A v \in Values : loc2[<<"run", v>>] = loc[<<"run", v>>]
    <3>1. \A v \in Values : <<"run", v>> \in DutySet /\ <<"run", v>>[1] = "run"
      BY DEF DutySet
    <3>2. \A d \in M : d[1] # "run"
      BY DEF Shifts
    <3>3. \A v \in Values : <<"run", v>> \in DutySet \ M
      BY <3>1, <3>2
    <3> QED
      BY <3>3 DEF Shifts
  <2>3. \/ H(t) = 0 /\ b = 0 /\ \A u \in Threads \ {t} : holds'[u] = holds[u]
        \/ /\ H(t) = b + 1 /\ holds' = holds
           /\ At(t, H(t)).op \notin {"store", "AddRef", "NotifyAvailable"}
           /\ Duty(At(t, H(t)))[1] # "run"
    BY <1>0 DEF GivesUp
  <2>4. /\ UNCHANGED <<state, head, payload, value, freed>>
        /\ \A n \in Nodes :
              next'[n] = next[n] \/ (H(t) = b + 1 /\ loc[NodeDuty(n)] = Place(t, b + 1))
    OBVIOUS
  <2> QED
    BY <2>1, <2>2, <2>3, <2>4, QuietStep
<1>4. Counts(loc2)'
  <2>1. (H(t) = 0 /\ b = 0) \/ (H(t) = b + 1 /\ At(t, H(t)).op # "AddRef")
    OBVIOUS
  <2>2. \A j \in 1..Len(es) : es[j].op # "AddRef"
    BY DEF Backed
  <2>3. \/ gone = Nil /\ holds' = holds
        \/ gone \in holds[t] /\ holds' = [holds EXCEPT ![t] = @ \ {gone}]
    BY DEF GivesUp
  <2>4. UNCHANGED <<value, freed>>
    OBVIOUS
  <2> QED
    BY <1>3, <2>1, <2>2, <2>3, <2>4, CountsStep
<1> QED
  BY <1>2, <1>3, <1>4

\* The tags of the places that are not on a stack or in a list.
LEMMA EndTags ==
    /\ Unborn[1] = "unborn" /\ Over[1] = "over" /\ Divided[1] = "divided"
    /\ Unborn # Over /\ Unborn # Divided /\ Over # Divided
BY DEF Unborn, Over, Divided

\* The duties there are.
LEMMA Duties ==
    /\ \A v \in Values : <<"set", v>> \in DutySet /\ <<"run", v>> \in DutySet
    /\ \A w \in Callbacks : <<"waiter", w>> \in DutySet
    /\ \A k \in Places : <<"count", k>> \in DutySet
    /\ Callee \in Callbacks /\ <<"waiter", Callee>> \in DutySet
    /\ NoDuty \notin DutySet
BY DEF DutySet, Callbacks, NoDuty

\* A step that makes no further calls.
LEMMA NoCalls == \E es \in Seq(Entries) : es = <<>> /\ Len(es) = 0 /\ 1..Len(es) = {}
<1>1. PICK es : es = <<>>
  OBVIOUS
<1>2. es \in Seq(Entries) /\ Len(es) = 0 /\ 1..Len(es) = {}
  BY <1>1
<1> QED
  BY <1>1, <1>2

\* A callback runs.
LEMMA CallKeeps ==
    ASSUME NEW loc, Inv(loc), NEW t \in Threads, Call(t)
    PROVE  \E loc2 : Inv(loc2)'
<1>0. /\ Types /\ stack \in [Threads -> Seq(Entries)] /\ Located(loc) /\ Progress(loc)
      /\ Counted(loc) /\ ran \in [Callbacks -> {0, 1}]
      /\ Top(t, "call") /\ \A v \in Values : refcount[v] \in Nat
  BY DEF Inv, Types, Call
<1>1. PICK b \in Nat :
              /\ H(t) = b + 1 /\ H(t) - 1 = b /\ H(t) \in 1..H(t)
              /\ At(t, H(t)) = Head(stack[t]) /\ stack[t] # <<>>
              /\ Head(stack[t]) \in Entries /\ Head(stack[t]).op = "call"
  BY <1>0, TopOf
<1>2. PICK e : e = At(t, H(t))
  OBVIOUS
<1>3. PICK w \in Callbacks : e = ECall(w)
  BY <1>1, <1>2, EntryForms
<1>4. PICK d0 : d0 = <<"waiter", w>>
  OBVIOUS
<1>5. e.op = "call" /\ e.w = w /\ Duty(e) = d0 /\ Owns(e) = {} /\ d0 \in DutySet /\ d0[1] = "waiter"
  BY <1>3, <1>4, Table, Duties
<1>6. loc[d0] = Place(t, b + 1) /\ loc[d0][1] = "at"
  BY <1>0, <1>1, <1>2, <1>5, DutyAt
<1>7. ran' = [ran EXCEPT ![w] = ran[w] + 1] /\ Then(t, <<>>)
  BY <1>1, <1>2, <1>5 DEF Call
<1>8. UNCHANGED <<state, head, next, value, payload, refcount, freed, counter, holds, produced,
                  asked>>
  BY DEF Call
<1>9. ran[w] = 0 /\ ran' = [ran EXCEPT ![w] = 1] /\ ran' \in [Callbacks -> {0, 1}] /\ ran'[w] = 1
      /\ \A x \in Callbacks \ {w} : ran'[x] = ran[x]
  <2>1. loc[<<"waiter", w>>] # Over
    BY <1>4, <1>6, EndTags
  <2>2. ran[w] # 1
    BY <1>0, <2>1 DEF Progress
  <2>3. ran[w] = 0
    BY <1>0, <2>2
  <2> QED
    BY <1>0, <1>7, <2>3
<1>10. PICK es \in Seq(Entries) : es = <<>> /\ Len(es) = 0 /\ 1..Len(es) = {}
  BY NoCalls
<1>11. Becomes(t, b, es)
  BY <1>0, <1>1, <1>7, <1>10, ThenBecomes
<1>12. PICK loc2 : loc2 = [loc EXCEPT ![d0] = Over]
  OBVIOUS
<1>13. DOMAIN loc2 = DutySet /\ loc2[d0] = Over /\ \A d \in DutySet \ {d0} : loc2[d] = loc[d]
  <2>1. DOMAIN loc = DutySet
    BY <1>0 DEF Located
  <2> QED
    BY <1>5, <1>12, <2>1
<1>14. {d0} \in SUBSET DutySet /\ Shifts(t, b, es, {d0}, loc, loc2)
  <2>1. Fits(d0, Over)
    BY DEF Fits
  <2> QED
    BY <1>1, <1>2, <1>5, <1>6, <1>10, <1>13, <2>1, EndTags DEF Shifts
<1>15. Backed(t, b, es)
  BY <1>10 DEF Backed
<1>16. PICK gone : gone = Nil
  OBVIOUS
<1>17. \A v \in Values : Accounts(t, b, es, gone, v)
  BY <1>0, <1>2, <1>5, <1>8, <1>10, <1>16, NilAssumption DEF Accounts
<1>18. GivesUp(t, gone)
  BY <1>8, <1>16 DEF GivesUp
<1>19. /\ SameRanks(loc, loc2) /\ Located(loc2)' /\ Lists(loc2)' /\ Guarded' /\ Facts'
       /\ Contents' /\ Counts(loc2)'
  <2>1. /\ H(t) = b + 1 /\ holds' = holds
        /\ At(t, H(t)).op \notin {"store", "AddRef", "NotifyAvailable"}
        /\ Duty(At(t, H(t)))[1] # "run"
    BY <1>1, <1>2, <1>5, <1>8
  <2>2. UNCHANGED <<state, head, next, payload, value, freed>> /\ produced \subseteq produced'
    BY <1>8
  <2> QED
    BY <1>11, <1>14, <1>15, <1>17, <1>18, <2>1, <2>2, ShiftsStep
<1>20. Progress(loc2)'
  <2>1. \A v \in Values : loc2[<<"set", v>>] = loc[<<"set", v>>]
    <3>1. \A v \in Values : <<"set", v>> \in DutySet \ {d0}
      BY <1>4, Duties
    <3> QED
      BY <1>13, <3>1
  <2>2. \A x \in Callbacks \ {w} : loc2[<<"waiter", x>>] = loc[<<"waiter", x>>]
    <3>1. \A x \in Callbacks \ {w} : <<"waiter", x>> \in DutySet \ {d0}
      BY <1>4, Duties
    <3> QED
      BY <1>13, <3>1
  <2>3. w \in asked
    <3>1. loc[<<"waiter", w>>] # Unborn
      BY <1>4, <1>6, EndTags
    <3> QED
      BY <1>0, <3>1 DEF Progress
  <2>4. loc2[<<"waiter", w>>] = Over /\ Over # Unborn
    BY <1>4, <1>13, EndTags
  <2>5. \A v \in Values :
          (/\ loc2[<<"set", v>>] = Unborn <=> v \notin produced
           /\ loc2[<<"set", v>>] = Over <=> Available(v))'
    BY <1>0, <1>8, <2>1 DEF Progress, Available
  <2>6. \A x \in Callbacks :
          /\ loc2[<<"waiter", x>>] = Unborn <=> x \notin asked'
          /\ loc2[<<"waiter", x>>] = Over <=> ran'[x] = 1
    BY <1>0, <1>8, <1>9, <2>2, <2>3, <2>4 DEF Progress
  <2> QED
    BY <2>5, <2>6 DEF Progress
<1>21. Counted(loc2)'
  <2>1. \A k \in Places : loc2[<<"count", k>>] = loc[<<"count", k>>]
    <3>1. \A k \in Places : <<"count", k>> \in DutySet \ {d0}
      BY <1>4, Duties
    <3> QED
      BY <1>13, <3>1
  <2>2. loc2[<<"waiter", Callee>>] = Divided <=> loc[<<"waiter", Callee>>] = Divided
    BY <1>6, <1>13, Duties, EndTags
  <2>3. Stable /\ counter' = counter
    BY <1>8 DEF Stable
  <2> QED
    BY <1>0, <1>19, <2>1, <2>2, <2>3, CountedStep
<1>22. Types'
  BY <1>0, <1>8, <1>9, <1>11 DEF Types, Becomes
<1>23. Inv(loc2)'
  BY <1>19, <1>20, <1>21, <1>22 DEF Inv
<1> QED
  BY <1>23

\* What the waiter of a counted value finds: the callee waits for the count, all values that
\* are not counted any more are available, and without this one there are counter - 1.
LEMMA Counting ==
    ASSUME NEW loc, Counted(loc), NEW k \in Places, loc[<<"count", k>>] # Over, counter \in Nat
    PROVE  /\ loc[<<"waiter", Callee>>] = Divided /\ counter > 0
           /\ counter = 1 <=> Active(loc) \ {k} = {}
           /\ counter - 1 = Cardinality(Active(loc) \ {k})
           /\ \A p \in Places \ Active(loc) : Available(Group[p])
<1>1. k \in Active(loc)
  BY DEF Active
<1>2. /\ loc[<<"waiter", Callee>>] = Divided
      /\ counter = Cardinality(Active(loc)) /\ counter > 0
      /\ \A p \in Places \ Active(loc) : Available(Group[p])
  BY <1>1 DEF Counted
<1>3. IsFiniteSet(Active(loc))
  <2>1. Len(Group) \in Nat
    BY KindsAssumption
  <2>2. IsFiniteSet(Places)
    BY <2>1, FS_Interval DEF Places
  <2>3. Active(loc) \subseteq Places
    BY DEF Active
  <2> QED
    BY <2>2, <2>3, FS_Subset
<1>4. /\ IsFiniteSet(Active(loc) \ {k})
      /\ Cardinality(Active(loc) \ {k}) = Cardinality(Active(loc)) - 1
  BY <1>1, <1>3, FS_RemoveElement
<1>5. Cardinality(Active(loc) \ {k}) = 0 <=> Active(loc) \ {k} = {}
  BY <1>4, FS_EmptySet
<1> QED
  BY <1>2, <1>4, <1>5

\* The waiter of a value of the span counts it off; the last one calls the callee.
LEMMA FetchSubKeeps ==
    ASSUME NEW loc, Inv(loc), NEW t \in Threads, FetchSub(t)
    PROVE  \E loc2 : Inv(loc2)'
<1>0. /\ Types /\ stack \in [Threads -> Seq(Entries)] /\ Located(loc) /\ Progress(loc) /\ Facts
      /\ Counted(loc) /\ counter \in Nat
      /\ Top(t, "fetch_sub") /\ \A v \in Values : refcount[v] \in Nat
  BY DEF Inv, Types, FetchSub
<1>1. PICK b \in Nat :
              /\ H(t) = b + 1 /\ H(t) - 1 = b /\ H(t) \in 1..H(t)
              /\ At(t, H(t)) = Head(stack[t]) /\ stack[t] # <<>>
              /\ Head(stack[t]) \in Entries /\ Head(stack[t]).op = "fetch_sub"
  BY <1>0, TopOf
<1>2. PICK e : e = At(t, H(t))
  OBVIOUS
<1>3. PICK k \in Places : e = ECount(k)
  BY <1>1, <1>2, EntryForms
<1>4. PICK d0, dc : d0 = <<"count", k>> /\ dc = <<"waiter", Callee>>
  OBVIOUS
<1>5. /\ e.op = "fetch_sub" /\ e.k = k /\ Duty(e) = d0 /\ Owns(e) = {}
      /\ d0 \in DutySet /\ d0[1] = "count" /\ dc \in DutySet /\ dc[1] = "waiter" /\ d0 # dc
  BY <1>3, <1>4, Table, Duties
<1>6. loc[d0] = Place(t, b + 1) /\ loc[d0][1] = "at"
  BY <1>0, <1>1, <1>2, <1>5, DutyAt
<1>7. /\ loc[dc] = Divided /\ counter > 0
      /\ counter = 1 <=> Active(loc) \ {k} = {}
      /\ counter - 1 = Cardinality(Active(loc) \ {k})
      /\ \A p \in Places \ Active(loc) : Available(Group[p])
  <2>1. loc[<<"count", k>>] # Over
    BY <1>4, <1>6, EndTags
  <2> QED
    BY <1>0, <1>4, <2>1, Counting
<1>8. Available(Group[k])
  <2>1. Fact(e)
    BY <1>0, <1>1, <1>2 DEF Facts
  <2> QED
    BY <1>5, <2>1 DEF Fact
<1>9. /\ counter' = counter - 1
      /\ UNCHANGED <<state, head, next, value, payload, refcount, freed, holds, produced, asked,
                     ran>>
  BY DEF FetchSub
<1>10. DOMAIN loc = DutySet
  BY <1>0 DEF Located
<1>11. \E es \in Seq(Entries), M \in SUBSET DutySet : \E loc2 :
          /\ Then(t, es) /\ Shifts(t, b, es, M, loc, loc2) /\ Backed(t, b, es)
          /\ \A j \in 1..Len(es) : Owns(es[j]) = {}
          /\ \A d \in DutySet \ {d0, dc} : loc2[d] = loc[d]
          /\ loc2[d0] = Over
          /\ counter = 1 => loc2[dc] = Place(t, b + 1)
          /\ counter # 1 => loc2[dc] = Divided
  <2>1. CASE counter # 1
    <3>1. PICK es \in Seq(Entries) : es = <<>> /\ Len(es) = 0 /\ 1..Len(es) = {}
      BY NoCalls
    <3>2. Then(t, es)
      BY <2>1, <3>1 DEF FetchSub
    <3>3. PICK loc2 : loc2 = [loc EXCEPT ![d0] = Over]
      OBVIOUS
    <3>4. DOMAIN loc2 = DutySet /\ loc2[d0] = Over /\ \A d \in DutySet \ {d0} : loc2[d] = loc[d]
      BY <1>5, <1>10, <3>3
    <3>5. {d0} \in SUBSET DutySet /\ Shifts(t, b, es, {d0}, loc, loc2)
      <4>1. Fits(d0, Over)
        BY DEF Fits
      <4> QED
        BY <1>1, <1>2, <1>5, <1>6, <3>1, <3>4, <4>1, EndTags DEF Shifts
    <3>6. Backed(t, b, es)
      BY <3>1 DEF Backed
    <3>7. loc2[dc] = Divided
      BY <1>5, <1>7, <3>4
    <3> QED
      BY <2>1, <3>1, <3>2, <3>4, <3>5, <3>6, <3>7
  <2>2. CASE counter = 1
    <3>1. PICK c \in Entries : /\ c = ECall(Callee) /\ c.op = "call" /\ c.w = Callee
                               /\ Duty(c) = dc /\ Owns(c) = {} /\ Guards(c) = {}
      BY <1>4, EntriesMade, Table, Duties, KindsAssumption
    <3>2. PICK es \in Seq(Entries) : es = <<c>> /\ Len(es) = 1 /\ 1..Len(es) = {1} /\ es[1] = c
      <4>1. <<c>> \in Seq(Entries) /\ Len(<<c>>) = 1 /\ 1..Len(<<c>>) = {1} /\ <<c>>[1] = c
        OBVIOUS
      <4> QED
        BY <4>1
    <3>3. Then(t, es)
      BY <2>2, <3>1, <3>2 DEF FetchSub, ECall
    <3>4. PICK loc2 : loc2 = [loc EXCEPT ![d0] = Over, ![dc] = Place(t, b + 1)]
      OBVIOUS
    <3>5. /\ DOMAIN loc2 = DutySet /\ loc2[d0] = Over /\ loc2[dc] = Place(t, b + 1)
          /\ \A d \in DutySet \ {d0, dc} : loc2[d] = loc[d]
      BY <1>5, <1>10, <3>4
    <3>6. loc2[dc][1] = "at"
      BY <3>5, PlaceTag
    <3>7. {d0, dc} \in SUBSET DutySet /\ Shifts(t, b, es, {d0, dc}, loc, loc2)
      <4>1. Fits(d0, Over) /\ Fits(dc, loc2[dc])
        BY <3>5 DEF Fits
      <4>2. Place(t, b + Len(es) - 1 + 1) = Place(t, b + 1)
        BY <3>2
      <4>3. \A j \in 1..Len(es) : Duty(es[j]) = dc /\ loc2[dc] = Place(t, b + Len(es) - j + 1)
        BY <3>1, <3>2, <3>5, <4>2
      <4>4. 1 \in 1..Len(es)
        BY <3>2
      <4>5. \A d \in {d0, dc} : d = d0 \/ d = dc
        OBVIOUS
      <4> QED
        BY <1>1, <1>2, <1>5, <1>6, <1>7, <3>5, <3>6, <4>1, <4>3, <4>4, <4>5, EndTags DEF Shifts
    <3>8. Backed(t, b, es)
      <4>1. \A p \in Places : Available(Group[p])
        BY <1>7, <1>8, <2>2
      <4>2. \A v \in Needs(Callee) : Available(v)'
        BY <1>9, <4>1 DEF Needs, Places, Available
      <4>3. Fact(c)'
        BY <3>1, <4>2 DEF Fact
      <4> QED
        BY <3>1, <3>2, <4>3 DEF Backed
    <3>9. \A j \in 1..Len(es) : Owns(es[j]) = {}
      BY <3>1, <3>2
    <3> QED
      BY <2>2, <3>3, <3>5, <3>7, <3>8, <3>9
  <2> QED
    BY <2>1, <2>2
<1>12. PICK es \in Seq(Entries), M \in SUBSET DutySet : \E loc2 :
          /\ Then(t, es) /\ Shifts(t, b, es, M, loc, loc2) /\ Backed(t, b, es)
          /\ \A j \in 1..Len(es) : Owns(es[j]) = {}
          /\ \A d \in DutySet \ {d0, dc} : loc2[d] = loc[d]
          /\ loc2[d0] = Over
          /\ counter = 1 => loc2[dc] = Place(t, b + 1)
          /\ counter # 1 => loc2[dc] = Divided
  BY <1>11
<1>13. PICK loc2 :
          /\ Then(t, es) /\ Shifts(t, b, es, M, loc, loc2) /\ Backed(t, b, es)
          /\ \A j \in 1..Len(es) : Owns(es[j]) = {}
          /\ \A d \in DutySet \ {d0, dc} : loc2[d] = loc[d]
          /\ loc2[d0] = Over
          /\ counter = 1 => loc2[dc] = Place(t, b + 1)
          /\ counter # 1 => loc2[dc] = Divided
  BY <1>12
<1>14. Becomes(t, b, es)
  BY <1>0, <1>1, <1>13, ThenBecomes
<1>15. PICK gone : gone = Nil
  OBVIOUS
<1>16. \A v \in Values : Accounts(t, b, es, gone, v)
  <2>1. \A v \in Values : v # gone /\ refcount'[v] = refcount[v] /\ refcount[v] \in Nat
    BY <1>0, <1>9, <1>15, NilAssumption
  <2>2. \A v \in Values : v \notin Owns(At(t, H(t))) /\ \A j \in 1..Len(es) : v \notin Owns(es[j])
    BY <1>2, <1>5, <1>13
  <2> QED
    BY <2>1, <2>2 DEF Accounts
<1>17. GivesUp(t, gone)
  BY <1>9, <1>15 DEF GivesUp
<1>18. /\ SameRanks(loc, loc2) /\ Located(loc2)' /\ Lists(loc2)' /\ Guarded' /\ Facts'
       /\ Contents' /\ Counts(loc2)'
  <2>1. /\ H(t) = b + 1 /\ holds' = holds
        /\ At(t, H(t)).op \notin {"store", "AddRef", "NotifyAvailable"}
        /\ Duty(At(t, H(t)))[1] # "run"
    BY <1>1, <1>2, <1>5, <1>9
  <2>2. UNCHANGED <<state, head, next, payload, value, freed>> /\ produced \subseteq produced'
    BY <1>9
  <2> QED
    BY <1>13, <1>14, <1>16, <1>17, <2>1, <2>2, ShiftsStep
<1>19. loc2[dc] # Unborn /\ loc2[dc] # Over /\ (loc2[dc] = Divided <=> counter # 1)
  BY <1>13, PlaceTag, EndTags
<1>20. Progress(loc2)'
  <2>1. \A v \in Values : loc2[<<"set", v>>] = loc[<<"set", v>>]
    <3>1. \A v \in Values : <<"set", v>> \in DutySet \ {d0, dc}
      BY <1>4, Duties
    <3> QED
      BY <1>13, <3>1
  <2>2. \A w \in Callbacks \ {Callee} : loc2[<<"waiter", w>>] = loc[<<"waiter", w>>]
    <3>1. \A w \in Callbacks \ {Callee} : <<"waiter", w>> \in DutySet \ {d0, dc}
      BY <1>4, Duties
    <3> QED
      BY <1>13, <3>1
  <2>3. loc[dc] # Unborn /\ loc[dc] # Over
    BY <1>7, EndTags
  <2>4. \A v \in Values :
          (/\ loc2[<<"set", v>>] = Unborn <=> v \notin produced
           /\ loc2[<<"set", v>>] = Over <=> Available(v))'
    BY <1>0, <1>9, <2>1 DEF Progress, Available
  <2>5. \A w \in Callbacks :
          /\ loc2[<<"waiter", w>>] = Unborn <=> w \notin asked'
          /\ loc2[<<"waiter", w>>] = Over <=> ran'[w] = 1
    <3> SUFFICES ASSUME NEW w \in Callbacks
                 PROVE  /\ loc2[<<"waiter", w>>] = Unborn <=> w \notin asked'
                        /\ loc2[<<"waiter", w>>] = Over <=> ran'[w] = 1
      OBVIOUS
    <3>1. /\ loc[<<"waiter", w>>] = Unborn <=> w \notin asked'
          /\ loc[<<"waiter", w>>] = Over <=> ran'[w] = 1
      BY <1>0, <1>9 DEF Progress
    <3>2. CASE w = Callee
      BY <1>4, <1>19, <2>3, <3>1, <3>2
    <3>3. CASE w # Callee
      BY <2>2, <3>1, <3>3
    <3> QED
      BY <3>2, <3>3
  <2> QED
    BY <2>4, <2>5 DEF Progress
<1>21. Counted(loc2)'
  <2>1. Active(loc2) = Active(loc) \ {k}
    <3>1. \A p \in Places \ {k} : loc2[<<"count", p>>] = loc[<<"count", p>>]
      <4>1. \A p \in Places \ {k} : <<"count", p>> \in DutySet \ {d0, dc}
        BY <1>4, Duties
      <4> QED
        BY <1>13, <4>1
    <3>2. loc2[<<"count", k>>] = Over
      BY <1>4, <1>13
    <3> QED
      BY <3>1, <3>2 DEF Active
  <2>2. \A p \in Places \ Active(loc2) : Available(Group[p])'
    <3>1. \A p \in Places \ Active(loc2) : Available(Group[p])
      BY <1>7, <1>8, <2>1
    <3> QED
      BY <1>9, <3>1 DEF Available
  <2>3. \A n \in Nodes, r \in Nat : loc2[NodeDuty(n)] = Ranked(n, r) => NodeFact(n)'
    BY <1>0, <1>9, <1>18 DEF Counted, SameRanks, NodeFact, Available
  <2>4. counter' = Cardinality(Active(loc2)) /\ (counter # 1 => counter' > 0)
        /\ (counter = 1 => Active(loc2) = {})
    BY <1>0, <1>7, <1>9, <2>1
  <2>5. loc2[<<"waiter", Callee>>] = Divided <=> counter # 1
    BY <1>4, <1>19
  <2>6. Active(loc2)' = Active(loc2)
    BY DEF Active
  <2> QED
    BY <2>2, <2>3, <2>4, <2>5, <2>6 DEF Counted
<1>22. Types'
  <2>1. counter' \in Nat
    BY <1>0, <1>7, <1>9
  <2> QED
    BY <1>0, <1>9, <1>14, <2>1 DEF Types, Becomes
<1>23. Inv(loc2)'
  BY <1>18, <1>20, <1>21, <1>22 DEF Inv
<1> QED
  BY <1>23

-----------------------------------------------------------------------------
(* Making a value available.                                                *)

\* A store fills the value that the call below it is about to publish.
LEMMA StoreKeeps ==
    ASSUME NEW loc, Inv(loc), NEW t \in Threads, Store(t)
    PROVE  Inv(loc)'
<1>0. /\ Types /\ stack \in [Threads -> Seq(Entries)] /\ Located(loc) /\ Progress(loc) /\ Facts
      /\ Lists(loc) /\ Guarded /\ Contents /\ Counted(loc)
      /\ payload \in [Concrete -> {"none", "data", "error"}]
      /\ Top(t, "store") /\ \A v \in Values : refcount[v] \in Nat
  BY DEF Inv, Types, Store
<1>1. PICK b \in Nat :
              /\ H(t) = b + 1 /\ H(t) - 1 = b /\ H(t) \in 1..H(t)
              /\ At(t, H(t)) = Head(stack[t]) /\ stack[t] # <<>>
              /\ Head(stack[t]) \in Entries /\ Head(stack[t]).op = "store"
  BY <1>0, TopOf
<1>2. PICK e : e = At(t, H(t))
  OBVIOUS
<1>3. PICK v \in Concrete, s \in Outcomes : e = EStore(v, s)
  BY <1>1, <1>2, EntryForms
<1>4. /\ e.op = "store" /\ e.av = v /\ e.s = s /\ Duty(e) = NoDuty /\ Owns(e) = {}
      /\ v \in Values
  BY <1>3, Table DEF Values
<1>5. b > 0 /\ b \in 1..H(t) /\ At(t, b) = ENotify(v, s)
  <2>1. Shape(t, H(t))
    BY <1>0, <1>1 DEF Facts
  <2>2. H(t) > 1 /\ At(t, H(t) - 1) = ENotify(v, s)
    BY <1>2, <1>4, <2>1 DEF Shape
  <2> QED
    BY <1>1, <2>2
<1>6. PICK d0 : d0 = <<"set", v>>
  OBVIOUS
<1>7. d0 \in DutySet /\ loc[d0] = Place(t, b) /\ loc[d0][1] = "at"
  <2>1. d0 \in DutySet /\ Duty(At(t, b)) = d0
    BY <1>4, <1>5, <1>6, Duties, Table
  <2> QED
    BY <1>0, <1>5, <2>1, DutyAt
<1>8. ~Available(v) /\ v \in produced
  <2>1. loc[<<"set", v>>] # Over /\ loc[<<"set", v>>] # Unborn
    BY <1>6, <1>7, EndTags
  <2> QED
    BY <1>0, <1>4, <2>1 DEF Progress
<1>9. /\ Then(t, <<>>)
      /\ UNCHANGED <<state, head, next, value, refcount, freed, counter, holds, produced, asked,
                     ran>>
  BY DEF Store
<1>10. /\ payload' \in [Concrete -> {"none", "data", "error"}] /\ payload'[v] = Stored(s)
       /\ \A u \in Concrete \ {v} : payload'[u] = payload[u]
  <2>1. payload' = [payload EXCEPT ![v] = Stored(s)]
    BY <1>1, <1>2, <1>4 DEF Store, Stored
  <2>2. Stored(s) \in {"data", "error"}
    BY DEF Stored
  <2> QED
    BY <1>0, <2>1, <2>2
<1>11. PICK es \in Seq(Entries) : es = <<>> /\ Len(es) = 0 /\ 1..Len(es) = {}
  BY NoCalls
<1>12. Becomes(t, b, es)
  BY <1>0, <1>1, <1>9, <1>11, ThenBecomes
<1>13. Located(loc)'
  BY <1>0, <1>1, <1>2, <1>4, <1>11, <1>12, LocatedSame
<1>14. SameRanks(loc, loc)
  BY DEF SameRanks
<1>15. Lists(loc)'
  <2>1. Duty(At(t, H(t)))[1] # "run"
    BY <1>2, <1>4 DEF NoDuty
  <2>2. /\ UNCHANGED <<head, state>>
        /\ \A n \in Nodes, r \in Nat : loc[NodeDuty(n)] = Ranked(n, r) => next'[n] = next[n]
        /\ \A u \in Values : loc[<<"run", u>>] = loc[<<"run", u>>]
    BY <1>9
  <2> QED
    BY <1>0, <1>1, <1>12, <1>14, <2>1, <2>2, ListsStep
<1>16. Guarded'
  BY <1>0, <1>1, <1>9, <1>11, <1>12, GuardedStep
<1>17. Facts'
  <2>1. Stable
    BY <1>9 DEF Stable
  <2>2. Keeps(t, b)
    <3> SUFFICES ASSUME NEW u \in Threads, NEW k \in 1..H(u), u # t \/ k <= b,
                        At(u, k).op = "NotifyAvailable", At(u, k).av \in Concrete
                 PROVE  \/ payload'[At(u, k).av] = payload[At(u, k).av]
                        \/ payload'[At(u, k).av] = Stored(At(u, k).s)
      BY <1>9 DEF Keeps
    <3>1. PICK c : c = At(u, k)
      OBVIOUS
    <3>2. CASE c.av # v
      BY <1>10, <3>1, <3>2
    <3>3. CASE c.av = v
      <4>1. c \in Entries
        BY <1>0, <3>1, StackTypes
      <4>2. Duty(c) = d0
        BY <1>6, <3>1, <3>3, <4>1, EntryForms, Table
      <4>3. loc[d0] = Place(u, k)
        BY <1>0, <1>7, <3>1, <4>2, DutyAt
      <4>4. u = t /\ k = b
        BY <1>7, <4>3 DEF Place
      <4>5. c.s = s
        BY <1>5, <3>1, <4>4, Table
      <4> QED
        BY <1>10, <3>1, <3>3, <4>5
    <3> QED
      BY <3>2, <3>3
  <2>3. \E x, z : b > 0 /\ At(t, b) = ENotify(x, z) /\ payload'[x] = Stored(z)
    BY <1>5, <1>10
  <2>4. \A j \in 1..Len(es) : Fact(es[j])' /\ Shape(t, b + Len(es) - j + 1)'
    BY <1>11
  <2> QED
    BY <1>0, <1>1, <1>12, <2>1, <2>2, <2>3, <2>4, FactsShape
<1>18. Contents'
  <2>1. /\ At(t, H(t)).op # "NotifyAvailable"
        /\ UNCHANGED <<state, value, freed>> /\ produced \subseteq produced'
        /\ \A u \in Concrete : payload'[u] = payload[u] \/ (~Available(u) /\ u \in produced)
    BY <1>2, <1>4, <1>8, <1>9, <1>10
  <2> QED
    BY <1>0, <1>1, <1>12, <2>1, ContentsStep
<1>19. Progress(loc)' /\ Counted(loc)'
  <2>1. UNCHANGED <<state, produced, asked, ran, counter>>
    BY <1>9
  <2> QED
    BY <1>0, <2>1, AtToAt
<1>20. Counts(loc)'
  <2>1. PICK gone : gone = Nil
    OBVIOUS
  <2>2. \A u \in Values : Accounts(t, b, es, gone, u)
    BY <1>0, <1>2, <1>4, <1>9, <1>11, <2>1, NilAssumption DEF Accounts
  <2>3. /\ \/ gone = Nil /\ holds' = holds
           \/ gone \in holds[t] /\ holds' = [holds EXCEPT ![t] = @ \ {gone}]
        /\ (H(t) = 0 /\ b = 0) \/ (H(t) = b + 1 /\ At(t, H(t)).op # "AddRef")
        /\ UNCHANGED <<value, freed>>
        /\ \A j \in 1..Len(es) : es[j].op # "AddRef"
    BY <1>1, <1>2, <1>4, <1>9, <1>11, <2>1
  <2> QED
    BY <1>12, <1>14, <2>2, <2>3, CountsStep
<1>21. Types'
  BY <1>0, <1>9, <1>10, <1>12 DEF Types, Becomes
<1> QED
  BY <1>13, <1>15, <1>16, <1>17, <1>18, <1>19, <1>20, <1>21 DEF Inv

\* The references of indirect values, when one of them changes.
LEMMA ValuesCount ==
    ASSUME value \in [Indirect -> Concrete \cup {Nil}], NEW i \in Indirect, NEW y,
           value' = [value EXCEPT ![i] = y], value[i] # y, NEW x, IsFiniteSet(ByValues(x))
    PROVE  /\ IsFiniteSet(ByValues(x)')
           /\ Cardinality(ByValues(x)') = Cardinality(ByValues(x))
                - (IF value[i] = x THEN 1 ELSE 0) + (IF y = x THEN 1 ELSE 0)
<1>0. /\ value'[i] = y /\ \A j \in Indirect \ {i} : value'[j] = value[j]
      /\ Cardinality(ByValues(x)) \in Nat
  BY FS_CardinalityType
<1>1. CASE value[i] = x
  <2>1. ByValues(x)' = ByValues(x) \ {i} /\ i \in ByValues(x)
    BY <1>0, <1>1 DEF ByValues
  <2>2. /\ IsFiniteSet(ByValues(x) \ {i})
        /\ Cardinality(ByValues(x) \ {i}) = Cardinality(ByValues(x)) - 1
    BY <2>1, FS_RemoveElement
  <2> QED
    BY <1>0, <1>1, <2>1, <2>2
<1>2. CASE value[i] # x /\ y = x
  <2>1. ByValues(x)' = ByValues(x) \cup {i} /\ i \notin ByValues(x)
    BY <1>0, <1>2 DEF ByValues
  <2>2. /\ IsFiniteSet(ByValues(x) \cup {i})
        /\ Cardinality(ByValues(x) \cup {i}) = Cardinality(ByValues(x)) + 1
    BY <2>1, FS_AddElement
  <2> QED
    BY <1>0, <1>2, <2>1, <2>2
<1>3. CASE value[i] # x /\ y # x
  <2>1. ByValues(x)' = ByValues(x)
    BY <1>0, <1>3 DEF ByValues
  <2> QED
    BY <1>0, <1>3, <2>1
<1> QED
  BY <1>1, <1>2, <1>3

\* The references to x are still counted, when calls, nodes and values pass them on.
Balanced(loc, loc2, x) ==
    /\ IsFiniteSet(ByCalls(x)') /\ IsFiniteSet(ByNodes(loc2, x)) /\ IsFiniteSet(ByValues(x)')
    /\ refcount'[x] - refcount[x] =
          (Cardinality(ByCalls(x)') - Cardinality(ByCalls(x)))
            + (Cardinality(ByNodes(loc2, x)) - Cardinality(ByNodes(loc, x)))
            + (Cardinality(ByValues(x)') - Cardinality(ByValues(x)))
    /\ x \in freed' <=> refcount'[x] = 0

\* The references, after a step that passes them on.
LEMMA BalancedCounts ==
    ASSUME NEW loc, Inv(loc), NEW loc2, holds' = holds, refcount' \in [Values -> Nat],
           \A x \in Values : Balanced(loc, loc2, x)
    PROVE  Counts(loc2)'
<1> SUFFICES ASSUME NEW v \in Values
             PROVE  /\ IsFiniteSet(ByThreads(v)') /\ IsFiniteSet(ByCalls(v)')
                    /\ IsFiniteSet(ByNodes(loc2, v)') /\ IsFiniteSet(ByValues(v)')
                    /\ refcount'[v] = Cardinality(ByThreads(v)') + Cardinality(ByCalls(v)')
                           + Cardinality(ByNodes(loc2, v)') + Cardinality(ByValues(v)')
                    /\ v \in freed' <=> refcount'[v] = 0
  BY DEF Counts
<1>1. /\ IsFiniteSet(ByThreads(v)) /\ IsFiniteSet(ByCalls(v))
      /\ IsFiniteSet(ByNodes(loc, v)) /\ IsFiniteSet(ByValues(v))
      /\ refcount[v] = Cardinality(ByThreads(v)) + Cardinality(ByCalls(v))
                         + Cardinality(ByNodes(loc, v)) + Cardinality(ByValues(v))
  BY DEF Inv, Counts
<1>2. ByThreads(v)' = ByThreads(v) /\ ByNodes(loc2, v)' = ByNodes(loc2, v)
  BY DEF ByThreads, ByNodes
<1>3. /\ IsFiniteSet(ByCalls(v)') /\ IsFiniteSet(ByNodes(loc2, v)) /\ IsFiniteSet(ByValues(v)')
      /\ refcount'[v] - refcount[v] =
          (Cardinality(ByCalls(v)') - Cardinality(ByCalls(v)))
            + (Cardinality(ByNodes(loc2, v)) - Cardinality(ByNodes(loc, v)))
            + (Cardinality(ByValues(v)') - Cardinality(ByValues(v)))
      /\ v \in freed' <=> refcount'[v] = 0
  BY DEF Balanced
<1>4. /\ Cardinality(ByThreads(v)) \in Nat /\ Cardinality(ByCalls(v)) \in Nat
      /\ Cardinality(ByNodes(loc, v)) \in Nat /\ Cardinality(ByValues(v)) \in Nat
      /\ Cardinality(ByCalls(v)') \in Nat /\ Cardinality(ByNodes(loc2, v)) \in Nat
      /\ Cardinality(ByValues(v)') \in Nat
  BY <1>1, <1>3, FS_CardinalityType
<1>5. refcount[v] \in Nat /\ refcount'[v] \in Nat
  BY DEF Inv, Types
<1>6. refcount'[v] = Cardinality(ByThreads(v)) + Cardinality(ByCalls(v)')
                       + Cardinality(ByNodes(loc2, v)) + Cardinality(ByValues(v)')
  BY <1>1, <1>3, <1>4, <1>5
<1> QED
  BY <1>1, <1>2, <1>3, <1>6

\* A sequence of one call.
LEMMA OneOf ==
    ASSUME NEW c \in Entries
    PROVE  \E es \in Seq(Entries) : es = <<c>> /\ Len(es) = 1 /\ 1..Len(es) = {1} /\ es[1] = c
<1>1. <<c>> \in Seq(Entries) /\ Len(<<c>>) = 1 /\ 1..Len(<<c>>) = {1} /\ <<c>>[1] = c
  OBVIOUS
<1> QED
  BY <1>1

\* The rest of ForwardTo: the reference to the concrete value goes to the indirect one.
LEMMA SetValueKeeps ==
    ASSUME NEW loc, Inv(loc), NEW t \in Threads, SetValue(t)
    PROVE  Inv(loc)'
<1>0. /\ Types /\ stack \in [Threads -> Seq(Entries)] /\ Located(loc) /\ Progress(loc) /\ Facts
      /\ Lists(loc) /\ Guarded /\ Contents /\ Counted(loc) /\ Counts(loc)
      /\ value \in [Indirect -> Concrete \cup {Nil}] /\ holds \in [Threads -> SUBSET Values]
      /\ Top(t, "SetValue") /\ refcount \in [Values -> Nat]
  BY DEF Inv, Types, SetValue
<1>1. PICK b \in Nat :
              /\ H(t) = b + 1 /\ H(t) - 1 = b /\ H(t) \in 1..H(t)
              /\ At(t, H(t)) = Head(stack[t]) /\ stack[t] # <<>>
              /\ Head(stack[t]) \in Entries /\ Head(stack[t]).op = "SetValue"
  BY <1>0, TopOf
<1>2. PICK e : e = At(t, H(t))
  OBVIOUS
<1>3. PICK i \in Indirect, u \in Concrete, s \in Outcomes : e = ESet(i, u, s)
  BY <1>1, <1>2, EntryForms
<1>4. PICK d0 : d0 = <<"set", i>>
  OBVIOUS
<1>5. /\ e.op = "SetValue" /\ e.av = i /\ e.to = u /\ e.s = s /\ Duty(e) = d0 /\ Owns(e) = {u}
      /\ Guards(e) = {i} /\ i \in Values /\ u \in Values /\ u # Nil /\ d0[1] = "set"
  BY <1>3, <1>4, Table, NilAssumption DEF Values
<1>6. d0 \in DutySet /\ loc[d0] = Place(t, b + 1) /\ loc[d0][1] = "at"
  <2>1. d0 \in DutySet
    BY <1>4, <1>5, Duties
  <2> QED
    BY <1>0, <1>1, <1>2, <1>5, <2>1, DutyAt
<1>7. ~Available(i) /\ i \notin freed
  <2>1. loc[<<"set", i>>] # Over
    BY <1>4, <1>6, EndTags
  <2>2. i \in Guards(At(t, H(t)))
    BY <1>2, <1>5
  <2>3. i \notin freed
    BY <1>0, <1>1, <2>2, GuardsAlive
  <2> QED
    BY <1>0, <1>5, <2>1, <2>3 DEF Progress
<1>8. ASSUME NEW x \in Threads, NEW k \in 1..H(x), At(x, k).op = "NotifyAvailable"
      PROVE  At(x, k).av # i
  <2>1. At(x, k) \in Entries
    BY <1>0, StackTypes
  <2>2. Duty(At(x, k)) = <<"set", At(x, k).av>>
    BY <1>8, <2>1, EntryForms, Table
  <2>3. SUFFICES ASSUME At(x, k).av = i
                 PROVE  FALSE
    OBVIOUS
  <2>4. loc[d0] = Place(x, k)
    <3>1. Duty(At(x, k)) = d0
      BY <1>4, <2>2, <2>3
    <3> QED
      BY <1>0, <1>6, <3>1, DutyAt
  <2>5. x = t /\ k = b + 1
    BY <1>6, <2>4 DEF Place
  <2> QED
    BY <1>1, <1>2, <1>5, <1>8, <2>5
<1>9. value[i] = Nil
  <2>1. ~(\E x \in Threads : \E k \in 1..H(x) : \E z \in Outcomes : At(x, k) = ENotify(i, z))
    BY <1>8, Table
  <2> QED
    BY <1>0, <1>7, <2>1 DEF Contents
<1>10. Fact(e)
  BY <1>0, <1>1, <1>2 DEF Facts
<1>11. state[Target[i]] = s /\ state[u] = s
  BY <1>5, <1>10 DEF Fact, Forwarded
<1>12. /\ value' = [value EXCEPT ![i] = u]
       /\ Then(t, <<[op |-> "NotifyAvailable", av |-> i, s |-> s]>>)
       /\ UNCHANGED <<state, head, next, payload, refcount, freed, counter, holds, produced,
                      asked, ran>>
  BY <1>1, <1>2, <1>5 DEF SetValue
<1>13. /\ value' \in [Indirect -> Concrete \cup {Nil}] /\ value'[i] = u
       /\ \A j \in Indirect \ {i} : value'[j] = value[j]
  BY <1>0, <1>12
<1>14. PICK c \in Entries :
          /\ c = ENotify(i, s) /\ c.op = "NotifyAvailable" /\ c.av = i /\ c.s = s
          /\ Duty(c) = d0 /\ Guards(c) = {i} /\ Owns(c) = {}
  BY <1>4, <1>5, EntriesMade, Table
<1>15. PICK es \in Seq(Entries) : es = <<c>> /\ Len(es) = 1 /\ 1..Len(es) = {1} /\ es[1] = c
  BY OneOf
<1>16. Becomes(t, b, es)
  <2>1. Then(t, es)
    BY <1>12, <1>14, <1>15 DEF ENotify
  <2> QED
    BY <1>0, <1>1, <2>1, ThenBecomes
<1>17. Located(loc)'
  <2>1. /\ \A j \in 1..Len(es) :
              Duty(es[j]) = IF j = Len(es) THEN Duty(At(t, H(t))) ELSE NoDuty
        /\ es # <<>>
    BY <1>2, <1>5, <1>14, <1>15
  <2> QED
    BY <1>0, <1>1, <1>16, <2>1, LocatedSame
<1>18. SameRanks(loc, loc)
  BY DEF SameRanks
<1>19. Lists(loc)'
  <2>1. Duty(At(t, H(t)))[1] # "run"
    BY <1>2, <1>5
  <2>2. /\ UNCHANGED <<head, state>>
        /\ \A n \in Nodes, r \in Nat : loc[NodeDuty(n)] = Ranked(n, r) => next'[n] = next[n]
        /\ \A v \in Values : loc[<<"run", v>>] = loc[<<"run", v>>]
    BY <1>12
  <2> QED
    BY <1>0, <1>1, <1>16, <1>18, <2>1, <2>2, ListsStep
<1>20. Guarded'
  <2>1. \A j \in 1..Len(es) : \A v \in Guards(es[j]) :
              \/ v \in holds'[t]
              \/ \E m \in j + 1..Len(es) : es[m] = Drop(v)
              \/ H(t) = b + 1 /\ v \in Guards(At(t, H(t)))
    BY <1>1, <1>2, <1>5, <1>14, <1>15
  <2> QED
    BY <1>0, <1>1, <1>12, <1>16, <2>1, GuardedStep
<1>21. Facts'
  <2>1. Stable
    BY <1>12 DEF Stable
  <2>2. Keeps(t, b)
    BY <1>8, <1>9, <1>12, <1>13 DEF Keeps
  <2>3. Fact(c)'
    <3>1. c.av \in Indirect => value'[c.av] \in Concrete /\ Forwarded(c.av, value[c.av], c.s)'
      BY <1>11, <1>12, <1>13, <1>14 DEF Forwarded
    <3> QED
      BY <1>14, <3>1 DEF Fact
  <2>4. i \notin Concrete
    BY KindsAssumption
  <2>5. \A j \in 1..Len(es) :
              /\ es[j].op \notin {"store", "AddRef"}
              /\ Fact(es[j])'
              /\ es[j].op = "NotifyAvailable" /\ es[j].av \in Concrete =>
                    payload'[es[j].av] = Stored(es[j].s)
    BY <1>14, <1>15, <2>3, <2>4
  <2>6. H(t) = b + 1 /\ At(t, H(t)).op # "store"
    BY <1>1, <1>2, <1>5
  <2> QED
    BY <1>0, <1>16, <2>1, <2>2, <2>5, <2>6, FactsStep
<1>22. Contents'
  <2>1. \A v : Available(v)' <=> Available(v)
    BY <1>12 DEF Available
  <2>2. ASSUME NEW j \in Indirect, value'[j] # Nil
        PROVE  \/ Available(j)'
               \/ \E x \in Threads : \E k \in 1..H(x)' : \E z \in Outcomes :
                     At(x, k)' = ENotify(j, z)
    <3>1. CASE j = i
      <4>1. b + 1 \in 1..H(t)' /\ At(t, b + 1)' = ENotify(i, s)
        <5>1. 1 \in 1..Len(es) /\ b + Len(es) - 1 + 1 = b + 1 /\ b + Len(es) = b + 1
          BY <1>15
        <5>2. At(t, b + 1)' = ENotify(i, s)
          <6>1. \A k \in b + 1..b + Len(es) : At(t, k)' = es[b + Len(es) - k + 1]
            BY <1>16, BecomesAt
          <6>2. b + 1 \in b + 1..b + Len(es) /\ b + Len(es) - (b + 1) + 1 = 1
            BY <1>15
          <6>3. At(t, b + 1)' = es[1]
            BY <6>1, <6>2
          <6> QED
            BY <1>14, <1>15, <6>3
        <5>3. H(t)' = b + 1
          BY <1>16, <5>1 DEF Becomes
        <5> QED
          BY <5>2, <5>3
      <4> QED
        BY <3>1, <4>1
    <3>2. CASE j # i
      <4>1. \/ Available(j)
            \/ \E x \in Threads : \E k \in 1..H(x) : \E z \in Outcomes : At(x, k) = ENotify(j, z)
        BY <1>0, <1>13, <2>2, <3>2 DEF Contents
      <4>2. ASSUME NEW x \in Threads, NEW k \in 1..H(x), NEW z \in Outcomes,
                   At(x, k) = ENotify(j, z)
            PROVE  k \in 1..H(x)' /\ At(x, k)' = ENotify(j, z)
        <5>1. CASE x # t
          BY <1>16, <4>2, <5>1 DEF Becomes
        <5>2. CASE x = t
          <6>1. k # H(t)
            BY <1>2, <1>5, <4>2, <5>2, Table
          <6>2. k \in 1..b
            BY <1>1, <5>2, <6>1
          <6>3. At(x, k)' = At(x, k)
            BY <1>16, <5>2, <6>2, BecomesAt
          <6>4. k \in 1..H(x)'
            BY <1>15, <1>16, <5>2, <6>2 DEF Becomes
          <6> QED
            BY <4>2, <6>3, <6>4
        <5> QED
          BY <5>1, <5>2
      <4> QED
        BY <2>1, <4>1, <4>2
    <3> QED
      BY <3>1, <3>2
  <2>3. /\ \A v \in Concrete : Available(v)' => payload'[v] = Stored(state'[v])
        /\ \A v \in Concrete \ produced' : Born[v] = "Unconstructed" \/ payload'[v] = "data"
    BY <1>0, <1>12, <2>1 DEF Contents
  <2>4. \A j \in Indirect \ freed' :
            Available(j)' => value'[j] \in Concrete /\ state'[value'[j]] = state'[j]
    BY <1>0, <1>7, <1>12, <1>13, <2>1 DEF Contents
  <2>5. \A j \in Indirect \cap freed' : value'[j] = Nil
    BY <1>0, <1>7, <1>12, <1>13 DEF Contents
  <2> QED
    BY <2>2, <2>3, <2>4, <2>5 DEF Contents, Stored
<1>23. Progress(loc)' /\ Counted(loc)'
  <2>1. UNCHANGED <<state, produced, asked, ran, counter>>
    BY <1>12
  <2> QED
    BY <1>0, <2>1, AtToAt
<1>24. Counts(loc)'
  <2>1. ASSUME NEW x \in Values
        PROVE  Balanced(loc, loc, x)
    <3>1. /\ IsFiniteSet(ByCalls(x)) /\ IsFiniteSet(ByNodes(loc, x)) /\ IsFiniteSet(ByValues(x))
          /\ x \in freed <=> refcount[x] = 0
      BY <1>0 DEF Counts
    <3>2. /\ IsFiniteSet(ByCalls(x)')
          /\ Cardinality(ByCalls(x)') =
                Cardinality(ByCalls(x))
                  - (IF H(t) = b + 1 /\ x \in Owns(At(t, H(t))) THEN 1 ELSE 0)
                  + (IF \E j \in 1..Len(es) : x \in Owns(es[j]) THEN 1 ELSE 0)
      <4>1. At(t, H(t)).op # "AddRef" /\ \A j \in 1..Len(es) : es[j].op # "AddRef"
        BY <1>2, <1>5, <1>14, <1>15
      <4>2. \A m, j \in 1..Len(es) : x \in Owns(es[m]) /\ x \in Owns(es[j]) => m = j
        BY <1>15
      <4>3. (H(t) = 0 /\ b = 0) \/ (H(t) = b + 1 /\ At(t, H(t)).op # "AddRef")
        BY <1>1, <4>1
      <4>4. es \in Seq(Entries) /\ Becomes(t, b, es)
        BY <1>16
      <4> QED
        BY ONLY <1>0, <3>1, <4>4, t \in Threads, b \in Nat, <4>1, <4>2, <4>3, CallsStep
    <3>3. /\ IsFiniteSet(ByValues(x)')
          /\ Cardinality(ByValues(x)') = Cardinality(ByValues(x))
                - (IF value[i] = x THEN 1 ELSE 0) + (IF u = x THEN 1 ELSE 0)
      <4>1. value[i] # u
        BY <1>5, <1>9
      <4>2. value' = [value EXCEPT ![i] = u] /\ IsFiniteSet(ByValues(x))
        BY <1>12, <3>1
      <4> QED
        BY ONLY <1>0, i \in Indirect, <4>1, <4>2, ValuesCount
    <3>4. value[i] # x
      BY <1>9, NilAssumption
    <3>5. /\ Cardinality(ByCalls(x)) \in Nat /\ Cardinality(ByNodes(loc, x)) \in Nat
          /\ Cardinality(ByValues(x)) \in Nat
      BY <3>1, FS_CardinalityType
    <3>6. /\ Cardinality(ByCalls(x)') = Cardinality(ByCalls(x)) - (IF x = u THEN 1 ELSE 0)
          /\ Cardinality(ByValues(x)') = Cardinality(ByValues(x)) + (IF x = u THEN 1 ELSE 0)
      BY <1>1, <1>2, <1>5, <1>14, <1>15, <3>2, <3>3, <3>4, <3>5
    <3>7. refcount'[x] = refcount[x] /\ refcount[x] \in Nat /\ freed' = freed
      BY <1>0, <1>12
    <3> QED
      BY <3>1, <3>2, <3>3, <3>5, <3>6, <3>7 DEF Balanced
  <2>2. holds' = holds /\ refcount' \in [Values -> Nat]
    BY <1>0, <1>12
  <2> QED
    BY <2>1, <2>2, BalancedCounts
<1>25. Types'
  BY <1>0, <1>12, <1>13, <1>16 DEF Types, Becomes
<1> QED
  BY <1>17, <1>19, <1>20, <1>21, <1>22, <1>23, <1>24, <1>25 DEF Inv

\* ForwardTo finds an available indirect value: a reference to the concrete value is taken
\* while the one to the indirect value is still there.
LEMMA ForwardUnwrap ==
    ASSUME NEW loc, Inv(loc), NEW t \in Threads, Top(t, "ForwardTo"),
           NEW i, i = Head(stack[t]).av, NEW v, v = Head(stack[t]).to,
           Available(v), v \in Indirect, Then(t, Unwrap(i, v, state[v])),
           UNCHANGED <<state, head, next, value, payload, refcount, freed, counter, holds,
                       produced, asked, ran>>
    PROVE  Inv(loc)'
<1>0. /\ Types /\ stack \in [Threads -> Seq(Entries)] /\ Located(loc) /\ Progress(loc) /\ Facts
      /\ Lists(loc) /\ Guarded /\ Contents /\ Counted(loc) /\ Counts(loc)
      /\ refcount \in [Values -> Nat]
  BY DEF Inv, Types
<1>1. PICK b \in Nat :
              /\ H(t) = b + 1 /\ H(t) - 1 = b /\ H(t) \in 1..H(t)
              /\ At(t, H(t)) = Head(stack[t]) /\ stack[t] # <<>>
              /\ Head(stack[t]) \in Entries /\ Head(stack[t]).op = "ForwardTo"
  BY <1>0, TopOf
<1>2. PICK e : e = At(t, H(t))
  OBVIOUS
<1>3. /\ i \in Indirect /\ v = Target[i] /\ e.op = "ForwardTo" /\ Duty(e) = <<"set", i>>
      /\ Guards(e) = {i} /\ Owns(e) = {v} /\ v \in Values
  BY <1>1, <1>2, EntryForms, Table DEF Values
<1>4. Own(t, b + 1) = {v}
  BY <1>1, <1>2, <1>3 DEF Own
<1>5. v \notin freed
  <2>1. b + 1 \in 1..H(t) /\ b + 1 \in Nat /\ v \in Own(t, b + 1)
    BY <1>1, <1>4
  <2> QED
    BY <1>0, <1>3, <2>1, Referenced
<1>6. PICK u \in Concrete : u = value[v] /\ state[u] = state[v]
  BY <1>0, <1>5 DEF Contents
<1>7. PICK s \in Outcomes : s = state[v]
  BY <1>0, <1>3 DEF Types, Available
<1>8. PICK c1 \in Entries : /\ c1 = EAddRef(u) /\ c1.op = "AddRef" /\ c1.av = u
                            /\ Duty(c1) = NoDuty /\ Guards(c1) = {} /\ Owns(c1) = {}
  BY EntriesMade, Table
<1>9. PICK c2 \in Entries : /\ c2 = Drop(v) /\ c2.op = "DropRef" /\ c2.av = v
                            /\ Duty(c2) = NoDuty /\ Guards(c2) = {} /\ Owns(c2) = {v}
  BY <1>3, EntriesMade, Table
<1>10. PICK c3 \in Entries : /\ c3 = ESet(i, u, s) /\ c3.op = "SetValue" /\ c3.av = i
                             /\ c3.to = u /\ c3.s = s
                             /\ Duty(c3) = Duty(e) /\ Guards(c3) = {i} /\ Owns(c3) = {u}
  BY <1>3, EntriesMade, Table
<1>11. PICK es \in Seq(Entries) : /\ es = <<c1, c2, c3>> /\ Len(es) = 3 /\ 1..Len(es) = {1, 2, 3}
                                  /\ es[1] = c1 /\ es[2] = c2 /\ es[3] = c3
  <2>1. PICK es : es = <<c1, c2, c3>>
    OBVIOUS
  <2>2. es \in Seq(Entries) /\ Len(es) = 3 /\ es[1] = c1 /\ es[2] = c2 /\ es[3] = c3
    BY <2>1
  <2>3. 1..3 = {1, 2, 3}
    OBVIOUS
  <2> QED
    BY <2>1, <2>2, <2>3
<1>12. Becomes(t, b, es)
  <2>1. Then(t, es)
    BY <1>6, <1>7, <1>8, <1>9, <1>10, <1>11 DEF Unwrap, EAddRef, ESet
  <2> QED
    BY <1>0, <1>1, <2>1, ThenBecomes
<1>13. /\ H(t)' = b + 3 /\ stack' \in [Threads -> Seq(Entries)]
       /\ \A k \in 1..b : At(t, k)' = At(t, k)
       /\ At(t, b + 3)' = c1 /\ At(t, b + 2)' = c2 /\ At(t, b + 1)' = c3
  <2>1. /\ \A k \in 1..b : At(t, k)' = At(t, k)
        /\ \A k \in b + 1..b + Len(es) : At(t, k)' = es[b + Len(es) - k + 1]
    BY <1>12, BecomesAt
  <2>2. /\ b + 3 \in b + 1..b + Len(es) /\ b + Len(es) - (b + 3) + 1 = 1
        /\ b + 2 \in b + 1..b + Len(es) /\ b + Len(es) - (b + 2) + 1 = 2
        /\ b + 1 \in b + 1..b + Len(es) /\ b + Len(es) - (b + 1) + 1 = 3
    BY <1>11
  <2>3. At(t, b + 3)' = es[1] /\ At(t, b + 2)' = es[2] /\ At(t, b + 1)' = es[3]
    BY <2>1, <2>2
  <2>4. H(t)' = b + 3 /\ stack' \in [Threads -> Seq(Entries)]
    BY <1>11, <1>12 DEF Becomes
  <2> QED
    BY <1>11, <2>1, <2>3, <2>4
<1>14. Located(loc)'
  <2>1. /\ \A j \in 1..Len(es) :
              Duty(es[j]) = IF j = Len(es) THEN Duty(At(t, H(t))) ELSE NoDuty
        /\ es # <<>>
    BY <1>2, <1>8, <1>9, <1>10, <1>11
  <2> QED
    BY <1>0, <1>1, <1>12, <2>1, LocatedSame
<1>15. SameRanks(loc, loc)
  BY DEF SameRanks
<1>16. Lists(loc)'
  <2>1. Duty(At(t, H(t)))[1] # "run"
    BY <1>2, <1>3
  <2>2. /\ UNCHANGED <<head, state>>
        /\ \A n \in Nodes, r \in Nat : loc[NodeDuty(n)] = Ranked(n, r) => next'[n] = next[n]
        /\ \A x \in Values : loc[<<"run", x>>] = loc[<<"run", x>>]
    OBVIOUS
  <2> QED
    BY <1>0, <1>1, <1>12, <1>15, <2>1, <2>2, ListsStep
<1>17. Guarded'
  <2>1. \A j \in 1..Len(es) : \A x \in Guards(es[j]) :
              \/ x \in holds'[t]
              \/ \E m \in j + 1..Len(es) : es[m] = Drop(x)
              \/ H(t) = b + 1 /\ x \in Guards(At(t, H(t)))
    BY <1>1, <1>2, <1>3, <1>8, <1>9, <1>10, <1>11
  <2> QED
    BY <1>0, <1>1, <1>12, <2>1, GuardedStep
<1>18. Facts'
  <2>1. Stable /\ Keeps(t, b)
    BY DEF Stable, Keeps
  <2>2. Fact(c1)' /\ Shape(t, b + 3)'
    <3>1. Fact(c1)'
      BY <1>8 DEF Fact
    <3>2. /\ b + 3 = H(t)' /\ b + 3 > 2
          /\ \E x \in Indirect : At(t, b + 3 - 1)' = Drop(x) /\ value'[x] = c1.av
          /\ \E x \in Indirect, z \in Outcomes : At(t, b + 3 - 2)' = ESet(x, c1.av, z)
      <4>1. b + 3 - 1 = b + 2 /\ b + 3 - 2 = b + 1
        OBVIOUS
      <4>2. At(t, b + 3 - 1)' = Drop(v) /\ value'[v] = c1.av /\ v \in Indirect
        BY <1>6, <1>8, <1>9, <1>13, <4>1
      <4>3. At(t, b + 3 - 2)' = ESet(i, c1.av, s)
        BY <1>8, <1>10, <1>13, <4>1
      <4>4. b + 3 = H(t)' /\ b + 3 > 2
        BY <1>13
      <4> QED
        BY <1>3, <4>2, <4>3, <4>4
    <3> QED
      BY <1>8, <1>13, <3>1, <3>2 DEF Shape
  <2>3. Fact(c2)' /\ Shape(t, b + 2)'
    BY <1>9, <1>13 DEF Fact, Shape
  <2>4. Fact(c3)' /\ Shape(t, b + 1)'
    <3>1. Forwarded(i, u, s)'
      BY <1>3, <1>6, <1>7 DEF Forwarded
    <3> QED
      BY <1>10, <1>13, <3>1 DEF Fact, Shape
  <2>5. \A j \in 1..Len(es) : Fact(es[j])' /\ Shape(t, b + Len(es) - j + 1)'
    <3>1. b + Len(es) - 1 + 1 = b + 3 /\ b + Len(es) - 2 + 1 = b + 2 /\ b + Len(es) - 3 + 1 = b + 1
      BY <1>11
    <3> QED
      BY <1>11, <2>2, <2>3, <2>4, <3>1
  <2>6. At(t, H(t)).op # "store"
    BY <1>2, <1>3
  <2> QED
    BY <1>0, <1>1, <1>12, <2>1, <2>5, <2>6, FactsShape
<1>19. Contents'
  <2>1. /\ At(t, H(t)).op # "NotifyAvailable"
        /\ UNCHANGED <<state, value, freed>> /\ produced \subseteq produced'
        /\ \A x \in Concrete : payload'[x] = payload[x] \/ (~Available(x) /\ x \in produced)
    BY <1>2, <1>3
  <2> QED
    BY <1>0, <1>1, <1>12, <2>1, ContentsStep
<1>20. Progress(loc)' /\ Counted(loc)'
  BY <1>0, AtToAt
<1>21. Counts(loc)'
  <2>1. /\ Own(t, b + 3)' = {} /\ Own(t, b + 2)' = {v} /\ Own(t, b + 1)' = {}
    <3>1. b + 1 + 2 = b + 3
      OBVIOUS
    <3> QED
      BY <1>8, <1>9, <1>10, <1>13, <3>1 DEF Own
  <2>2. ASSUME NEW k \in 1..b
        PROVE  Own(t, k)' = Own(t, k)
    <3>1. ~(H(t) = k + 2 /\ At(t, k + 2).op = "AddRef")
      BY <1>1, <1>2, <1>3
    <3>2. ~(H(t)' = k + 2)
      BY <1>13
    <3> QED
      BY <1>13, <3>1, <3>2 DEF Own
  <2>3. ASSUME NEW x \in Threads \ {t}
        PROVE  H(x)' = H(x) /\ \A k \in 1..H(x) : Own(x, k)' = Own(x, k)
    <3>1. H(x)' = H(x) /\ H(x) \in Nat /\ \A k \in 1..H(x) : At(x, k)' = At(x, k)
      BY <1>0, <1>12, StackTypes DEF Becomes
    <3>2. ASSUME NEW k \in 1..H(x)
          PROVE  Own(x, k)' = Own(x, k)
      <4>1. H(x) = k + 2 => At(x, k + 2)' = At(x, k + 2)
        BY <3>1
      <4> QED
        BY <3>1, <4>1 DEF Own
    <3> QED
      BY <3>1, <3>2
  <2>4. \A k \in b + 1..H(t)' : k = b + 1 \/ k = b + 2 \/ k = b + 3
    BY <1>13
  <2>5. ASSUME NEW x \in Values
        PROVE  /\ IsFiniteSet(ByCalls(x)') /\ IsFiniteSet(ByNodes(loc, x))
               /\ Cardinality(ByCalls(x)') + Cardinality(ByNodes(loc, x))
                   = Cardinality(ByCalls(x)) + Cardinality(ByNodes(loc, x))
    <3>1. IsFiniteSet(ByCalls(x)) /\ IsFiniteSet(ByNodes(loc, x))
      BY <1>0 DEF Counts
    <3>2. /\ H(t) \in {b, b + 1} /\ b <= H(t)'
          /\ \A j, k \in b + 1..H(t)' : x \in Own(t, j)' /\ x \in Own(t, k)' => j = k
      BY <1>1, <1>13, <2>1, <2>4
    <3>3. /\ IsFiniteSet(ByCalls(x)')
          /\ Cardinality(ByCalls(x)') =
               Cardinality(ByCalls(x)) - (IF H(t) = b + 1 /\ x \in Own(t, b + 1) THEN 1 ELSE 0)
                 + (IF \E k \in b + 1..H(t)' : x \in Own(t, k)' THEN 1 ELSE 0)
      BY <1>0, <1>13, <2>2, <2>3, <3>1, <3>2, CallsCount
    <3>4. (\E k \in b + 1..H(t)' : x \in Own(t, k)') <=> x = v
      <4>1. b + 2 \in b + 1..H(t)'
        BY <1>13
      <4> QED
        BY <2>1, <2>4, <4>1
    <3>5. Cardinality(ByCalls(x)) \in Nat /\ Cardinality(ByNodes(loc, x)) \in Nat
      BY <3>1, FS_CardinalityType
    <3>6. Cardinality(ByCalls(x)') = Cardinality(ByCalls(x))
      BY <1>1, <1>4, <3>3, <3>4, <3>5
    <3> QED
      BY <3>1, <3>3, <3>6
  <2>6. UNCHANGED <<refcount, freed, holds, value>>
    OBVIOUS
  <2> QED
    BY <2>5, <2>6, CountsMoved
<1>22. Types'
  BY <1>0, <1>13 DEF Types
<1> QED
  BY <1>14, <1>16, <1>17, <1>18, <1>19, <1>20, <1>21, <1>22 DEF Inv

\* ForwardTo: now, through another indirect value, or later.
LEMMA ForwardToKeeps ==
    ASSUME NEW loc, Inv(loc), NEW t \in Threads, ForwardTo(t)
    PROVE  Inv(loc)'
<1>1. Top(t, "ForwardTo")
  BY DEF ForwardTo
<1>2. PICK i : i = Head(stack[t]).av
  OBVIOUS
<1>3. PICK v : v = Head(stack[t]).to
  OBVIOUS
<1>4. UNCHANGED <<state, head, next, value, payload, freed, counter, holds, produced, asked, ran>>
  BY DEF ForwardTo
<1>5. CASE Available(v) /\ v \in Indirect /\ refcount' = refcount
  <2>1. Then(t, Unwrap(i, v, state[v]))
    BY <1>2, <1>3, <1>5 DEF ForwardTo
  <2>2. UNCHANGED <<state, head, next, value, payload, refcount, freed, counter, holds, produced,
                    asked, ran>>
    BY <1>4, <1>5
  <2> QED
    BY <1>1, <1>2, <1>3, <1>5, <2>1, <2>2, ForwardUnwrap
<1>6. CASE Available(v) /\ v \notin Indirect /\ refcount' = refcount
  <2>1. Then(t, <<[op |-> "SetValue", av |-> i, to |-> v, s |-> state[v]]>>)
    BY <1>2, <1>3, <1>6 DEF ForwardTo
  <2>2. UNCHANGED <<state, head, next, value, payload, refcount, freed, counter, holds, produced,
                    asked, ran>>
    BY <1>4, <1>6
  <2> QED
    BY <1>1, <1>2, <1>3, <1>6, <2>1, <2>2, ForwardConcrete
<1>7. CASE ~Available(v)
  <2>1. /\ refcount' = [refcount EXCEPT ![i] = @ + 1]
        /\ Then(t, <<[op |-> "AndThen", node |-> Forward(i)]>>)
    BY <1>2, <1>3, <1>7 DEF ForwardTo
  <2> QED
    BY <1>1, <1>2, <1>3, <1>4, <2>1, ForwardLater
<1>8. Available(v) => refcount' = refcount
  BY <1>3 DEF ForwardTo
<1> QED
  BY <1>5, <1>6, <1>7, <1>8

-----------------------------------------------------------------------------
(* References are taken and dropped.                                        *)

\* AddRef: the SetValue two entries below has its reference from now on.
LEMMA AddRefKeeps ==
    ASSUME NEW loc, Inv(loc), NEW t \in Threads, AddRef(t)
    PROVE  Inv(loc)'
<1>0. /\ Types /\ stack \in [Threads -> Seq(Entries)] /\ Located(loc) /\ Progress(loc) /\ Facts
      /\ Lists(loc) /\ Guarded /\ Contents /\ Counted(loc) /\ Counts(loc)
      /\ refcount \in [Values -> Nat] /\ Top(t, "AddRef")
  BY DEF Inv, Types, AddRef
<1>1. PICK b \in Nat :
              /\ H(t) = b + 1 /\ H(t) - 1 = b /\ H(t) \in 1..H(t)
              /\ At(t, H(t)) = Head(stack[t]) /\ stack[t] # <<>>
              /\ Head(stack[t]) \in Entries /\ Head(stack[t]).op = "AddRef"
  BY <1>0, TopOf
<1>2. PICK e : e = At(t, H(t))
  OBVIOUS
<1>3. PICK u \in Concrete : e = EAddRef(u)
  BY <1>1, <1>2, EntryForms
<1>4. /\ e.op = "AddRef" /\ e.av = u /\ Duty(e) = NoDuty /\ Owns(e) = {} /\ Guards(e) = {}
      /\ u \in Values
  BY <1>3, Table DEF Values
<1>5. PICK a \in Nat : a = b - 1 /\ a > 0 /\ a \in 1..H(t) /\ a + 2 = b + 1
  <2>1. H(t) > 2
    BY <1>0, <1>1, <1>2, <1>4 DEF Facts, Shape
  <2> QED
    BY <1>1, <2>1
<1>6. /\ \E v \in Indirect : value[v] = u
      /\ At(t, a).op = "SetValue" /\ Owns(At(t, a)) = {u}
  <2>1. Shape(t, H(t))
    BY <1>0, <1>1 DEF Facts
  <2>2. /\ \E v \in Indirect : At(t, H(t) - 1) = Drop(v) /\ value[v] = u
        /\ \E i \in Indirect, s \in Outcomes : At(t, H(t) - 2) = ESet(i, u, s)
    BY <1>2, <1>4, <2>1 DEF Shape
  <2>3. H(t) - 2 = a
    BY <1>1, <1>5
  <2> QED
    BY <2>2, <2>3, Table
<1>7. refcount[u] > 0 /\ u \notin freed /\ refcount[u] \in Nat
  BY <1>0, <1>4, <1>6, Referenced
<1>8. /\ refcount' = [refcount EXCEPT ![u] = refcount[u] + 1] /\ Then(t, <<>>)
      /\ UNCHANGED <<state, head, next, value, payload, freed, counter, holds, produced, asked,
                     ran>>
  BY <1>1, <1>2, <1>4 DEF AddRef
<1>9. /\ refcount' \in [Values -> Nat] /\ refcount'[u] = refcount[u] + 1
      /\ \A x \in Values \ {u} : refcount'[x] = refcount[x]
  BY <1>0, <1>4, <1>7, <1>8
<1>10. PICK es \in Seq(Entries) : es = <<>> /\ Len(es) = 0 /\ 1..Len(es) = {}
  BY NoCalls
<1>11. Becomes(t, b, es)
  BY <1>0, <1>1, <1>8, <1>10, ThenBecomes
<1>12. Located(loc)'
  BY <1>0, <1>1, <1>2, <1>4, <1>10, <1>11, LocatedSame
<1>13. SameRanks(loc, loc)
  BY DEF SameRanks
<1>14. Lists(loc)'
  <2>1. Duty(At(t, H(t)))[1] # "run"
    BY <1>2, <1>4 DEF NoDuty
  <2>2. /\ UNCHANGED <<head, state>>
        /\ \A n \in Nodes, r \in Nat : loc[NodeDuty(n)] = Ranked(n, r) => next'[n] = next[n]
        /\ \A v \in Values : loc[<<"run", v>>] = loc[<<"run", v>>]
    BY <1>8
  <2> QED
    BY <1>0, <1>1, <1>11, <1>13, <2>1, <2>2, ListsStep
<1>15. Guarded'
  BY <1>0, <1>1, <1>8, <1>10, <1>11, GuardedStep
<1>16. Facts'
  <2>1. Stable /\ Keeps(t, b)
    BY <1>8 DEF Stable, Keeps
  <2>2. H(t) = b + 1 /\ At(t, H(t)).op # "store"
    BY <1>1, <1>2, <1>4
  <2> QED
    BY <1>0, <1>10, <1>11, <2>1, <2>2, FactsStep
<1>17. Contents'
  <2>1. /\ At(t, H(t)).op # "NotifyAvailable"
        /\ UNCHANGED <<state, value, freed>> /\ produced \subseteq produced'
        /\ \A v \in Concrete : payload'[v] = payload[v] \/ (~Available(v) /\ v \in produced)
    BY <1>2, <1>4, <1>8
  <2> QED
    BY <1>0, <1>1, <1>11, <2>1, ContentsStep
<1>18. Progress(loc)' /\ Counted(loc)'
  <2>1. UNCHANGED <<state, produced, asked, ran, counter>>
    BY <1>8
  <2> QED
    BY <1>0, <2>1, AtToAt
<1>19. Counts(loc)'
  <2>1. H(t)' = b /\ \A k \in 1..b : At(t, k)' = At(t, k)
    <3>1. H(t)' = b
      BY <1>10, <1>11 DEF Becomes
    <3> QED
      BY <1>11, <3>1, BecomesAt
  <2>2. Own(t, a) = {} /\ Own(t, b + 1) = {}
    <3>1. H(t) = a + 2 /\ At(t, a + 2).op = "AddRef" /\ H(t) # b + 1 + 2
      BY <1>1, <1>2, <1>4, <1>5
    <3> QED
      BY <1>1, <1>2, <1>4, <1>6, <3>1 DEF Own
  <2>3. ASSUME NEW k \in 1..b
        PROVE  Own(t, k)' = IF k = a THEN {u} ELSE Own(t, k)
    <3>1. ~(H(t)' = k + 2 /\ At(t, k + 2)'.op = "AddRef")
      <4>1. SUFFICES ASSUME H(t)' = k + 2
                     PROVE  At(t, k + 2)'.op # "AddRef"
        OBVIOUS
      <4>2. k + 2 = b /\ b \in 1..b /\ b \in 1..H(t) /\ b # H(t)
        BY <1>1, <2>1, <4>1
      <4>3. Shape(t, b)
        BY <1>0, <4>2 DEF Facts
      <4>4. At(t, b).op # "AddRef"
        BY <4>2, <4>3 DEF Shape
      <4>5. At(t, k + 2)' = At(t, b)
        BY <2>1, <4>2
      <4> QED
        BY <4>4, <4>5
    <3>2. H(t) = k + 2 <=> k = a
      BY <1>1, <1>5
    <3>3. At(t, k)' = At(t, k)
      BY <2>1
    <3>4. Own(t, k)' = Owns(At(t, k))
      BY <3>1, <3>3 DEF Own
    <3>5. k # a => Own(t, k) = Owns(At(t, k))
      BY <3>2 DEF Own
    <3> QED
      BY <1>6, <3>4, <3>5
  <2>4. ASSUME NEW x \in Threads \ {t}
        PROVE  H(x)' = H(x) /\ \A k \in 1..H(x) : Own(x, k)' = Own(x, k)
    <3>1. H(x)' = H(x) /\ H(x) \in Nat /\ \A k \in 1..H(x) : At(x, k)' = At(x, k)
      BY <1>0, <1>11, StackTypes DEF Becomes
    <3>2. ASSUME NEW k \in 1..H(x)
          PROVE  Own(x, k)' = Own(x, k)
      <4>1. H(x) = k + 2 => At(x, k + 2)' = At(x, k + 2)
        BY <3>1
      <4> QED
        BY <3>1, <4>1 DEF Own
    <3> QED
      BY <3>1, <3>2
  <2>5. ASSUME NEW x \in Values
        PROVE  Balanced(loc, loc, x)
    <3>1. /\ IsFiniteSet(ByCalls(x)) /\ IsFiniteSet(ByNodes(loc, x)) /\ IsFiniteSet(ByValues(x))
          /\ x \in freed <=> refcount[x] = 0
      BY <1>0 DEF Counts
    <3>2. ASSUME NEW p \in Threads \X Nat
          PROVE  (p[2] \in 1..H(p[1])' /\ x \in Own(p[1], p[2])') <=>
                    \/ p[2] \in 1..H(p[1]) /\ x \in Own(p[1], p[2])
                    \/ p = <<t, a>> /\ x = u
      <4>1. PICK q \in Threads, k \in Nat : p = <<q, k>> /\ p[1] = q /\ p[2] = k
        OBVIOUS
      <4>2. CASE q # t
        <5>1. p # <<t, a>>
          BY <4>1, <4>2
        <5> QED
          BY <2>4, <4>1, <4>2, <5>1
      <4>3. CASE q = t
        <5>1. k \in 1..H(t) <=> (k \in 1..b \/ k = b + 1)
          BY <1>1
        <5>2. a \in 1..b
          BY <1>5
        <5>3. p = <<t, a>> <=> k = a
          BY <4>1, <4>3
        <5>4. (k \in 1..H(t)' /\ x \in Own(t, k)') <=> ((k \in 1..H(t) /\ x \in Own(t, k)) \/ (k = a /\ x = u))
          BY <2>1, <2>2, <2>3, <5>1, <5>2
        <5> QED
          BY <4>1, <4>3, <5>3, <5>4
      <4> QED
        BY <4>2, <4>3
    <3>3. <<t, a>> \in Threads \X Nat /\ <<t, a>> \notin ByCalls(x)
      BY <2>2 DEF ByCalls
    <3>4. ByCalls(x)' = IF x = u THEN ByCalls(x) \cup {<<t, a>>} ELSE ByCalls(x)
      <4>1. ByCalls(x)' = {p \in Threads \X Nat : p[2] \in 1..H(p[1])' /\ x \in Own(p[1], p[2])'}
        BY DEF ByCalls
      <4>2. ByCalls(x) = {p \in Threads \X Nat : p[2] \in 1..H(p[1]) /\ x \in Own(p[1], p[2])}
        BY DEF ByCalls
      <4>3. \A p : p \in ByCalls(x)' <=> p \in ByCalls(x) \/ (p = <<t, a>> /\ x = u)
        BY <3>2, <3>3, <4>1, <4>2
      <4> QED
        BY <4>3
    <3>5. /\ Cardinality(ByCalls(x)) \in Nat /\ Cardinality(ByNodes(loc, x)) \in Nat
          /\ Cardinality(ByValues(x)) \in Nat /\ ByValues(x)' = ByValues(x)
      BY <1>8, <3>1, FS_CardinalityType DEF ByValues
    <3>6. CASE x = u
      <4>1. ByCalls(x)' = ByCalls(x) \cup {<<t, a>>}
        BY <3>4, <3>6
      <4>2. IsFiniteSet(ByCalls(x)') /\ Cardinality(ByCalls(x)') = Cardinality(ByCalls(x)) + 1
        BY ONLY <3>1, <3>3, <4>1, FS_AddElement
      <4>3. refcount'[x] = refcount[x] + 1 /\ refcount[x] \in Nat /\ (x \in freed' <=> refcount'[x] = 0)
        BY <1>7, <1>8, <1>9, <3>6
      <4> QED
        BY <3>1, <3>5, <4>2, <4>3 DEF Balanced
    <3>7. CASE x # u
      <4>1. ByCalls(x)' = ByCalls(x)
        BY <3>4, <3>7
      <4>2. refcount'[x] = refcount[x] /\ refcount[x] \in Nat /\ freed' = freed
        BY <1>0, <1>8, <1>9, <3>7
      <4> QED
        BY <3>1, <3>5, <4>1, <4>2 DEF Balanced
    <3> QED
      BY <3>6, <3>7
  <2> QED
    BY <1>8, <1>9, <2>5, BalancedCounts
<1>20. Types'
  BY <1>0, <1>8, <1>9, <1>11 DEF Types, Becomes
<1> QED
  BY <1>12, <1>14, <1>15, <1>16, <1>17, <1>18, <1>19, <1>20 DEF Inv

\* The last reference is dropped: nobody else uses the value, and an indirect one hands
\* its reference to the concrete value on to a DropRef.
LEMMA DestroyKeeps ==
    ASSUME NEW loc, Inv(loc), NEW t \in Threads, NEW op \in {"DropRef", "DropRef_fetch_sub"},
           Top(t, op), NEW v, v = Head(stack[t]).av, refcount[v] = 1,
           refcount' = [refcount EXCEPT ![v] = 0], Destroy(t, v),
           UNCHANGED <<state, head, next, payload, counter, holds, produced, asked, ran>>
    PROVE  Inv(loc)'
<1>0. /\ Types /\ stack \in [Threads -> Seq(Entries)] /\ Located(loc) /\ Progress(loc) /\ Facts
      /\ Lists(loc) /\ Guarded /\ Contents /\ Counted(loc) /\ Counts(loc)
      /\ value \in [Indirect -> Concrete \cup {Nil}] /\ holds \in [Threads -> SUBSET Values]
      /\ refcount \in [Values -> Nat] /\ freed \subseteq Values
  BY DEF Inv, Types
<1>1. PICK b \in Nat :
              /\ H(t) = b + 1 /\ H(t) - 1 = b /\ H(t) \in 1..H(t)
              /\ At(t, H(t)) = Head(stack[t]) /\ stack[t] # <<>>
              /\ Head(stack[t]) \in Entries /\ Head(stack[t]).op = op
  BY <1>0, TopOf
<1>2. PICK e : e = At(t, H(t))
  OBVIOUS
<1>3. e \in {Drop(v), ESub(v)} /\ v \in Values
  <2>1. \E x \in Values : e = Drop(x) \/ e = ESub(x)
    BY <1>1, <1>2, EntryForms
  <2> QED
    BY <1>1, <1>2, <2>1, Table
<1>4. /\ e.op \in {"DropRef", "DropRef_fetch_sub"} /\ Duty(e) = NoDuty /\ Owns(e) = {v}
      /\ Guards(e) = {}
  BY <1>3, Table
<1>5. /\ \A x \in Threads : \A k \in 1..H(x) : v \notin Guards(At(x, k))
      /\ \A x \in Threads : \A k \in 1..H(x) : At(x, k) = Drop(v) => x = t /\ k = H(t)
      /\ \A i \in Indirect : value[i] # v
  <2>1. H(t) > 0 /\ At(t, H(t)) \in {Drop(v), ESub(v)}
    BY <1>1, <1>2, <1>3
  <2> QED
    BY <1>0, <1>3, <2>1, LastUse
<1>6. PICK u : u = IF v \in Indirect THEN value[v] ELSE Nil
  OBVIOUS
<1>7. /\ u # Nil => u \in Concrete /\ u \in Values /\ v \in Indirect /\ value[v] = u /\ u # v
      /\ u = Nil => v \notin Indirect \/ value[v] = Nil
  BY <1>0, <1>5, <1>6 DEF Values
<1>8. PICK es \in Seq(Entries) :
        \/ u # Nil /\ es = <<Drop(u)>> /\ Len(es) = 1 /\ 1..Len(es) = {1} /\ es[1] = Drop(u)
        \/ u = Nil /\ es = <<>> /\ Len(es) = 0 /\ 1..Len(es) = {}
  <2>1. CASE u # Nil
    <3>1. Drop(u) \in Entries
      BY <1>7, <2>1, EntriesMade
    <3> QED
      BY <2>1, <3>1, OneOf
  <2>2. CASE u = Nil
    BY <2>2, NoCalls
  <2> QED
    BY <2>1, <2>2
<1>9. /\ freed' = freed \cup {v} /\ Then(t, es)
      /\ u # Nil => value' = [value EXCEPT ![v] = Nil]
      /\ u = Nil => value' = value
  <2>1. CASE u # Nil
    BY <1>7, <1>8, <2>1 DEF Destroy
  <2>2. CASE u = Nil
    BY <1>7, <1>8, <2>2 DEF Destroy
  <2> QED
    BY <2>1, <2>2
<1>10. /\ value' \in [Indirect -> Concrete \cup {Nil}]
       /\ v \in Indirect => value'[v] = Nil
       /\ \A j \in Indirect \ {v} : value'[j] = value[j]
  BY <1>0, <1>7, <1>9
<1>11. /\ refcount' \in [Values -> Nat] /\ refcount'[v] = 0
       /\ \A x \in Values \ {v} : refcount'[x] = refcount[x]
  BY <1>0, <1>3
<1>12. Becomes(t, b, es)
  BY <1>0, <1>1, <1>9, ThenBecomes
<1>13. /\ \A j \in 1..Len(es) : /\ es[j].op = "DropRef" /\ Duty(es[j]) = NoDuty
                               /\ Guards(es[j]) = {} /\ Owns(es[j]) = {u}
       /\ \A i, j \in 1..Len(es) : i = j
       /\ 1..Len(es) # {} <=> u # Nil
  <2>1. /\ Drop(u).op = "DropRef" /\ Duty(Drop(u)) = NoDuty
        /\ Guards(Drop(u)) = {} /\ Owns(Drop(u)) = {u}
    BY Table
  <2>2. CASE u # Nil
    BY <1>8, <2>1, <2>2
  <2>3. CASE u = Nil
    BY <1>8, <2>3
  <2> QED
    BY <2>2, <2>3
<1>14. Located(loc)'
  <2>1. \A j \in 1..Len(es) : Duty(es[j]) = IF j = Len(es) THEN Duty(At(t, H(t))) ELSE NoDuty
    BY <1>2, <1>4, <1>13
  <2>2. es = <<>> => Duty(At(t, H(t))) = NoDuty
    BY <1>2, <1>4
  <2> QED
    BY <1>0, <1>1, <1>12, <2>1, <2>2, LocatedSame
<1>15. SameRanks(loc, loc)
  BY DEF SameRanks
<1>16. Lists(loc)'
  <2>1. Duty(At(t, H(t)))[1] # "run"
    BY <1>2, <1>4 DEF NoDuty
  <2>2. /\ UNCHANGED <<head, state>>
        /\ \A n \in Nodes, r \in Nat : loc[NodeDuty(n)] = Ranked(n, r) => next'[n] = next[n]
        /\ \A x \in Values : loc[<<"run", x>>] = loc[<<"run", x>>]
    OBVIOUS
  <2> QED
    BY <1>0, <1>1, <1>12, <1>15, <2>1, <2>2, ListsStep
<1>17. Guarded'
  <2>1. \A j \in 1..Len(es) : \A x \in Guards(es[j]) :
              \/ x \in holds'[t]
              \/ \E m \in j + 1..Len(es) : es[m] = Drop(x)
              \/ H(t) = b + 1 /\ x \in Guards(At(t, H(t)))
    BY <1>13
  <2>2. H(t) = b + 1 /\ holds' = holds
    BY <1>1
  <2> QED
    BY <1>0, <1>12, <2>1, <2>2, GuardedStep
<1>18. Facts'
  <2>1. Stable
    BY DEF Stable
  <2>2. Keeps(t, b)
    <3> SUFFICES ASSUME NEW x \in Threads, NEW k \in 1..H(x)
                 PROVE  /\ At(x, k).op = "NotifyAvailable" => At(x, k).av # v
                        /\ x # t /\ At(x, k).op = "DropRef" => At(x, k).av # v
      BY <1>10 DEF Keeps
    <3>1. PICK c : c = At(x, k)
      OBVIOUS
    <3>2. c \in Entries
      BY <1>0, <3>1, StackTypes
    <3>3. c.op = "NotifyAvailable" => Guards(c) = {c.av}
      BY <3>2, EntryForms, Table
    <3>4. c.op = "DropRef" => c = Drop(c.av)
      BY <3>2, EntryForms, Table
    <3> QED
      BY <1>5, <3>1, <3>3, <3>4
  <2>3. ASSUME NEW j \in 1..Len(es)
        PROVE  Fact(es[j])'
    BY <1>13 DEF Fact
  <2>4. \A j \in 1..Len(es) :
              /\ es[j].op \notin {"store", "AddRef"}
              /\ Fact(es[j])'
              /\ es[j].op = "NotifyAvailable" /\ es[j].av \in Concrete =>
                    payload'[es[j].av] = Stored(es[j].s)
    BY <1>13, <2>3
  <2>5. H(t) = b + 1 /\ At(t, H(t)).op # "store"
    BY <1>1, <1>2, <1>4
  <2> QED
    BY <1>0, <1>12, <2>1, <2>2, <2>4, <2>5, FactsStep
<1>19. Contents'
  <2>1. \A x : Available(x)' <=> Available(x)
    BY DEF Available
  <2>2. ASSUME NEW j \in Indirect, value'[j] # Nil
        PROVE  \/ Available(j)'
               \/ \E x \in Threads : \E k \in 1..H(x)' : \E z \in Outcomes :
                     At(x, k)' = ENotify(j, z)
    <3>1. j # v
      BY <1>10, <2>2
    <3>2. \/ Available(j)
          \/ \E x \in Threads : \E k \in 1..H(x) : \E z \in Outcomes : At(x, k) = ENotify(j, z)
      BY <1>0, <1>10, <2>2, <3>1 DEF Contents
    <3>3. ASSUME NEW x \in Threads, NEW k \in 1..H(x), NEW z \in Outcomes,
                 At(x, k) = ENotify(j, z)
          PROVE  k \in 1..H(x)' /\ At(x, k)' = ENotify(j, z)
      <4>1. CASE x # t
        BY <1>12, <3>3, <4>1 DEF Becomes
      <4>2. CASE x = t
        <5>1. k # H(t)
          BY <1>2, <1>4, <3>3, <4>2, Table
        <5>2. k \in 1..b
          BY <1>1, <4>2, <5>1
        <5>3. At(x, k)' = At(x, k)
          BY <1>12, <4>2, <5>2, BecomesAt
        <5>4. k \in 1..H(x)'
          <6>1. Len(es) \in Nat /\ H(t)' = b + Len(es)
            BY <1>12 DEF Becomes
          <6> QED
            BY <4>2, <5>2, <6>1
        <5> QED
          BY <3>3, <5>3, <5>4
      <4> QED
        BY <4>1, <4>2
    <3> QED
      BY <2>1, <3>2, <3>3
  <2>3. /\ \A x \in Concrete : Available(x)' => payload'[x] = Stored(state'[x])
        /\ \A x \in Concrete \ produced' : Born[x] = "Unconstructed" \/ payload'[x] = "data"
    BY <1>0, <2>1 DEF Contents
  <2>4. \A j \in Indirect \ freed' :
            Available(j)' => value'[j] \in Concrete /\ state'[value'[j]] = state'[j]
    BY <1>0, <1>9, <1>10, <2>1 DEF Contents
  <2>5. \A j \in Indirect \cap freed' : value'[j] = Nil
    BY <1>0, <1>9, <1>10 DEF Contents
  <2> QED
    BY <2>2, <2>3, <2>4, <2>5 DEF Contents, Stored
<1>20. Progress(loc)' /\ Counted(loc)'
  BY <1>0, AtToAt
<1>21. Counts(loc)'
  <2>1. ASSUME NEW x \in Values
        PROVE  Balanced(loc, loc, x)
    <3>1. /\ IsFiniteSet(ByCalls(x)) /\ IsFiniteSet(ByNodes(loc, x)) /\ IsFiniteSet(ByValues(x))
          /\ x \in freed <=> refcount[x] = 0
      BY <1>0 DEF Counts
    <3>2. /\ IsFiniteSet(ByCalls(x)')
          /\ Cardinality(ByCalls(x)') =
                Cardinality(ByCalls(x))
                  - (IF H(t) = b + 1 /\ x \in Owns(At(t, H(t))) THEN 1 ELSE 0)
                  + (IF \E j \in 1..Len(es) : x \in Owns(es[j]) THEN 1 ELSE 0)
      <4>1. At(t, H(t)).op # "AddRef" /\ \A j \in 1..Len(es) : es[j].op # "AddRef"
        BY <1>2, <1>4, <1>13
      <4>2. \A m, j \in 1..Len(es) : x \in Owns(es[m]) /\ x \in Owns(es[j]) => m = j
        BY <1>13
      <4>3. (H(t) = 0 /\ b = 0) \/ (H(t) = b + 1 /\ At(t, H(t)).op # "AddRef")
        BY <1>1, <4>1
      <4>4. es \in Seq(Entries) /\ Becomes(t, b, es)
        BY <1>12
      <4> QED
        BY ONLY <1>0, <3>1, <4>4, t \in Threads, b \in Nat, <4>1, <4>2, <4>3, CallsStep
    <3>3. /\ Cardinality(ByCalls(x)) \in Nat /\ Cardinality(ByNodes(loc, x)) \in Nat
          /\ Cardinality(ByValues(x)) \in Nat
      BY <3>1, FS_CardinalityType
    <3>4. /\ IsFiniteSet(ByValues(x)')
          /\ Cardinality(ByValues(x)') = Cardinality(ByValues(x)) - (IF x = u THEN 1 ELSE 0)
      <4>1. CASE u # Nil
        <5>1. value[v] # Nil /\ v \in Indirect /\ x # Nil /\ value[v] = u
          BY <1>7, <4>1, NilAssumption
        <5>2. value' = [value EXCEPT ![v] = Nil] /\ IsFiniteSet(ByValues(x))
          BY <1>9, <3>1, <4>1
        <5>3. PICK i \in Indirect : i = v
          BY <5>1
        <5>6. PICK y : y = Nil
          OBVIOUS
        <5>4. value' = [value EXCEPT ![i] = y] /\ value[i] # y
          BY <5>1, <5>2, <5>3, <5>6
        <5>7. value \in [Indirect -> Concrete \cup {Nil}] /\ IsFiniteSet(ByValues(x))
          BY <1>0, <3>1
        <5>5. /\ IsFiniteSet(ByValues(x)')
              /\ Cardinality(ByValues(x)') = Cardinality(ByValues(x))
                   - (IF value[i] = x THEN 1 ELSE 0) + (IF y = x THEN 1 ELSE 0)
          BY ONLY i \in Indirect, <5>4, <5>7, ValuesCount
        <5> QED
          BY <3>3, <5>1, <5>3, <5>5, <5>6
      <4>2. CASE u = Nil
        <5>1. ByValues(x)' = ByValues(x) /\ x # u
          BY <1>9, <4>2, NilAssumption DEF ByValues
        <5> QED
          BY <3>1, <3>3, <5>1
      <4> QED
        BY <4>1, <4>2
    <3>5. Cardinality(ByCalls(x)') = Cardinality(ByCalls(x)) - (IF x = v THEN 1 ELSE 0)
                                       + (IF x = u THEN 1 ELSE 0)
      <4>1. (\E j \in 1..Len(es) : x \in Owns(es[j])) <=> x = u
        <5>1. x # Nil
          BY NilAssumption
        <5> QED
          BY <1>13, <5>1
      <4>2. (H(t) = b + 1 /\ x \in Owns(At(t, H(t)))) <=> x = v
        BY <1>1, <1>2, <1>4
      <4> QED
        BY <3>2, <4>1, <4>2
    <3>6. x = v => x # u
      BY <1>7, NilAssumption
    <3>7. /\ refcount'[x] - refcount[x] = IF x = v THEN 0 - 1 ELSE 0
          /\ x \in freed' <=> refcount'[x] = 0
      BY <1>0, <1>9, <1>11, <3>1
    <3> QED
      BY <3>1, <3>2, <3>3, <3>4, <3>5, <3>6, <3>7 DEF Balanced
  <2> QED
    BY <1>11, <2>1, BalancedCounts
<1>22. Types'
  <2>1. freed' \subseteq Values
    BY <1>0, <1>3, <1>9
  <2> QED
    BY <1>0, <1>10, <1>11, <1>12, <2>1 DEF Types, Becomes
<1> QED
  BY <1>14, <1>16, <1>17, <1>18, <1>19, <1>20, <1>21, <1>22 DEF Inv

\* A call that drops a reference still has it.
LEMMA DropsOwn ==
    ASSUME NEW loc, Inv(loc), NEW t \in Threads, NEW op \in {"DropRef", "DropRef_fetch_sub"},
           Top(t, op)
    PROVE  \E b \in Nat : \E v \in Values :
              /\ H(t) = b + 1 /\ H(t) - 1 = b /\ stack[t] # <<>>
              /\ At(t, H(t)) = Head(stack[t]) /\ Head(stack[t]).av = v
              /\ Head(stack[t]) = IF op = "DropRef" THEN Drop(v) ELSE ESub(v)
              /\ refcount[v] \in Nat /\ refcount[v] > 0
<1>0. Types /\ stack \in [Threads -> Seq(Entries)] /\ Counts(loc)
  BY DEF Inv, Types
<1>1. PICK b \in Nat :
              /\ H(t) = b + 1 /\ H(t) - 1 = b /\ H(t) \in 1..H(t)
              /\ At(t, H(t)) = Head(stack[t]) /\ stack[t] # <<>>
              /\ Head(stack[t]) \in Entries /\ Head(stack[t]).op = op
  BY <1>0, TopOf
<1>2. PICK e : e = Head(stack[t])
  OBVIOUS
<1>3. PICK v \in Values : e = IF op = "DropRef" THEN Drop(v) ELSE ESub(v)
  BY <1>1, <1>2, EntryForms
<1>4. e.av = v /\ Owns(e) = {v} /\ e.op # "SetValue"
  BY <1>3, Table
<1>5. v \in Own(t, H(t))
  BY <1>1, <1>2, <1>4 DEF Own
<1>6. refcount[v] \in Nat /\ refcount[v] > 0
  BY <1>0, <1>1, <1>5, Referenced
<1> QED
  BY <1>1, <1>2, <1>3, <1>4, <1>6

\* DropRef destroys the value, or goes on to fetch_sub.
LEMMA DropRefKeeps ==
    ASSUME NEW loc, Inv(loc), NEW t \in Threads, DropRef(t)
    PROVE  Inv(loc)'
<1>0. Top(t, "DropRef") /\ Types
  BY DEF DropRef, Inv
<1>1. PICK b \in Nat, v \in Values :
              /\ H(t) = b + 1 /\ H(t) - 1 = b /\ stack[t] # <<>>
              /\ At(t, H(t)) = Head(stack[t]) /\ Head(stack[t]).av = v
              /\ Head(stack[t]) = Drop(v)
              /\ refcount[v] \in Nat /\ refcount[v] > 0
  BY <1>0, DropsOwn
<1>2. UNCHANGED <<state, head, next, payload, counter, holds, produced, asked, ran>>
  BY DEF DropRef
<1>3. CASE refcount[v] = 1
  <2>1. refcount' = [refcount EXCEPT ![v] = 0] /\ Destroy(t, v)
    BY <1>1, <1>3 DEF DropRef
  <2> QED
    BY <1>0, <1>1, <1>2, <1>3, <2>1, DestroyKeeps
<1>4. CASE refcount[v] # 1
  <2>1. /\ Then(t, <<[op |-> "DropRef_fetch_sub", av |-> v]>>)
        /\ UNCHANGED <<refcount, freed, value>>
    BY <1>1, <1>4 DEF DropRef
  <2>2. PICK e : e = At(t, H(t))
    OBVIOUS
  <2>3. PICK c \in Entries : c = ESub(v)
    BY EntriesMade
  <2>4. /\ e.op = "DropRef" /\ Duty(e) = NoDuty /\ Owns(e) = {v} /\ Guards(e) = {}
        /\ c.op = "DropRef_fetch_sub" /\ Duty(c) = NoDuty /\ Owns(c) = {v} /\ Guards(c) = {}
    BY <1>1, <2>2, <2>3, Table
  <2>5. Then(t, <<c>>)
    BY <2>1, <2>3 DEF ESub
  <2>6. Fact(c)'
    BY <2>4 DEF Fact
  <2>7. Passes(e, c)
    BY <1>0, <2>1, <2>4 DEF Passes, Types
  <2>8. next' \in [Nodes -> Links] /\ refcount' \in [Values -> Nat]
    BY <1>0, <1>2, <2>1 DEF Types
  <2>9. Duty(e)[1] # "run"
    BY <2>4 DEF NoDuty
  <2> QED
    BY <1>1, <1>2, <2>1, <2>2, <2>4, <2>5, <2>6, <2>7, <2>8, <2>9, OneCall
<1> QED
  BY <1>3, <1>4

\* fetch_sub: the value is destroyed by the one who took the count to zero.
LEMMA DropRefSubKeeps ==
    ASSUME NEW loc, Inv(loc), NEW t \in Threads, DropRefSub(t)
    PROVE  Inv(loc)'
<1>0. /\ Top(t, "DropRef_fetch_sub") /\ Types /\ stack \in [Threads -> Seq(Entries)]
      /\ Located(loc) /\ Progress(loc) /\ Counted(loc) /\ refcount \in [Values -> Nat]
  BY DEF DropRefSub, Inv, Types
<1>1. PICK b \in Nat, v \in Values :
              /\ H(t) = b + 1 /\ H(t) - 1 = b /\ stack[t] # <<>>
              /\ At(t, H(t)) = Head(stack[t]) /\ Head(stack[t]).av = v
              /\ Head(stack[t]) = ESub(v)
              /\ refcount[v] \in Nat /\ refcount[v] > 0
  BY <1>0, DropsOwn
<1>2. /\ UNCHANGED <<state, head, next, payload, counter, holds, produced, asked, ran>>
      /\ refcount' = [refcount EXCEPT ![v] = refcount[v] - 1]
  BY <1>1 DEF DropRefSub
<1>3. CASE refcount[v] = 1
  <2>1. refcount' = [refcount EXCEPT ![v] = 0] /\ Destroy(t, v)
    <3>1. IsLastRef(refcount[v])
      BY <1>3 DEF IsLastRef
    <3>2. Destroy(t, v)
      BY <1>1, <3>1 DEF DropRefSub
    <3>3. refcount[v] - 1 = 0
      BY <1>3
    <3> QED
      BY <1>2, <3>2, <3>3
  <2> QED
    BY <1>0, <1>1, <1>2, <1>3, <2>1, DestroyKeeps
<1>4. CASE refcount[v] # 1
  <2>1. Then(t, <<>>) /\ UNCHANGED <<freed, value>>
    BY <1>1, <1>4 DEF DropRefSub, IsLastRef
  <2>2. PICK e : e = At(t, H(t))
    OBVIOUS
  <2>3. /\ e.op = "DropRef_fetch_sub" /\ Duty(e) = NoDuty /\ Owns(e) = {v} /\ Guards(e) = {}
    BY <1>1, <2>2, Table
  <2>4. PICK es \in Seq(Entries) : es = <<>> /\ Len(es) = 0 /\ 1..Len(es) = {}
    BY NoCalls
  <2>5. Becomes(t, b, es)
    BY <1>0, <1>1, <2>1, <2>4, ThenBecomes
  <2>6. /\ refcount' \in [Values -> Nat] /\ refcount'[v] = refcount[v] - 1
        /\ refcount'[v] # 0 /\ \A x \in Values \ {v} : refcount'[x] = refcount[x]
    BY <1>0, <1>1, <1>2, <1>4
  <2>7. PICK gone : gone = Nil
    OBVIOUS
  <2>8. ASSUME NEW x \in Values
        PROVE  Accounts(t, b, es, gone, x)
    <3>1. x # gone /\ refcount[x] \in Nat
      BY <1>0, <2>7, NilAssumption
    <3> QED
      BY <1>1, <2>2, <2>3, <2>4, <2>6, <3>1 DEF Accounts
  <2>9. GivesUp(t, gone)
    BY <1>2, <2>7 DEF GivesUp
  <2>10. PICK M : M = {}
    OBVIOUS
  <2>11. Shifts(t, b, es, M, loc, loc)
    BY <1>0, <2>2, <2>3, <2>4, <2>10 DEF Shifts, Located
  <2>12. Backed(t, b, es)
    BY <2>4 DEF Backed
  <2>13. /\ H(t) = b + 1 /\ holds' = holds
         /\ At(t, H(t)).op \notin {"store", "AddRef", "NotifyAvailable"}
         /\ Duty(At(t, H(t)))[1] # "run"
    BY <1>1, <1>2, <2>2, <2>3 DEF NoDuty
  <2>14. M \in SUBSET DutySet
    BY <2>10
  <2>15. UNCHANGED <<state, head, next, payload, value, freed>> /\ produced \subseteq produced'
    BY <1>2, <2>1
  <2>16. /\ Located(loc)' /\ Lists(loc)' /\ Guarded' /\ Facts' /\ Contents' /\ Counts(loc)'
    BY <2>5, <2>8, <2>9, <2>11, <2>12, <2>13, <2>14, <2>15, ShiftsStep
  <2>17. Progress(loc)' /\ Counted(loc)'
    BY <1>0, <1>2, AtToAt
  <2>18. Types'
    BY <1>0, <1>2, <2>1, <2>5, <2>6 DEF Types, Becomes
  <2> QED
    BY <2>16, <2>17, <2>18 DEF Inv
<1> QED
  BY <1>3, <1>4

-----------------------------------------------------------------------------
(* A value is published.                                                    *)

\* t takes the list l of v, which is from now on what it still has to run.
Takes(t, b, v, l, loc2) ==
    \/ l = Nil /\ loc2[<<"run", v>>] = Over
    \/ /\ l \in Nodes /\ loc2[<<"run", v>>] = Place(t, b + 1)
       /\ H(t)' = b + 1 /\ At(t, b + 1)' = ERun(l)

\* The lists, after NotifyAvailable has taken one.
LEMMA ListsTaken ==
    ASSUME stack \in [Threads -> Seq(Entries)], NEW loc, Located(loc), Lists(loc),
           NEW t \in Threads, NEW b \in Nat, NEW es \in Seq(Entries), Becomes(t, b, es),
           H(t) = b + 1, Duty(At(t, H(t)))[1] # "run",
           NEW loc2, SameRanks(loc, loc2), NEW v \in Values,
           ~Available(v), Available(v)', head'[v] = Nil,
           \A x \in Values \ {v} : head'[x] = head[x] /\ state'[x] = state[x]
                                     /\ loc2[<<"run", x>>] = loc[<<"run", x>>],
           next' = next, Takes(t, b, v, head[v], loc2)
    PROVE  Lists(loc2)'
<1>1. \A n \in Nodes : \A m, r : loc2[NodeDuty(n)] = Ranked(m, r) <=> loc[NodeDuty(n)] = Ranked(m, r)
  BY DEF SameRanks
<1>2. ASSUME NEW x, NEW f, FirstOf(loc, x, f)
      PROVE  FirstOf(loc2, x, f)
  BY ONLY <1>1, <1>2 DEF FirstOf
<1>3. \A n \in Nodes : \A m, r : loc2[NodeDuty(n)] = Ranked(m, r) => r \in Nat \ {0}
  BY <1>1 DEF Lists
<1>4. \A n, m \in Nodes, r \in Nat :
          /\ loc2[NodeDuty(n)] = Ranked(n, r) /\ loc2[NodeDuty(m)] = Ranked(m, r)
          /\ n.av = m.av
          => n = m
  BY <1>1 DEF Lists
<1>5. ASSUME NEW n \in Nodes, NEW r \in Nat, loc2[NodeDuty(n)] = Ranked(n, r)
      PROVE  IF r = 1 THEN next'[n] = Nil
             ELSE /\ next'[n] \in Nodes /\ next'[n].av = n.av
                  /\ loc2[NodeDuty(next'[n])] = Ranked(next'[n], r - 1)
  <2>1. loc[NodeDuty(n)] = Ranked(n, r)
    BY <1>1, <1>5
  <2>2. /\ next'[n] = next[n]
        /\ IF r = 1 THEN next[n] = Nil
           ELSE /\ next[n] \in Nodes /\ next[n].av = n.av
                /\ loc[NodeDuty(next[n])] = Ranked(next[n], r - 1)
    BY <2>1 DEF Lists
  <2> QED
    BY <1>1, <2>2
<1>6. ASSUME NEW x \in Values, x # v
      PROVE  /\ ~Available(x)' => FirstOf(loc2, x, head'[x])
             /\ Available(x)' => head'[x] = Nil
             /\ Available(x)' /\ loc2[<<"run", x>>] = Over => FirstOf(loc2, x, Nil)
             /\ loc2[<<"run", x>>] # Over =>
                   /\ Available(x)'
                   /\ \E u \in Threads : \E k \in 1..H(u)' :
                         loc2[<<"run", x>>] = Place(u, k) /\ FirstOf(loc2, x, At(u, k)'.list)
  <2>1. /\ ~Available(x) => FirstOf(loc, x, head[x])
        /\ Available(x) => head[x] = Nil
        /\ Available(x) /\ loc[<<"run", x>>] = Over => FirstOf(loc, x, Nil)
        /\ loc[<<"run", x>>] # Over =>
              /\ Available(x)
              /\ \E u \in Threads : \E k \in 1..H(u) :
                    loc[<<"run", x>>] = Place(u, k) /\ FirstOf(loc, x, At(u, k).list)
    BY DEF Lists
  <2>2. Available(x)' <=> Available(x)
    BY <1>6 DEF Available
  <2>3. loc2[<<"run", x>>] = loc[<<"run", x>>] /\ head'[x] = head[x]
    BY <1>6
  <2>4. ASSUME loc[<<"run", x>>] # Over
        PROVE  \E u \in Threads : \E k \in 1..H(u)' :
                  loc[<<"run", x>>] = Place(u, k) /\ FirstOf(loc2, x, At(u, k)'.list)
    <3>0. PICK u \in Threads : \E k \in 1..H(u) :
              loc[<<"run", x>>] = Place(u, k) /\ FirstOf(loc, x, At(u, k).list)
      BY <2>1, <2>4
    <3>1. PICK k \in 1..H(u) : loc[<<"run", x>>] = Place(u, k) /\ FirstOf(loc, x, At(u, k).list)
      BY <3>0
    <3>2. <<"run", x>> \in DutySet
      BY DEF DutySet
    <3>3. Duty(At(u, k)) = <<"run", x>>
      BY <3>1, <3>2 DEF Located
    <3>4. CASE u # t
      <4>1. k \in 1..H(u)' /\ At(u, k)' = At(u, k)
        BY <3>1, <3>4 DEF Becomes
      <4> QED
        BY <1>2, <3>1, <4>1
    <3>5. CASE u = t
      <4>1. k # H(t)
        BY <3>3, <3>5
      <4>2. k \in 1..b
        BY <3>1, <3>5, <4>1
      <4>3. At(u, k)' = At(u, k)
        BY <3>5, <4>2, BecomesAt
      <4>4. k \in 1..H(u)'
        BY <3>5, <4>2 DEF Becomes
      <4> QED
        BY <1>2, <3>1, <4>3, <4>4
    <3> QED
      BY <3>4, <3>5
  <2> QED
    BY <1>2, <2>1, <2>2, <2>3, <2>4
<1>7. /\ ~Available(v)' => FirstOf(loc2, v, head'[v])
      /\ Available(v)' => head'[v] = Nil
      /\ Available(v)' /\ loc2[<<"run", v>>] = Over => FirstOf(loc2, v, Nil)
      /\ loc2[<<"run", v>>] # Over =>
            /\ Available(v)'
            /\ \E u \in Threads : \E k \in 1..H(u)' :
                  loc2[<<"run", v>>] = Place(u, k) /\ FirstOf(loc2, v, At(u, k)'.list)
  <2>1. FirstOf(loc2, v, head[v])
    BY <1>2 DEF Lists
  <2>2. CASE head[v] = Nil /\ loc2[<<"run", v>>] = Over
    BY <2>1, <2>2
  <2>3. CASE /\ head[v] \in Nodes /\ loc2[<<"run", v>>] = Place(t, b + 1)
             /\ H(t)' = b + 1 /\ At(t, b + 1)' = ERun(head[v])
    <3>1. b + 1 \in 1..H(t)' /\ At(t, b + 1)'.list = head[v]
      BY <2>3, Table
    <3>2. loc2[<<"run", v>>] # Over
      BY <2>3, PlaceTag, EndTags
    <3> QED
      BY <2>1, <2>3, <3>1, <3>2
  <2> QED
    BY <2>2, <2>3 DEF Takes
<1>8. \A x \in Values :
      /\ ~Available(x)' => FirstOf(loc2, x, head'[x])
      /\ Available(x)' => head'[x] = Nil
      /\ Available(x)' /\ loc2[<<"run", x>>] = Over => FirstOf(loc2, x, Nil)
      /\ loc2[<<"run", x>>] # Over =>
            /\ Available(x)'
            /\ \E u \in Threads : \E k \in 1..H(u)' :
                  loc2[<<"run", x>>] = Place(u, k) /\ FirstOf(loc2, x, At(u, k)'.list)
  <2> TAKE x \in Values
  <2>1. CASE x = v
    BY ONLY <1>7, <2>1
  <2>2. CASE x # v
    BY ONLY x \in Values, <1>6, <2>2
  <2> QED
    BY ONLY <2>1, <2>2
<1> QED
  BY ONLY <1>3, <1>4, <1>5, <1>8 DEF Lists, FirstOf

\* NotifyAvailable publishes the value and takes over its list.
LEMMA NotifyKeeps ==
    ASSUME NEW loc, Inv(loc), NEW t \in Threads, NotifyAvailable(t)
    PROVE  \E loc2 : Inv(loc2)'
<1>0. /\ Types /\ stack \in [Threads -> Seq(Entries)] /\ Located(loc) /\ Progress(loc) /\ Facts
      /\ Lists(loc) /\ Guarded /\ Contents /\ Counted(loc) /\ Counts(loc)
      /\ state \in [Values -> Unavailable \cup Outcomes] /\ head \in [Values -> Links]
      /\ value \in [Indirect -> Concrete \cup {Nil}] /\ refcount \in [Values -> Nat]
      /\ holds \in [Threads -> SUBSET Values] /\ Top(t, "NotifyAvailable")
  BY DEF Inv, Types, NotifyAvailable
<1>1. PICK b \in Nat :
              /\ H(t) = b + 1 /\ H(t) - 1 = b /\ H(t) \in 1..H(t)
              /\ At(t, H(t)) = Head(stack[t]) /\ stack[t] # <<>>
              /\ Head(stack[t]) \in Entries /\ Head(stack[t]).op = "NotifyAvailable"
  BY <1>0, TopOf
<1>2. PICK e : e = At(t, H(t))
  OBVIOUS
<1>3. PICK v \in Values, s \in Outcomes : e = ENotify(v, s)
  BY <1>1, <1>2, EntryForms
<1>4. PICK d0, d1 : d0 = <<"set", v>> /\ d1 = <<"run", v>>
  OBVIOUS
<1>5. /\ e.op = "NotifyAvailable" /\ e.av = v /\ e.s = s /\ Duty(e) = d0 /\ Owns(e) = {}
      /\ Guards(e) = {v} /\ d0[1] = "set" /\ d1[1] = "run" /\ d0 \in DutySet /\ d1 \in DutySet
      /\ d0 # d1 /\ d0 # NoDuty /\ d1 # NoDuty
  BY <1>3, <1>4, Table, Duties DEF NoDuty
<1>6. loc[d0] = Place(t, b + 1) /\ loc[d0][1] = "at"
  BY <1>0, <1>1, <1>2, <1>5, DutyAt
<1>7. ~Available(v) /\ v \in produced
  <2>1. loc[<<"set", v>>] # Over /\ loc[<<"set", v>>] # Unborn
    BY <1>4, <1>6, EndTags
  <2> QED
    BY <1>0, <2>1 DEF Progress
<1>8. loc[d1] = Over
  BY <1>0, <1>4, <1>7 DEF Lists
<1>9. PICK l \in Links : l = head[v]
  BY <1>0
<1>10. l # Nil => l \in Nodes /\ l.av = v
  <2>1. FirstOf(loc, v, l)
    BY <1>0, <1>7, <1>9 DEF Lists
  <2> QED
    BY <2>1 DEF FirstOf, Links
<1>11. /\ head' = [head EXCEPT ![v] = Nil] /\ state' = [state EXCEPT ![v] = s]
       /\ Then(t, <<[op |-> "RunWaiters", list |-> l]>>)
       /\ UNCHANGED <<next, value, payload, refcount, freed, counter, holds, produced, asked, ran>>
  <2>1. Published(v, s)[1] = Nil /\ Published(v, s)[2] = s
    BY DEF Published
  <2> QED
    BY <1>1, <1>2, <1>5, <1>9, <2>1 DEF NotifyAvailable
<1>12. /\ head' \in [Values -> Links] /\ head'[v] = Nil
       /\ \A x \in Values \ {v} : head'[x] = head[x] /\ state'[x] = state[x]
       /\ state' \in [Values -> Unavailable \cup Outcomes] /\ state'[v] = s
  BY <1>0, <1>11 DEF Links
<1>13. /\ Available(v)' /\ Stable
       /\ \A x \in Values \ {v} : Available(x)' <=> Available(x)
  <2>1. s \notin Unavailable
    BY DEF Outcomes, Unavailable
  <2> QED
    BY <1>7, <1>12, <2>1 DEF Available, Stable
<1>14. PICK c \in Entries :
          /\ c = ERun(l) /\ c.op = "RunWaiters" /\ Owns(c) = {} /\ Guards(c) \subseteq {v}
          /\ Duty(c) = IF l = Nil THEN NoDuty ELSE d1
  BY <1>4, <1>10, EntriesMade, Table
<1>15. PICK es \in Seq(Entries) : es = <<c>> /\ Len(es) = 1 /\ 1..Len(es) = {1} /\ es[1] = c
  BY OneOf
<1>16. Becomes(t, b, es)
  <2>1. Then(t, es)
    BY <1>11, <1>14, <1>15 DEF ERun
  <2> QED
    BY <1>0, <1>1, <2>1, ThenBecomes
<1>17. H(t)' = b + 1 /\ At(t, b + 1)' = c
  <2>1. \A k \in b + 1..b + Len(es) : At(t, k)' = es[b + Len(es) - k + 1]
    BY <1>16, BecomesAt
  <2>2. b + 1 \in b + 1..b + Len(es) /\ b + Len(es) - (b + 1) + 1 = 1
    BY <1>15
  <2>3. At(t, b + 1)' = es[1]
    BY <2>1, <2>2
  <2> QED
    BY <1>15, <1>16, <2>3 DEF Becomes
<1>18. PICK loc2 : loc2 = [d \in DutySet |-> IF d = d0 THEN Over
                             ELSE IF d = d1 /\ l # Nil THEN Place(t, b + 1) ELSE loc[d]]
  OBVIOUS
<1>19. /\ DOMAIN loc2 = DutySet /\ loc2[d0] = Over
       /\ loc2[d1] = IF l = Nil THEN Over ELSE Place(t, b + 1)
       /\ \A d \in DutySet \ {d0, d1} : loc2[d] = loc[d]
  BY <1>5, <1>8, <1>18
<1>20. Located(loc2)'
  <2>1. PICK M \in SUBSET DutySet : M = {d0, d1}
    BY <1>5
  <2>2. /\ H(t) \in {b, b + 1} /\ b <= H(t)
        /\ \A d \in DutySet \ M : loc2[d] = loc[d]
        /\ H(t) = b + 1 /\ Duty(At(t, H(t))) # NoDuty => Duty(At(t, H(t))) \in M
    BY <1>1, <1>2, <1>5, <1>19, <2>1
  <2>3. \A d \in M : loc[d][1] # "at" \/ (H(t) = b + 1 /\ Duty(At(t, H(t))) = d)
    BY <1>1, <1>2, <1>5, <1>8, <2>1, EndTags
  <2>4. \A d \in M : Fits(d, loc2[d])
    BY <1>19, <2>1, PlaceTag DEF Fits
  <2>5. b + Len(es) - 1 + 1 = b + 1
    BY <1>15
  <2>6. \A d \in M : \/ loc2[d][1] # "at"
                     \/ \E j \in 1..Len(es) :
                           Duty(es[j]) = d /\ loc2[d] = Place(t, b + Len(es) - j + 1)
    BY <1>14, <1>15, <1>19, <2>1, <2>5, EndTags
  <2>7. \A j \in 1..Len(es) : Duty(es[j]) # NoDuty =>
              loc2[Duty(es[j])] = Place(t, b + Len(es) - j + 1)
    BY <1>14, <1>15, <1>19, <2>5
  <2>8. Moves(t, b, es, loc, loc2)
    BY <1>0, <1>19, <2>2, <2>3, <2>4, <2>6, <2>7, MovesSome
  <2> QED
    BY <1>0, <1>16, <2>2, <2>8, LocatedStep
<1>21. SameRanks(loc, loc2)
  <2>1. \A d \in DutySet : loc2[d] = loc[d] \/ (loc[d][1] # "list" /\ loc2[d][1] # "list")
    BY <1>6, <1>8, <1>19, EndTags, PlaceTag
  <2> QED
    BY <2>1, SameRanksIf
<1>22. \A x \in Values \ {v} : loc2[<<"run", x>>] = loc[<<"run", x>>]
  <2>1. \A x \in Values \ {v} : <<"run", x>> \in DutySet \ {d0, d1}
    BY <1>4, Duties
  <2> QED
    BY <1>19, <2>1
<1>23. Lists(loc2)'
  <2>1. Duty(At(t, H(t)))[1] # "run" /\ next' = next
    BY <1>2, <1>5, <1>11
  <2>2. Takes(t, b, v, head[v], loc2)
    BY <1>4, <1>9, <1>10, <1>14, <1>17, <1>19 DEF Takes
  <2>3. \A x \in Values \ {v} : head'[x] = head[x] /\ state'[x] = state[x]
                                     /\ loc2[<<"run", x>>] = loc[<<"run", x>>]
    BY <1>12, <1>22
  <2> QED
    BY <1>0, <1>1, <1>7, <1>12, <1>13, <1>16, <1>21, <2>1, <2>2, <2>3, ListsTaken
<1>24. Guarded'
  <2>1. \A j \in 1..Len(es) : \A x \in Guards(es[j]) :
              \/ x \in holds'[t]
              \/ \E m \in j + 1..Len(es) : es[m] = Drop(x)
              \/ H(t) = b + 1 /\ x \in Guards(At(t, H(t)))
    BY <1>1, <1>2, <1>5, <1>14, <1>15
  <2>2. H(t) = b + 1 /\ holds' = holds
    BY <1>1, <1>11
  <2> QED
    BY <1>0, <1>16, <2>1, <2>2, GuardedStep
<1>25. Facts'
  <2>1. Keeps(t, b)
    BY <1>11 DEF Keeps
  <2>2. Fact(c)'
    BY <1>14 DEF Fact
  <2>3. \A j \in 1..Len(es) :
              /\ es[j].op \notin {"store", "AddRef"}
              /\ Fact(es[j])'
              /\ es[j].op = "NotifyAvailable" /\ es[j].av \in Concrete =>
                    payload'[es[j].av] = Stored(es[j].s)
    BY <1>14, <1>15, <2>2
  <2>4. H(t) = b + 1 /\ At(t, H(t)).op # "store"
    BY <1>1, <1>2, <1>5
  <2> QED
    BY <1>0, <1>13, <1>16, <2>1, <2>3, <2>4, FactsStep
<1>26. Contents'
  <2>1. Fact(e) /\ Shape(t, H(t))
    BY <1>0, <1>1, <1>2 DEF Facts
  <2>2. v \in Concrete => payload[v] = Stored(s)
    <3>1. H(t) # H(t) + 1
      BY <1>1
    <3> QED
      BY <1>2, <1>5, <2>1, <3>1 DEF Shape
  <2>3. \A x \in Concrete : Available(x)' => payload'[x] = Stored(state'[x])
    <3> SUFFICES ASSUME NEW x \in Concrete, Available(x)'
                 PROVE  payload[x] = Stored(state'[x])
      BY <1>11
    <3>1. CASE x = v
      BY <1>12, <2>2, <3>1
    <3>2. CASE x # v
      BY <1>0, <1>12, <1>13, <3>2 DEF Contents, Values
    <3> QED
      BY <3>1, <3>2
  <2>4. \A x \in Concrete \ produced' : Born[x] = "Unconstructed" \/ payload'[x] = "data"
    BY <1>0, <1>11 DEF Contents
  <2>5. \A j \in Indirect \ freed' :
            Available(j)' => value'[j] \in Concrete /\ state'[value'[j]] = state'[j]
    <3> SUFFICES ASSUME NEW j \in Indirect \ freed, Available(j)'
                 PROVE  value[j] \in Concrete /\ state'[value[j]] = state'[j]
      BY <1>11
    <3>1. CASE j = v
      <4>1. value[v] \in Concrete /\ state[value[v]] = s
        BY <1>5, <2>1, <3>1 DEF Fact, Forwarded
      <4>2. value[v] \in Values \ {v}
        BY <3>1, <4>1, KindsAssumption DEF Values
      <4> QED
        BY <1>12, <3>1, <4>1, <4>2
    <3>2. CASE j # v
      <4>1. j \in Values \ {v} /\ Available(j)
        BY <1>13, <3>2 DEF Values
      <4>2. value[j] \in Concrete /\ state[value[j]] = state[j]
        BY <1>0, <4>1 DEF Contents
      <4>3. value[j] \in Values \ {v}
        BY <1>7, <4>1, <4>2 DEF Available, Values
      <4> QED
        BY <1>12, <4>1, <4>2, <4>3
    <3> QED
      BY <3>1, <3>2
  <2>6. ASSUME NEW j \in Indirect, value'[j] # Nil
        PROVE  \/ Available(j)'
               \/ \E x \in Threads : \E k \in 1..H(x)' : \E z \in Outcomes :
                     At(x, k)' = ENotify(j, z)
    <3>1. CASE j = v
      BY <1>13, <3>1
    <3>2. CASE j # v
      <4>1. \/ Available(j)
            \/ \E x \in Threads : \E k \in 1..H(x) : \E z \in Outcomes : At(x, k) = ENotify(j, z)
        BY <1>0, <1>11, <2>6 DEF Contents
      <4>2. ASSUME NEW x \in Threads, NEW k \in 1..H(x), NEW z \in Outcomes,
                   At(x, k) = ENotify(j, z)
            PROVE  k \in 1..H(x)' /\ At(x, k)' = ENotify(j, z)
        <5>1. CASE x # t
          BY <1>16, <4>2, <5>1 DEF Becomes
        <5>2. CASE x = t
          <6>1. k # H(t)
            BY <1>2, <1>5, <3>2, <4>2, <5>2, Table
          <6>2. k \in 1..b
            BY <1>1, <5>2, <6>1
          <6>3. At(x, k)' = At(x, k)
            BY <1>16, <5>2, <6>2, BecomesAt
          <6>4. k \in 1..H(x)'
            BY <1>17, <5>2, <6>2
          <6> QED
            BY <4>2, <6>3, <6>4
        <5> QED
          BY <5>1, <5>2
      <4>3. Available(j)' <=> Available(j)
        BY <1>13, <3>2 DEF Values
      <4> QED
        BY <4>1, <4>2, <4>3
    <3> QED
      BY <3>1, <3>2
  <2>7. \A j \in Indirect \cap freed' : value'[j] = Nil
    BY <1>0, <1>11 DEF Contents
  <2> QED
    BY <2>3, <2>4, <2>5, <2>6, <2>7 DEF Contents, Stored
<1>27. Progress(loc2)'
  <2>1. \A x \in Values \ {v} : loc2[<<"set", x>>] = loc[<<"set", x>>]
    <3>1. \A x \in Values \ {v} : <<"set", x>> \in DutySet \ {d0, d1}
      BY <1>4, Duties
    <3> QED
      BY <1>19, <3>1
  <2>2. \A w \in Callbacks : loc2[<<"waiter", w>>] = loc[<<"waiter", w>>]
    <3>1. \A w \in Callbacks : <<"waiter", w>> \in DutySet \ {d0, d1}
      BY <1>4, Duties
    <3> QED
      BY <1>19, <3>1
  <2>3. loc2[<<"set", v>>] = Over /\ Over # Unborn
    BY <1>4, <1>19, EndTags
  <2>4. \A x \in Values :
          (/\ loc2[<<"set", x>>] = Unborn <=> x \notin produced
           /\ loc2[<<"set", x>>] = Over <=> Available(x))'
    <3> TAKE x \in Values
    <3>1. CASE x = v
      BY <1>7, <1>11, <1>13, <2>3, <3>1
    <3>2. CASE x # v
      <4>1. /\ loc[<<"set", x>>] = Unborn <=> x \notin produced
            /\ loc[<<"set", x>>] = Over <=> Available(x)
        BY <1>0 DEF Progress
      <4> QED
        BY <1>11, <1>13, <2>1, <3>2, <4>1
    <3> QED
      BY <3>1, <3>2
  <2>5. \A w \in Callbacks :
          /\ loc2[<<"waiter", w>>] = Unborn <=> w \notin asked'
          /\ loc2[<<"waiter", w>>] = Over <=> ran'[w] = 1
    BY <1>0, <1>11, <2>2 DEF Progress
  <2> QED
    BY <2>4, <2>5 DEF Progress
<1>28. Counted(loc2)'
  <2>1. \A k \in Places : loc2[<<"count", k>>] = loc[<<"count", k>>]
    <3>1. \A k \in Places : <<"count", k>> \in DutySet \ {d0, d1}
      BY <1>4, Duties
    <3> QED
      BY <1>19, <3>1
  <2>2. loc2[<<"waiter", Callee>>] = loc[<<"waiter", Callee>>]
    <3>1. <<"waiter", Callee>> \in DutySet \ {d0, d1}
      BY <1>4, Duties
    <3> QED
      BY <1>19, <3>1
  <2>3. counter' = counter
    BY <1>11
  <2> QED
    BY <1>0, <1>13, <1>21, <2>1, <2>2, <2>3, CountedStep
<1>29. Counts(loc2)'
  <2>1. PICK gone : gone = Nil
    OBVIOUS
  <2>2. \A x \in Values : Accounts(t, b, es, gone, x)
    <3> TAKE x \in Values
    <3>1. x # gone /\ refcount'[x] = refcount[x] /\ refcount[x] \in Nat
      BY <1>0, <1>11, <2>1, NilAssumption
    <3> QED
      BY <1>2, <1>5, <1>14, <1>15, <3>1 DEF Accounts
  <2>3. /\ \/ gone = Nil /\ holds' = holds
           \/ gone \in holds[t] /\ holds' = [holds EXCEPT ![t] = @ \ {gone}]
        /\ (H(t) = 0 /\ b = 0) \/ (H(t) = b + 1 /\ At(t, H(t)).op # "AddRef")
        /\ UNCHANGED <<value, freed>>
        /\ \A j \in 1..Len(es) : es[j].op # "AddRef"
    BY <1>1, <1>2, <1>5, <1>11, <1>14, <1>15, <2>1
  <2> QED
    BY <1>16, <1>21, <2>2, <2>3, CountsStep
<1>30. Types'
  BY <1>0, <1>11, <1>12, <1>16 DEF Types, Becomes
<1>31. Inv(loc2)'
  BY <1>20, <1>23, <1>24, <1>25, <1>26, <1>27, <1>28, <1>29, <1>30 DEF Inv
<1> QED
  BY <1>31

-----------------------------------------------------------------------------
(* A waiter is taken off a list and run.                                    *)

\* n is no longer in a list, the other nodes are where they were.
Popped(loc, loc2, n) ==
    /\ loc2[NodeDuty(n)][1] # "list"
    /\ \A d \in DutySet \ {NodeDuty(n)} :
          loc2[d] = loc[d] \/ (loc[d][1] # "list" /\ loc2[d][1] # "list")

\* The nodes that are left in lists.
LEMMA PoppedRanks ==
    ASSUME NEW loc, NEW loc2, NEW n \in Nodes, NEW r, loc[NodeDuty(n)] = Ranked(n, r),
           Popped(loc, loc2, n)
    PROVE  /\ \A m \in Nodes : \A q, x : loc2[NodeDuty(m)] = Ranked(q, x) =>
                 loc[NodeDuty(m)] = Ranked(q, x) /\ NodeDuty(m) # NodeDuty(n)
           /\ \A m \in Nodes : \A x : loc2[NodeDuty(m)] = Ranked(m, x) <=>
                 loc[NodeDuty(m)] = Ranked(m, x) /\ m # n
<1>1. ASSUME NEW m \in Nodes, NEW q, NEW x, loc2[NodeDuty(m)] = Ranked(q, x)
      PROVE  loc[NodeDuty(m)] = Ranked(q, x) /\ NodeDuty(m) # NodeDuty(n)
  <2>1. NodeDuty(m) \in DutySet
    BY NodeValues
  <2>2. loc2[NodeDuty(m)][1] = "list"
    BY <1>1, RankTag
  <2>3. NodeDuty(m) # NodeDuty(n)
    BY <2>2 DEF Popped
  <2> QED
    BY <1>1, <2>1, <2>2, <2>3 DEF Popped
<1>2. ASSUME NEW m \in Nodes, NEW x, loc[NodeDuty(m)] = Ranked(m, x), m # n
      PROVE  loc2[NodeDuty(m)] = Ranked(m, x)
  <2>1. NodeDuty(m) \in DutySet
    BY NodeValues
  <2>2. NodeDuty(m) # NodeDuty(n)
    <3>1. Ranked(m, x) # Ranked(n, r)
      BY <1>2 DEF Ranked
    <3> QED
      BY <1>2, <3>1
  <2>3. loc[NodeDuty(m)][1] = "list"
    BY <1>2, RankTag
  <2> QED
    BY <1>2, <2>1, <2>2, <2>3 DEF Popped
<1> QED
  BY <1>1, <1>2

\* What is left of the list of v after n, its first node.
Goes(t, b, n, r, v, loc2) ==
    \/ r = 1 /\ loc2[<<"run", v>>] = Over
    \/ /\ r # 1 /\ loc2[<<"run", v>>] = Place(t, b + 1)
       /\ b + 1 \in 1..H(t)' /\ At(t, b + 1)' = ERun(next[n])

\* The first node of the list of v, after n is gone.
LEMMA FirstAfter ==
    ASSUME NEW loc, Lists(loc), NEW n \in Nodes, NEW v, v = n.av, FirstOf(loc, v, n), NEW r \in Nat,
           loc[NodeDuty(n)] = Ranked(n, r), NEW loc2, Popped(loc, loc2, n)
    PROVE  /\ r # 0
           /\ r = 1 => next[n] = Nil /\ FirstOf(loc2, v, Nil)
           /\ r # 1 => next[n] \in Nodes /\ next[n].av = v /\ FirstOf(loc2, v, next[n])
           /\ \A m \in Nodes, x \in Nat : m.av = v /\ loc2[NodeDuty(m)] = Ranked(m, x) =>
                 x \in Nat \ {0} /\ x < r
<1>1. /\ r \in Nat \ {0}
      /\ IF r = 1 THEN next[n] = Nil
         ELSE /\ next[n] \in Nodes /\ next[n].av = n.av
              /\ loc[NodeDuty(next[n])] = Ranked(next[n], r - 1)
  BY DEF Lists
<1>2. ASSUME NEW m \in Nodes, NEW x \in Nat, m.av = v, loc2[NodeDuty(m)] = Ranked(m, x)
      PROVE  x \in Nat \ {0} /\ x < r
  <2>1. loc[NodeDuty(m)] = Ranked(m, x) /\ m # n
    BY <1>2, PoppedRanks
  <2>2. PICK y \in Nat : loc[NodeDuty(n)] = Ranked(n, y) /\ y >= x
    BY <1>2, <2>1 DEF FirstOf
  <2>3. y = r
    BY <2>2 DEF Ranked
  <2>4. x # r
    <3>1. ASSUME x = r
          PROVE  m = n
      <4>1. loc[NodeDuty(m)] = Ranked(m, r) /\ m.av = n.av
        BY <1>2, <2>1, <3>1
      <4> QED
        BY <4>1 DEF Lists
    <3> QED
      BY <2>1, <3>1
  <2>5. x \in Nat \ {0}
    BY <2>1 DEF Lists
  <2> QED
    BY <2>2, <2>3, <2>4, <2>5
<1>3. ASSUME r = 1
      PROVE  FirstOf(loc2, v, Nil)
  <2>1. \A m \in Nodes, x \in Nat : ~(m.av = v /\ loc2[NodeDuty(m)] = Ranked(m, x))
    BY <1>2, <1>3
  <2> QED
    BY <2>1, NilAssumption DEF FirstOf
<1>4. ASSUME r # 1
      PROVE  FirstOf(loc2, v, next[n])
  <2>1. next[n] \in Nodes /\ next[n].av = v /\ loc[NodeDuty(next[n])] = Ranked(next[n], r - 1)
    BY <1>1, <1>4
  <2>2. next[n] # n
    <3>1. Ranked(next[n], r - 1) # Ranked(n, r)
      BY <1>1 DEF Ranked
    <3> QED
      BY <2>1, <3>1
  <2>3. loc2[NodeDuty(next[n])] = Ranked(next[n], r - 1) /\ r - 1 \in Nat
    BY <1>1, <2>1, <2>2, PoppedRanks
  <2>4. \A m \in Nodes, x \in Nat : m.av = v /\ loc2[NodeDuty(m)] = Ranked(m, x) => r - 1 >= x
    BY <1>2
  <2> QED
    BY ONLY <2>1, <2>3, <2>4 DEF FirstOf
<1> QED
  BY <1>1, <1>2, <1>3, <1>4

\* The lists, after RunWaiters has taken the first node of one.
LEMMA ListsPop ==
    ASSUME stack \in [Threads -> Seq(Entries)], NEW loc, Located(loc), Lists(loc),
           NEW t \in Threads, NEW b \in Nat, NEW es \in Seq(Entries), Becomes(t, b, es),
           H(t) = b + 1, NEW n \in Nodes, NEW v \in Values, v = n.av,
           Duty(At(t, H(t))) = <<"run", v>>, Available(v), FirstOf(loc, v, n),
           NEW r \in Nat, loc[NodeDuty(n)] = Ranked(n, r),
           NEW loc2, Popped(loc, loc2, n), Goes(t, b, n, r, v, loc2),
           \A x \in Values \ {v} : loc2[<<"run", x>>] = loc[<<"run", x>>],
           UNCHANGED <<head, state, next>>
    PROVE  Lists(loc2)'
<1>1. /\ \A m \in Nodes : \A q, x : loc2[NodeDuty(m)] = Ranked(q, x) =>
                 loc[NodeDuty(m)] = Ranked(q, x) /\ NodeDuty(m) # NodeDuty(n)
      /\ \A m \in Nodes : \A x : loc2[NodeDuty(m)] = Ranked(m, x) <=>
                 loc[NodeDuty(m)] = Ranked(m, x) /\ m # n
  BY PoppedRanks
<1>2. /\ r # 0
      /\ r = 1 => next[n] = Nil /\ FirstOf(loc2, v, Nil)
      /\ r # 1 => next[n] \in Nodes /\ next[n].av = v /\ FirstOf(loc2, v, next[n])
      /\ \A m \in Nodes, x \in Nat : m.av = v /\ loc2[NodeDuty(m)] = Ranked(m, x) =>
            x \in Nat \ {0} /\ x < r
  BY FirstAfter
<1>3. \A m \in Nodes : \A q, x : loc2[NodeDuty(m)] = Ranked(q, x) => x \in Nat \ {0}
  BY <1>1 DEF Lists
<1>4. \A m, q \in Nodes, x \in Nat :
          /\ loc2[NodeDuty(m)] = Ranked(m, x) /\ loc2[NodeDuty(q)] = Ranked(q, x)
          /\ m.av = q.av
          => m = q
  BY <1>1 DEF Lists
<1>5. ASSUME NEW m \in Nodes, NEW x \in Nat, loc2[NodeDuty(m)] = Ranked(m, x)
      PROVE  IF x = 1 THEN next'[m] = Nil
             ELSE /\ next'[m] \in Nodes /\ next'[m].av = m.av
                  /\ loc2[NodeDuty(next'[m])] = Ranked(next'[m], x - 1)
  <2>1. loc[NodeDuty(m)] = Ranked(m, x)
    BY <1>1, <1>5
  <2>2. IF x = 1 THEN next[m] = Nil
        ELSE /\ next[m] \in Nodes /\ next[m].av = m.av
             /\ loc[NodeDuty(next[m])] = Ranked(next[m], x - 1)
    BY <2>1 DEF Lists
  <2>3. ASSUME x # 1
        PROVE  next[m] # n
    <3>1. SUFFICES ASSUME next[m] = n
                   PROVE  FALSE
      OBVIOUS
    <3>2. m.av = v /\ Ranked(n, x - 1) = Ranked(n, r)
      BY <2>2, <2>3, <3>1
    <3>3. x - 1 = r
      BY <3>2 DEF Ranked
    <3>4. x < r
      BY <1>2, <1>5, <3>2
    <3> QED
      BY <3>3, <3>4
  <2>4. next' = next
    OBVIOUS
  <2> QED
    BY <1>1, <2>2, <2>3, <2>4
<1>6. ASSUME NEW x \in Values, x # v
      PROVE  /\ ~Available(x)' => FirstOf(loc2, x, head'[x])
             /\ Available(x)' => head'[x] = Nil
             /\ Available(x)' /\ loc2[<<"run", x>>] = Over => FirstOf(loc2, x, Nil)
             /\ loc2[<<"run", x>>] # Over =>
                   /\ Available(x)'
                   /\ \E u \in Threads : \E k \in 1..H(u)' :
                         loc2[<<"run", x>>] = Place(u, k) /\ FirstOf(loc2, x, At(u, k)'.list)
  <2>0. ASSUME NEW f, FirstOf(loc, x, f)
        PROVE  FirstOf(loc2, x, f)
    <3>1. f # n
      BY <1>6, <2>0 DEF FirstOf
    <3> QED
      BY ONLY <1>1, <2>0, <3>1 DEF FirstOf
  <2>1. /\ ~Available(x) => FirstOf(loc, x, head[x])
        /\ Available(x) => head[x] = Nil
        /\ Available(x) /\ loc[<<"run", x>>] = Over => FirstOf(loc, x, Nil)
        /\ loc[<<"run", x>>] # Over =>
              /\ Available(x)
              /\ \E u \in Threads : \E k \in 1..H(u) :
                    loc[<<"run", x>>] = Place(u, k) /\ FirstOf(loc, x, At(u, k).list)
    BY DEF Lists
  <2>2. Available(x)' <=> Available(x)
    BY DEF Available
  <2>3. loc2[<<"run", x>>] = loc[<<"run", x>>] /\ head'[x] = head[x]
    BY <1>6
  <2>4. ASSUME loc[<<"run", x>>] # Over
        PROVE  \E u \in Threads : \E k \in 1..H(u)' :
                  loc[<<"run", x>>] = Place(u, k) /\ FirstOf(loc2, x, At(u, k)'.list)
    <3>0. PICK u \in Threads : \E k \in 1..H(u) :
              loc[<<"run", x>>] = Place(u, k) /\ FirstOf(loc, x, At(u, k).list)
      BY <2>1, <2>4
    <3>1. PICK k \in 1..H(u) : loc[<<"run", x>>] = Place(u, k) /\ FirstOf(loc, x, At(u, k).list)
      BY <3>0
    <3>2. <<"run", x>> \in DutySet
      BY DEF DutySet
    <3>3. Duty(At(u, k)) = <<"run", x>>
      BY <3>1, <3>2 DEF Located
    <3>4. CASE u # t
      <4>1. k \in 1..H(u)' /\ At(u, k)' = At(u, k)
        BY <3>1, <3>4 DEF Becomes
      <4> QED
        BY <2>0, <3>1, <4>1
    <3>5. CASE u = t
      <4>1. k # H(t)
        BY <1>6, <3>3, <3>5
      <4>2. k \in 1..b
        BY <3>1, <3>5, <4>1
      <4>3. At(u, k)' = At(u, k)
        BY <3>5, <4>2, BecomesAt
      <4>4. k \in 1..H(u)'
        <5>1. Len(es) \in Nat /\ H(t)' = b + Len(es)
          BY DEF Becomes
        <5> QED
          BY <3>5, <4>2, <5>1
      <4> QED
        BY <2>0, <3>1, <4>3, <4>4
    <3> QED
      BY <3>4, <3>5
  <2> QED
    BY <2>0, <2>1, <2>2, <2>3, <2>4
<1>7. /\ ~Available(v)' => FirstOf(loc2, v, head'[v])
      /\ Available(v)' => head'[v] = Nil
      /\ Available(v)' /\ loc2[<<"run", v>>] = Over => FirstOf(loc2, v, Nil)
      /\ loc2[<<"run", v>>] # Over =>
            /\ Available(v)'
            /\ \E u \in Threads : \E k \in 1..H(u)' :
                  loc2[<<"run", v>>] = Place(u, k) /\ FirstOf(loc2, v, At(u, k)'.list)
  <2>1. Available(v)' /\ head'[v] = Nil
    BY DEF Lists, Available
  <2>2. CASE r = 1 /\ loc2[<<"run", v>>] = Over
    BY <1>2, <2>1, <2>2
  <2>3. CASE /\ r # 1 /\ loc2[<<"run", v>>] = Place(t, b + 1)
             /\ b + 1 \in 1..H(t)' /\ At(t, b + 1)' = ERun(next[n])
    <3>1. At(t, b + 1)'.list = next[n]
      BY <2>3, Table
    <3>2. loc2[<<"run", v>>] # Over
      BY <2>3, PlaceTag, EndTags
    <3> QED
      BY <1>2, <2>1, <2>3, <3>1, <3>2
  <2> QED
    BY <2>2, <2>3 DEF Goes
<1>8. \A x \in Values :
      /\ ~Available(x)' => FirstOf(loc2, x, head'[x])
      /\ Available(x)' => head'[x] = Nil
      /\ Available(x)' /\ loc2[<<"run", x>>] = Over => FirstOf(loc2, x, Nil)
      /\ loc2[<<"run", x>>] # Over =>
            /\ Available(x)'
            /\ \E u \in Threads : \E k \in 1..H(u)' :
                  loc2[<<"run", x>>] = Place(u, k) /\ FirstOf(loc2, x, At(u, k)'.list)
  <2> TAKE x \in Values
  <2>1. CASE x = v
    BY ONLY <1>7, <2>1
  <2>2. CASE x # v
    BY ONLY x \in Values, <1>6, <2>2
  <2> QED
    BY ONLY <2>1, <2>2
<1> QED
  BY ONLY <1>3, <1>4, <1>5, <1>8 DEF Lists, FirstOf

\* RunWaiters with a node left: the node is run, then the rest of the list.
LEMMA RunNextKeeps ==
    ASSUME NEW loc, Inv(loc), NEW t \in Threads, Top(t, "RunWaiters"),
           NEW n, n = Head(stack[t]).list, n # Nil,
           Then(t, RunWaiter(n) \o <<[op |-> "RunWaiters", list |-> next[n]]>>),
           UNCHANGED <<state, head, next, value, payload, refcount, freed, counter,
                       holds, produced, asked, ran>>
    PROVE  \E loc2 : Inv(loc2)'
<1>0. /\ Types /\ stack \in [Threads -> Seq(Entries)] /\ Located(loc) /\ Progress(loc) /\ Facts
      /\ Lists(loc) /\ Guarded /\ Contents /\ Counted(loc) /\ Counts(loc)
      /\ next \in [Nodes -> Links] /\ holds \in [Threads -> SUBSET Values]
  BY DEF Inv, Types
<1>1. PICK b \in Nat :
              /\ H(t) = b + 1 /\ H(t) - 1 = b /\ H(t) \in 1..H(t)
              /\ At(t, H(t)) = Head(stack[t]) /\ stack[t] # <<>>
              /\ Head(stack[t]) \in Entries /\ Head(stack[t]).op = "RunWaiters"
  BY <1>0, TopOf
<1>2. PICK e : e = At(t, H(t))
  OBVIOUS
<1>3. e = ERun(n) /\ n \in Nodes
  <2>1. PICK l \in Links : e = ERun(l)
    BY <1>1, <1>2, EntryForms
  <2> QED
    BY <1>1, <1>2, <2>1, Table DEF Links
<1>4. PICK v \in Values : v = n.av
  BY <1>3, NodeValues
<1>5. PICK d1 : d1 = <<"run", v>>
  OBVIOUS
<1>6. /\ e.op = "RunWaiters" /\ e.list = n /\ Duty(e) = d1 /\ Owns(e) = {} /\ Guards(e) = {v}
      /\ d1 \in DutySet /\ d1[1] = "run" /\ d1 # NoDuty
  BY <1>3, <1>4, <1>5, Table, Duties DEF NoDuty
<1>7. loc[d1] = Place(t, b + 1) /\ loc[d1][1] = "at"
  BY <1>0, <1>1, <1>2, <1>6, DutyAt
<1>8. Available(v) /\ FirstOf(loc, v, n)
  <2>1. loc[<<"run", v>>] # Over
    BY <1>5, <1>7, EndTags
  <2>2. /\ Available(v)
        /\ \E u \in Threads : \E k \in 1..H(u) :
              loc[<<"run", v>>] = Place(u, k) /\ FirstOf(loc, v, At(u, k).list)
    BY <1>0, <2>1 DEF Lists
  <2>3. PICK u \in Threads : \E k \in 1..H(u) :
              loc[<<"run", v>>] = Place(u, k) /\ FirstOf(loc, v, At(u, k).list)
    BY <2>2
  <2>4. PICK k \in 1..H(u) : loc[<<"run", v>>] = Place(u, k) /\ FirstOf(loc, v, At(u, k).list)
    BY <2>3
  <2>5. u = t /\ k = b + 1
    BY <1>5, <1>7, <2>4 DEF Place
  <2> QED
    BY <1>1, <1>2, <1>6, <2>2, <2>4, <2>5
<1>9. PICK r \in Nat : loc[NodeDuty(n)] = Ranked(n, r)
  BY <1>3, <1>8 DEF FirstOf
<1>10. NodeFact(n)
  BY <1>0, <1>3, <1>9 DEF Counted
<1>11. PICK dn : dn = NodeDuty(n)
  OBVIOUS
<1>12. dn \in DutySet /\ dn # d1 /\ dn # NoDuty /\ loc[dn] = Ranked(n, r) /\ loc[dn][1] = "list"
  <2>1. dn \in DutySet /\ dn[1] # "run"
    BY <1>3, <1>11, NodeValues, NodeNoRun
  <2> QED
    BY <1>6, <1>9, <1>11, <2>1, RankTag, Duties
<1>13. PICK m \in Links : m = next[n]
  BY <1>0, <1>3
<1>14. (m = Nil <=> r = 1) /\ (m # Nil => m \in Nodes /\ m.av = v)
  <2>1. IF r = 1 THEN next[n] = Nil
        ELSE next[n] \in Nodes /\ next[n].av = n.av
    BY <1>0, <1>3, <1>9 DEF Lists
  <2> QED
    BY <1>4, <1>13, <2>1, NilAssumption
<1>15. PICK c \in Entries :
          /\ c = ERun(m) /\ c.op = "RunWaiters" /\ Owns(c) = {} /\ Guards(c) \subseteq {v}
          /\ Duty(c) = IF m = Nil THEN NoDuty ELSE d1
  BY <1>5, <1>14, EntriesMade, Table
<1>16. PICK rw \in Seq(Entries) : RunsNode(n, rw)
  BY <1>3, RunWaiterUse
<1>17. /\ Len(rw) \in {1, 2} /\ Fact(rw[1]) /\ rw[1] \in Entries
       /\ rw[1].op \in {"call", "ForwardTo", "fetch_sub"} /\ Duty(rw[1]) = dn
       /\ Len(rw) = 2 => rw[2].op = "DropRef" /\ Duty(rw[2]) = NoDuty /\ Guards(rw[2]) = {}
  BY <1>4, <1>8, <1>10, <1>11, <1>16, Table DEF RunsNode, RunsOnly
<1>18. PICK es \in Seq(Entries) :
          /\ es = rw \o <<c>> /\ Len(es) = Len(rw) + 1
          /\ \A j \in 1..Len(rw) : es[j] = rw[j]
          /\ es[Len(rw) + 1] = c
  <2>1. /\ rw \o <<c>> \in Seq(Entries) /\ Len(rw \o <<c>>) = Len(rw) + 1
        /\ \A j \in 1..Len(rw) : (rw \o <<c>>)[j] = rw[j]
        /\ (rw \o <<c>>)[Len(rw) + 1] = c
    OBVIOUS
  <2> QED
    BY <2>1
<1>19. /\ Len(es) \in {2, 3} /\ 1 \in 1..Len(es) /\ es[1] = rw[1] /\ es[Len(es)] = c
       /\ Len(es) = 3 => es[2] = rw[2] /\ Len(rw) = 2
       /\ Len(es) = 2 => Len(rw) = 1
       /\ \A j \in 1..Len(es) : j = 1 \/ j = Len(es) \/ (Len(es) = 3 /\ j = 2)
       /\ Len(es) \in 1..Len(es) /\ Len(es) # 1
  <2>1. CASE Len(rw) = 1
    BY <1>18, <2>1
  <2>2. CASE Len(rw) = 2
    BY <1>18, <2>2
  <2> QED
    BY <1>17, <2>1, <2>2
<1>20. Becomes(t, b, es)
  <2>1. Then(t, es)
    BY <1>13, <1>15, <1>16, <1>18 DEF ERun, RunsNode
  <2> QED
    BY <1>0, <1>1, <2>1, ThenBecomes
<1>21. b + 1 \in 1..H(t)' /\ At(t, b + 1)' = c
  <2>1. \A k \in b + 1..b + Len(es) : At(t, k)' = es[b + Len(es) - k + 1]
    BY <1>20, BecomesAt
  <2>2. b + 1 \in b + 1..b + Len(es) /\ b + Len(es) - (b + 1) + 1 = Len(es)
    BY <1>19
  <2>3. At(t, b + 1)' = es[Len(es)]
    BY <2>1, <2>2
  <2>4. H(t)' = b + Len(es)
    BY <1>20 DEF Becomes
  <2> QED
    BY <1>19, <2>2, <2>3, <2>4
<1>22. PICK top : top = Place(t, b + Len(es))
  OBVIOUS
<1>23. PICK loc2 : loc2 = [d \in DutySet |-> IF d = dn THEN top
                             ELSE IF d = d1 /\ m = Nil THEN Over ELSE loc[d]]
  OBVIOUS
<1>24. /\ DOMAIN loc2 = DutySet /\ loc2[dn] = top /\ top[1] = "at"
       /\ loc2[d1] = IF m = Nil THEN Over ELSE Place(t, b + 1)
       /\ \A d \in DutySet \ {dn, d1} : loc2[d] = loc[d]
  BY <1>6, <1>7, <1>12, <1>22, <1>23, PlaceTag
<1>25. Located(loc2)'
  <2>1. PICK M \in SUBSET DutySet : M = {dn, d1}
    BY <1>6, <1>12
  <2>2. /\ H(t) \in {b, b + 1} /\ b <= H(t)
        /\ \A d \in DutySet \ M : loc2[d] = loc[d]
        /\ H(t) = b + 1 /\ Duty(At(t, H(t))) # NoDuty => Duty(At(t, H(t))) \in M
    BY <1>1, <1>2, <1>6, <1>24, <2>1
  <2>3. \A d \in M : loc[d][1] # "at" \/ (H(t) = b + 1 /\ Duty(At(t, H(t))) = d)
    BY <1>1, <1>2, <1>6, <1>12, <2>1
  <2>4. \A d \in M : Fits(d, loc2[d])
    BY <1>22, <1>24, <2>1 DEF Fits
  <2>5. b + Len(es) - 1 + 1 = b + Len(es) /\ b + Len(es) - Len(es) + 1 = b + 1
    BY <1>19
  <2>6. Duty(es[1]) = dn /\ Duty(es[Len(es)]) = IF m = Nil THEN NoDuty ELSE d1
    BY <1>15, <1>17, <1>19
  <2>7. \A d \in M : \/ loc2[d][1] # "at"
                     \/ \E j \in 1..Len(es) :
                           Duty(es[j]) = d /\ loc2[d] = Place(t, b + Len(es) - j + 1)
    <3>1. \E j \in 1..Len(es) : Duty(es[j]) = dn /\ loc2[dn] = Place(t, b + Len(es) - j + 1)
      BY <1>19, <1>22, <1>24, <2>5, <2>6
    <3>2. CASE m = Nil
      BY <1>24, <2>1, <3>1, <3>2, EndTags
    <3>3. CASE m # Nil
      <4>1. \E j \in 1..Len(es) : Duty(es[j]) = d1 /\ loc2[d1] = Place(t, b + Len(es) - j + 1)
        BY <1>19, <1>24, <2>5, <2>6, <3>3
      <4> QED
        BY <2>1, <3>1, <4>1
    <3> QED
      BY <3>2, <3>3
  <2>8. \A j \in 1..Len(es) : Duty(es[j]) # NoDuty =>
              loc2[Duty(es[j])] = Place(t, b + Len(es) - j + 1)
    <3> SUFFICES ASSUME NEW j \in 1..Len(es), Duty(es[j]) # NoDuty
                 PROVE  loc2[Duty(es[j])] = Place(t, b + Len(es) - j + 1)
      OBVIOUS
    <3>1. CASE j = 1
      BY <1>22, <1>24, <2>5, <2>6, <3>1
    <3>2. CASE j = Len(es)
      <4>1. m # Nil /\ Duty(es[j]) = d1
        BY <2>6, <3>2
      <4>2. b + Len(es) - j + 1 = b + 1
        BY <2>5, <3>2
      <4> QED
        BY <1>24, <4>1, <4>2
    <3>3. CASE Len(es) = 3 /\ j = 2
      BY <1>17, <1>19, <3>3
    <3> QED
      BY <1>19, <3>1, <3>2, <3>3
  <2>9. Moves(t, b, es, loc, loc2)
    BY <1>0, <1>24, <2>2, <2>3, <2>4, <2>7, <2>8, MovesSome
  <2> QED
    BY <1>0, <1>20, <2>2, <2>9, LocatedStep
<1>26. Popped(loc, loc2, n)
  <2>1. loc2[d1] = loc[d1] \/ (loc[d1][1] # "list" /\ loc2[d1][1] # "list")
    BY <1>7, <1>24, EndTags
  <2> QED
    BY <1>11, <1>24, <2>1 DEF Popped
<1>27. Lists(loc2)'
  <2>1. Duty(At(t, H(t))) = <<"run", v>> /\ UNCHANGED <<head, state, next>>
    BY <1>2, <1>5, <1>6
  <2>2. Goes(t, b, n, r, v, loc2)
    BY <1>5, <1>13, <1>14, <1>15, <1>21, <1>24 DEF Goes
  <2>3. \A x \in Values \ {v} : loc2[<<"run", x>>] = loc[<<"run", x>>]
    <3>1. \A x \in Values \ {v} : <<"run", x>> \in DutySet \ {dn, d1}
      <4>1. dn[1] # "run"
        BY <1>3, <1>11, NodeNoRun
      <4>2. \A x \in Values \ {v} : <<"run", x>> \in DutySet /\ <<"run", x>> # d1
        BY <1>5, Duties
      <4>3. \A x : <<"run", x>>[1] = "run"
        OBVIOUS
      <4>4. \A x : <<"run", x>> # dn
        BY <4>1, <4>3
      <4> QED
        BY <4>2, <4>4
    <3> QED
      BY <1>24, <3>1
  <2>4. n \in Nodes /\ H(t) = b + 1 /\ v = n.av
    BY <1>1, <1>3, <1>4
  <2> QED
    BY <1>0, <1>8, <1>9, <1>20, <1>26, <2>1, <2>2, <2>3, <2>4, ListsPop
<1>28. Guarded'
  <2>1. ASSUME NEW j \in 1..Len(es), NEW x \in Guards(es[j])
        PROVE  \/ \E i \in j + 1..Len(es) : es[i] = Drop(x)
               \/ H(t) = b + 1 /\ x \in Guards(At(t, H(t)))
    <3>1. CASE j = 1
      <4>1. x \in NodeGuards(n) \/ (Len(rw) = 2 /\ rw[2] = Drop(x))
        BY <1>16, <1>19, <2>1, <3>1 DEF RunsNode
      <4>2. CASE x \in NodeGuards(n)
        BY <1>1, <1>2, <1>3, <1>4, <1>6, <4>2, NodeValues
      <4>3. CASE Len(rw) = 2 /\ rw[2] = Drop(x)
        <5>1. 2 \in j + 1..Len(es) /\ es[2] = Drop(x)
          BY <1>18, <1>19, <3>1, <4>3
        <5> QED
          BY <5>1
      <4> QED
        BY <4>1, <4>2, <4>3
    <3>2. CASE j = Len(es)
      BY <1>1, <1>2, <1>6, <1>15, <1>19, <2>1, <3>2
    <3>3. CASE Len(es) = 3 /\ j = 2
      BY <1>17, <1>19, <2>1, <3>3
    <3> QED
      BY <1>19, <3>1, <3>2, <3>3
  <2>2. H(t) = b + 1 /\ holds' = holds
    BY <1>1
  <2> QED
    BY <1>0, <1>20, <2>1, <2>2, GuardedStep
<1>29. Stable
  BY DEF Stable
<1>30. Facts'
  <2>1. Keeps(t, b)
    BY DEF Keeps
  <2>2. Fact(rw[1])'
    BY <1>17, <1>29, FactStable
  <2>3. Fact(c)' /\ (Len(rw) = 2 => Fact(rw[2])')
    BY <1>15, <1>17 DEF Fact
  <2>4. \A j \in 1..Len(es) :
              /\ es[j].op \notin {"store", "AddRef"}
              /\ Fact(es[j])'
              /\ es[j].op = "NotifyAvailable" /\ es[j].av \in Concrete =>
                    payload'[es[j].av] = Stored(es[j].s)
    <3> SUFFICES ASSUME NEW j \in 1..Len(es)
                 PROVE  es[j].op \notin {"store", "AddRef", "NotifyAvailable"} /\ Fact(es[j])'
      OBVIOUS
    <3>1. CASE j = 1
      BY <1>17, <1>19, <2>2, <3>1
    <3>2. CASE j = Len(es)
      BY <1>15, <1>19, <2>3, <3>2
    <3>3. CASE Len(es) = 3 /\ j = 2
      BY <1>17, <1>19, <2>3, <3>3
    <3> QED
      BY <1>19, <3>1, <3>2, <3>3
  <2>5. H(t) = b + 1 /\ At(t, H(t)).op # "store"
    BY <1>1, <1>2, <1>6
  <2> QED
    BY <1>0, <1>20, <1>29, <2>1, <2>4, <2>5, FactsStep
<1>31. Contents'
  <2>1. At(t, H(t)).op # "NotifyAvailable" /\ UNCHANGED <<state, payload, value, freed>>
        /\ produced \subseteq produced'
    BY <1>2, <1>6
  <2> QED
    BY <1>0, <1>1, <1>20, <2>1, ContentsStep
<1>40. PICK D : D = DutySet \ {d1}
  OBVIOUS
<1>32. \A d \in D : /\ loc2[d] = Unborn <=> loc[d] = Unborn
                    /\ loc2[d] = Over <=> loc[d] = Over
                    /\ loc2[d] = Divided <=> loc[d] = Divided
  <2> TAKE d \in D
  <2>1. CASE d = dn
    BY <1>12, <1>24, <2>1, EndTags
  <2>2. CASE d # dn
    <3>1. loc2[d] = loc[d]
      BY <1>24, <1>40, <2>2
    <3> QED
      BY <3>1
  <2> QED
    BY <2>1, <2>2
<1>33. /\ \A u \in Values : <<"set", u>> \in D
       /\ \A w \in Callbacks : <<"waiter", w>> \in D
       /\ \A k \in Places : <<"count", k>> \in D
       /\ <<"waiter", Callee>> \in D
  BY <1>5, <1>40, Duties
<1>34. Progress(loc2)'
  BY <1>0, <1>32, <1>33 DEF Progress, Available
<1>35. \A q \in Nodes : \A x : loc2[NodeDuty(q)] = Ranked(q, x) <=>
                 loc[NodeDuty(q)] = Ranked(q, x) /\ q # n
  BY <1>3, <1>9, <1>26, PoppedRanks
<1>36. Counted(loc2)'
  <2>1. \A q \in Nodes, x \in Nat : loc2[NodeDuty(q)] = Ranked(q, x) => NodeFact(q)
    BY <1>0, <1>35 DEF Counted
  <2>2. \A q \in Nodes, x \in Nat : loc2[NodeDuty(q)] = Ranked(q, x) => NodeFact(q)'
    BY <2>1 DEF NodeFact, Available
  <2>3. Active(loc2) = Active(loc)
    BY <1>32, <1>33 DEF Active
  <2>4. loc2[<<"waiter", Callee>>] = Divided <=> loc[<<"waiter", Callee>>] = Divided
    BY <1>32, <1>33
  <2>5. IF loc2[<<"waiter", Callee>>] = Divided
        THEN /\ counter' = Cardinality(Active(loc2)) /\ counter' > 0
             /\ \A k \in Places \ Active(loc2) : Available(Group[k])'
        ELSE Active(loc2) = {}
    BY <1>0, <2>3, <2>4 DEF Counted, Available
  <2>6. Active(loc2)' = Active(loc2)
    BY DEF Active
  <2> QED
    BY <2>2, <2>5, <2>6 DEF Counted
<1>37. Counts(loc2)'
  <2>1. ASSUME NEW u \in Values
        PROVE  /\ IsFiniteSet(ByCalls(u)') /\ IsFiniteSet(ByNodes(loc2, u))
               /\ Cardinality(ByCalls(u)') + Cardinality(ByNodes(loc2, u))
                   = Cardinality(ByCalls(u)) + Cardinality(ByNodes(loc, u))
    <3>1. IsFiniteSet(ByCalls(u)) /\ IsFiniteSet(ByNodes(loc, u))
      BY <1>0 DEF Counts
    <3>2. /\ \A i, j \in 1..Len(rw) : u \in Owns(rw[i]) /\ u \in Owns(rw[j]) => i = j
          /\ u \in NodeOwns(n) <=> \E j \in 1..Len(rw) : u \in Owns(rw[j])
      BY <1>16 DEF RunsNode
    <3>3. ASSUME NEW j \in 1..Len(es), u \in Owns(es[j])
          PROVE  j \in 1..Len(rw) /\ es[j] = rw[j]
      <4>1. j # Len(es)
        BY <1>15, <1>19, <3>3
      <4>2. j \in 1..Len(rw)
        BY <1>17, <1>18, <4>1
      <4> QED
        BY <1>18, <4>2
    <3>4. (\E j \in 1..Len(es) : u \in Owns(es[j])) <=> u \in NodeOwns(n)
      <4>1. \A j \in 1..Len(rw) : j \in 1..Len(es) /\ es[j] = rw[j]
        BY <1>17, <1>18
      <4> QED
        BY <3>2, <3>3, <4>1
    <3>5. /\ IsFiniteSet(ByCalls(u)')
          /\ Cardinality(ByCalls(u)') =
                Cardinality(ByCalls(u))
                  - (IF H(t) = b + 1 /\ u \in Owns(At(t, H(t))) THEN 1 ELSE 0)
                  + (IF \E j \in 1..Len(es) : u \in Owns(es[j]) THEN 1 ELSE 0)
      <4>1. At(t, H(t)).op # "AddRef" /\ \A j \in 1..Len(es) : es[j].op # "AddRef"
        BY <1>2, <1>6, <1>15, <1>17, <1>19
      <4>2. \A i, j \in 1..Len(es) : u \in Owns(es[i]) /\ u \in Owns(es[j]) => i = j
        BY <3>2, <3>3
      <4>3. (H(t) = 0 /\ b = 0) \/ (H(t) = b + 1 /\ At(t, H(t)).op # "AddRef")
        BY <1>1, <4>1
      <4>4. es \in Seq(Entries) /\ Becomes(t, b, es)
        BY <1>20
      <4> QED
        BY ONLY <1>0, <3>1, <4>4, t \in Threads, b \in Nat, <4>1, <4>2, <4>3, CallsStep
    <3>6. Cardinality(ByCalls(u)) \in Nat /\ Cardinality(ByNodes(loc, u)) \in Nat
      BY <3>1, FS_CardinalityType
    <3>7. Cardinality(ByCalls(u)') = Cardinality(ByCalls(u)) + (IF u \in NodeOwns(n) THEN 1 ELSE 0)
      BY <1>2, <1>6, <3>4, <3>5, <3>6
    <3>8. CASE u \in NodeOwns(n)
      <4>1. n \in ByNodes(loc, u)
        BY <1>3, <1>9, <3>8 DEF ByNodes
      <4>2. ByNodes(loc2, u) = ByNodes(loc, u) \ {n}
        BY <1>35 DEF ByNodes
      <4>3. /\ IsFiniteSet(ByNodes(loc2, u))
            /\ Cardinality(ByNodes(loc2, u)) = Cardinality(ByNodes(loc, u)) - 1
        BY ONLY <3>1, <4>1, <4>2, FS_RemoveElement
      <4> QED
        BY <3>5, <3>6, <3>7, <3>8, <4>3
    <3>9. CASE u \notin NodeOwns(n)
      <4>1. ByNodes(loc2, u) = ByNodes(loc, u)
        BY <1>35, <3>9 DEF ByNodes
      <4> QED
        BY <3>1, <3>5, <3>6, <3>7, <3>9, <4>1
    <3> QED
      BY <3>8, <3>9
  <2>2. UNCHANGED <<refcount, freed, holds, value>>
    OBVIOUS
  <2> QED
    BY <2>1, <2>2, CountsMoved
<1>38. Types'
  BY <1>0, <1>20 DEF Types, Becomes
<1>39. Inv(loc2)'
  BY <1>25, <1>27, <1>28, <1>30, <1>31, <1>34, <1>36, <1>37, <1>38 DEF Inv
<1> QED
  BY <1>39

\* RunWaiters: the end of the list, or the next node.
LEMMA RunWaitersKeeps ==
    ASSUME NEW loc, Inv(loc), NEW t \in Threads, RunWaiters(t)
    PROVE  \E loc2 : Inv(loc2)'
<1>0. /\ Types /\ Top(t, "RunWaiters")
      /\ UNCHANGED <<state, head, next, value, payload, refcount, freed, counter,
                     holds, produced, asked, ran>>
  BY DEF Inv, RunWaiters
<1>1. PICK b \in Nat :
              /\ H(t) = b + 1 /\ H(t) - 1 = b /\ H(t) \in 1..H(t)
              /\ At(t, H(t)) = Head(stack[t]) /\ stack[t] # <<>>
              /\ Head(stack[t]) \in Entries /\ Head(stack[t]).op = "RunWaiters"
  BY <1>0, TopOf
<1>2. PICK n : n = Head(stack[t]).list
  OBVIOUS
<1>3. CASE n = Nil
  <2>1. Then(t, <<>>)
    BY <1>2, <1>3 DEF RunWaiters
  <2>2. PICK e : e = At(t, H(t))
    OBVIOUS
  <2>3. e = ERun(Nil)
    BY <1>1, <1>2, <1>3, <2>2, EntryForms, Table
  <2>4. Duty(e) = NoDuty /\ Owns(e) = {} /\ e.op = "RunWaiters"
    BY <2>3, Table
  <2>5. Inv(loc)'
    BY <1>0, <1>1, <2>1, <2>2, <2>4, NoCall
  <2> QED
    BY <2>5
<1>4. CASE n # Nil
  <2>1. Then(t, RunWaiter(n) \o <<[op |-> "RunWaiters", list |-> next[n]]>>)
    BY <1>2, <1>4 DEF RunWaiters, After
  <2> QED
    BY <1>0, <1>2, <1>4, <2>1, RunNextKeeps
<1> QED
  BY <1>3, <1>4

-----------------------------------------------------------------------------
(* Clients.                                                                 *)

\* A client takes on duty d: it hands over a waiter, or begins to set a value.
Begins(d) ==
    \/ \E w \in Callbacks \ asked :
          d = <<"waiter", w>> /\ asked' = asked \cup {w} /\ produced' = produced
    \/ \E v \in Values \ produced :
          d = <<"set", v>> /\ produced' = produced \cup {v} /\ asked' = asked

\* The duties, after one of them was taken on.
LEMMA BegunDuty ==
    ASSUME NEW loc, Progress(loc), Counted(loc), NEW d0, Begins(d0),
           UNCHANGED <<state, counter, ran>>, NEW loc2, loc2[d0][1] = "at",
           \A d \in DutySet \ {d0} : loc2[d] = loc[d], ran \in [Callbacks -> {0, 1}]
    PROVE  /\ d0 \in DutySet /\ d0[1] # "run" /\ loc[d0] = Unborn /\ produced \subseteq produced'
           /\ SameRanks(loc, loc2) /\ Progress(loc2)' /\ Counted(loc2)'
<1>1. /\ d0 \in DutySet /\ d0[1] \in {"waiter", "set"} /\ loc[d0] = Unborn
      /\ produced \subseteq produced'
  <2>1. ASSUME NEW w \in Callbacks \ asked, d0 = <<"waiter", w>>, produced' = produced
        PROVE  /\ d0 \in DutySet /\ d0[1] \in {"waiter", "set"} /\ loc[d0] = Unborn
               /\ produced \subseteq produced'
    BY <2>1, Duties DEF Progress
  <2>2. ASSUME NEW v \in Values \ produced, d0 = <<"set", v>>, produced' = produced \cup {v}
        PROVE  /\ d0 \in DutySet /\ d0[1] \in {"waiter", "set"} /\ loc[d0] = Unborn
               /\ produced \subseteq produced'
    BY <2>2, Duties DEF Progress
  <2> QED
    BY <2>1, <2>2 DEF Begins
<1>2. SameRanks(loc, loc2)
  <2>1. \A d \in DutySet : loc2[d] = loc[d] \/ (loc[d][1] # "list" /\ loc2[d][1] # "list")
    BY <1>1, EndTags
  <2> QED
    BY <2>1, SameRanksIf
<1>3. loc2[d0] \notin {Unborn, Over, Divided} /\ loc[d0] \notin {Over, Divided}
  BY <1>1, EndTags
<1>4. Stable /\ \A v : Available(v)' <=> Available(v)
  BY DEF Stable, Available
<1>5. Counted(loc2)'
  <2>1. \A k \in Places : <<"count", k>> # d0
    BY <1>1
  <2>2. \A k \in Places : loc2[<<"count", k>>] = loc[<<"count", k>>]
    BY <2>1, Duties
  <2>3. loc2[<<"waiter", Callee>>] = Divided <=> loc[<<"waiter", Callee>>] = Divided
    <3>1. CASE d0 = <<"waiter", Callee>>
      BY <1>3, <3>1
    <3>2. CASE d0 # <<"waiter", Callee>>
      BY <3>2, Duties
    <3> QED
      BY <3>1, <3>2
  <2> QED
    BY <1>2, <1>4, <2>2, <2>3, CountedStep
<1>6. Progress(loc2)'
  <2>1. ASSUME NEW v \in Values
        PROVE  /\ loc2[<<"set", v>>] = Unborn <=> v \notin produced'
               /\ loc2[<<"set", v>>] = Over <=> Available(v)'
    <3>0. /\ loc[<<"set", v>>] = Unborn <=> v \notin produced
          /\ loc[<<"set", v>>] = Over <=> Available(v)
      BY DEF Progress
    <3>1. CASE d0 = <<"set", v>>
      <4>1. v \in produced'
        BY <3>1 DEF Begins
      <4> QED
        BY <1>3, <1>4, <3>0, <3>1, <4>1
    <3>2. CASE d0 # <<"set", v>>
      <4>1. v \in produced' <=> v \in produced
        BY <3>2 DEF Begins
      <4>2. loc2[<<"set", v>>] = loc[<<"set", v>>]
        BY <3>2, Duties
      <4> QED
        BY <1>4, <3>0, <4>1, <4>2
    <3> QED
      BY <3>1, <3>2
  <2>2. ASSUME NEW w \in Callbacks
        PROVE  /\ loc2[<<"waiter", w>>] = Unborn <=> w \notin asked'
               /\ loc2[<<"waiter", w>>] = Over <=> ran'[w] = 1
    <3>0. /\ loc[<<"waiter", w>>] = Unborn <=> w \notin asked
          /\ loc[<<"waiter", w>>] = Over <=> ran[w] = 1
      BY DEF Progress
    <3>1. CASE d0 = <<"waiter", w>>
      <4>1. w \in asked'
        BY <3>1 DEF Begins
      <4> QED
        BY <1>3, <3>0, <3>1, <4>1
    <3>2. CASE d0 # <<"waiter", w>>
      <4>1. w \in asked' <=> w \in asked
        BY <3>2 DEF Begins
      <4>2. loc2[<<"waiter", w>>] = loc[<<"waiter", w>>]
        BY <3>2, Duties
      <4> QED
        BY <3>0, <4>1, <4>2
    <3> QED
      BY <3>1, <3>2
  <2> QED
    BY <2>1, <2>2 DEF Progress
<1> QED
  BY <1>1, <1>2, <1>5, <1>6

\* A call that takes on the duty of its first entry.
LEMMA BegunKeeps ==
    ASSUME NEW loc, Inv(loc), NEW t \in Threads, NEW es \in Seq(Entries), Begin(t, es),
           Len(es) > 0, NEW d0, Duty(es[1]) = d0, Begins(d0),
           \A j \in 1..Len(es) : j # 1 => Duty(es[j]) = NoDuty,
           NEW gone, GivesUp(t, gone), \A v \in Values : Accounts(t, 0, es, gone, v),
           Backed(t, 0, es), refcount' \in [Values -> Nat], holds' \in [Threads -> SUBSET Values],
           UNCHANGED <<state, head, next, value, payload, freed, counter, ran>>
    PROVE  \E loc2 : Inv(loc2)'
<1>0. /\ Types /\ stack \in [Threads -> Seq(Entries)] /\ Located(loc) /\ Progress(loc)
      /\ Counted(loc) /\ ran \in [Callbacks -> {0, 1}] /\ produced \subseteq Values
      /\ asked \subseteq Callbacks
  BY DEF Inv, Types
<1>1. PICK b \in Nat : b = 0
  OBVIOUS
<1>2. H(t) = 0 /\ Becomes(t, b, es)
  BY <1>0, <1>1, BeginBecomes
<1>3. PICK top : top = Place(t, b + Len(es))
  OBVIOUS
<1>4. PICK loc2 : loc2 = [d \in DutySet |-> IF d = d0 THEN top ELSE loc[d]]
  OBVIOUS
<1>5. d0 \in DutySet
  BY <1>0, Duties DEF Begins
<1>6. /\ DOMAIN loc2 = DutySet /\ loc2[d0] = top /\ top[1] = "at"
      /\ \A d \in DutySet \ {d0} : loc2[d] = loc[d]
  BY <1>3, <1>4, <1>5, PlaceTag
<1>7. /\ d0[1] # "run" /\ loc[d0] = Unborn /\ produced \subseteq produced'
      /\ Progress(loc2)' /\ Counted(loc2)'
  <2>1. loc2[d0][1] = "at" /\ UNCHANGED <<state, counter, ran>>
    BY <1>6
  <2>2. \A d \in DutySet \ {d0} : loc2[d] = loc[d]
    BY <1>6
  <2> QED
    BY <1>0, <2>1, <2>2, BegunDuty
<1>8. PICK M \in SUBSET DutySet : M = {d0}
  BY <1>5
<1>9. Shifts(t, b, es, M, loc, loc2)
  <2>1. 1 \in 1..Len(es) /\ b + Len(es) - 1 + 1 = b + Len(es)
    BY <1>1
  <2>2. Fits(d0, loc2[d0])
    BY <1>3, <1>6 DEF Fits
  <2>3. H(t) # b + 1
    BY <1>1, <1>2
  <2>4. loc[d0][1] = "unborn"
    BY <1>7, EndTags
  <2>5. \E j \in 1..Len(es) : Duty(es[j]) = d0 /\ loc2[d0] = Place(t, b + Len(es) - j + 1)
    BY <1>3, <1>6, <2>1
  <2>6. \A j \in 1..Len(es) : Duty(es[j]) # NoDuty =>
          loc2[Duty(es[j])] = Place(t, b + Len(es) - j + 1)
    BY <1>3, <1>6, <2>1
  <2> QED
    BY <1>6, <1>7, <1>8, <2>2, <2>3, <2>4, <2>5, <2>6 DEF Shifts
<1>10. Backed(t, b, es) /\ \A v \in Values : Accounts(t, b, es, gone, v)
  BY <1>1
<1>11. /\ Located(loc2)' /\ Lists(loc2)' /\ Guarded' /\ Facts' /\ Contents' /\ Counts(loc2)'
  <2>1. UNCHANGED <<state, head, next, payload, value, freed>> /\ produced \subseteq produced'
    BY <1>7
  <2> QED
    BY <1>1, <1>2, <1>9, <1>10, <2>1, ShiftsStep
<1>12. Types'
  <2>1. produced' \subseteq Values /\ asked' \subseteq Callbacks
    BY <1>0 DEF Begins
  <2> QED
    BY <1>0, <1>2, <2>1 DEF Types, Becomes
<1>13. Inv(loc2)'
  BY <1>7, <1>11, <1>12 DEF Inv
<1> QED
  BY <1>13

\* A waiter is handed over: AndThen or BlockUntilReady.
LEMMA WaitKeeps ==
    ASSUME NEW loc, Inv(loc), NEW t \in Threads, NEW w \in Waiters, Wait(t, w)
    PROVE  \E loc2 : Inv(loc2)'
<1>0. /\ Types /\ Counts(loc) /\ refcount \in [Values -> Nat]
      /\ holds \in [Threads -> SUBSET Values]
  BY DEF Inv, Types
<1>1. /\ w \in Callbacks \ asked /\ w # Callee
  BY KindsAssumption DEF Wait, Callbacks
<1>2. PICK v \in Values : v = On[w] /\ v \in holds[t]
  BY KindsAssumption DEF Wait
<1>3. /\ asked' = asked \cup {w}
      /\ refcount' = IF w \in Owning THEN [refcount EXCEPT ![v] = refcount[v] + 1] ELSE refcount
      /\ UNCHANGED <<state, head, next, value, payload, freed, counter, holds, produced, ran>>
  BY <1>2 DEF Wait
<1>4. refcount[v] \in Nat /\ refcount[v] > 0
  BY <1>0, <1>2, Referenced
<1>5. PICK es \in Seq(Entries) :
          /\ Begin(t, es) /\ Len(es) \in {1, 2}
          /\ \/ es[1] = EAndThen(User(w))
             \/ es[1] = ECall(w) /\ Available(v) /\ w \in Blocking
          /\ Len(es) = 2 => es[2] = EWait(w)
  <2>1. EAndThen(User(w)) \in Entries /\ ECall(w) \in Entries /\ EWait(w) \in Entries
    BY <1>1, NodeTable, EntriesMade
  <2>2. CASE w \notin Blocking
    <3>1. Begin(t, <<EAndThen(User(w))>>)
      BY <2>2 DEF Wait, EAndThen
    <3> QED
      BY <2>1, <3>1, OneOf
  <2>3. CASE w \in Blocking /\ Available(v)
    <3>1. Begin(t, <<ECall(w)>>)
      BY <1>2, <2>3 DEF Wait, ECall
    <3>2. PICK es \in Seq(Entries) : es = <<ECall(w)>> /\ Len(es) = 1 /\ es[1] = ECall(w)
      BY <2>1, OneOf
    <3> QED
      BY <2>3, <3>1, <3>2
  <2>4. CASE w \in Blocking /\ ~Available(v)
    <3>1. Begin(t, <<EAndThen(User(w)), EWait(w)>>)
      BY <1>2, <2>4 DEF Wait, EAndThen, EWait
    <3>2. PICK es : es = <<EAndThen(User(w)), EWait(w)>>
      OBVIOUS
    <3>3. es \in Seq(Entries) /\ Len(es) = 2 /\ es[1] = EAndThen(User(w)) /\ es[2] = EWait(w)
      BY <2>1, <3>2
    <3> QED
      BY <3>1, <3>2, <3>3
  <2> QED
    BY <2>2, <2>3, <2>4
<1>6. PICK d0 : d0 = <<"waiter", w>>
  OBVIOUS
<1>7. /\ Duty(es[1]) = d0 /\ Guards(es[1]) = {v} /\ es[1].op \in {"AndThen", "call"}
      /\ Owns(es[1]) = IF w \in Owning THEN {v} ELSE {}
  <2>1. CASE es[1] = EAndThen(User(w))
    BY <1>2, <1>6, <2>1, Table, NodeTable
  <2>2. CASE es[1] = ECall(w) /\ w \in Blocking
    <3>1. w \notin Owning
      BY <2>2, KindsAssumption
    <3> QED
      BY <1>2, <1>6, <2>2, <3>1, Table
  <2> QED
    BY <1>5, <2>1, <2>2
<1>8. /\ Len(es) = 2 => /\ Duty(es[2]) = NoDuty /\ Owns(es[2]) = {} /\ Guards(es[2]) = {}
                        /\ es[2].op = "WaitForNotification"
      /\ \A j \in 1..Len(es) : j = 1 \/ (Len(es) = 2 /\ j = 2)
      /\ 1 \in 1..Len(es)
  <2>1. /\ Duty(EWait(w)) = NoDuty /\ Owns(EWait(w)) = {} /\ Guards(EWait(w)) = {}
        /\ EWait(w).op = "WaitForNotification"
    BY Table
  <2>2. \A j \in 1..Len(es) : j = 1 \/ (Len(es) = 2 /\ j = 2)
    BY <1>5
  <2> QED
    BY <1>5, <2>1, <2>2
<1>9. Begins(d0)
  BY <1>1, <1>3, <1>6 DEF Begins
<1>10. Backed(t, 0, es)
  <2>1. Fact(es[1])'
    <3>1. CASE es[1] = EAndThen(User(w))
      <4>1. NodeFact(User(w))'
        BY NodeTable DEF NodeFact
      <4> QED
        BY <3>1, <4>1, Table DEF Fact
    <3>2. CASE es[1] = ECall(w) /\ Available(v)
      <4>1. Needs(w) = {v}
        BY <1>1, <1>2 DEF Needs
      <4>2. \A x \in Needs(w) : Available(x)'
        BY <1>3, <3>2, <4>1 DEF Available
      <4>3. es[1].op = "call" /\ es[1].w = w
        BY <3>2, Table
      <4>4. Needs(w)' = Needs(w)
        BY DEF Needs
      <4> QED
        BY <4>2, <4>3, <4>4 DEF Fact
    <3> QED
      BY <1>5, <3>1, <3>2
  <2>2. Len(es) = 2 => Fact(es[2])'
    BY <1>8 DEF Fact
  <2>3. v \in holds'[t]
    BY <1>2, <1>3
  <2> QED
    BY <1>7, <1>8, <2>1, <2>2, <2>3 DEF Backed
<1>11. PICK gone : gone = Nil
  OBVIOUS
<1>12. GivesUp(t, gone)
  BY <1>3, <1>11 DEF GivesUp
<1>13. refcount' \in [Values -> Nat]
  BY <1>0, <1>3, <1>4
<1>14. ASSUME NEW x \in Values
       PROVE  Accounts(t, 0, es, gone, x)
  <2>1. x # gone /\ refcount[x] \in Nat
    BY <1>0, <1>11, NilAssumption
  <2>2. H(t) # 0 + 1
    <3>1. H(t) = 0
      BY <1>0, <1>5, BeginBecomes DEF Types
    <3> QED
      BY <3>1
  <2>3. (\E j \in 1..Len(es) : x \in Owns(es[j])) <=> (x = v /\ w \in Owning)
    BY <1>7, <1>8
  <2>4. \A i, j \in 1..Len(es) : x \in Owns(es[i]) /\ x \in Owns(es[j]) => i = j
    BY <1>8
  <2>5. refcount'[x] = refcount[x] + (IF x = v /\ w \in Owning THEN 1 ELSE 0)
    BY <1>0, <1>3, <2>1
  <2>6. refcount'[x] = 0 <=> refcount[x] = 0
    BY <1>4, <2>1, <2>5
  <2> QED
    BY <2>1, <2>2, <2>3, <2>4, <2>5, <2>6 DEF Accounts
<1>15. Len(es) > 0 /\ \A j \in 1..Len(es) : j # 1 => Duty(es[j]) = NoDuty
  BY <1>5, <1>8
<1>16. holds' \in [Threads -> SUBSET Values]
  BY <1>0, <1>3
<1> QED
  BY <1>3, <1>5, <1>7, <1>9, <1>10, <1>12, <1>13, <1>14, <1>15, <1>16, BegunKeeps

\* RunWhenReady begins to scan its span.
LEMMA RunWhenReadyKeeps ==
    ASSUME NEW loc, Inv(loc), NEW t \in Threads, RunWhenReady(t)
    PROVE  \E loc2 : Inv(loc2)'
<1>0. Types /\ refcount \in [Values -> Nat] /\ holds \in [Threads -> SUBSET Values]
  BY DEF Inv, Types
<1>1. /\ asked' = asked \cup {Callee} /\ Callee \notin asked
      /\ \A k \in Places : Group[k] \in holds[t]
      /\ UNCHANGED <<state, head, next, value, payload, refcount, freed, counter, holds,
                     produced, ran>>
  BY DEF RunWhenReady, Places
<1>2. PICK un \in Seq(Places) : un = <<>> /\ Len(un) = 0
  <2>1. <<>> \in Seq(Places) /\ Len(<<>>) = 0
    OBVIOUS
  <2> QED
    BY <2>1
<1>3. PICK c \in Entries :
          /\ c = EScan(1, un) /\ c.op = "scan" /\ c.k = 1 /\ c.unavailable = un
          /\ Duty(c) = <<"waiter", Callee>> /\ Owns(c) = {}
          /\ Guards(c) = {Group[j] : j \in Places}
  <2>1. 1 \in 1..Len(Group) + 1
    BY KindsAssumption
  <2> QED
    BY <2>1, EntriesMade, Table
<1>4. PICK es \in Seq(Entries) : es = <<c>> /\ Len(es) = 1 /\ 1..Len(es) = {1} /\ es[1] = c
  BY OneOf
<1>5. Begin(t, es)
  BY <1>2, <1>3, <1>4 DEF RunWhenReady, EScan
<1>6. PICK d0 : d0 = <<"waiter", Callee>>
  OBVIOUS
<1>7. Begins(d0)
  BY <1>1, <1>6, Duties DEF Begins
<1>8. Backed(t, 0, es)
  <2>1. Fact(c)'
    <3>1. 1..c.k - 1 = {} /\ 1..Len(c.unavailable) = {}
      BY <1>2, <1>3
    <3> QED
      BY <1>3, <3>1 DEF Fact
  <2>2. \A v \in Guards(c) : v \in holds'[t]
    BY <1>1, <1>3
  <2> QED
    BY <1>3, <1>4, <2>1, <2>2 DEF Backed
<1>9. PICK gone : gone = Nil
  OBVIOUS
<1>10. GivesUp(t, gone)
  BY <1>1, <1>9 DEF GivesUp
<1>11. ASSUME NEW x \in Values
       PROVE  Accounts(t, 0, es, gone, x)
  <2>1. x # gone /\ refcount[x] \in Nat /\ refcount'[x] = refcount[x]
    BY <1>0, <1>1, <1>9, NilAssumption
  <2>2. H(t) # 0 + 1
    <3>1. H(t) = 0
      BY <1>0, <1>5, BeginBecomes DEF Types
    <3> QED
      BY <3>1
  <2> QED
    BY <1>3, <1>4, <2>1, <2>2 DEF Accounts
<1>12. refcount' \in [Values -> Nat] /\ holds' \in [Threads -> SUBSET Values]
  BY <1>0, <1>1
<1>13. Len(es) > 0 /\ Duty(es[1]) = d0 /\ \A j \in 1..Len(es) : j # 1 => Duty(es[j]) = NoDuty
  BY <1>3, <1>4, <1>6
<1> QED
  BY <1>1, <1>5, <1>7, <1>8, <1>10, <1>11, <1>12, <1>13, BegunKeeps

\* A producer forwards an indirect value, with a reference of its own or with a copy.
LEMMA ResolveKeeps ==
    ASSUME NEW loc, Inv(loc), NEW t \in Threads, NEW i \in Indirect, Resolve(t, i)
    PROVE  \E loc2 : Inv(loc2)'
<1>0. /\ Types /\ Counts(loc) /\ refcount \in [Values -> Nat]
      /\ holds \in [Threads -> SUBSET Values]
  BY DEF Inv, Types
<1>1. PICK v \in Values : v = Target[i] /\ v \in holds[t]
  BY KindsAssumption DEF Resolve
<1>2. /\ i \in holds[t] /\ i \in Values \ produced /\ produced' = produced \cup {i}
      /\ UNCHANGED <<state, head, next, value, payload, freed, counter, asked, ran>>
  BY DEF Resolve, Values
<1>3. v # i
  <2>1. {i} \in SUBSET Indirect /\ {i} # {}
    OBVIOUS
  <2>2. \E j \in {i} : Target[j] \notin {i}
    BY <2>1, ForwardAssumption
  <2> QED
    BY <1>1, <2>2
<1>4. refcount[v] \in Nat /\ refcount[v] > 0
  BY <1>0, <1>1, Referenced
<1>5. PICK c \in Entries :
          /\ c = EForward(i) /\ c.op = "ForwardTo" /\ Duty(c) = <<"set", i>>
          /\ Guards(c) = {i} /\ Owns(c) = {v}
  BY <1>1, EntriesMade, Table
<1>6. PICK es \in Seq(Entries) : es = <<c>> /\ Len(es) = 1 /\ 1..Len(es) = {1} /\ es[1] = c
  BY OneOf
<1>7. Begin(t, es)
  BY <1>5, <1>6 DEF Resolve, EForward
<1>8. PICK d0 : d0 = <<"set", i>>
  OBVIOUS
<1>9. Begins(d0)
  BY <1>2, <1>8 DEF Begins
<1>10. \E gone :
          /\ GivesUp(t, gone)
          /\ \A x \in Values : refcount'[x] = refcount[x] - (IF x = gone THEN 1 ELSE 0)
                                                + (IF x = v THEN 1 ELSE 0)
          /\ refcount' \in [Values -> Nat]
          /\ holds' \in [Threads -> SUBSET Values] /\ i \in holds'[t]
  <2>1. CASE refcount' = [refcount EXCEPT ![v] = refcount[v] + 1] /\ holds' = holds
    <3>1. GivesUp(t, Nil)
      BY <2>1 DEF GivesUp
    <3>2. \A x \in Values : refcount'[x] = refcount[x] - (IF x = Nil THEN 1 ELSE 0)
                                             + (IF x = v THEN 1 ELSE 0)
      BY <1>0, <2>1, NilAssumption
    <3> QED
      BY <1>0, <1>2, <1>4, <2>1, <3>1, <3>2
  <2>2. CASE holds' = [holds EXCEPT ![t] = holds[t] \ {v}] /\ refcount' = refcount
    <3>1. GivesUp(t, v)
      BY <1>1, <2>2 DEF GivesUp
    <3>2. \A x \in Values : refcount'[x] = refcount[x] - (IF x = v THEN 1 ELSE 0)
                                             + (IF x = v THEN 1 ELSE 0)
      BY <1>0, <2>2
    <3>3. holds' \in [Threads -> SUBSET Values] /\ i \in holds'[t]
      BY <1>0, <1>2, <1>3, <2>2
    <3> QED
      BY <1>0, <2>2, <3>1, <3>2, <3>3
  <2>3. \/ refcount' = [refcount EXCEPT ![v] = refcount[v] + 1] /\ holds' = holds
        \/ holds' = [holds EXCEPT ![t] = holds[t] \ {v}] /\ refcount' = refcount
    BY <1>1 DEF Resolve
  <2> QED
    BY <2>1, <2>2, <2>3
<1>11. PICK gone :
          /\ GivesUp(t, gone)
          /\ \A x \in Values : refcount'[x] = refcount[x] - (IF x = gone THEN 1 ELSE 0)
                                                + (IF x = v THEN 1 ELSE 0)
          /\ refcount' \in [Values -> Nat]
          /\ holds' \in [Threads -> SUBSET Values] /\ i \in holds'[t]
  BY <1>10
<1>12. Backed(t, 0, es)
  <2>1. Fact(c)'
    BY <1>5 DEF Fact
  <2> QED
    BY <1>5, <1>6, <1>11, <2>1 DEF Backed
<1>13. gone = v \/ gone = Nil
  BY <1>0, <1>1, <1>4, <1>11 DEF Resolve, GivesUp
<1>14. ASSUME NEW x \in Values
       PROVE  Accounts(t, 0, es, gone, x)
  <2>1. refcount[x] \in Nat
    BY <1>0
  <2>2. H(t) # 0 + 1
    <3>1. H(t) = 0
      BY <1>0, <1>7, BeginBecomes DEF Types
    <3> QED
      BY <3>1
  <2>3. refcount'[x] = refcount[x] - (IF x = gone THEN 1 ELSE 0) + (IF x = v THEN 1 ELSE 0)
    BY <1>11
  <2>4. refcount'[x] = 0 <=> refcount[x] = 0
    <3>1. x # Nil
      BY NilAssumption
    <3> QED
      BY <1>4, <1>13, <2>1, <2>3, <3>1
  <2> QED
    BY <1>5, <1>6, <2>1, <2>2, <2>3, <2>4 DEF Accounts
<1>15. Len(es) > 0 /\ Duty(es[1]) = d0 /\ \A j \in 1..Len(es) : j # 1 => Duty(es[j]) = NoDuty
  BY <1>5, <1>6, <1>8
<1> QED
  BY <1>2, <1>7, <1>9, <1>11, <1>12, <1>14, <1>15, BegunKeeps

\* A thread gives up a reference: a DropRef has it from now on.
LEMMA ReleaseKeeps ==
    ASSUME NEW loc, Inv(loc), NEW t \in Threads, NEW v \in Values, Release(t, v)
    PROVE  Inv(loc)'
<1>0. /\ Types /\ stack \in [Threads -> Seq(Entries)] /\ Located(loc) /\ Progress(loc)
      /\ Counted(loc) /\ refcount \in [Values -> Nat] /\ holds \in [Threads -> SUBSET Values]
  BY DEF Inv, Types
<1>1. /\ v \in holds[t] /\ holds' = [holds EXCEPT ![t] = holds[t] \ {v}]
      /\ UNCHANGED <<state, head, next, value, payload, refcount, freed, counter, produced,
                     asked, ran>>
  BY DEF Release
<1>2. PICK c \in Entries :
        c = Drop(v) /\ c.op = "DropRef" /\ Duty(c) = NoDuty /\ Guards(c) = {} /\ Owns(c) = {v}
  BY EntriesMade, Table
<1>3. PICK es \in Seq(Entries) : es = <<c>> /\ Len(es) = 1 /\ 1..Len(es) = {1} /\ es[1] = c
  BY OneOf
<1>4. Begin(t, es)
  BY <1>2, <1>3 DEF Release
<1>5. PICK b \in Nat : b = 0
  OBVIOUS
<1>6. H(t) = 0 /\ Becomes(t, b, es) /\ H(t) # b + 1
  BY <1>0, <1>4, <1>5, BeginBecomes
<1>7. GivesUp(t, v)
  BY <1>1 DEF GivesUp
<1>8. PICK M \in SUBSET DutySet : M = {}
  OBVIOUS
<1>9. Shifts(t, b, es, M, loc, loc)
  BY <1>0, <1>2, <1>3, <1>6, <1>8 DEF Shifts, Located
<1>10. Backed(t, b, es)
  <2>1. Fact(c)'
    BY <1>2 DEF Fact
  <2> QED
    BY <1>2, <1>3, <2>1 DEF Backed
<1>11. ASSUME NEW x \in Values
       PROVE  Accounts(t, b, es, v, x)
  <2>1. refcount'[x] = refcount[x] /\ refcount[x] \in Nat
    BY <1>0, <1>1
  <2> QED
    BY <1>2, <1>3, <1>6, <2>1 DEF Accounts
<1>12. /\ Located(loc)' /\ Lists(loc)' /\ Guarded' /\ Facts' /\ Contents' /\ Counts(loc)'
  <2>1. UNCHANGED <<state, head, next, payload, value, freed>> /\ produced \subseteq produced'
    BY <1>1
  <2> QED
    BY <1>5, <1>6, <1>7, <1>9, <1>10, <1>11, <2>1, ShiftsStep
<1>13. Progress(loc)' /\ Counted(loc)'
  BY <1>0, <1>1, AtToAt
<1>14. Types'
  <2>1. holds' \in [Threads -> SUBSET Values]
    BY <1>0, <1>1
  <2> QED
    BY <1>0, <1>1, <1>6, <2>1 DEF Types, Becomes
<1> QED
  BY <1>12, <1>13, <1>14 DEF Inv

\* emplace and SetError: the value is stored by the call on top of its NotifyAvailable.
LEMMA EmplaceKeeps ==
    ASSUME NEW loc, Inv(loc), NEW t \in Threads, NEW v \in Concrete, NEW s \in Outcomes,
           v \in holds[t] \ produced, produced' = produced \cup {v},
           Begin(t, Emplacement(v, s)),
           UNCHANGED <<state, head, next, value, payload, refcount, freed, counter, holds,
                       asked, ran>>
    PROVE  \E loc2 : Inv(loc2)'
<1>0. /\ Types /\ stack \in [Threads -> Seq(Entries)] /\ Located(loc) /\ Progress(loc) /\ Facts
      /\ Lists(loc) /\ Guarded /\ Contents /\ Counted(loc) /\ ran \in [Callbacks -> {0, 1}]
      /\ refcount \in [Values -> Nat] /\ produced \subseteq Values
  BY DEF Inv, Types
<1>1. v \in Values \ produced /\ v \notin Indirect
  BY KindsAssumption DEF Values
<1>2. PICK d0 : d0 = <<"set", v>>
  OBVIOUS
<1>3. PICK c1 \in Entries, c2 \in Entries : c1 = EStore(v, s) /\ c2 = ENotify(v, s)
  BY <1>1, EntriesMade
<1>4. /\ c1.op = "store" /\ c1.av = v /\ c1.s = s /\ Duty(c1) = NoDuty /\ Guards(c1) = {v}
      /\ Owns(c1) = {}
      /\ c2.op = "NotifyAvailable" /\ c2.av = v /\ c2.s = s /\ Duty(c2) = d0
      /\ Guards(c2) = {v} /\ Owns(c2) = {}
  BY <1>2, <1>3, Table
<1>5. PICK es : es = <<c1, c2>>
  OBVIOUS
<1>6. /\ es \in Seq(Entries) /\ Len(es) = 2 /\ es[1] = c1 /\ es[2] = c2 /\ 1..Len(es) = {1, 2}
  BY <1>5
<1>7. PICK b \in Nat : b = 0
  OBVIOUS
<1>8. H(t) = 0 /\ Becomes(t, b, es) /\ H(t) # b + 1 /\ H(t) \in {b, b + 1} /\ b <= H(t)
  <2>1. Begin(t, es)
    BY <1>3, <1>5 DEF Emplacement, EStore, ENotify
  <2>2. H(t) = 0 /\ Becomes(t, b, es)
    BY <1>0, <1>6, <1>7, <2>1, BeginBecomes
  <2> QED
    BY <1>7, <2>2
<1>9. H(t)' = 2 /\ At(t, 2)' = c1 /\ At(t, 1)' = c2
  <2>1. \A k \in b + 1..b + Len(es) : At(t, k)' = es[b + Len(es) - k + 1]
    BY <1>6, <1>8, BecomesAt
  <2>2. /\ 1 \in b + 1..b + Len(es) /\ b + Len(es) - 1 + 1 = 2
        /\ 2 \in b + 1..b + Len(es) /\ b + Len(es) - 2 + 1 = 1
    BY <1>6, <1>7
  <2>3. At(t, 1)' = es[2] /\ At(t, 2)' = es[1]
    BY <2>1, <2>2
  <2>4. H(t)' = 2
    BY <1>6, <1>7, <1>8 DEF Becomes
  <2> QED
    BY <1>6, <2>3, <2>4
<1>10. Begins(d0) /\ d0 \in DutySet
  BY <1>1, <1>2, Duties DEF Begins
<1>11. PICK top : top = Place(t, 1)
  OBVIOUS
<1>12. PICK loc2 : loc2 = [d \in DutySet |-> IF d = d0 THEN top ELSE loc[d]]
  OBVIOUS
<1>13. /\ DOMAIN loc2 = DutySet /\ loc2[d0] = top /\ loc2[d0][1] = "at"
       /\ \A d \in DutySet \ {d0} : loc2[d] = loc[d]
  BY <1>10, <1>11, <1>12, PlaceTag
<1>14. /\ d0[1] # "run" /\ loc[d0] = Unborn /\ produced \subseteq produced'
       /\ SameRanks(loc, loc2) /\ Progress(loc2)' /\ Counted(loc2)'
  <2>1. loc2[d0][1] = "at" /\ UNCHANGED <<state, counter, ran>>
    BY <1>13
  <2>2. \A d \in DutySet \ {d0} : loc2[d] = loc[d]
    BY <1>13
  <2> QED
    BY <1>0, <1>10, <2>1, <2>2, BegunDuty
<1>15. Located(loc2)'
  <2>1. PICK M \in SUBSET DutySet : M = {d0}
    BY <1>10
  <2>2. \A d \in M : Fits(d, loc2[d])
    BY <1>11, <1>13, <2>1 DEF Fits
  <2>3. \A d \in M : loc[d][1] # "at"
    BY <1>14, <2>1, EndTags
  <2>4. b + Len(es) - 2 + 1 = 1 /\ 2 \in 1..Len(es)
    BY <1>6, <1>7
  <2>5. \A d \in M : \E j \in 1..Len(es) :
                           Duty(es[j]) = d /\ loc2[d] = Place(t, b + Len(es) - j + 1)
    BY <1>4, <1>6, <1>11, <1>13, <2>1, <2>4
  <2>6. \A j \in 1..Len(es) : Duty(es[j]) # NoDuty =>
              loc2[Duty(es[j])] = Place(t, b + Len(es) - j + 1)
    BY <1>4, <1>6, <1>11, <1>13, <2>4
  <2>7. \A d \in DutySet \ M : loc2[d] = loc[d]
    BY <1>13, <2>1
  <2>8. Moves(t, b, es, loc, loc2)
    BY <1>0, <1>6, <1>8, <1>13, <2>2, <2>3, <2>5, <2>6, <2>7, MovesSome
  <2> QED
    BY <1>0, <1>6, <1>8, <2>8, LocatedStep
<1>16. Lists(loc2)'
  <2>1. \A x \in Values : loc2[<<"run", x>>] = loc[<<"run", x>>]
    <3>1. \A x \in Values : <<"run", x>> \in DutySet \ {d0}
      BY <1>2, Duties
    <3> QED
      BY <1>13, <3>1
  <2>2. /\ UNCHANGED <<head, state>>
        /\ \A n \in Nodes, r \in Nat : loc[NodeDuty(n)] = Ranked(n, r) => next'[n] = next[n]
    OBVIOUS
  <2> QED
    BY <1>0, <1>6, <1>7, <1>8, <1>14, <2>1, <2>2, ListsStep
<1>17. Guarded'
  <2>1. \A j \in 1..Len(es) : \A x \in Guards(es[j]) : x \in holds'[t]
    BY <1>4, <1>6
  <2> QED
    BY <1>0, <1>6, <1>7, <1>8, <2>1, GuardedStep
<1>18. Facts'
  <2>1. Stable /\ Keeps(t, b)
    BY DEF Stable, Keeps
  <2>2. Fact(c1)' /\ Fact(c2)'
    BY <1>1, <1>4 DEF Fact
  <2>3. Shape(t, 2)'
    BY <1>3, <1>4, <1>9 DEF Shape
  <2>4. Shape(t, 1)'
    BY <1>3, <1>4, <1>9 DEF Shape
  <2>5. \A j \in 1..Len(es) : Fact(es[j])' /\ Shape(t, b + Len(es) - j + 1)'
    <3> SUFFICES ASSUME NEW j \in 1..Len(es)
                 PROVE  Fact(es[j])' /\ Shape(t, b + Len(es) - j + 1)'
      OBVIOUS
    <3>1. CASE j = 1
      <4>1. b + Len(es) - j + 1 = 2
        BY <1>6, <1>7, <3>1
      <4> QED
        BY <1>6, <2>2, <2>3, <3>1, <4>1
    <3>2. CASE j = 2
      <4>1. b + Len(es) - j + 1 = 1
        BY <1>6, <1>7, <3>2
      <4> QED
        BY <1>6, <2>2, <2>4, <3>2, <4>1
    <3> QED
      BY <1>6, <3>1, <3>2
  <2> QED
    BY <1>0, <1>6, <1>7, <1>8, <2>1, <2>5, FactsShape
<1>19. Contents'
  BY <1>0, <1>6, <1>7, <1>8, <1>14, ContentsStep
<1>20. Counts(loc2)'
  <2>1. PICK gone : gone = Nil
    OBVIOUS
  <2>2. \A x \in Values : Accounts(t, b, es, gone, x)
    <3> TAKE x \in Values
    <3>1. x # gone /\ refcount'[x] = refcount[x] /\ refcount[x] \in Nat
      BY <1>0, <2>1, NilAssumption
    <3> QED
      BY <1>4, <1>6, <1>8, <3>1 DEF Accounts
  <2>3. /\ \/ gone = Nil /\ holds' = holds
           \/ gone \in holds[t] /\ holds' = [holds EXCEPT ![t] = @ \ {gone}]
        /\ (H(t) = 0 /\ b = 0) \/ (H(t) = b + 1 /\ At(t, H(t)).op # "AddRef")
        /\ UNCHANGED <<value, freed>>
        /\ \A j \in 1..Len(es) : es[j].op # "AddRef"
    BY <1>4, <1>6, <1>7, <1>8, <2>1
  <2> QED
    BY <1>6, <1>8, <1>14, <2>2, <2>3, CountsStep
<1>21. Types'
  <2>1. produced' \subseteq Values
    BY <1>0, <1>1
  <2> QED
    BY <1>0, <1>8, <2>1 DEF Types, Becomes
<1>22. Inv(loc2)'
  BY <1>14, <1>15, <1>16, <1>17, <1>18, <1>19, <1>20, <1>21 DEF Inv
<1> QED
  BY <1>22

\* A producer sets a concrete value.
LEMMA SetKeeps ==
    ASSUME NEW loc, Inv(loc), NEW t \in Threads, NEW v \in Concrete, NEW s \in Outcomes,
           Set(t, v, s)
    PROVE  \E loc2 : Inv(loc2)'
<1>0. /\ Types /\ refcount \in [Values -> Nat] /\ holds \in [Threads -> SUBSET Values] /\ Contents
  BY DEF Inv, Types
<1>1. /\ v \in holds[t] \ produced /\ produced' = produced \cup {v}
      /\ UNCHANGED <<state, head, next, value, payload, refcount, freed, counter, holds, asked,
                     ran>>
  BY DEF Set
<1>2. v \in Values \ produced /\ v \notin Indirect
  BY <1>1, KindsAssumption DEF Values
<1>3. CASE s = "Error" \/ Born[v] = "Unconstructed"
  <2>1. Begin(t, Emplacement(v, s))
    BY <1>3 DEF Set
  <2> QED
    BY <1>1, <2>1, EmplaceKeeps
<1>4. CASE ~(s = "Error" \/ Born[v] = "Unconstructed")
  <2>1. payload[v] = Stored(s)
    BY <1>0, <1>2, <1>4 DEF Contents, Stored
  <2>2. PICK c \in Entries :
          /\ c = ENotify(v, s) /\ c.op = "NotifyAvailable" /\ c.av = v /\ c.s = s
          /\ Duty(c) = <<"set", v>> /\ Guards(c) = {v} /\ Owns(c) = {}
    BY <1>2, EntriesMade, Table
  <2>3. PICK es \in Seq(Entries) : es = <<c>> /\ Len(es) = 1 /\ 1..Len(es) = {1} /\ es[1] = c
    BY OneOf
  <2>4. Begin(t, es)
    BY <1>4, <2>2, <2>3 DEF Set, ENotify
  <2>5. PICK d0 : d0 = <<"set", v>>
    OBVIOUS
  <2>6. Begins(d0)
    BY <1>1, <1>2, <2>5 DEF Begins
  <2>7. Backed(t, 0, es)
    <3>1. Fact(c)'
      BY <1>2, <2>2 DEF Fact
    <3>2. v \in holds'[t] /\ payload'[v] = Stored(s)
      BY <1>1, <2>1
    <3> QED
      BY <2>2, <2>3, <3>1, <3>2 DEF Backed
  <2>8. PICK gone : gone = Nil
    OBVIOUS
  <2>9. GivesUp(t, gone)
    BY <1>1, <2>8 DEF GivesUp
  <2>10. ASSUME NEW x \in Values
         PROVE  Accounts(t, 0, es, gone, x)
    <3>1. x # gone /\ refcount[x] \in Nat /\ refcount'[x] = refcount[x]
      BY <1>0, <1>1, <2>8, NilAssumption
    <3>2. H(t) # 0 + 1
      <4>1. H(t) = 0
        BY <1>0, <2>4, BeginBecomes DEF Types
      <4> QED
        BY <4>1
    <3> QED
      BY <2>2, <2>3, <3>1, <3>2 DEF Accounts
  <2>11. refcount' \in [Values -> Nat] /\ holds' \in [Threads -> SUBSET Values]
    BY <1>0, <1>1
  <2>12. Len(es) > 0 /\ Duty(es[1]) = d0 /\ \A j \in 1..Len(es) : j # 1 => Duty(es[j]) = NoDuty
    BY <2>2, <2>3, <2>5
  <2> QED
    BY <1>1, <2>4, <2>6, <2>7, <2>9, <2>10, <2>11, <2>12, BegunKeeps
<1> QED
  BY <1>3, <1>4

-----------------------------------------------------------------------------
(* The invariant holds in every reachable state.                            *)

\* At first no value has a waiter and nothing is on a stack.
LEMMA InitInv ==
    ASSUME Init
    PROVE  \E loc : Inv(loc)
<1>0. PICK loc : loc = [d \in DutySet |->
                          IF d[1] = "set" THEN (IF Born[d[2]] = "Error" THEN Over ELSE Unborn)
                          ELSE IF d[1] = "waiter" THEN Unborn ELSE Over]
  OBVIOUS
<1>1. /\ DOMAIN loc = DutySet
      /\ \A v \in Values : loc[<<"set", v>>] = IF Born[v] = "Error" THEN Over ELSE Unborn
      /\ \A v \in Values : loc[<<"run", v>>] = Over
      /\ \A w \in Callbacks : loc[<<"waiter", w>>] = Unborn
      /\ \A k \in Places : loc[<<"count", k>>] = Over
      /\ \A d \in DutySet : loc[d] \in {Unborn, Over}
  BY <1>0, Duties
<1>2. \A d \in DutySet : loc[d][1] # "at" /\ loc[d][1] # "list"
  BY <1>1, EndTags
<1>3. ASSUME NEW t \in Threads
      PROVE  stack[t] = <<>> /\ H(t) = 0 /\ 1..H(t) = {}
  <2>1. stack[t] = <<>>
    BY DEF Init
  <2> QED
    BY <2>1 DEF H
<1>4. \A v \in Values : /\ state[v] = Born[v] /\ (Available(v) <=> Born[v] = "Error")
                        /\ Born[v] \in Unavailable \cup {"Error"}
  <2>1. \A v \in Values : state[v] = Born[v] /\ Born[v] \in Unavailable \cup {"Error"}
    BY KindsAssumption DEF Init
  <2> QED
    BY <2>1 DEF Available, Unavailable
<1>5. \A n \in Nodes : \A m, r : loc[NodeDuty(n)] # Ranked(m, r)
  BY <1>2, NodeValues, RankTag
<1>6. ASSUME NEW v \in Values
      PROVE  /\ IsFiniteSet({t \in Threads : v \in Given[t]})
             /\ refcount[v] = Cardinality({t \in Threads : v \in Given[t]})
             /\ refcount[v] \in Nat /\ refcount[v] > 0
  <2>1. {t \in Threads : v \in Given[t]} \subseteq Threads
    OBVIOUS
  <2>2. IsFiniteSet({t \in Threads : v \in Given[t]})
    BY <2>1, FiniteAssumption, FS_Subset
  <2>3. Producer[v] \in {t \in Threads : v \in Given[t]}
    BY KindsAssumption
  <2>4. PICK S : S = {t \in Threads : v \in Given[t]}
    OBVIOUS
  <2>5. Cardinality(S) \in Nat /\ Cardinality(S) > 0
    <3>1. IsFiniteSet(S) /\ Producer[v] \in S
      BY <2>2, <2>3, <2>4
    <3> QED
      BY ONLY <3>1, NonEmptyCount
  <2> QED
    BY <2>2, <2>4, <2>5 DEF Init
<1>7. Types
  <2>1. stack \in [Threads -> Seq(Entries)]
    <3>1. <<>> \in Seq(Entries)
      OBVIOUS
    <3> QED
      BY <3>1 DEF Init
  <2>2. state \in [Values -> Unavailable \cup Outcomes]
    BY KindsAssumption DEF Init, Outcomes
  <2>3. refcount \in [Values -> Nat]
    <3>1. \A v \in Values : Cardinality({t \in Threads : v \in Given[t]}) \in Nat
      BY <1>6
    <3> QED
      BY <3>1 DEF Init
  <2>4. /\ head \in [Values -> Links] /\ next \in [Nodes -> Links]
        /\ value \in [Indirect -> Concrete \cup {Nil}]
    BY DEF Init, Links
  <2>5. payload \in [Concrete -> {"none", "data", "error"}]
    BY DEF Init
  <2>6. /\ freed \subseteq Values /\ counter \in Nat /\ holds \in [Threads -> SUBSET Values]
        /\ produced \subseteq Values /\ asked \subseteq Callbacks
    BY KindsAssumption DEF Init
  <2>7. ran \in [Callbacks -> {0, 1}]
    BY DEF Init, Callbacks
  <2> QED
    BY <2>1, <2>2, <2>3, <2>4, <2>5, <2>6, <2>7 DEF Types
<1>8. Located(loc)
  <2>1. \A d \in DutySet : Fits(d, loc[d])
    BY <1>1 DEF Fits
  <2>2. \A d \in DutySet : \A t, k : loc[d] # Place(t, k)
    BY <1>2, PlaceTag
  <2> QED
    BY <1>1, <1>3, <2>1, <2>2 DEF Located
<1>9. Progress(loc)
  <2>1. \A v \in Values : v \in produced <=> Born[v] = "Error"
    BY DEF Init
  <2>2. \A w \in Callbacks : w \notin asked /\ ran[w] # 1
    BY DEF Init, Callbacks
  <2> QED
    BY <1>1, <1>4, <2>1, <2>2, EndTags DEF Progress
<1>10. Lists(loc)
  <2>1. \A v : FirstOf(loc, v, Nil)
    BY <1>5, NilAssumption DEF FirstOf
  <2>2. \A v \in Values : head[v] = Nil
    BY DEF Init
  <2> QED
    BY <1>1, <1>5, <2>1, <2>2 DEF Lists
<1>11. Guarded /\ Facts
  BY <1>3 DEF Guarded, Facts
<1>12. Contents
  <2>1. \A v \in Concrete : v \in Values /\ payload[v] =
            IF Born[v] = "Unconstructed" THEN "none"
            ELSE IF Born[v] = "Error" THEN "error" ELSE "data"
    BY DEF Init, Values
  <2>2. \A v \in Concrete : Available(v) => payload[v] = Stored(state[v])
    BY <1>4, <2>1 DEF Stored
  <2>3. \A v \in Concrete \ produced : Born[v] = "Unconstructed" \/ payload[v] = "data"
    BY <2>1 DEF Init
  <2>4. \A i \in Indirect : ~Available(i) /\ value[i] = Nil
    BY <1>4, KindsAssumption DEF Init, Values
  <2> QED
    BY <2>2, <2>3, <2>4 DEF Contents
<1>13. Counted(loc)
  <2>1. Active(loc) = {} /\ loc[<<"waiter", Callee>>] # Divided
    BY <1>1, Duties, EndTags DEF Active
  <2> QED
    BY <1>5, <2>1 DEF Counted
<1>14. Counts(loc)
  <2> SUFFICES ASSUME NEW v \in Values
               PROVE  /\ IsFiniteSet(ByThreads(v)) /\ IsFiniteSet(ByCalls(v))
                      /\ IsFiniteSet(ByNodes(loc, v)) /\ IsFiniteSet(ByValues(v))
                      /\ refcount[v] = Cardinality(ByThreads(v)) + Cardinality(ByCalls(v))
                           + Cardinality(ByNodes(loc, v)) + Cardinality(ByValues(v))
                      /\ v \in freed <=> refcount[v] = 0
    BY DEF Counts
  <2>1. ByThreads(v) = {t \in Threads : v \in Given[t]}
    BY DEF ByThreads, Init
  <2>2. ByCalls(v) = {}
    <3>1. \A p \in Threads \X Nat : p[1] \in Threads
      OBVIOUS
    <3> QED
      BY <1>3, <3>1 DEF ByCalls
  <2>3. ByNodes(loc, v) = {}
    BY <1>5 DEF ByNodes
  <2>4. ByValues(v) = {}
    BY NilAssumption DEF ByValues, Init
  <2>5. IsFiniteSet({}) /\ Cardinality({}) = 0
    BY FS_EmptySet
  <2>6. v \notin freed
    BY DEF Init
  <2> QED
    BY <1>6, <2>1, <2>2, <2>3, <2>4, <2>5, <2>6
<1>15. Inv(loc)
  BY <1>7, <1>8, <1>9, <1>10, <1>11, <1>12, <1>13, <1>14 DEF Inv
<1> QED
  BY <1>15

\* A stuttering step keeps it.
LEMMA StutterKeeps ==
    ASSUME NEW loc, Inv(loc), UNCHANGED vars
    PROVE  Inv(loc)'
<1>0. UNCHANGED <<state, head, next, value, payload, refcount, freed, counter, stack, holds,
                  produced, asked, ran>>
  BY DEF vars
<1>1. /\ \A v : Available(v)' <=> Available(v)
      /\ \A t : H(t)' = H(t)
      /\ \A t, k : At(t, k)' = At(t, k)
  BY <1>0 DEF Available, H, At, From
<1>2. Types' /\ Located(loc)' /\ Progress(loc)'
  BY <1>0, <1>1 DEF Inv, Types, Located, Progress
<1>3. Lists(loc)'
  <2> DEFINE RunOf(v) == \E t \in Threads : \E k \in 1..H(t) :
                            /\ loc[<<"run", v>>] = Place(t, k)
                            /\ FirstOf(loc, v, At(t, k).list)
  <2>1. \A v \in Values : RunOf(v)' <=> RunOf(v)
    BY <1>0, <1>1 DEF FirstOf
  <2>2. \A v, f : FirstOf(loc, v, f)' <=> FirstOf(loc, v, f)
    BY DEF FirstOf
  <2>3. \A v \in Values :
          /\ ~Available(v) => FirstOf(loc, v, head[v])
          /\ Available(v) => head[v] = Nil
          /\ Available(v) /\ loc[<<"run", v>>] = Over => FirstOf(loc, v, Nil)
          /\ loc[<<"run", v>>] # Over => Available(v) /\ RunOf(v)
    BY DEF Inv, Lists
  <2> HIDE DEF RunOf
  <2>4. \A v \in Values :
          /\ ~Available(v)' => FirstOf(loc, v, head'[v])
          /\ Available(v)' => head'[v] = Nil
          /\ Available(v)' /\ loc[<<"run", v>>] = Over => FirstOf(loc, v, Nil)
          /\ loc[<<"run", v>>] # Over => Available(v)' /\ RunOf(v)'
    BY <1>0, <1>1, <2>1, <2>3
  <2>5. \A n \in Nodes, r \in Nat : loc[NodeDuty(n)] = Ranked(n, r) =>
          IF r = 1 THEN next'[n] = Nil
          ELSE /\ next'[n] \in Nodes /\ next'[n].av = n.av
               /\ loc[NodeDuty(next'[n])] = Ranked(next'[n], r - 1)
    BY <1>0 DEF Inv, Lists
  <2>6. /\ \A n \in Nodes : \A m, r : loc[NodeDuty(n)] = Ranked(m, r) => r \in Nat \ {0}
        /\ \A n, m \in Nodes, r \in Nat :
              /\ loc[NodeDuty(n)] = Ranked(n, r) /\ loc[NodeDuty(m)] = Ranked(m, r)
              /\ n.av = m.av
              => n = m
    BY DEF Inv, Lists
  <2> QED
    BY ONLY <2>2, <2>4, <2>5, <2>6 DEF Lists, FirstOf, RunOf
<1>4. Guarded'
  BY <1>0, <1>1 DEF Inv, Guarded, Protected
<1>5. Facts'
  BY <1>0, <1>1 DEF Inv, Facts, Fact, Shape, NodeFact, Forwarded
<1>6. Contents'
  BY <1>0, <1>1 DEF Inv, Contents, Stored
<1>7. Counted(loc)'
  BY <1>0, <1>1 DEF Inv, Counted, Active, NodeFact
<1>8. Counts(loc)'
  BY <1>0, <1>1 DEF Inv, Counts, ByThreads, ByCalls, ByNodes, ByValues, Own
<1> QED
  BY <1>2, <1>3, <1>4, <1>5, <1>6, <1>7, <1>8 DEF Inv

\* Every step keeps it.
LEMMA NextInv ==
    ASSUME NEW loc, Inv(loc), [Next]_vars
    PROVE  \E loc2 : Inv(loc2)'
<1>1. CASE UNCHANGED vars
  BY <1>1, StutterKeeps
<1>2. ASSUME NEW t \in Threads, Step(t)
      PROVE  \E loc2 : Inv(loc2)'
  <2>1. CASE AndThen(t)
    BY <2>1, AndThenKeeps
  <2>2. CASE EnqueueWaiterListNode(t)
    BY <2>2, EnqueueKeeps
  <2>3. CASE RunWaiters(t)
    BY <2>3, RunWaitersKeeps
  <2>4. CASE Call(t)
    BY <2>4, CallKeeps
  <2>5. CASE Store(t)
    BY <2>5, StoreKeeps
  <2>6. CASE NotifyAvailable(t)
    BY <2>6, NotifyKeeps
  <2>7. CASE ForwardTo(t)
    BY <2>7, ForwardToKeeps
  <2>8. CASE SetValue(t)
    BY <2>8, SetValueKeeps
  <2>9. CASE AddRef(t)
    BY <2>9, AddRefKeeps
  <2>10. CASE DropRef(t)
    BY <2>10, DropRefKeeps
  <2>11. CASE DropRefSub(t)
    BY <2>11, DropRefSubKeeps
  <2>12. CASE Scan(t)
    BY <2>12, ScanKeeps
  <2>13. CASE EndScan(t)
    BY <2>13, EndScanKeeps
  <2>14. CASE FetchSub(t)
    BY <2>14, FetchSubKeeps
  <2>15. CASE Wake(t)
    BY <2>15, WakeKeeps
  <2> QED
    BY <1>2, <2>1, <2>2, <2>3, <2>4, <2>5, <2>6, <2>7, <2>8, <2>9, <2>10, <2>11, <2>12, <2>13,
       <2>14, <2>15 DEF Step
<1>3. ASSUME NEW t \in Threads, Client(t)
      PROVE  \E loc2 : Inv(loc2)'
  <2>1. CASE \E w \in Waiters : Wait(t, w)
    BY <2>1, WaitKeeps
  <2>2. CASE RunWhenReady(t)
    BY <2>2, RunWhenReadyKeeps
  <2>3. CASE \E v \in Concrete, s \in {"Concrete", "Error"} : Set(t, v, s)
    <3>1. PICK v \in Concrete, s \in Outcomes : Set(t, v, s)
      BY <2>3 DEF Outcomes
    <3> QED
      BY <3>1, SetKeeps
  <2>4. CASE \E i \in Indirect : Resolve(t, i)
    BY <2>4, ResolveKeeps
  <2>5. CASE \E v \in Values : Release(t, v)
    BY <2>5, ReleaseKeeps
  <2> QED
    BY <1>3, <2>1, <2>2, <2>3, <2>4, <2>5 DEF Client
<1> QED
  BY <1>1, <1>2, <1>3 DEF Next


-----------------------------------------------------------------------------
(* Theorems.                                                                *)

\* The invariant, without the places of the duties.
Invariant == \E loc : Inv(loc)

\* Every duty has its place and every reference its owner, in every reachable state.
THEOREM AlwaysInvariant == Spec => []Invariant
<1>1. Init => Invariant
  BY InitInv DEF Invariant
<1>2. Invariant /\ [Next]_vars => Invariant'
  BY NextInv DEF Invariant
<1> QED
  BY <1>1, <1>2, PTL DEF Spec

\* A pending call is an entry of a stack.
LEMMA PendingAt ==
    ASSUME stack \in [Threads -> Seq(Entries)], NEW c \in Pending
    PROVE  \E t \in Threads : \E k \in 1..H(t) : k \in Nat /\ c = At(t, k) /\ c \in Entries
<1>0. PICK t \in Threads : c \in {stack[t][k] : k \in 1..Len(stack[t])}
  BY DEF Pending
<1>1. PICK j \in 1..Len(stack[t]) : c = stack[t][j]
  BY <1>0
<1>2. PICK k : k = Len(stack[t]) - j + 1
  OBVIOUS
<1>3. Len(stack[t]) \in Nat /\ j \in Int
  OBVIOUS
<1>4. k \in 1..H(t) /\ k \in Nat /\ Len(stack[t]) - k + 1 = j
  BY <1>2, <1>3 DEF H
<1>5. c = At(t, k)
  BY <1>1, <1>4 DEF At, From
<1>6. c \in Entries
  BY <1>4, <1>5, StackTypes
<1> QED
  BY <1>4, <1>5, <1>6

\* The calls that have values.
LEMMA EntryFields ==
    ASSUME NEW e \in Entries
    PROVE  /\ "av" \in DOMAIN e =>
                e.op \in {"store", "NotifyAvailable", "ForwardTo", "SetValue", "AddRef", "DropRef",
                          "DropRef_fetch_sub"}
           /\ "to" \in DOMAIN e => e.op \in {"ForwardTo", "SetValue"}
           /\ "node" \in DOMAIN e => e.op \in {"AndThen", "compare_exchange"}
BY DEF Entries, EAndThen, ECas, EStore, ENotify, ERun, ECall, EForward, ESet, EAddRef, Drop,
       ESub, EScan, ECount, EWait


\* An entry other than a SetValue whose AddRef is to come keeps what it owns alive.
LEMMA OwnedAlive ==
    ASSUME NEW loc, Inv(loc), NEW t \in Threads, NEW k \in 1..H(t), k \in Nat,
           At(t, k).op # "SetValue", NEW v \in Owns(At(t, k)), v \in Values
    PROVE  v \notin freed
<1>1. Counts(loc)
  BY DEF Inv
<1>2. v \in Own(t, k)
  BY DEF Own
<1> QED
  BY <1>1, <1>2, Referenced

\* What an entry uses without a reference of its own is alive.
LEMMA UsedAlive ==
    ASSUME NEW loc, Inv(loc), NEW t \in Threads, NEW k \in 1..H(t), NEW v \in Guards(At(t, k))
    PROVE  v \notin freed
<1>1. /\ stack \in [Threads -> Seq(Entries)] /\ holds \in [Threads -> SUBSET Values]
      /\ Counts(loc) /\ Guarded
  BY DEF Inv, Types
<1> QED
  BY <1>1, GuardsAlive

\* No entry touches a value that was destroyed.
LEMMA EntryAlive ==
    ASSUME NEW loc, Inv(loc), NEW t \in Threads, NEW k \in 1..H(t), k \in Nat, NEW e \in Entries,
           e = At(t, k)
    PROVE  /\ "av" \in DOMAIN e => e.av \notin freed
           /\ "to" \in DOMAIN e => e.to \notin freed
           /\ "node" \in DOMAIN e => e.node.av \notin freed
<1>0. /\ stack \in [Threads -> Seq(Entries)] /\ Counts(loc)
      /\ \A j \in 1..H(t) : Shape(t, j)
  BY DEF Inv, Types, Facts
<1>1. /\ \A v \in Concrete \cup Indirect : v \in Values
      /\ \A i \in Indirect : Target[i] \in Values
  BY KindsAssumption DEF Values
<1>2. H(t) \in Nat
  BY <1>0, StackTypes
<1>3. \A v \in Guards(e) : v \notin freed
  BY UsedAlive
<1>4. e.op # "SetValue" => \A v \in Owns(e) : v \in Values => v \notin freed
  BY OwnedAlive
<1>5. \A v \in Indirect : value[v] \in Values => value[v] \notin freed
  BY <1>0, Referenced
<1>6. ASSUME "av" \in DOMAIN e
      PROVE  e.av \notin freed
  <2>1. CASE e.op = "store"
    <3>1. PICK v \in Concrete, s \in Outcomes : e = EStore(v, s)
      BY <2>1, EntryForms
    <3> QED
      BY <1>3, <3>1, Table
  <2>2. CASE e.op = "NotifyAvailable"
    <3>1. PICK v \in Values, s \in Outcomes : e = ENotify(v, s)
      BY <2>2, EntryForms
    <3> QED
      BY <1>3, <3>1, Table
  <2>3. CASE e.op = "ForwardTo"
    <3>1. PICK i \in Indirect : e = EForward(i)
      BY <2>3, EntryForms
    <3> QED
      BY <1>3, <3>1, Table
  <2>4. CASE e.op = "SetValue"
    <3>1. PICK i \in Indirect, u \in Concrete, s \in Outcomes : e = ESet(i, u, s)
      BY <2>4, EntryForms
    <3> QED
      BY <1>3, <3>1, Table
  <2>5. CASE e.op = "AddRef"
    <3>1. PICK u \in Concrete : e = EAddRef(u)
      BY <2>5, EntryForms
    <3>2. e.av = u /\ u \in Values
      BY <1>1, <3>1, Table
    <3>3. PICK v \in Indirect : value[v] = e.av
      BY <1>0, <2>5 DEF Shape
    <3> QED
      BY <1>5, <3>2, <3>3
  <2>6. CASE e.op = "DropRef"
    <3>1. PICK v \in Values : e = Drop(v)
      BY <2>6, EntryForms
    <3> QED
      BY <1>4, <2>6, <3>1, Table
  <2>7. CASE e.op = "DropRef_fetch_sub"
    <3>1. PICK v \in Values : e = ESub(v)
      BY <2>7, EntryForms
    <3> QED
      BY <1>4, <2>7, <3>1, Table
  <2> QED
    BY <1>6, <2>1, <2>2, <2>3, <2>4, <2>5, <2>6, <2>7, EntryFields
<1>7. ASSUME "to" \in DOMAIN e
      PROVE  e.to \notin freed
  <2>1. CASE e.op = "ForwardTo"
    <3>1. PICK i \in Indirect : e = EForward(i)
      BY <2>1, EntryForms
    <3> QED
      BY <1>1, <1>4, <2>1, <3>1, Table
  <2>2. CASE e.op = "SetValue"
    <3>1. PICK i \in Indirect, u \in Concrete, s \in Outcomes : e = ESet(i, u, s)
      BY <2>2, EntryForms
    <3>2. e.to = u /\ u \in Values /\ Owns(e) = {u}
      BY <1>1, <3>1, Table
    <3>3. CASE H(t) = k + 2 /\ At(t, k + 2).op = "AddRef"
      <4>1. k + 2 \in 1..H(t) /\ (k + 2) - 2 = k
        BY <1>2, <3>3
      <4>2. PICK m : m = k + 2
        OBVIOUS
      <4>3. /\ \E v \in Indirect : value[v] = At(t, m).av
            /\ \E j \in Indirect, x \in Outcomes : At(t, k) = ESet(j, At(t, m).av, x)
        BY <1>0, <3>3, <4>1, <4>2 DEF Shape
      <4>4. e.to = At(t, m).av
        BY <4>3, Table
      <4> QED
        BY <1>5, <3>2, <4>3, <4>4
    <3>4. CASE ~(H(t) = k + 2 /\ At(t, k + 2).op = "AddRef")
      <4>1. u \in Own(t, k)
        BY <3>2, <3>4 DEF Own
      <4> QED
        BY <1>0, <3>2, <4>1, Referenced
    <3> QED
      BY <3>3, <3>4
  <2> QED
    BY <1>7, <2>1, <2>2, EntryFields
<1>8. ASSUME "node" \in DOMAIN e
      PROVE  e.node.av \notin freed
  <2>1. e.op \in {"AndThen", "compare_exchange"}
    BY <1>8, EntryFields
  <2>2. PICK n \in Nodes : e.node = n /\ Guards(e) = NodeGuards(n) /\ Owns(e) = NodeOwns(n)
    <3>1. CASE e.op = "AndThen"
      BY <3>1, EntryForms, Table
    <3>2. CASE e.op = "compare_exchange"
      BY <3>2, EntryForms, Table
    <3> QED
      BY <2>1, <3>1, <3>2
  <2>3. n.av \in Values
    BY NodeValues
  <2>4. n.av \in NodeGuards(n) \/ n.av \in NodeOwns(n)
    BY NodeForms, NodeTable
  <2> QED
    BY <1>3, <1>4, <2>1, <2>2, <2>3, <2>4
<1> QED
  BY <1>6, <1>7, <1>8

\* No thread is about to touch a value that was destroyed (DropRef frees a value that
\* another thread still uses, or a list runs after its value is gone).
THEOREM NothingFreedIsUsed == Spec => []NoUseAfterFree
<1>1. ASSUME NEW loc, Inv(loc)
      PROVE  NoUseAfterFree
  <2>1. stack \in [Threads -> Seq(Entries)] /\ Counts(loc) /\ freed \subseteq Values
    BY <1>1 DEF Inv, Types
  <2>2. ASSUME NEW c \in Pending
        PROVE  /\ "av" \in DOMAIN c => c.av \notin freed
               /\ "to" \in DOMAIN c => c.to \notin freed
               /\ "node" \in DOMAIN c => c.node.av \notin freed
    <3>1. PICK t \in Threads : \E k \in 1..H(t) : k \in Nat /\ c = At(t, k) /\ c \in Entries
      BY <2>1, PendingAt
    <3>2. PICK k \in 1..H(t) : k \in Nat /\ c = At(t, k) /\ c \in Entries
      BY <3>1
    <3> QED
      BY <1>1, <3>2, EntryAlive
  <2>3. Touched \cap freed = {}
    BY <2>2 DEF Touched
  <2>4. \A i \in Indirect : value[i] \in Values => value[i] \notin freed
    BY <2>1, Referenced
  <2> QED
    BY <2>1, <2>3, <2>4 DEF NoUseAfterFree
<1>2. Invariant => NoUseAfterFree
  BY <1>1 DEF Invariant
<1> QED
  BY <1>2, AlwaysInvariant, PTL


\* A callback that is about to run finds its value alive, and in it what the state says:
\* NotifyAvailable publishes data_store_ and value_, and a waiter keeps what it reads.
THEOREM CallbacksSeeValues == Spec => []WaiterSeesValue
<1>1. ASSUME NEW loc, Inv(loc)
      PROVE  WaiterSeesValue
  <2>1. /\ stack \in [Threads -> Seq(Entries)] /\ Counts(loc) /\ freed \subseteq Values
        /\ state \in [Values -> Unavailable \cup Outcomes] /\ Contents
        /\ \A t \in Threads : \A k \in 1..H(t) : Fact(At(t, k))
    BY <1>1 DEF Inv, Types, Facts
  <2> SUFFICES ASSUME NEW c \in Pending, c.op = "call", c.w \in Waiters, NEW v, v = On[c.w]
               PROVE  /\ Available(v) /\ v \notin freed
                      /\ Underlying(v) \in Concrete \ freed
                      /\ payload[Underlying(v)] = Stored(state[v])
    BY DEF WaiterSeesValue, Stored
  <2>2. PICK t \in Threads : \E k \in 1..H(t) : k \in Nat /\ c = At(t, k) /\ c \in Entries
    BY <2>1, PendingAt
  <2>3. PICK k \in 1..H(t) : k \in Nat /\ c = At(t, k) /\ c \in Entries
    BY <2>2
  <2>4. PICK w \in Callbacks : c = ECall(w)
    BY <2>3, EntryForms
  <2>5. w \in Waiters /\ v = On[w] /\ w # Callee /\ v \in Values /\ Guards(At(t, k)) = {On[w]}
    BY <2>3, <2>4, Table, KindsAssumption
  <2>6. v \notin freed
    BY <1>1, <2>5, UsedAlive
  <2>7. Available(v)
    <3>1. \A x \in Needs(c.w) : Available(x)
      BY <2>1, <2>3 DEF Fact
    <3> QED
      BY <2>4, <2>5, <3>1, Table DEF Needs
  <2>8. CASE v \in Concrete
    BY <2>1, <2>6, <2>7, <2>8 DEF Underlying, Contents
  <2>9. CASE v \in Indirect
    <3>1. v \notin Concrete
      BY <2>9, KindsAssumption
    <3>2. value[v] \in Concrete /\ state[value[v]] = state[v]
      BY <2>1, <2>6, <2>7, <2>9 DEF Contents
    <3>3. value[v] \in Values /\ value[v] \notin freed
      BY <2>1, <2>9, <3>2, Referenced DEF Values
    <3>4. Available(value[v])
      BY <2>7, <3>2 DEF Available
    <3>5. payload[value[v]] = Stored(state[v])
      BY <2>1, <3>2, <3>4 DEF Contents
    <3> QED
      BY <2>6, <2>7, <3>1, <3>2, <3>3, <3>5 DEF Underlying
  <2> QED
    BY <2>5, <2>8, <2>9 DEF Values
<1>2. Invariant => WaiterSeesValue
  BY <1>1 DEF Invariant
<1> QED
  BY <1>2, AlwaysInvariant, PTL

\* Once every thread is idle no duty is on a stack.
LEMMA NothingOnStacks ==
    ASSUME NEW loc, Inv(loc), \A t \in Threads : Idle(t), NEW d \in DutySet
    PROVE  loc[d][1] # "at"
<1>1. stack \in [Threads -> Seq(Entries)] /\ Located(loc)
  BY DEF Inv, Types
<1>2. \A t \in Threads : H(t) = 0
  BY <1>1, StackTypes DEF Idle
<1>3. \A t, k : loc[d] # Place(t, k)
  BY <1>1, <1>2 DEF Located
<1>4. Fits(d, loc[d])
  BY <1>1 DEF Located
<1> QED
  BY <1>3, <1>4, EndTags, RankTag DEF Fits


\* Once every thread is idle, no node is in the list of an available value.
LEMMA ListsEmptied ==
    ASSUME NEW loc, Inv(loc), \A t \in Threads : Idle(t),
           NEW n \in Nodes, NEW r \in Nat, Available(n.av)
    PROVE  loc[NodeDuty(n)] # Ranked(n, r)
<1>1. Lists(loc) /\ n.av \in Values
  BY NodeValues DEF Inv
<1>2. loc[<<"run", n.av>>][1] # "at"
  BY <1>1, Duties, NothingOnStacks
<1>3. loc[<<"run", n.av>>] = Over
  BY <1>1, <1>2, PlaceTag DEF Lists
<1>4. FirstOf(loc, n.av, Nil)
  BY <1>1, <1>3 DEF Lists
<1> QED
  BY <1>4, NilAssumption DEF FirstOf

\* A value that is not available, though its producer is done, waits for its target.
LEMMA OnlyForwardsWait ==
    ASSUME NEW loc, Inv(loc), \A t \in Threads : Idle(t), produced = Values,
           NEW v \in Values, ~Available(v)
    PROVE  v \in Indirect /\ ~Available(Target[v])
<1>1. Located(loc) /\ Progress(loc)
  BY DEF Inv
<1>2. PICK d \in DutySet : d = <<"set", v>>
  BY Duties
<1>3. loc[d] # Unborn /\ loc[d] # Over /\ Fits(d, loc[d]) /\ loc[d][1] # "at"
  BY <1>1, <1>2, NothingOnStacks DEF Located, Progress
<1>4. d[1] = "set"
  BY <1>2
<1>5. PICK n \in Nodes, r \in Nat : NodeDuty(n) = d /\ loc[d] = Ranked(n, r)
  BY <1>3, <1>4, PlaceTag DEF Fits
<1>6. v \in Indirect /\ n = Forward(v)
  BY <1>2, <1>5, NodeForms, NodeTable
<1>7. n.av = Target[v]
  BY <1>6, NodeTable
<1> QED
  BY <1>5, <1>6, <1>7, ListsEmptied

\* Once nobody has a reference and every value was set, all were destroyed: no list, no
\* callback and no chain of indirect values keeps one.
THEOREM NothingLeaks == Spec => []NoLeak
<1>1. ASSUME NEW loc, Inv(loc), \A t \in Threads : Idle(t) /\ holds[t] = {}, produced = Values
      PROVE  freed = Values
  <2>1. /\ stack \in [Threads -> Seq(Entries)] /\ Counts(loc) /\ freed \subseteq Values /\ Contents
        /\ value \in [Indirect -> Concrete \cup {Nil}]
    BY <1>1 DEF Inv, Types
  <2>2. \A v \in Values : ~Available(v) => v \in Indirect /\ ~Available(Target[v])
    BY <1>1, OnlyForwardsWait
  <2>3. \A v \in Values : Available(v)
    <3>1. PICK S : S = {i \in Indirect : ~Available(i)}
      OBVIOUS
    <3>2. \A i \in S : Target[i] \in S
      BY <2>2, <3>1, KindsAssumption DEF Values
    <3>3. S \in SUBSET Indirect
      BY <3>1
    <3>4. S = {}
      BY <3>2, <3>3, ForwardAssumption
    <3> QED
      BY <2>2, <3>1, <3>4
  <2>4. \A n \in Nodes, r \in Nat : loc[NodeDuty(n)] # Ranked(n, r)
    BY <1>1, <2>3, ListsEmptied, NodeValues
  <2>5. \A t \in Threads : H(t) = 0
    BY <1>1, <2>1, StackTypes DEF Idle
  <2>6. ASSUME NEW v \in Values
        PROVE  ByThreads(v) = {} /\ ByCalls(v) = {} /\ ByNodes(loc, v) = {}
    <3>1. ByThreads(v) = {}
      BY <1>1 DEF ByThreads
    <3>2. ByCalls(v) = {}
      <4>1. \A p \in Threads \X Nat : p[1] \in Threads
        OBVIOUS
      <4> QED
        BY <2>5, <4>1 DEF ByCalls
    <3>3. ByNodes(loc, v) = {}
      BY <2>4 DEF ByNodes
    <3> QED
      BY <3>1, <3>2, <3>3
  <2>7. ASSUME NEW v \in Values, ByValues(v) = {}
        PROVE  v \in freed
    <3>1. /\ refcount[v] = Cardinality(ByThreads(v)) + Cardinality(ByCalls(v))
                             + Cardinality(ByNodes(loc, v)) + Cardinality(ByValues(v))
          /\ v \in freed <=> refcount[v] = 0
      BY <2>1 DEF Counts
    <3>2. Cardinality({}) = 0
      BY FS_EmptySet
    <3> QED
      BY <2>6, <2>7, <3>1, <3>2
  <2>8. \A i \in Indirect : i \in freed
    <3>1. \A i \in Indirect : ByValues(i) = {}
      BY <2>1, KindsAssumption, NilAssumption DEF ByValues, Values
    <3> QED
      BY <2>7, <3>1 DEF Values
  <2>9. \A v \in Values : ByValues(v) = {}
    BY <2>1, <2>8, NilAssumption DEF ByValues, Contents
  <2> QED
    BY <2>1, <2>7, <2>9
<1>2. Invariant => NoLeak
  BY <1>1 DEF Invariant, NoLeak
<1> QED
  BY <1>2, AlwaysInvariant, PTL


-----------------------------------------------------------------------------
(* The refinement of Promises.                                              *)

\* The outcomes of the abstract specification.
Outcome == [v \in Values |-> IF Available(v) THEN state[v] ELSE "None"]

\* The available values are the resolved ones.
LEMMA OutcomeOf ==
    ASSUME state \in [Values -> Unavailable \cup Outcomes], NEW v \in Values
    PROVE  /\ Available(v) => Outcome[v] = state[v] /\ Outcome[v] # "None"
           /\ ~Available(v) => Outcome[v] = "None"
           /\ v \in Promise!Resolved <=> Available(v)
<1>1. /\ Available(v) => Outcome[v] = state[v] /\ Outcome[v] # "None"
      /\ ~Available(v) => Outcome[v] = "None"
  BY DEF Outcome, Available, Unavailable, Outcomes
<1>2. Promise!Resolved = {x \in Values : Outcome[x] # "None"}
  BY DEF Promise!Resolved, Outcome
<1> QED
  BY <1>1, <1>2

\* A step that changes none of these is a stuttering step of the promises.
LEMMA PromisesStutter ==
    ASSUME UNCHANGED <<state, asked, ran>>
    PROVE  UNCHANGED Promise!vars
<1>1. Outcome' = Outcome
  BY DEF Outcome, Available
<1> QED
  BY <1>1 DEF Promise!vars, Outcome

\* NotifyAvailable resolves a value that was not resolved.
LEMMA NotifyResolves ==
    ASSUME NEW loc, Inv(loc), NEW t \in Threads, NotifyAvailable(t)
    PROVE  Promise!Next
<1>0. /\ Types /\ stack \in [Threads -> Seq(Entries)] /\ Located(loc) /\ Progress(loc)
      /\ state \in [Values -> Unavailable \cup Outcomes]
      /\ \A k \in 1..H(t) : Fact(At(t, k))
  BY DEF Inv, Types, Facts
<1>1. Top(t, "NotifyAvailable")
  BY DEF NotifyAvailable
<1>2. PICK e \in Entries : /\ e = Head(stack[t]) /\ e = At(t, H(t)) /\ H(t) \in 1..H(t)
                           /\ e.op = "NotifyAvailable"
  BY <1>0, <1>1, TopOf
<1>3. PICK v \in Values, s \in Outcomes : e = ENotify(v, s)
  BY <1>2, EntryForms
<1>4. e.av = v /\ e.s = s /\ Duty(e) = <<"set", v>>
  BY <1>3, Table
<1>5. ~Available(v)
  <2>1. PICK d \in DutySet : d = <<"set", v>>
    BY Duties
  <2>2. loc[d][1] = "at"
    BY <1>0, <1>2, <1>4, <2>1, DutyAt
  <2> QED
    BY <1>0, <2>1, <2>2, EndTags DEF Progress
<1>6. state' = [state EXCEPT ![v] = s] /\ UNCHANGED <<asked, ran>>
  BY <1>2, <1>4 DEF NotifyAvailable, Published
<1>7. s \notin Unavailable
  BY DEF Outcomes, Unavailable
<1>8. Outcome' = [Outcome EXCEPT ![v] = s]
  BY <1>0, <1>6, <1>7 DEF Outcome, Available
<1>9. v \notin Promise!Resolved
  BY <1>0, <1>5, OutcomeOf
<1>10. v \in Indirect => Outcome[Target[v]] = s
  <2> SUFFICES ASSUME v \in Indirect
               PROVE  Outcome[Target[v]] = s
    OBVIOUS
  <2>1. Target[v] \in Values /\ state[Target[v]] = s
    BY <1>0, <1>2, <1>4, KindsAssumption DEF Fact, Forwarded
  <2>2. Available(Target[v])
    BY <1>7, <2>1 DEF Available
  <2> QED
    BY <1>0, <2>1, <2>2, OutcomeOf
<1>11. Promise!Resolve(v, s)
  BY <1>6, <1>8, <1>9, <1>10 DEF Promise!Resolve, Outcome
<1> QED
  BY <1>11 DEF Promise!Next, Outcomes

\* Call runs a waiter that was handed over, has not run and has what it waits for.
LEMMA CallRuns ==
    ASSUME NEW loc, Inv(loc), NEW t \in Threads, Call(t)
    PROVE  Promise!Next
<1>0. /\ Types /\ stack \in [Threads -> Seq(Entries)] /\ Located(loc) /\ Progress(loc)
      /\ state \in [Values -> Unavailable \cup Outcomes] /\ ran \in [Callbacks -> {0, 1}]
      /\ \A k \in 1..H(t) : Fact(At(t, k))
  BY DEF Inv, Types, Facts
<1>1. Top(t, "call")
  BY DEF Call
<1>2. PICK e \in Entries : /\ e = Head(stack[t]) /\ e = At(t, H(t)) /\ H(t) \in 1..H(t)
                           /\ e.op = "call"
  BY <1>0, <1>1, TopOf
<1>3. PICK w \in Callbacks : e = ECall(w)
  BY <1>2, EntryForms
<1>4. e.w = w /\ Duty(e) = <<"waiter", w>>
  BY <1>3, Table
<1>5. w \in asked /\ ran[w] = 0
  <2>1. PICK d \in DutySet : d = <<"waiter", w>>
    BY Duties
  <2>2. loc[d][1] = "at"
    BY <1>0, <1>2, <1>4, <2>1, DutyAt
  <2>3. loc[d] # Over /\ loc[d] # Unborn
    BY <2>2, EndTags
  <2>4. w \in asked /\ ran[w] # 1
    BY <1>0, <2>1, <2>3 DEF Progress
  <2> QED
    BY <1>0, <2>4
<1>6. Needs(w) \subseteq Promise!Resolved
  <2>1. \A v \in Needs(w) : Available(v)
    BY <1>0, <1>2, <1>4 DEF Fact
  <2>2. Needs(w) \subseteq Values
    BY KindsAssumption DEF Needs, Callbacks
  <2> QED
    BY <1>0, <2>1, <2>2, OutcomeOf
<1>7. ran' = [ran EXCEPT ![w] = 1]
  <2>1. ran' = [ran EXCEPT ![w] = @ + 1]
    BY <1>2, <1>4 DEF Call
  <2> QED
    BY <1>0, <1>5, <2>1
<1>8. Outcome' = Outcome /\ UNCHANGED asked
  BY DEF Call, Outcome, Available
<1>9. Promise!Run(w)
  BY <1>5, <1>6, <1>7, <1>8 DEF Promise!Run, Outcome
<1> QED
  BY <1>9 DEF Promise!Next, Callbacks

\* AndThen, BlockUntilReady and RunWhenReady hand a waiter over.
LEMMA HandedOver ==
    ASSUME NEW w \in Callbacks, w \notin asked, asked' = asked \cup {w}, UNCHANGED <<state, ran>>
    PROVE  Promise!Next
<1>1. Outcome' = Outcome
  BY DEF Outcome, Available
<1>2. Promise!Ask(w)
  BY <1>1 DEF Promise!Ask, Outcome
<1> QED
  BY <1>2 DEF Promise!Next, Callbacks

\* Every step is a step of the promises, or none.
LEMMA StepKeepsPromises ==
    ASSUME NEW loc, Inv(loc), [Next]_vars
    PROVE  [Promise!Next]_(Promise!vars)
<1>1. CASE UNCHANGED vars
  BY <1>1, PromisesStutter DEF vars
<1>2. ASSUME NEW t \in Threads, Step(t)
      PROVE  [Promise!Next]_(Promise!vars)
  <2>1. CASE NotifyAvailable(t)
    BY <2>1, NotifyResolves
  <2>2. CASE Call(t)
    BY <2>2, CallRuns
  <2>3. CASE ~NotifyAvailable(t) /\ ~Call(t)
    <3>1. UNCHANGED <<state, asked, ran>>
      BY <1>2, <2>3 DEF Step, AndThen, EnqueueWaiterListNode, RunWaiters, Store, ForwardTo,
           SetValue, AddRef, DropRef, DropRefSub, Scan, EndScan, FetchSub, Wake
    <3> QED
      BY <3>1, PromisesStutter
  <2> QED
    BY <2>1, <2>2, <2>3
<1>3. ASSUME NEW t \in Threads, Client(t)
      PROVE  [Promise!Next]_(Promise!vars)
  <2>1. ASSUME NEW w \in Waiters, Wait(t, w)
        PROVE  Promise!Next
    BY <2>1, HandedOver DEF Wait, Callbacks
  <2>2. ASSUME RunWhenReady(t)
        PROVE  Promise!Next
    BY <2>2, HandedOver, Duties DEF RunWhenReady
  <2>3. ASSUME NEW v \in Concrete, NEW s \in {"Concrete", "Error"}, Set(t, v, s)
        PROVE  UNCHANGED Promise!vars
    BY <2>3, PromisesStutter DEF Set
  <2>4. ASSUME NEW i \in Indirect, Resolve(t, i)
        PROVE  UNCHANGED Promise!vars
    BY <2>4, PromisesStutter DEF Resolve
  <2>5. ASSUME NEW v \in Values, Release(t, v)
        PROVE  UNCHANGED Promise!vars
    BY <2>5, PromisesStutter DEF Release
  <2> QED
    BY <1>3, <2>1, <2>2, <2>3, <2>4, <2>5 DEF Client
<1> QED
  BY <1>1, <1>2, <1>3 DEF Next

\* Asynchronous values implement the promises: a value is resolved once, an indirect one
\* with the outcome of its target, and a waiter runs once, after what it waits for.
THEOREM PromisesKept == Spec => KeepsPromises
<1>1. Init => Promise!Init
  <2> SUFFICES ASSUME Init
               PROVE  Promise!Init
    OBVIOUS
  <2>1. Outcome \in [Values -> {"Error", "None"}]
    BY KindsAssumption DEF Init, Outcome, Available, Unavailable
  <2> QED
    BY <2>1 DEF Init, Promise!Init, Outcome
<1>2. Invariant /\ [Next]_vars => [Promise!Next]_(Promise!vars)
  BY StepKeepsPromises DEF Invariant
<1> QED
  BY <1>1, <1>2, AlwaysInvariant, PTL DEF Spec, KeepsPromises, Promise!Spec

=============================================================================
