-------------------------- MODULE SupervisionProofs --------------------------
(***************************************************************************)
(* No worker is leaked, a supervisor that is down has no worker, and the   *)
(* restart intensity is bounded: for any tree of supervisors, any fleet    *)
(* size, strategies, restart policies and limits.                          *)
(***************************************************************************)
EXTENDS Supervision, SequenceTheorems, WellFoundedInduction, FiniteSetTheorems, TLAPS

(* Depth in the tree, and the children that are listed at most once. *)
Depth == CHOOSE depth \in [Sups -> 0..Cardinality(Sups)] :
           \A s \in Sups : \A r \in Kids(s) \cap Sups : depth[s] < depth[r]
Child == Specs \cup Sups
Injective(xs) == \A i, j \in 1..Len(xs) : xs[i] = xs[j] => i = j

(* What is left of a decision, as a set. *)
Pending(td) == {td[i] : i \in 1..Len(td)}

(* Every stop comes before every start, and a message to the parent is the *)
(* last thing a decision does.                                             *)
Ordered(td) ==
    \A i, j \in 1..Len(td) : i < j =>
        /\ td[j].op = "stop" => td[i].op = "stop"
        /\ td[i].op # "gaveUp"

(* No worker is to be started twice. *)
StartedOnce(td) ==
    \A i, j \in 1..Len(td) :
        td[i] = td[j] /\ td[i].op = "start" /\ td[i].of \in Specs => i = j

(* A worker is started only for a running supervisor, and after the one it *)
(* replaces is stopped.                                                    *)
StartsOK(p, st, wk) ==
    \A c \in Specs : Start(c) \in p =>
        st[SupOf(c)] = "running" /\ (wk[c] = None \/ Stop(c) \in p)

(* A supervisor that is to be stopped is below every one that restarts. *)
StopsBelow(p) ==
    \A r \in Sups, c \in Specs :
        Stop(r) \in p /\ Start(c) \in p => Depth[SupOf(c)] < Depth[r]

(* The worker of a supervisor that is down is stopped, or is about to be. *)
DownOK(p, st, wk) ==
    \A s \in Sups : st[s] # "running" =>
        \A c \in Kids(s) \cap Specs : wk[c] = None \/ Stop(c) \in p

(* Only a supervisor with a parent tells it. *)
GaveUpOK(p) == \A s \in Sups : GaveUp(s) \in p => s # Root

TodoOK(td, st, wk) ==
    /\ Ordered(td) /\ StartedOnce(td)
    /\ StartsOK(Pending(td), st, wk) /\ StopsBelow(Pending(td))
    /\ DownOK(Pending(td), st, wk) /\ GaveUpOK(Pending(td))

(* The restart times are the last charges; the ones that were pruned are   *)
(* older than the window.                                                  *)
WindowOK(times, chs, t) ==
    /\ Len(times) <= Len(chs)
    /\ \A i \in 1..Len(times) : times[i] = chs[Len(chs) - Len(times) + i]
    /\ \A i \in 1..Len(chs) - Len(times) : chs[i] + Window < t

(* Never more than `max' charges within a window. *)
SpanOK(chs, max) ==
    \A i \in DOMAIN chs : i + max \in DOMAIN chs => chs[i + max] > chs[i] + Window

LinksOwned == \A i \in Slots : links[i].alive => i \in guests \/ owner[i] # None

IInv ==
    /\ TypeOK
    /\ IsFiniteSet(DOMAIN threads)
    /\ OwnersAreCurrent
    /\ LinksOwned
    /\ TodoOK(todo, state, worker)
    /\ \A s \in Sups : WindowOK(restartTimes[s], charges[s], now)
    /\ \A s \in Sups : SpanOK(charges[s], MaxRestarts[s])

-----------------------------------------------------------------------------
(***************************************************************************)
(* Numbers, the tree and tasks                                             *)
(***************************************************************************)

(* A set of natural numbers that is not empty has a least one. *)
LEMMA LeastNat ==
    ASSUME NEW T, T \subseteq Nat, T # {}
    PROVE  \E x \in T : \A y \in T : x <= y
  <1>1. PICK x \in T : \A y \in T : ~(<<y, x>> \in OpToRel(<, Nat))
    BY NatLessThanWellFounded, WFMin
  <1>2. \A y \in T : x <= y
    <2> SUFFICES ASSUME NEW y \in T PROVE x <= y
      OBVIOUS
    <2>1. <<y, x>> \in Nat \X Nat /\ <<y, x>>[1] = y /\ <<y, x>>[2] = x
      OBVIOUS
    <2>2. ~(y < x)
      BY <1>1, <2>1 DEF OpToRel
    <2> QED BY <2>2
  <1> QED BY <1>2

(* Every child but the root has one supervisor, SupOf. *)
LEMMA ParentOf ==
    /\ \A x \in Child \ {Root} : SupOf(x) \in Sups /\ x \in Kids(SupOf(x))
    /\ \A s \in Sups : \A x \in Kids(s) :
          x \in Child /\ x # Root /\ SupOf(x) = s
    /\ \A c \in Specs : c # None /\ c \in Child \ {Root} /\ c \notin Sups
    /\ \A s \in Sups : s \in Child
  <1>1. \A c \in Specs : c # None /\ c \in Child \ {Root} /\ c \notin Sups
    BY FleetAssumption DEF Child
  <1>2. \A x \in Child \ {Root} : SupOf(x) \in Sups /\ x \in Kids(SupOf(x))
    <2> SUFFICES ASSUME NEW x \in Child \ {Root}
                 PROVE  SupOf(x) \in Sups /\ x \in Kids(SupOf(x))
      OBVIOUS
    <2>1. \E s \in Sups : x \in Kids(s)
      BY FleetAssumption DEF Child
    <2> QED BY <2>1 DEF SupOf
  <1>3. ASSUME NEW s \in Sups, NEW x \in Kids(s)
        PROVE  x \in Child /\ x # Root /\ SupOf(x) = s
    <2>1. Children[s] \in Seq(Child)
      BY FleetAssumption DEF Child
    <2>2. x \in Child
      BY <2>1, LenProperties DEF Kids, ToSet
    <2>3. x # Root
      BY FleetAssumption
    <2>4. SupOf(x) \in Sups /\ x \in Kids(SupOf(x))
      BY <1>2, <2>2, <2>3
    <2>5. \A r \in Sups : s # r => Kids(s) \cap Kids(r) = {}
      BY FleetAssumption
    <2> QED BY <2>2, <2>3, <2>4, <2>5
  <1> QED BY <1>1, <1>2, <1>3 DEF Child

(* A child supervisor is deeper than its parent. *)
LEMMA Deeper ==
    /\ \A s \in Sups : Depth[s] \in Int
    /\ \A s \in Sups : \A r \in Kids(s) \cap Sups : Depth[s] < Depth[r]
  <1>1. \E depth \in [Sups -> 0..Cardinality(Sups)] :
           \A s \in Sups : \A r \in Kids(s) \cap Sups : depth[s] < depth[r]
    BY FleetAssumption
  <1>2. /\ Depth \in [Sups -> 0..Cardinality(Sups)]
        /\ \A s \in Sups : \A r \in Kids(s) \cap Sups : Depth[s] < Depth[r]
    BY <1>1 DEF Depth
  <1>3. \A d \in 0..Cardinality(Sups) : d \in Int
    OBVIOUS
  <1> QED BY <1>2, <1>3

(* The children of a supervisor are listed once each. *)
LEMMA ChildrenListed ==
    ASSUME NEW s \in Sups
    PROVE  /\ Children[s] \in Seq(Child) /\ Injective(Children[s])
           /\ Kids(s) = {Children[s][i] : i \in 1..Len(Children[s])}
  <1>1. Children[s] \in Seq(Child)
    BY FleetAssumption DEF Child
  <1>2. DOMAIN Children[s] = 1..Len(Children[s])
    BY <1>1, LenProperties
  <1>3. \A i, j \in DOMAIN Children[s] : Children[s][i] = Children[s][j] => i = j
    BY FleetAssumption
  <1> QED BY <1>1, <1>2, <1>3 DEF Injective, Kids, ToSet

(* The three kinds of task are told apart by their op. *)
LEMMA TaskForms ==
    /\ \A x : Start(x).op = "start" /\ Start(x).of = x
    /\ \A x : Stop(x).op = "stop" /\ Stop(x).of = x
    /\ \A x : GaveUp(x).op = "gaveUp" /\ GaveUp(x).of = x
    /\ \A x \in Child : Start(x) \in Tasks /\ Stop(x) \in Tasks
    /\ \A x \in Sups : GaveUp(x) \in Tasks
    /\ \A t \in Tasks :
          \/ t.op = "start" /\ t.of \in Child /\ t = Start(t.of)
          \/ t.op = "stop" /\ t.of \in Child /\ t = Stop(t.of)
          \/ t.op = "gaveUp" /\ t.of \in Sups /\ t = GaveUp(t.of)
  BY DEF Start, Stop, GaveUp, Tasks, Child

(* No task is of two kinds. *)
LEMMA TasksDiffer ==
    /\ \A x, y : Start(x) # Stop(y) /\ Start(x) # GaveUp(y) /\ Stop(x) # GaveUp(y)
    /\ \A x, y : (Start(x) = Start(y) => x = y) /\ (Stop(x) = Stop(y) => x = y)
                 /\ (GaveUp(x) = GaveUp(y) => x = y)
  <1>1. \A x : Start(x).op = "start" /\ Start(x).of = x
    BY TaskForms
  <1>2. \A x : Stop(x).op = "stop" /\ Stop(x).of = x
    BY TaskForms
  <1>3. \A x : GaveUp(x).op = "gaveUp" /\ GaveUp(x).of = x
    BY TaskForms
  <1> QED BY <1>1, <1>2, <1>3

-----------------------------------------------------------------------------
(***************************************************************************)
(* Sequences of tasks                                                      *)
(***************************************************************************)

(* Doing the first task leaves the others, in their order. *)
LEMMA TailTodo ==
    ASSUME NEW td \in Seq(Tasks), td # << >>
    PROVE  /\ Head(td) \in Tasks /\ Tail(td) \in Seq(Tasks)
           /\ Head(td) \in Pending(td) /\ Pending(Tail(td)) \subseteq Pending(td)
           /\ \A t \in Pending(td) : t = Head(td) \/ t \in Pending(Tail(td))
           /\ Ordered(td) => Ordered(Tail(td))
           /\ StartedOnce(td) => StartedOnce(Tail(td))
           /\ Ordered(td) /\ Head(td).op # "stop" =>
                 \A t \in Pending(td) : t.op # "stop"
           /\ Ordered(td) /\ Head(td).op = "gaveUp" => Tail(td) = << >>
           /\ StartedOnce(td) /\ Head(td).op = "start" /\ Head(td).of \in Specs =>
                 Head(td) \notin Pending(Tail(td))
  <1> DEFINE tl == Tail(td)
  <1>1. /\ Head(td) \in Tasks /\ tl \in Seq(Tasks) /\ Len(td) \in Nat /\ Len(td) > 0
        /\ Head(td) = td[1] /\ Len(tl) = Len(td) - 1 /\ Len(tl) \in Nat
        /\ \A i \in 1..Len(tl) : tl[i] = td[i + 1]
    BY HeadTailProperties, EmptySeq, LenProperties
  <1> HIDE DEF tl
  <1>2. \A i \in 1..Len(tl) : i + 1 \in 1..Len(td) /\ i \in Nat
    BY <1>1
  <1>3. 1 \in 1..Len(td) /\ \A i \in 1..Len(td) : i \in Nat /\ (i = 1 \/ 1 < i)
    BY <1>1
  <1>4. \A i \in 1..Len(td) : i # 1 => i - 1 \in 1..Len(tl) /\ (i - 1) + 1 = i
    BY <1>1
  <1>5. Head(td) \in Pending(td) /\ Pending(tl) \subseteq Pending(td)
    BY <1>1, <1>2, <1>3 DEF Pending
  <1>6. \A t \in Pending(td) : t = Head(td) \/ t \in Pending(tl)
    <2> SUFFICES ASSUME NEW i \in 1..Len(td), i # 1 PROVE td[i] \in Pending(tl)
      BY <1>1 DEF Pending
    <2>1. td[i] = tl[i - 1]
      BY <1>1, <1>4
    <2> QED BY <1>4, <2>1 DEF Pending
  <1>7. Ordered(td) => Ordered(tl)
    <2> SUFFICES ASSUME Ordered(td), NEW i \in 1..Len(tl), NEW j \in 1..Len(tl), i < j
                 PROVE  (tl[j].op = "stop" => tl[i].op = "stop") /\ tl[i].op # "gaveUp"
      BY DEF Ordered
    <2>1. i + 1 \in 1..Len(td) /\ j + 1 \in 1..Len(td) /\ i + 1 < j + 1
      BY <1>2
    <2> QED BY <1>1, <2>1 DEF Ordered
  <1>8. StartedOnce(td) => StartedOnce(tl)
    <2> SUFFICES ASSUME StartedOnce(td), NEW i \in 1..Len(tl), NEW j \in 1..Len(tl),
                        tl[i] = tl[j], tl[i].op = "start", tl[i].of \in Specs
                 PROVE  i = j
      BY DEF StartedOnce
    <2>1. i + 1 = j + 1
      BY <1>1, <1>2 DEF StartedOnce
    <2> QED BY <1>2, <2>1
  <1>9. Ordered(td) /\ Head(td).op # "stop" => \A t \in Pending(td) : t.op # "stop"
    BY <1>1, <1>3 DEF Ordered, Pending
  <1>10. Ordered(td) /\ Head(td).op = "gaveUp" => tl = << >>
    <2> SUFFICES ASSUME Ordered(td), Head(td).op = "gaveUp", tl # << >> PROVE FALSE
      OBVIOUS
    <2>1. Len(tl) \in Nat \ {0}
      BY <1>1, EmptySeq
    <2>2. 2 \in 1..Len(td) /\ 1 < 2
      BY <1>1, <2>1
    <2> QED BY <1>1, <1>3, <2>2 DEF Ordered
  <1>11. StartedOnce(td) /\ Head(td).op = "start" /\ Head(td).of \in Specs =>
            Head(td) \notin Pending(tl)
    <2> SUFFICES ASSUME StartedOnce(td), Head(td).op = "start", Head(td).of \in Specs,
                        NEW i \in 1..Len(tl), Head(td) = tl[i]
                 PROVE  FALSE
      BY DEF Pending
    <2>1. td[1] = td[i + 1] /\ 1 # i + 1
      BY <1>1, <1>2
    <2> QED BY <1>1, <1>2, <1>3, <2>1 DEF StartedOnce
  <1> QED BY <1>1, <1>5, <1>6, <1>7, <1>8, <1>9, <1>10, <1>11 DEF tl

(* The sends of start are the starts of the children, in their order. *)
LEMMA StartAllTasks ==
    ASSUME NEW xs \in Seq(Child)
    PROVE  /\ StartAll(xs) \in Seq(Tasks) /\ Len(StartAll(xs)) = Len(xs)
           /\ \A i \in 1..Len(xs) : StartAll(xs)[i] = Start(xs[i])
           /\ \A t \in Pending(StartAll(xs)) : \E i \in 1..Len(xs) : t = Start(xs[i])
           /\ \A i \in 1..Len(xs) : Start(xs[i]) \in Pending(StartAll(xs))
  <1>1. Len(xs) \in Nat /\ DOMAIN xs = 1..Len(xs) /\ \A i \in 1..Len(xs) : xs[i] \in Child
    BY LenProperties
  <1>2. \A i \in 1..Len(xs) : Start(xs[i]) \in Tasks
    BY <1>1, TaskForms
  <1>3. StartAll(xs) = [i \in 1..Len(xs) |-> Start(xs[i])]
    BY <1>1 DEF StartAll
  <1>4. StartAll(xs) \in [1..Len(xs) -> Tasks]
    BY <1>2, <1>3
  <1>5. StartAll(xs) \in Seq(Tasks)
    BY <1>1, <1>4, SeqDef
  <1>6. Len(StartAll(xs)) = Len(xs)
    <2>1. DOMAIN StartAll(xs) = 1..Len(StartAll(xs)) /\ Len(StartAll(xs)) \in Nat
      BY <1>5, LenProperties
    <2>2. DOMAIN StartAll(xs) = 1..Len(xs)
      BY <1>4
    <2>3. \A m, n \in Nat : 1..m = 1..n => m = n
      OBVIOUS
    <2> QED BY <1>1, <2>1, <2>2, <2>3
  <1>7. \A i \in 1..Len(xs) : StartAll(xs)[i] = Start(xs[i])
    BY <1>3
  <1> QED BY <1>5, <1>6, <1>7 DEF Pending

(* The sends of stop are the stops of the children, the last one first. *)
LEMMA StopAllTasks ==
    ASSUME NEW xs \in Seq(Child)
    PROVE  /\ StopAll(xs) \in Seq(Tasks) /\ Len(StopAll(xs)) = Len(xs)
           /\ \A i \in 1..Len(xs) : StopAll(xs)[i].op = "stop"
           /\ \A t \in Pending(StopAll(xs)) : \E i \in 1..Len(xs) : t = Stop(xs[i])
           /\ \A i \in 1..Len(xs) : Stop(xs[i]) \in Pending(StopAll(xs))
  <1>1. Len(xs) \in Nat /\ DOMAIN xs = 1..Len(xs) /\ \A i \in 1..Len(xs) : xs[i] \in Child
    BY LenProperties
  <1> DEFINE at(i) == (Len(xs) - i) + 1
  <1>2. \A i \in 1..Len(xs) : at(i) \in 1..Len(xs) /\ at(at(i)) = i
    BY <1>1
  <1>3. \A i \in 1..Len(xs) : Reverse(xs)[i] = xs[at(i)]
    BY <1>1 DEF Reverse
  <1> HIDE DEF at
  <1>4. StopAll(xs) = [i \in 1..Len(xs) |-> Stop(Reverse(xs)[i])]
    BY <1>1 DEF StopAll
  <1>5. \A i \in 1..Len(xs) : StopAll(xs)[i] = Stop(xs[at(i)])
    BY <1>3, <1>4
  <1>6. \A i \in 1..Len(xs) : StopAll(xs)[i] \in Tasks /\ StopAll(xs)[i].op = "stop"
    BY <1>1, <1>2, <1>5, TaskForms
  <1>7. StopAll(xs) \in [1..Len(xs) -> Tasks]
    BY <1>4, <1>6
  <1>8. StopAll(xs) \in Seq(Tasks)
    BY <1>1, <1>7, SeqDef
  <1>9. Len(StopAll(xs)) = Len(xs)
    <2>1. DOMAIN StopAll(xs) = 1..Len(StopAll(xs)) /\ Len(StopAll(xs)) \in Nat
      BY <1>8, LenProperties
    <2>2. DOMAIN StopAll(xs) = 1..Len(xs)
      BY <1>7
    <2>3. \A m, n \in Nat : 1..m = 1..n => m = n
      OBVIOUS
    <2> QED BY <1>1, <2>1, <2>2, <2>3
  <1>10. \A t \in Pending(StopAll(xs)) : \E i \in 1..Len(xs) : t = Stop(xs[i])
    BY <1>2, <1>5, <1>9 DEF Pending
  <1>11. ASSUME NEW i \in 1..Len(xs) PROVE Stop(xs[i]) \in Pending(StopAll(xs))
    <2>1. at(i) \in 1..Len(xs) /\ StopAll(xs)[at(i)] = Stop(xs[i])
      BY <1>2, <1>5
    <2> QED BY <1>9, <2>1 DEF Pending
  <1> QED BY <1>6, <1>8, <1>9, <1>10, <1>11

(* One run of sends after another. *)
LEMMA ConcatTodo ==
    ASSUME NEW a \in Seq(Tasks), NEW b \in Seq(Tasks)
    PROVE  /\ a \o b \in Seq(Tasks)
           /\ Pending(a \o b) = Pending(a) \cup Pending(b)
           /\ Len(a \o b) = Len(a) + Len(b) /\ Len(a) \in Nat /\ Len(b) \in Nat
           /\ \A i \in 1..Len(a \o b) :
                 \/ i \in 1..Len(a) /\ (a \o b)[i] = a[i]
                 \/ i > Len(a) /\ i - Len(a) \in 1..Len(b) /\ (a \o b)[i] = b[i - Len(a)]
  <1>1. /\ a \o b \in Seq(Tasks) /\ Len(a \o b) = Len(a) + Len(b)
        /\ \A i \in 1..Len(a) + Len(b) :
              (a \o b)[i] = IF i <= Len(a) THEN a[i] ELSE b[i - Len(a)]
    BY ConcatProperties
  <1>2. Len(a) \in Nat /\ Len(b) \in Nat
    BY LenProperties
  <1>3. \A i \in 1..Len(a \o b) :
           \/ i \in 1..Len(a) /\ (a \o b)[i] = a[i]
           \/ i > Len(a) /\ i - Len(a) \in 1..Len(b) /\ (a \o b)[i] = b[i - Len(a)]
    BY <1>1, <1>2
  <1>4. Pending(a \o b) \subseteq Pending(a) \cup Pending(b)
    BY <1>3 DEF Pending
  <1>5. Pending(a) \subseteq Pending(a \o b)
    <2> SUFFICES ASSUME NEW i \in 1..Len(a) PROVE a[i] \in Pending(a \o b)
      BY DEF Pending
    <2>1. i \in 1..Len(a \o b) /\ (a \o b)[i] = a[i]
      BY <1>1, <1>2
    <2> QED BY <2>1 DEF Pending
  <1>6. Pending(b) \subseteq Pending(a \o b)
    <2> SUFFICES ASSUME NEW i \in 1..Len(b) PROVE b[i] \in Pending(a \o b)
      BY DEF Pending
    <2>1. i + Len(a) \in 1..Len(a \o b) /\ (a \o b)[i + Len(a)] = b[i]
      BY <1>1, <1>2
    <2> QED BY <2>1 DEF Pending
  <1> QED BY <1>1, <1>2, <1>3, <1>4, <1>5, <1>6

(* Stops first: the order and the single starts of what follows are kept. *)
LEMMA StopsFirst ==
    ASSUME NEW xs \in Seq(Child), NEW td \in Seq(Tasks), Ordered(td), StartedOnce(td)
    PROVE  Ordered(StopAll(xs) \o td) /\ StartedOnce(StopAll(xs) \o td)
  <1> PICK a : a = StopAll(xs)
    OBVIOUS
  <1> PICK all : all = a \o td
    OBVIOUS
  <1>1. a \in Seq(Tasks) /\ \A i \in 1..Len(a) : a[i].op = "stop"
    BY StopAllTasks
  <1>2. /\ Len(a) \in Nat
        /\ \A i \in 1..Len(all) :
              \/ i \in 1..Len(a) /\ all[i] = a[i]
              \/ i > Len(a) /\ i - Len(a) \in 1..Len(td) /\ all[i] = td[i - Len(a)]
    BY <1>1, ConcatTodo
  <1>3. Ordered(all)
    <2> SUFFICES ASSUME NEW i \in 1..Len(all), NEW j \in 1..Len(all), i < j
                 PROVE  (all[j].op = "stop" => all[i].op = "stop") /\ all[i].op # "gaveUp"
      BY DEF Ordered
    <2>1. CASE i \in 1..Len(a) /\ all[i] = a[i]
      BY <1>1, <2>1
    <2>2. CASE i > Len(a) /\ i - Len(a) \in 1..Len(td) /\ all[i] = td[i - Len(a)]
      <3>1. j - Len(a) \in 1..Len(td) /\ all[j] = td[j - Len(a)] /\ i - Len(a) < j - Len(a)
        BY <1>2, <2>2
      <3> QED BY <2>2, <3>1 DEF Ordered
    <2> QED BY <1>2, <2>1, <2>2
  <1>4. StartedOnce(all)
    <2> SUFFICES ASSUME NEW i \in 1..Len(all), NEW j \in 1..Len(all),
                        all[i] = all[j], all[i].op = "start", all[i].of \in Specs
                 PROVE  i = j
      BY DEF StartedOnce
    <2>1. i - Len(a) \in 1..Len(td) /\ all[i] = td[i - Len(a)]
      BY <1>1, <1>2
    <2>2. j - Len(a) \in 1..Len(td) /\ all[j] = td[j - Len(a)]
      BY <1>1, <1>2
    <2>3. i - Len(a) = j - Len(a)
      BY <2>1, <2>2 DEF StartedOnce
    <2> QED BY <1>2, <2>3
  <1> QED BY <1>3, <1>4

(* Starts first: nothing may be stopped after them, and no worker of them  *)
(* may be started again.                                                   *)
LEMMA StartsFirst ==
    ASSUME NEW xs \in Seq(Child), Injective(xs),
           NEW td \in Seq(Tasks), Ordered(td), StartedOnce(td),
           \A t \in Pending(td) : t.op # "stop",
           \A i \in 1..Len(xs) : xs[i] \in Specs => Start(xs[i]) \notin Pending(td)
    PROVE  Ordered(StartAll(xs) \o td) /\ StartedOnce(StartAll(xs) \o td)
  <1> PICK a : a = StartAll(xs)
    OBVIOUS
  <1> PICK all : all = a \o td
    OBVIOUS
  <1>1. a \in Seq(Tasks) /\ Len(a) = Len(xs) /\ \A i \in 1..Len(a) : a[i] = Start(xs[i])
    BY StartAllTasks
  <1>2. /\ Len(a) \in Nat
        /\ \A i \in 1..Len(all) :
              \/ i \in 1..Len(a) /\ all[i] = a[i]
              \/ i > Len(a) /\ i - Len(a) \in 1..Len(td) /\ all[i] = td[i - Len(a)]
    BY <1>1, ConcatTodo
  <1>3. \A i \in 1..Len(a) : a[i].op = "start" /\ a[i].of = xs[i]
    BY <1>1, TaskForms
  <1>4. \A i \in 1..Len(td) : td[i].op # "stop" /\ td[i] \in Pending(td)
    BY DEF Pending
  <1>5. \A i \in 1..Len(all) : all[i].op # "stop"
    BY <1>2, <1>3, <1>4
  <1>6. Ordered(all)
    <2> SUFFICES ASSUME NEW i \in 1..Len(all), NEW j \in 1..Len(all), i < j
                 PROVE  all[i].op # "gaveUp"
      BY <1>5 DEF Ordered
    <2>1. CASE i \in 1..Len(a) /\ all[i] = a[i]
      BY <1>3, <2>1
    <2>2. CASE i > Len(a) /\ i - Len(a) \in 1..Len(td) /\ all[i] = td[i - Len(a)]
      <3>1. j - Len(a) \in 1..Len(td) /\ i - Len(a) < j - Len(a)
        BY <1>2, <2>2
      <3> QED BY <2>2, <3>1 DEF Ordered
    <2> QED BY <1>2, <2>1, <2>2
  <1>7. StartedOnce(all)
    <2> SUFFICES ASSUME NEW i \in 1..Len(all), NEW j \in 1..Len(all),
                        all[i] = all[j], all[i].op = "start", all[i].of \in Specs
                 PROVE  i = j
      BY DEF StartedOnce
    <2>0. ASSUME NEW k \in 1..Len(a), NEW l \in 1..Len(td), a[k] = td[l],
                 a[k].of \in Specs PROVE FALSE
      BY <1>1, <1>3, <1>4, <2>0
    <2>1. CASE i \in 1..Len(a) /\ all[i] = a[i]
      <3>1. j \in 1..Len(a) /\ all[j] = a[j]
        BY ZenonT(30), <1>2, <2>0, <2>1
      <3>2. xs[i] = xs[j]
        BY <1>3, <2>1, <3>1
      <3> QED BY <1>1, <2>1, <3>1, <3>2 DEF Injective
    <2>2. CASE i > Len(a) /\ i - Len(a) \in 1..Len(td) /\ all[i] = td[i - Len(a)]
      <3>1. j - Len(a) \in 1..Len(td) /\ all[j] = td[j - Len(a)]
        BY ZenonT(30), <1>2, <2>0, <2>2
      <3>2. i - Len(a) = j - Len(a)
        BY <2>2, <3>1 DEF StartedOnce
      <3> QED BY <1>2, <3>2
    <2> QED BY <1>2, <2>1, <2>2
  <1> QED BY <1>6, <1>7

-----------------------------------------------------------------------------
(***************************************************************************)
(* The range a strategy restarts                                           *)
(***************************************************************************)

(* One round of the loop that leaves out the #temporary children, and the  *)
(* loop up to round n.                                                     *)
KeepStep(xs, g, i) ==
    IF i = 0 THEN << >>
    ELSE IF xs[i] \in Temporary THEN g[i - 1]
    ELSE Append(g[i - 1], xs[i])
KeepLoop(xs, n, g) == g = [i \in 0..n |-> KeepStep(xs, g, i)]

(* The loop is defined for every number of rounds: the least number for    *)
(* which it were not would extend the loop of its predecessor.             *)
LEMMA KeepLoopExists ==
    ASSUME NEW xs, NEW n \in Nat PROVE \E g : KeepLoop(xs, n, g)
  <1> DEFINE T == {k \in Nat : ~\E g : KeepLoop(xs, k, g)}
  <1> SUFFICES ASSUME T # {} PROVE FALSE
    OBVIOUS
  <1>1. PICK k \in T : \A y \in T : k <= y
    BY LeastNat
  <1>2. CASE k = 0
    <2> DEFINE g == [i \in 0..0 |-> <<>>]
    <2>1. KeepLoop(xs, 0, g)
      BY DEF KeepLoop, KeepStep
    <2> QED BY <1>2, <2>1
  <1>3. CASE k # 0
    <2>1. k \in Nat /\ k - 1 \in Nat /\ k - 1 \notin T
      BY <1>1, <1>3
    <2>2. PICK g : KeepLoop(xs, k - 1, g)
      BY <2>1
    <2> DEFINE h == [i \in 0..k |-> IF i = k THEN KeepStep(xs, g, k) ELSE g[i]]
    <2>3. ASSUME NEW i \in 0..k PROVE h[i] = KeepStep(xs, h, i)
      <3>1. CASE i = k
        BY <1>3, <2>1, <3>1 DEF KeepStep
      <3>2. CASE i # k
        <4>1. i \in 0..k - 1 /\ h[i] = g[i] /\ (i # 0 => h[i - 1] = g[i - 1])
          BY <2>1, <3>2
        <4>2. g[i] = KeepStep(xs, g, i)
          BY <2>2, <4>1 DEF KeepLoop
        <4> QED BY <4>1, <4>2 DEF KeepStep
      <3> QED BY <3>1, <3>2
    <2>4. KeepLoop(xs, k, h)
      <3>1. [i \in 0..k |-> h[i]] = [i \in 0..k |-> KeepStep(xs, h, i)]
        BY <2>3
      <3>2. h = [i \in 0..k |-> h[i]]
        OBVIOUS
      <3> QED BY <3>1, <3>2 DEF KeepLoop
    <2> QED BY <2>4
  <1> QED BY <1>2, <1>3

(* After i rounds the loop has kept children of the first i, once each if  *)
(* they were listed once each.                                             *)
LEMMA KeepLoopInvariant ==
    ASSUME NEW xs \in Seq(Child), Injective(xs), NEW g, KeepLoop(xs, Len(xs), g)
    PROVE  \A i \in 0..Len(xs) :
             /\ g[i] \in Seq(Child) /\ Injective(g[i])
             /\ \A j \in 1..Len(g[i]) : \E h \in 1..i : g[i][j] = xs[h]
  <1> DEFINE P(i) == /\ g[i] \in Seq(Child) /\ Injective(g[i])
                     /\ \A j \in 1..Len(g[i]) : \E h \in 1..i : g[i][j] = xs[h]
             T == {i \in 0..Len(xs) : ~P(i)}
  <1>0. Len(xs) \in Nat /\ \A i \in 1..Len(xs) : xs[i] \in Child
    BY LenProperties
  <1>1. \A i \in 0..Len(xs) : g[i] = KeepStep(xs, g, i)
    BY DEF KeepLoop
  <1> SUFFICES ASSUME T # {} PROVE FALSE
    OBVIOUS
  <1>2. PICK i \in T : \A y \in T : i <= y
    <2>1. T \subseteq Nat
      BY <1>0
    <2> HIDE DEF T
    <2> QED BY <2>1, LeastNat
  <1>3. CASE i = 0
    <2>1. g[i] = <<>>
      BY <1>0, <1>1, <1>3 DEF KeepStep
    <2>2. P(i)
      BY <1>3, <2>1, EmptySeq DEF Injective
    <2> QED BY <1>2, <2>2
  <1>4. CASE i # 0
    <2>1. i \in 1..Len(xs) /\ i - 1 \in 0..Len(xs) /\ i - 1 \notin T
      BY <1>0, <1>2, <1>4
    <2>2. P(i - 1)
      BY <2>1
    <2>3. \A h \in 1..i - 1 : h \in 1..i /\ h # i /\ h \in 1..Len(xs)
      BY <1>0, <2>1
    <2>4. i \in 1..i
      BY <2>1
    <2>5. CASE xs[i] \in Temporary
      <3>1. g[i] = g[i - 1]
        BY <1>1, <2>1, <2>5 DEF KeepStep
      <3>2. P(i)
        BY <2>2, <2>3, <3>1
      <3> QED BY <1>2, <3>2
    <2>6. CASE xs[i] \notin Temporary
      <3> DEFINE p == g[i - 1]
      <3>1. g[i] = Append(p, xs[i])
        <4>1. g[i] = KeepStep(xs, g, i)
          BY <1>1, <2>1
        <4>2. KeepStep(xs, g, i) = Append(p, xs[i])
          BY <1>4, <2>6, Zenon DEF KeepStep
        <4> QED BY <4>1, <4>2
      <3>2. p \in Seq(Child) /\ Len(p) \in Nat /\ xs[i] \in Child
        BY <1>0, <2>1, <2>2, LenProperties
      <3>3. /\ g[i] \in Seq(Child) /\ Len(g[i]) = Len(p) + 1
            /\ \A j \in 1..Len(p) : g[i][j] = p[j]
            /\ g[i][Len(p) + 1] = xs[i]
        BY <3>1, <3>2, AppendProperties
      <3>4. Injective(p) /\ \A j \in 1..Len(p) : \E h \in 1..i - 1 : p[j] = xs[h]
        BY <2>2
      <3> HIDE DEF p
      <3>5. \A j \in 1..Len(g[i]) : j \in 1..Len(p) \/ j = Len(p) + 1
        BY <3>2, <3>3
      <3>6. \A j \in 1..Len(g[i]) : \E h \in 1..i : g[i][j] = xs[h]
        BY <2>3, <2>4, <3>3, <3>4, <3>5
      <3>7. \A j \in 1..Len(p) : g[i][j] # xs[i]
        BY SMTT(20), <2>1, <2>3, <3>3, <3>4 DEF Injective
      <3>8. Injective(g[i])
        <4> SUFFICES ASSUME NEW j \in 1..Len(g[i]), NEW k \in 1..Len(g[i]), g[i][j] = g[i][k]
                     PROVE  j = k
          BY DEF Injective
        <4> QED BY ZenonT(30), <3>3, <3>4, <3>5, <3>7 DEF Injective
      <3>9. P(i)
        BY <3>3, <3>6, <3>8
      <3> QED BY <1>2, <3>9
    <2> QED BY <2>5, <2>6
  <1> QED BY <1>3, <1>4

(* What a strategy starts again are children of the range, once each. *)
LEMMA NotTemporaryKeeps ==
    ASSUME NEW xs \in Seq(Child), Injective(xs)
    PROVE  /\ NotTemporary(xs) \in Seq(Child) /\ Injective(NotTemporary(xs))
           /\ \A j \in 1..Len(NotTemporary(xs)) :
                 \E h \in 1..Len(xs) : NotTemporary(xs)[j] = xs[h]
  <1>0. Len(xs) \in Nat
    BY LenProperties
  <1> DEFINE g == CHOOSE g : KeepLoop(xs, Len(xs), g)
  <1>1. KeepLoop(xs, Len(xs), g)
    BY <1>0, KeepLoopExists
  <1>2. NotTemporary(xs) = g[Len(xs)]
    BY DEF NotTemporary, KeepLoop, KeepStep
  <1> HIDE DEF g
  <1>3. Len(xs) \in 0..Len(xs)
    BY <1>0
  <1> QED BY <1>1, <1>2, <1>3, KeepLoopInvariant

(* A restart of a range of children of s: a decision that is in order, of  *)
(* which every start comes with the stop of the same child.                *)
LEMMA RestartRangeTasks ==
    ASSUME NEW xs \in Seq(Child), Injective(xs)
    PROVE  /\ RestartRange(xs) \in Seq(Tasks)
           /\ Ordered(RestartRange(xs)) /\ StartedOnce(RestartRange(xs))
           /\ \A t \in Pending(RestartRange(xs)) :
                 \E i \in 1..Len(xs) : t = Stop(xs[i]) \/ t = Start(xs[i])
           /\ \A i \in 1..Len(xs) : Stop(xs[i]) \in Pending(RestartRange(xs))
  <1> PICK ys : ys = NotTemporary(xs)
    OBVIOUS
  <1>1. /\ ys \in Seq(Child) /\ Injective(ys)
        /\ \A j \in 1..Len(ys) : \E h \in 1..Len(xs) : ys[j] = xs[h]
    BY NotTemporaryKeeps
  <1> PICK e : e = << >>
    OBVIOUS
  <1>2. e \in Seq(Tasks) /\ Len(e) = 0
    BY EmptySeq
  <1>3. Pending(e) = {} /\ Ordered(e) /\ StartedOnce(e)
    BY <1>2 DEF Pending, Ordered, StartedOnce
  <1>4. Ordered(StartAll(ys) \o e) /\ StartedOnce(StartAll(ys) \o e)
    BY <1>1, <1>2, <1>3, StartsFirst
  <1>5. StartAll(ys) \in Seq(Tasks) /\ StopAll(xs) \in Seq(Tasks)
    BY <1>1, StartAllTasks, StopAllTasks
  <1>6. StartAll(ys) \o e = StartAll(ys)
    BY <1>5, ConcatEmptySeq
  <1>7. Ordered(StopAll(xs) \o StartAll(ys)) /\ StartedOnce(StopAll(xs) \o StartAll(ys))
    BY <1>4, <1>5, <1>6, StopsFirst
  <1>8. /\ StopAll(xs) \o StartAll(ys) \in Seq(Tasks)
        /\ Pending(StopAll(xs) \o StartAll(ys)) = Pending(StopAll(xs)) \cup Pending(StartAll(ys))
    BY <1>5, ConcatTodo
  <1>9. \A t \in Pending(StartAll(ys)) : \E i \in 1..Len(ys) : t = Start(ys[i])
    BY <1>1, StartAllTasks
  <1>10. /\ \A t \in Pending(StopAll(xs)) : \E i \in 1..Len(xs) : t = Stop(xs[i])
         /\ \A i \in 1..Len(xs) : Stop(xs[i]) \in Pending(StopAll(xs))
    BY StopAllTasks
  <1>11. RestartRange(xs) = StopAll(xs) \o StartAll(ys)
    BY DEF RestartRange
  <1>12. ASSUME NEW t \in Pending(StopAll(xs)) \cup Pending(StartAll(ys))
         PROVE  \E i \in 1..Len(xs) : t = Stop(xs[i]) \/ t = Start(xs[i])
    <2>1. CASE t \in Pending(StopAll(xs))
      BY <1>10, <2>1
    <2>2. CASE t \in Pending(StartAll(ys))
      <3>1. PICK j \in 1..Len(ys) : t = Start(ys[j])
        BY <1>9, <2>2
      <3>2. PICK h \in 1..Len(xs) : ys[j] = xs[h]
        BY <1>1
      <3> QED BY <3>1, <3>2
    <2> QED BY <2>1, <2>2
  <1> QED BY <1>7, <1>8, <1>10, <1>11, <1>12, Zenon

(* A decision to restart a range of the children of a running supervisor. *)
LEMMA RangeTodo ==
    ASSUME NEW s \in Sups, NEW xs \in Seq(Child), Injective(xs),
           \A i \in 1..Len(xs) : xs[i] \in Kids(s),
           NEW st, NEW wk, st[s] = "running", DownOK({}, st, wk)
    PROVE  RestartRange(xs) \in Seq(Tasks) /\ TodoOK(RestartRange(xs), st, wk)
  <1> PICK p : p = Pending(RestartRange(xs))
    OBVIOUS
  <1>1. /\ RestartRange(xs) \in Seq(Tasks)
        /\ Ordered(RestartRange(xs)) /\ StartedOnce(RestartRange(xs))
        /\ \A t \in p : \E i \in 1..Len(xs) : t = Stop(xs[i]) \/ t = Start(xs[i])
        /\ \A i \in 1..Len(xs) : Stop(xs[i]) \in p
    BY RestartRangeTasks
  <1>2. \A x : Start(x) \in p => x \in Kids(s) /\ Stop(x) \in p
    BY <1>1, TasksDiffer
  <1>3. \A x : Stop(x) \in p => x \in Kids(s)
    BY SMTT(20), <1>1, TasksDiffer
  <1>4. \A x : GaveUp(x) \notin p
    BY <1>1, TasksDiffer
  <1>5. \A x \in Kids(s) : SupOf(x) = s
    BY ParentOf
  <1>6. StartsOK(p, st, wk)
    BY <1>2, <1>5 DEF StartsOK
  <1>7. StopsBelow(p)
    BY <1>2, <1>3, <1>5, Deeper DEF StopsBelow
  <1>8. DownOK(p, st, wk)
    BY DEF DownOK
  <1>9. GaveUpOK(p)
    BY <1>4 DEF GaveUpOK
  <1> QED BY <1>1, <1>6, <1>7, <1>8, <1>9 DEF TodoOK

(* A decision of one task for a child. *)
LEMMA SingleTodo ==
    ASSUME NEW t \in Tasks, NEW st, NEW wk, DownOK({}, st, wk),
           \A c \in Specs : t = Start(c) => st[SupOf(c)] = "running" /\ wk[c] = None,
           t # GaveUp(Root)
    PROVE  << t >> \in Seq(Tasks) /\ TodoOK(<< t >>, st, wk)
  <1> PICK td : td = << t >>
    OBVIOUS
  <1>1. td \in Seq(Tasks) /\ Len(td) = 1 /\ td[1] = t
    OBVIOUS
  <1>2. Pending(td) = {t}
    BY <1>1 DEF Pending
  <1>3. Ordered(td) /\ StartedOnce(td)
    BY <1>1 DEF Ordered, StartedOnce
  <1>4. StartsOK({t}, st, wk)
    BY DEF StartsOK
  <1>5. StopsBelow({t})
    BY TasksDiffer DEF StopsBelow
  <1>6. DownOK({t}, st, wk) /\ GaveUpOK({t})
    BY DEF DownOK, GaveUpOK
  <1> QED BY <1>1, <1>2, <1>3, <1>4, <1>5, <1>6 DEF TodoOK

(* The decision of every strategy is in order. *)
LEMMA StrategyTodo ==
    ASSUME NEW s \in Sups, NEW x \in Kids(s),
           NEW st, NEW wk, st[s] = "running", DownOK({}, st, wk),
           x \in Specs => wk[x] = None
    PROVE  ApplyStrategy(s, x) \in Seq(Tasks) /\ TodoOK(ApplyStrategy(s, x), st, wk)
  <1> PICK xs : xs = Children[s]
    OBVIOUS
  <1>1. /\ xs \in Seq(Child) /\ Injective(xs)
        /\ Kids(s) = {xs[i] : i \in 1..Len(xs)}
    BY ChildrenListed
  <1>2. Len(xs) \in Nat /\ DOMAIN xs = 1..Len(xs) /\ \A i \in 1..Len(xs) : xs[i] \in Child
    BY <1>1, LenProperties
  <1>3. x \in Child /\ SupOf(x) = s
    BY ParentOf
  <1>4. Strategy[s] \in {"oneForOne", "oneForAll", "restForOne"}
    BY FleetAssumption
  <1>5. CASE Strategy[s] = "oneForOne"
    <2>1. ApplyStrategy(s, x) = << Start(x) >>
      BY <1>5 DEF ApplyStrategy
    <2>2. Start(x) \in Tasks /\ Start(x) # GaveUp(Root)
      BY <1>3, TaskForms, TasksDiffer
    <2>3. \A c \in Specs : Start(x) = Start(c) => st[SupOf(c)] = "running" /\ wk[c] = None
      BY <1>3, TasksDiffer
    <2> QED BY <2>1, <2>2, <2>3, SingleTodo
  <1>6. CASE Strategy[s] = "oneForAll"
    <2>1. ApplyStrategy(s, x) = RestartRange(xs)
      BY <1>6 DEF ApplyStrategy
    <2>2. \A i \in 1..Len(xs) : xs[i] \in Kids(s)
      BY <1>1
    <2> QED BY <1>1, <2>1, <2>2, RangeTodo
  <1>7. CASE Strategy[s] = "restForOne"
    <2> DEFINE n == CHOOSE i \in DOMAIN xs : xs[i] = x
    <2>1. n \in 1..Len(xs)
      BY <1>1, <1>2
    <2> DEFINE ys == SubSeq(xs, n, Len(xs))
    <2>2. ApplyStrategy(s, x) = RestartRange(ys)
      BY <1>7 DEF ApplyStrategy
    <2> HIDE DEF n
    <2>3. n \in Int /\ Len(xs) \in Int /\ \A i \in n..Len(xs) : xs[i] \in Child
      BY <1>2, <2>1
    <2>4. /\ ys \in Seq(Child) /\ Len(ys) = Len(xs) - n + 1
          /\ \A i \in 1..Len(xs) - n + 1 : ys[i] = xs[n + i - 1]
      BY <2>1, <2>3, SubSeqProperties
    <2> HIDE DEF ys
    <2>5. \A i \in 1..Len(ys) : n + i - 1 \in 1..Len(xs) /\ i \in Int
      BY <1>2, <2>1, <2>4
    <2>6. \A i \in 1..Len(ys) : ys[i] = xs[n + i - 1] /\ ys[i] \in Kids(s)
      BY <1>1, <2>4, <2>5
    <2>7. Injective(ys)
      <3> SUFFICES ASSUME NEW i \in 1..Len(ys), NEW j \in 1..Len(ys), ys[i] = ys[j]
                   PROVE  i = j
        BY DEF Injective
      <3>1. PICK k \in 1..Len(xs), l \in 1..Len(xs) : k = n + i - 1 /\ l = n + j - 1
        BY <2>5
      <3>2. xs[k] = xs[l]
        BY <2>6, <3>1
      <3>3. k = l
        BY <1>1, <3>2 DEF Injective
      <3> QED BY <2>3, <2>5, <3>1, <3>3
    <2>8. RestartRange(ys) \in Seq(Tasks) /\ TodoOK(RestartRange(ys), st, wk)
      BY <2>4, <2>6, <2>7, RangeTodo
    <2> QED BY <2>2, <2>8
  <1> QED BY <1>4, <1>5, <1>6, <1>7

(* Giving up stops every child, and tells the parent if there is one. *)
LEMMA GiveUpTodo ==
    ASSUME NEW s \in Sups, NEW st \in [Sups -> {"idle", "running", "givenUp"}], NEW wk,
           DownOK({}, st, wk)
    PROVE  /\ GiveUpTasks(s) \in Seq(Tasks)
           /\ TodoOK(GiveUpTasks(s), [st EXCEPT ![s] = "givenUp"], wk)
  <1> PICK xs : xs = Children[s]
    OBVIOUS
  <1> PICK e : e = IF s = Root THEN << >> ELSE << GaveUp(s) >>
    OBVIOUS
  <1> PICK td : td = GiveUpTasks(s)
    OBVIOUS
  <1> PICK sg : sg = [st EXCEPT ![s] = "givenUp"]
    OBVIOUS
  <1>1. /\ xs \in Seq(Child)
        /\ Kids(s) = {xs[i] : i \in 1..Len(xs)}
    BY ChildrenListed
  <1>2. e \in Seq(Tasks) /\ Len(e) <= 1 /\ (Len(e) = 0 \/ (Len(e) = 1 /\ e[1] = GaveUp(s) /\ s # Root))
    <2>1. CASE s = Root
      <3>1. e = << >>
        BY <2>1
      <3> QED BY <3>1, EmptySeq
    <2>2. CASE s # Root
      <3>1. e = << GaveUp(s) >> /\ GaveUp(s) \in Tasks
        BY <2>2, TaskForms
      <3> QED BY <2>2, <3>1
    <2> QED BY <2>1, <2>2
  <1>3. Len(e) \in Nat
    BY <1>2, LenProperties
  <1>4. Ordered(e) /\ StartedOnce(e)
    BY <1>2, <1>3 DEF Ordered, StartedOnce
  <1>5. \A t \in Pending(e) : t = GaveUp(s) /\ s # Root
    BY <1>2, <1>3 DEF Pending
  <1>6. td = StopAll(xs) \o e
    BY DEF GiveUpTasks
  <1>7. Ordered(td) /\ StartedOnce(td)
    BY <1>1, <1>2, <1>4, <1>6, StopsFirst
  <1>8. /\ StopAll(xs) \in Seq(Tasks)
        /\ \A t \in Pending(StopAll(xs)) : \E i \in 1..Len(xs) : t = Stop(xs[i])
        /\ \A i \in 1..Len(xs) : Stop(xs[i]) \in Pending(StopAll(xs))
    BY <1>1, StopAllTasks
  <1>9. td \in Seq(Tasks) /\ Pending(td) = Pending(StopAll(xs)) \cup Pending(e)
    BY ZenonT(30), <1>2, <1>6, <1>8, ConcatTodo
  <1>10. ASSUME NEW x, Start(x) \in Pending(td) PROVE FALSE
    <2>1. CASE Start(x) \in Pending(StopAll(xs))
      BY <1>8, <2>1, TasksDiffer
    <2>2. CASE Start(x) \in Pending(e)
      BY <1>5, <2>2, TasksDiffer
    <2> QED BY <1>9, <1>10, <2>1, <2>2
  <1>11. \A x \in Kids(s) : Stop(x) \in Pending(td)
    BY <1>1, <1>8, <1>9
  <1>12. ASSUME NEW x, GaveUp(x) \in Pending(td) PROVE x # Root
    <2>1. CASE GaveUp(x) \in Pending(StopAll(xs))
      BY <1>8, <2>1, TasksDiffer
    <2>2. CASE GaveUp(x) \in Pending(e)
      BY <1>5, <2>2, TasksDiffer
    <2> QED BY <1>9, <1>12, <2>1, <2>2
  <1>13. \A r \in Sups : r # s => sg[r] = st[r]
    OBVIOUS
  <1>14. DownOK(Pending(td), sg, wk)
    <2> SUFFICES ASSUME NEW r \in Sups, sg[r] # "running", NEW c \in Kids(r) \cap Specs
                 PROVE  wk[c] = None \/ Stop(c) \in Pending(td)
      BY DEF DownOK
    <2> QED BY <1>11, <1>13 DEF DownOK
  <1> QED BY <1>7, <1>9, <1>10, <1>12, <1>14 DEF TodoOK, StartsOK, StopsBelow, GaveUpOK

-----------------------------------------------------------------------------
(***************************************************************************)
(* The restart window                                                      *)
(***************************************************************************)

(* An index beyond the first n - k of n is one of the last k. *)
LEMMA LastIndex ==
    \A n \in Nat : \A k \in 0..n : \A i \in 1..n :
        i \notin 1..n - k => \E j \in 1..k : n - k + j = i
  <1> SUFFICES ASSUME NEW n \in Nat, NEW k \in 0..n, NEW i \in 1..n, i \notin 1..n - k
               PROVE  \E j \in 1..k : n - k + j = i
    OBVIOUS
  <1>1. i - (n - k) \in 1..k /\ n - k + (i - (n - k)) = i
    OBVIOUS
  <1> QED BY <1>1

(* Pruning keeps the last charges, and drops only what is older than the   *)
(* window.                                                                 *)
LEMMA PrunedWindow ==
    ASSUME NEW times \in Seq(Nat), NEW chs \in Seq(Nat), NEW t \in Nat, WindowOK(times, chs, t)
    PROVE  LET r == PrunedTo(times, {i \in DOMAIN times : times[i] + Window >= t})
           IN  r \in Seq(Nat) /\ WindowOK(r, chs, t)
  <1> DEFINE stays == {i \in DOMAIN times : times[i] + Window >= t}
             r == PrunedTo(times, stays)
  <1>0. /\ Len(times) \in Nat /\ DOMAIN times = 1..Len(times)
        /\ Len(chs) \in Nat
        /\ \A i \in 1..Len(times) : times[i] \in Nat
        /\ \A i \in 1..Len(chs) : chs[i] \in Nat
        /\ Window \in Nat
    BY SMTT(20), LenProperties, FleetAssumption
  <1>1. /\ Len(times) <= Len(chs)
        /\ \A i \in 1..Len(times) : times[i] = chs[Len(chs) - Len(times) + i]
        /\ \A i \in 1..Len(chs) - Len(times) : chs[i] + Window < t
    BY DEF WindowOK
  <1>2. \A i \in 1..Len(times) : i \notin stays => times[i] + Window < t
    BY <1>0
  <1>3. \A i \in 1..Len(times) : Len(chs) - Len(times) + i \in 1..Len(chs)
    BY <1>0, <1>1
  <1>4. CASE stays = {}
    <2>1. r = << >>
      BY <1>4 DEF PrunedTo
    <2>2. r \in Seq(Nat) /\ Len(r) = 0
      BY <2>1, EmptySeq
    <2>3. ASSUME NEW i \in 1..Len(chs) PROVE chs[i] + Window < t
      <3>1. CASE i \in 1..Len(chs) - Len(times)
        BY <1>1, <3>1
      <3>2. CASE i \notin 1..Len(chs) - Len(times)
        <4>1. PICK j \in 1..Len(times) : Len(chs) - Len(times) + j = i
          <5>1. Len(times) \in 0..Len(chs)
            BY <1>0, <1>1
          <5>2. PICK m \in Nat, k \in Nat : m = Len(chs) /\ k = Len(times)
            BY <1>0
          <5>3. i \in 1..m /\ i \notin 1..m - k /\ k \in 0..m
            BY <3>2, <5>1, <5>2
          <5> HIDE DEF stays, r
          <5>4. \E j \in 1..k : m - k + j = i
            BY <5>3, LastIndex
          <5> QED BY <5>2, <5>4
        <4>2. times[j] = chs[i] /\ times[j] + Window < t
          BY <1>1, <1>2, <1>4, <4>1
        <4> QED BY <4>2
      <3> QED BY <3>1, <3>2
    <2>4. WindowOK(r, chs, t)
      <3> HIDE DEF r
      <3> QED BY <1>0, <2>2, <2>3 DEF WindowOK
    <2> QED BY <2>2, <2>4
  <1>5. CASE stays # {}
    <2> DEFINE f == CHOOSE i \in stays : \A j \in stays : i <= j
    <2>1. stays \subseteq 1..Len(times) /\ stays \subseteq Nat
      BY <1>0
    <2>2. f \in stays /\ \A j \in stays : f <= j
      <3> HIDE DEF stays
      <3>1. \E i \in stays : \A j \in stays : i <= j
        BY <1>5, <2>1, LeastNat
      <3> QED BY <3>1
    <2>3. r = SubSeq(times, f, Len(times))
      BY <1>5 DEF PrunedTo
    <2> HIDE DEF stays, f, r
    <2>4. f \in 1..Len(times)
      BY <2>1, <2>2
    <2>5. f \in Int /\ Len(times) \in Int /\ \A i \in f..Len(times) : times[i] \in Nat
      BY <1>0, <2>4
    <2>6. /\ r \in Seq(Nat) /\ Len(r) = Len(times) - f + 1
          /\ \A i \in 1..Len(times) - f + 1 : r[i] = times[f + i - 1]
      BY SMTT(20), <2>3, <2>4, <2>5, SubSeqProperties
    <2>7. Len(r) <= Len(chs)
      BY <1>0, <1>1, <2>4, <2>6
    <2>8. ASSUME NEW i \in 1..Len(r) PROVE r[i] = chs[Len(chs) - Len(r) + i]
      <3>1. PICK k \in 1..Len(times) : k = f + i - 1
        BY <1>0, <2>4, <2>6
      <3>2. r[i] = times[k] /\ times[k] = chs[Len(chs) - Len(times) + k]
        BY <1>1, <2>6, <3>1
      <3>3. Len(chs) - Len(times) + k = Len(chs) - Len(r) + i
        BY <1>0, <2>4, <2>6, <3>1
      <3> QED BY <3>2, <3>3
    <2>9. ASSUME NEW i \in 1..Len(chs) - Len(r) PROVE chs[i] + Window < t
      <3>1. CASE i \in 1..Len(chs) - Len(times)
        BY <1>1, <3>1
      <3>2. CASE i \notin 1..Len(chs) - Len(times)
        <4>1. PICK j \in 1..Len(times) : Len(chs) - Len(times) + j = i /\ j < f
          <5>0. Len(r) \in Nat
            BY <2>6, LenProperties
          <5>1. Len(times) \in 0..Len(chs) /\ i \in 1..Len(chs)
            BY <1>0, <1>1, <5>0
          <5>2. PICK j \in 1..Len(times) : Len(chs) - Len(times) + j = i
            <6>1. PICK m \in Nat, k \in Nat : m = Len(chs) /\ k = Len(times)
              BY <1>0
            <6>2. i \in 1..m /\ i \notin 1..m - k /\ k \in 0..m
              BY <3>2, <5>1, <6>1
            <6>3. \E j \in 1..k : m - k + j = i
              BY <6>2, LastIndex
            <6> QED BY <6>1, <6>3
          <5>3. i <= Len(chs) - (Len(times) - f + 1) /\ i \in Int
            BY <1>0, <2>5, <2>6, <5>0
          <5>4. j < f
            BY <1>0, <2>4, <5>2, <5>3
          <5> QED BY <5>2, <5>4
        <4>2. j \notin stays
          BY <2>1, <2>2, <2>4, <4>1
        <4>3. times[j] = chs[i] /\ times[j] + Window < t
          BY <1>1, <1>2, <4>1, <4>2
        <4> QED BY <4>3
      <3> QED BY <3>1, <3>2
    <2>10. WindowOK(r, chs, t)
      BY <2>7, <2>8, <2>9 DEF WindowOK
    <2> QED BY <2>6, <2>10 DEF r, stays
  <1> QED BY <1>4, <1>5

(* A charge below the limit: the one it is `max' charges after has left    *)
(* the window.                                                             *)
LEMMA ChargedWindow ==
    ASSUME NEW times \in Seq(Nat), NEW chs \in Seq(Nat), NEW t \in Nat, NEW max \in Nat,
           WindowOK(times, chs, t), SpanOK(chs, max), Len(times) < max
    PROVE  /\ Append(times, t) \in Seq(Nat) /\ Append(chs, t) \in Seq(Nat)
           /\ WindowOK(Append(times, t), Append(chs, t), t)
           /\ SpanOK(Append(chs, t), max)
  <1> PICK r : r = Append(times, t)
    OBVIOUS
  <1> PICK d : d = Append(chs, t)
    OBVIOUS
  <1>1. /\ Len(times) \in Nat /\ Len(chs) \in Nat /\ DOMAIN chs = 1..Len(chs)
        /\ Len(times) <= Len(chs)
        /\ \A i \in 1..Len(times) : times[i] = chs[Len(chs) - Len(times) + i]
        /\ \A i \in 1..Len(chs) - Len(times) : chs[i] + Window < t
    BY LenProperties DEF WindowOK
  <1>2. /\ r \in Seq(Nat) /\ Len(r) = Len(times) + 1 /\ r[Len(times) + 1] = t
        /\ \A i \in 1..Len(times) : r[i] = times[i]
    BY AppendProperties
  <1>3. /\ d \in Seq(Nat) /\ Len(d) = Len(chs) + 1 /\ d[Len(chs) + 1] = t
        /\ \A i \in 1..Len(chs) : d[i] = chs[i]
    BY AppendProperties
  <1>4. DOMAIN d = 1..Len(chs) + 1
    BY <1>3, LenProperties
  <1>5. WindowOK(r, d, t)
    <2>1. Len(r) <= Len(d)
      BY <1>1, <1>2, <1>3
    <2>2. ASSUME NEW i \in 1..Len(r) PROVE r[i] = d[Len(d) - Len(r) + i]
      <3>1. CASE i \in 1..Len(times)
        <4>1. PICK k \in 1..Len(chs) : k = Len(chs) - Len(times) + i
          BY SMTT(20), <1>1, <3>1
        <4>2. k = Len(d) - Len(r) + i
          BY <1>1, <1>2, <1>3, <3>1, <4>1
        <4>3. r[i] = chs[k] /\ d[k] = chs[k]
          BY <1>1, <1>2, <1>3, <3>1, <4>1
        <4> QED BY <4>2, <4>3
      <3>2. CASE i = Len(times) + 1
        <4>1. Len(d) - Len(r) + i = Len(chs) + 1
          BY <1>1, <1>2, <1>3, <3>2
        <4> QED BY <1>2, <1>3, <3>2, <4>1
      <3>3. i \in 1..Len(times) + 1
        BY <1>2
      <3>4. i \in 1..Len(times) \/ i = Len(times) + 1
        BY <1>1, <3>3
      <3> QED BY <3>1, <3>2, <3>4
    <2>3. ASSUME NEW i \in 1..Len(d) - Len(r) PROVE d[i] + Window < t
      <3>1. i \in 1..Len(chs) - Len(times) /\ i \in 1..Len(chs)
        BY <1>1, <1>2, <1>3
      <3> QED BY <1>1, <1>3, <3>1
    <2> QED BY <2>1, <2>2, <2>3 DEF WindowOK
  <1>6. SpanOK(d, max)
    <2> SUFFICES ASSUME NEW i \in 1..Len(chs) + 1, i + max \in 1..Len(chs) + 1
                 PROVE  d[i + max] > d[i] + Window
      BY <1>4 DEF SpanOK
    <2>0. i \in Nat /\ max > 0
      BY <1>1
    <2>1. i \in 1..Len(chs) /\ d[i] = chs[i]
      BY <1>1, <1>3, <2>0
    <2>2. CASE i + max \in 1..Len(chs)
      <3>1. d[i + max] = chs[i + max]
        BY <1>3, <2>2
      <3>2. chs[i + max] > chs[i] + Window
        BY <1>1, <2>1, <2>2 DEF SpanOK
      <3> QED BY <2>1, <3>1, <3>2
    <2>3. CASE i + max = Len(chs) + 1
      <3>1. i \in 1..Len(chs) - Len(times)
        BY <1>1, <2>0, <2>3
      <3>2. chs[i] + Window < t
        BY <1>1, <3>1
      <3>3. chs[i] \in Nat /\ Window \in Nat
        BY <1>1, <2>1, FleetAssumption, ElementOfSeq
      <3>4. t > chs[i] + Window
        BY <3>2, <3>3
      <3> QED BY <1>3, <2>1, <2>3, <3>4
    <2>4. \A n \in Nat : \A k \in 1..n + 1 : k \in 1..n \/ k = n + 1
      OBVIOUS
    <2>5. i + max \in 1..Len(chs) \/ i + max = Len(chs) + 1
      BY <1>1, <2>4
    <2> QED BY <2>2, <2>3, <2>5
  <1> QED BY <1>2, <1>3, <1>5, <1>6

(* Time passing lets charges leave the window, never enter it. *)
LEMMA WindowTick ==
    ASSUME NEW times, NEW chs \in Seq(Nat), Len(times) \in Nat, NEW t \in Nat,
           WindowOK(times, chs, t)
    PROVE  WindowOK(times, chs, t + 1)
  <1>1. Len(chs) \in Nat /\ \A i \in 1..Len(chs) : chs[i] \in Nat
    BY LenProperties
  <1>2. Window \in Nat
    BY FleetAssumption
  <1>3. \A i \in 1..Len(chs) - Len(times) : chs[i] + Window < t
    BY DEF WindowOK
  <1>4. \A i \in 1..Len(chs) - Len(times) : i \in 1..Len(chs)
    BY <1>1
  <1>5. \A i \in 1..Len(chs) - Len(times) : chs[i] + Window < t + 1
    BY <1>1, <1>2, <1>3, <1>4
  <1> QED BY <1>5 DEF WindowOK

-----------------------------------------------------------------------------
(***************************************************************************)
(* Threads                                                                 *)
(***************************************************************************)

(* There is always a thread id that is not in use. *)
LEMMA FreshThread ==
    ASSUME IsFiniteSet(DOMAIN threads), links \in [Slots -> [alive : BOOLEAN, thread : Nat]]
    PROVE  NewThread \in Nat \ {None} /\ NewThread \notin ThreadIds
  <1> DEFINE img == {links[i].thread : i \in Slots}
             f == [i \in Slots |-> links[i].thread]
  <1>1. IsFiniteSet(Slots)
    BY FleetAssumption, FS_Interval DEF Slots
  <1>2. f \in Surjection(Slots, img)
    BY DEF Surjection
  <1>3. IsFiniteSet(img)
    <2> HIDE DEF f, img
    <2> QED BY <1>1, <1>2, FS_Surjection
  <1>4. IsFiniteSet(DOMAIN threads \cup img)
    <2> HIDE DEF img
    <2> QED BY <1>3, FS_Union
  <1>5. IsFiniteSet((DOMAIN threads \cup img) \cup {None})
    BY <1>4, FS_AddElement
  <1>6. ThreadIds = (DOMAIN threads \cup img) \cup {None}
    BY DEF ThreadIds
  <1> PICK ids : ids = ThreadIds
    OBVIOUS
  <1>7. IsFiniteSet(ids) /\ Cardinality(ids) \in Nat
    BY <1>5, <1>6, FS_CardinalityType
  <1> PICK n \in Nat : n = Cardinality(ids)
    BY <1>7
  <1>8. \E t \in 0..n : t \notin ids
    <2> SUFFICES ASSUME 0..n \in SUBSET ids PROVE FALSE
      OBVIOUS
    <2>1. Cardinality(0..n) <= n
      BY <1>7, FS_Subset
    <2>2. Cardinality(0..n) = n + 1
      <3>1. Cardinality(0..n) = IF 0 > n THEN 0 ELSE n - 0 + 1
        BY FS_Interval
      <3> QED BY <3>1
    <2> QED BY <2>1, <2>2
  <1>9. NewThread \in 0..n /\ NewThread \notin ids
    BY <1>8 DEF NewThread
  <1>10. None \in ids
    BY <1>6
  <1> QED BY <1>9, <1>10

(* The slot that spawn takes is a slot whose link is not alive. *)
LEMMA FreeSlot ==
    ASSUME FreeSlots # {} PROVE FirstFree \in Slots /\ ~links[FirstFree].alive
  <1> PICK fr : fr = FreeSlots
    OBVIOUS
  <1>1. fr \subseteq Nat
    BY DEF FreeSlots, Slots
  <1>2. \E i \in fr : \A j \in fr : i <= j
    BY <1>1, LeastNat
  <1>3. FirstFree \in fr
    BY <1>2 DEF FirstFree
  <1> QED BY <1>3 DEF FreeSlots

-----------------------------------------------------------------------------
(***************************************************************************)
(* The inductive invariant                                                 *)
(***************************************************************************)

States == {"idle", "running", "givenUp"}
ThreadRec == [id : Slots, phase : {"boot", "serve", "dying", "exited"}, q : Nat]
LinkRec == [alive : BOOLEAN, thread : Nat]

ThreadsTyped ==
    /\ DOMAIN threads \subseteq Nat \ {None}
    /\ \A t \in DOMAIN threads : threads[t] \in ThreadRec
    /\ IsFiniteSet(DOMAIN threads)

(* The invariant in three parts: the types, the tree's, the fleet's. *)
Typed ==
    /\ ThreadsTyped
    /\ links \in [Slots -> LinkRec]
    /\ guests \subseteq Slots /\ inbox \in Seq(Slots)
    /\ owner \in [Slots -> Specs \cup {None}]
    /\ worker \in [Specs -> Slots \cup {None}]
    /\ state \in [Sups -> States]
    /\ restartTimes \in [Sups -> Seq(Nat)]
    /\ charges \in [Sups -> Seq(Nat)]
    /\ todo \in Seq(Tasks)
    /\ now \in Nat
    /\ stranded \in BOOLEAN /\ faulted \in BOOLEAN

Windows ==
    /\ \A s \in Sups : WindowOK(restartTimes[s], charges[s], now)
    /\ \A s \in Sups : SpanOK(charges[s], MaxRestarts[s])

(* The parts are the whole. *)
LEMMA Parts ==
    IInv <=> Typed /\ OwnersAreCurrent /\ LinksOwned /\ TodoOK(todo, state, worker) /\ Windows
  BY DEF IInv, Typed, TypeOK, ThreadsTyped, States, ThreadRec, LinkRec, Windows

(* The parts are the whole, in the next state. *)
LEMMA NextParts ==
    /\ Typed' /\ OwnersAreCurrent' /\ LinksOwned' /\ TodoOK(todo', state', worker') /\ Windows'
    => IInv'
  BY DEF IInv, Typed, TypeOK, ThreadsTyped, States, ThreadRec, LinkRec, Windows

(* The program starts in the invariant. *)
LEMMA InitInv == Init => IInv
  <1> SUFFICES ASSUME Init PROVE IInv
    OBVIOUS
  <1>0. MaxWorkers \in Nat
    BY FleetAssumption
  <1>1. ThreadsTyped
    <2>1. DOMAIN threads = {}
      BY DEF Init
    <2> QED BY <2>1, FS_EmptySet DEF ThreadsTyped
  <1>2. /\ links \in [Slots -> LinkRec] /\ owner \in [Slots -> Specs \cup {None}]
        /\ worker \in [Specs -> Slots \cup {None}]
    BY DEF Init, LinkRec, None
  <1>3. /\ guests \subseteq Slots /\ inbox \in Seq(Slots) /\ todo \in Seq(Tasks) /\ now \in Nat
        /\ stranded \in BOOLEAN /\ faulted \in BOOLEAN
    BY EmptySeq DEF Init
  <1>4. state \in [Sups -> States]
    BY DEF Init, States
  <1>5. restartTimes \in [Sups -> Seq(Nat)] /\ charges \in [Sups -> Seq(Nat)]
    BY EmptySeq DEF Init
  <1>6. Typed
    BY <1>1, <1>2, <1>3, <1>4, <1>5 DEF Typed
  <1>7. OwnersAreCurrent /\ LinksOwned
    BY DEF Init, OwnersAreCurrent, LinksOwned
  <1>8. TodoOK(todo, state, worker)
    <2>1. Len(todo) = 0
      BY EmptySeq DEF Init
    <2>2. Pending(todo) = {} /\ Ordered(todo) /\ StartedOnce(todo)
      BY <2>1 DEF Pending, Ordered, StartedOnce
    <2>3. \A c \in Specs : worker[c] = None
      BY DEF Init
    <2> QED BY <2>2, <2>3 DEF TodoOK, StartsOK, StopsBelow, DownOK, GaveUpOK
  <1>9. Windows
    <2>1. \A s \in Sups : restartTimes[s] = << >> /\ charges[s] = << >>
      BY DEF Init
    <2>2. WindowOK(<< >>, << >>, now) /\ \A m : SpanOK(<< >>, m)
      BY DEF WindowOK, SpanOK
    <2> QED BY <2>1, <2>2 DEF Windows
  <1> QED BY <1>6, <1>7, <1>8, <1>9, Parts

-----------------------------------------------------------------------------
(***************************************************************************)
(* Worker threads and the primitives                                       *)
(***************************************************************************)

(* A step of the threads alone touches no invariant of the tree. *)
LEMMA ThreadsOnly ==
    ASSUME IInv, ThreadsTyped', inbox' \in Seq(Slots), stranded' \in BOOLEAN,
           UNCHANGED <<links, guests, tree, todo, now, faulted>>
    PROVE  IInv'
  <1>1. Typed /\ OwnersAreCurrent /\ LinksOwned /\ TodoOK(todo, state, worker) /\ Windows
    BY Parts
  <1>2. Typed'
    BY <1>1 DEF Typed, tree
  <1>3. OwnersAreCurrent' /\ LinksOwned' /\ Windows'
    BY <1>1 DEF OwnersAreCurrent, LinksOwned, Windows, tree
  <1>4. TodoOK(todo', state', worker')
    <2>1. todo' = todo /\ state' = state /\ worker' = worker
      BY DEF tree
    <2> QED BY <1>1, <2>1
  <1> QED BY <1>2, <1>3, <1>4, NextParts

(* Threads boot, serve, die, unwind and exit. *)
LEMMA ThreadSteps ==
    ASSUME IInv, NEW t \in DOMAIN threads,
           \/ Booted(t) \/ DispatchPending(t) \/ Unwind(t)
           \/ BootFails(t) \/ DispatchFails(t) \/ FatalExit(t)
    PROVE  IInv'
  <1>1. Typed
    BY Parts
  <1>2. /\ DOMAIN threads \subseteq Nat \ {None} /\ IsFiniteSet(DOMAIN threads)
        /\ \A u \in DOMAIN threads : threads[u] \in ThreadRec
        /\ inbox \in Seq(Slots) /\ stranded \in BOOLEAN
    BY <1>1 DEF Typed, ThreadsTyped
  <1>3. ASSUME NEW rec \in ThreadRec, threads' = [threads EXCEPT ![t] = rec]
        PROVE  ThreadsTyped'
    <2>1. DOMAIN threads' = DOMAIN threads
      BY <1>3
    <2>2. \A u \in DOMAIN threads : threads'[u] = IF u = t THEN rec ELSE threads[u]
      BY <1>3
    <2>3. \A u \in DOMAIN threads' : threads'[u] \in ThreadRec
      BY <1>2, <1>3, <2>1, <2>2
    <2> QED BY <1>2, <2>1, <2>3 DEF ThreadsTyped
  <1>4. ASSUME Dies(t) PROVE IInv'
    <2>1. [threads[t] EXCEPT !.phase = "dying"] \in ThreadRec
      BY <1>2 DEF ThreadRec
    <2>2. threads' = [threads EXCEPT ![t] = [threads[t] EXCEPT !.phase = "dying"]]
      BY <1>4 DEF Dies
    <2>3. ThreadsTyped'
      BY <1>3, <2>1, <2>2
    <2>4. threads[t].id \in Slots
      BY <1>2 DEF ThreadRec
    <2>5. inbox' \in Seq(Slots) /\ stranded' \in BOOLEAN
      BY <1>2, <1>4, <2>4, AppendProperties DEF Dies
    <2> QED BY <1>4, <2>3, <2>5, ThreadsOnly DEF Dies
  <1>5. ASSUME Booted(t) PROVE IInv'
    <2>1. [threads[t] EXCEPT !.phase = "serve"] \in ThreadRec
      BY <1>2 DEF ThreadRec
    <2>2. threads' = [threads EXCEPT ![t] = [threads[t] EXCEPT !.phase = "serve"]]
      BY <1>5 DEF Booted
    <2>3. ThreadsTyped'
      BY <1>3, <2>1, <2>2
    <2> QED BY <1>2, <1>5, <2>3, ThreadsOnly DEF Booted
  <1>6. ASSUME DispatchPending(t) PROVE IInv'
    <2>0. threads[t].q \in Nat /\ threads[t].q > 0
      BY <1>2, <1>6 DEF ThreadRec, DispatchPending
    <2>1. [threads[t] EXCEPT !.q = @ - 1] \in ThreadRec
      BY <1>2, <2>0 DEF ThreadRec
    <2>2. threads' = [threads EXCEPT ![t] = [threads[t] EXCEPT !.q = @ - 1]]
      BY <1>6 DEF DispatchPending
    <2>3. ThreadsTyped'
      BY <1>3, <2>1, <2>2
    <2> QED BY <1>2, <1>6, <2>3, ThreadsOnly DEF DispatchPending
  <1>7. ASSUME Unwind(t) PROVE IInv'
    <2>1. threads' = [u \in DOMAIN threads \ {t} |-> threads[u]]
      BY <1>7 DEF Unwind
    <2>2. DOMAIN threads' = DOMAIN threads \ {t} /\ \A u \in DOMAIN threads' : threads'[u] = threads[u]
      BY <2>1
    <2>3. IsFiniteSet(DOMAIN threads \ {t})
      BY <1>2, FS_RemoveElement
    <2>4. ThreadsTyped'
      BY <1>2, <2>2, <2>3 DEF ThreadsTyped
    <2> QED BY <1>2, <1>7, <2>4, ThreadsOnly DEF Unwind
  <1>8. ASSUME FatalExit(t) PROVE IInv'
    <2>1. [threads[t] EXCEPT !.phase = "exited"] \in ThreadRec
      BY <1>2 DEF ThreadRec
    <2>2. threads' = [threads EXCEPT ![t] = [threads[t] EXCEPT !.phase = "exited"]]
      BY <1>8 DEF FatalExit
    <2>3. ThreadsTyped'
      BY <1>3, <2>1, <2>2
    <2> QED BY <1>2, <1>8, <2>3, ThreadsOnly DEF FatalExit
  <1> QED BY <1>4, <1>5, <1>6, <1>7, <1>8 DEF BootFails, DispatchFails

(* A spawn at a free slot keeps the fleet's types. *)
LEMMA SpawnTyped ==
    ASSUME Typed, FreeSlots # {}, SpawnAt(FirstFree, NewThread)
    PROVE  /\ ThreadsTyped' /\ links' \in [Slots -> LinkRec]
           /\ FirstFree \in Slots /\ ~links[FirstFree].alive
           /\ \A i \in Slots : i # FirstFree => links'[i] = links[i]
  <1>1. FirstFree \in Slots /\ ~links[FirstFree].alive
    BY FreeSlot
  <1>2. /\ DOMAIN threads \subseteq Nat \ {None} /\ IsFiniteSet(DOMAIN threads)
        /\ \A u \in DOMAIN threads : threads[u] \in ThreadRec
        /\ links \in [Slots -> LinkRec]
    BY DEF Typed, ThreadsTyped
  <1>3. NewThread \in Nat \ {None}
    BY <1>2, FreshThread DEF LinkRec
  <1> PICK i : i = FirstFree
    OBVIOUS
  <1> PICK t : t = NewThread
    OBVIOUS
  <1>4. /\ threads' = [u \in DOMAIN threads \cup {t} |->
                         IF u = t THEN [id |-> i, phase |-> "boot", q |-> 0] ELSE threads[u]]
        /\ links' = [links EXCEPT ![i] = [alive |-> TRUE, thread |-> t]]
    BY DEF SpawnAt
  <1>5. [id |-> i, phase |-> "boot", q |-> 0] \in ThreadRec /\ [alive |-> TRUE, thread |-> t] \in LinkRec
    BY <1>1, <1>3 DEF ThreadRec, LinkRec
  <1>6. DOMAIN threads' = DOMAIN threads \cup {t}
    BY <1>4
  <1>7. \A u \in DOMAIN threads' : threads'[u] \in ThreadRec
    BY <1>2, <1>4, <1>5, <1>6
  <1>8. IsFiniteSet(DOMAIN threads \cup {t})
    BY <1>2, FS_AddElement
  <1>9. ThreadsTyped'
    BY <1>2, <1>3, <1>6, <1>7, <1>8 DEF ThreadsTyped
  <1>10. links' \in [Slots -> LinkRec] /\ \A j \in Slots : j # i => links'[j] = links[j]
    BY <1>1, <1>2, <1>4, <1>5
  <1> QED BY <1>1, <1>9, <1>10

(* A cast queues at the receiver, or finds it dead and reports it. *)
LEMMA CastStep ==
    ASSUME IInv, NEW c \in Specs, Cast(c) PROVE IInv'
  <1>1. Typed /\ OwnersAreCurrent /\ LinksOwned /\ TodoOK(todo, state, worker) /\ Windows
    BY Parts
  <1> PICK i : i = worker[c]
    OBVIOUS
  <1>2. i \in Slots /\ links[i].alive
    BY <1>1 DEF Typed, Cast
  <1>3. UNCHANGED <<guests, tree, todo, now>>
    BY DEF Cast
  <1>4. todo' = todo /\ state' = state /\ worker' = worker /\ TodoOK(todo', state', worker')
    BY <1>1, <1>3 DEF tree
  <1>5. OwnersAreCurrent' /\ Windows'
    BY <1>1, <1>3 DEF OwnersAreCurrent, Windows, tree
  <1>6. ASSUME links[i].thread \in DOMAIN threads,
               threads' = [threads EXCEPT ![links[i].thread].q = @ + 1],
               UNCHANGED <<links, inbox, stranded, faulted>>
        PROVE  IInv'
    <2> PICK t \in DOMAIN threads : t = links[i].thread
      BY <1>6
    <2>1. /\ DOMAIN threads \subseteq Nat \ {None} /\ IsFiniteSet(DOMAIN threads)
          /\ \A u \in DOMAIN threads : threads[u] \in ThreadRec
      BY <1>1 DEF Typed, ThreadsTyped
    <2>2. [threads[t] EXCEPT !.q = @ + 1] \in ThreadRec
      BY <2>1 DEF ThreadRec
    <2>3. threads' = [threads EXCEPT ![t] = [threads[t] EXCEPT !.q = @ + 1]]
      BY <1>6
    <2>4. DOMAIN threads' = DOMAIN threads
      BY <2>3
    <2>5. \A u \in DOMAIN threads' : threads'[u] \in ThreadRec
      BY <2>1, <2>2, <2>3
    <2>6. ThreadsTyped'
      BY <2>1, <2>4, <2>5 DEF ThreadsTyped
    <2>7. inbox' \in Seq(Slots) /\ stranded' \in BOOLEAN
      BY <1>1, <1>6 DEF Typed
    <2> QED BY <1>3, <1>6, <2>6, <2>7, ThreadsOnly
  <1>7. ASSUME links' = [links EXCEPT ![i].alive = FALSE], inbox' = Append(inbox, i),
               stranded' = FALSE, faulted' = TRUE, UNCHANGED threads
        PROVE  IInv'
    <2>1. links \in [Slots -> LinkRec] /\ inbox \in Seq(Slots)
      BY <1>1 DEF Typed
    <2>2. [links[i] EXCEPT !.alive = FALSE] \in LinkRec
      BY <1>2, <2>1 DEF LinkRec
    <2>3. links' \in [Slots -> LinkRec]
      BY <1>2, <1>7, <2>1, <2>2
    <2>4. inbox' \in Seq(Slots)
      BY <1>2, <1>7, <2>1, AppendProperties
    <2>5. ThreadsTyped'
      BY <1>1, <1>7 DEF Typed, ThreadsTyped
    <2>6. Typed'
      BY <1>1, <1>3, <1>7, <2>3, <2>4, <2>5 DEF Typed, tree
    <2>7. \A j \in Slots : links'[j].alive => links[j].alive
      BY <1>2, <1>7, <2>1 DEF LinkRec
    <2>8. LinksOwned'
      BY <1>1, <1>3, <2>7 DEF LinksOwned, tree
    <2> QED BY <1>4, <1>5, <2>6, <2>8, NextParts
  <1> QED BY <1>6, <1>7 DEF Cast

(* The embedder spawns a worker of its own. *)
LEMMA SpawnUnsupervisedStep ==
    ASSUME IInv, SpawnUnsupervised PROVE IInv'
  <1>1. Typed /\ OwnersAreCurrent /\ LinksOwned /\ TodoOK(todo, state, worker) /\ Windows
    BY Parts
  <1>2. FreeSlots # {} /\ SpawnAt(FirstFree, NewThread)
    BY DEF SpawnUnsupervised
  <1>3. /\ ThreadsTyped' /\ links' \in [Slots -> LinkRec]
        /\ FirstFree \in Slots /\ ~links[FirstFree].alive
        /\ \A i \in Slots : i # FirstFree => links'[i] = links[i]
    BY <1>1, <1>2, SpawnTyped
  <1> PICK i : i = FirstFree
    OBVIOUS
  <1>4. guests' = guests \cup {i} /\ UNCHANGED <<inbox, stranded, tree, todo, now, faulted>>
    BY DEF SpawnUnsupervised
  <1>5. Typed'
    BY <1>1, <1>3, <1>4 DEF Typed, tree
  <1>6. LinksOwned'
    BY <1>1, <1>3, <1>4 DEF LinksOwned, tree
  <1>7. OwnersAreCurrent' /\ Windows'
    BY <1>1, <1>4 DEF OwnersAreCurrent, Windows, tree
  <1>8. TodoOK(todo', state', worker')
    <2>1. todo' = todo /\ state' = state /\ worker' = worker
      BY <1>4 DEF tree
    <2> QED BY <1>1, <2>1
  <1> QED BY <1>5, <1>6, <1>7, <1>8, NextParts

(* The embedder sends start or stop to a supervisor. *)
LEMMA CommandStep ==
    ASSUME IInv, NEW s \in Sups, Command(Start(s)) \/ Command(Stop(s)) PROVE IInv'
  <1>1. Typed /\ OwnersAreCurrent /\ LinksOwned /\ TodoOK(todo, state, worker) /\ Windows
    BY Parts
  <1>2. PICK t \in Tasks : Command(t) /\ (t = Start(s) \/ t = Stop(s))
    BY ParentOf, TaskForms
  <1>3. todo = << >> /\ todo' = << t >> /\ UNCHANGED <<fleet, tree, now, faulted>>
    BY <1>2 DEF Command
  <1>4. Pending(todo) = {}
    BY <1>3, EmptySeq DEF Pending
  <1>5. DownOK({}, state, worker)
    BY <1>1, <1>4 DEF TodoOK
  <1>6. t # GaveUp(Root) /\ \A c \in Specs : t # Start(c)
    BY <1>2, TasksDiffer, ParentOf
  <1> PICK st : st = state
    OBVIOUS
  <1> PICK wk : wk = worker
    OBVIOUS
  <1>7. << t >> \in Seq(Tasks) /\ TodoOK(<< t >>, st, wk)
    BY <1>5, <1>6, SingleTodo
  <1>8. state' = st /\ worker' = wk
    BY <1>3 DEF tree
  <1>9. Typed'
    BY <1>1, <1>3, <1>7 DEF Typed, ThreadsTyped, fleet, tree
  <1>10. OwnersAreCurrent' /\ LinksOwned' /\ Windows'
    BY <1>1, <1>3 DEF OwnersAreCurrent, LinksOwned, Windows, fleet, tree
  <1>11. TodoOK(todo', state', worker')
    BY <1>3, <1>7, <1>8
  <1> QED BY <1>9, <1>10, <1>11, NextParts

(* The clock ticks. *)
LEMMA TickStep ==
    ASSUME IInv, Tick PROVE IInv'
  <1>1. Typed /\ OwnersAreCurrent /\ LinksOwned /\ TodoOK(todo, state, worker) /\ Windows
    BY Parts
  <1>2. now' = now + 1 /\ UNCHANGED <<fleet, tree, todo, faulted>>
    BY DEF Tick
  <1>3. Typed'
    BY <1>1, <1>2 DEF Typed, ThreadsTyped, fleet, tree
  <1>4. OwnersAreCurrent' /\ LinksOwned'
    BY <1>1, <1>2 DEF OwnersAreCurrent, LinksOwned, fleet, tree
  <1>5. TodoOK(todo', state', worker')
    <2>1. todo' = todo /\ state' = state /\ worker' = worker
      BY <1>2 DEF tree
    <2> QED BY <1>1, <2>1
  <1>6. Windows'
    <2>1. ASSUME NEW s \in Sups PROVE WindowOK(restartTimes[s], charges[s], now + 1)
      <3> PICK times : times = restartTimes[s]
        OBVIOUS
      <3> PICK chs : chs = charges[s]
        OBVIOUS
      <3> PICK t : t = now
        OBVIOUS
      <3>1. times \in Seq(Nat) /\ chs \in Seq(Nat) /\ t \in Nat
        BY <1>1 DEF Typed
      <3>2. Len(times) \in Nat
        BY <3>1, LenProperties
      <3>3. WindowOK(times, chs, t)
        BY <1>1 DEF Windows
      <3>4. WindowOK(times, chs, t + 1)
        BY <3>1, <3>2, <3>3, WindowTick
      <3> QED BY <3>4
    <2>2. restartTimes' = restartTimes /\ charges' = charges
      BY <1>2 DEF tree
    <2> QED BY <1>1, <1>2, <2>1, <2>2 DEF Windows
  <1> QED BY <1>3, <1>4, <1>5, <1>6, NextParts

-----------------------------------------------------------------------------
(***************************************************************************)
(* Decisions                                                               *)
(***************************************************************************)

(* restartOrGiveUp: for a child without a worker, with nothing left to     *)
(* return to: the new decision is in order and the windows stay bounded.   *)
LEMMA Decided ==
    ASSUME Typed, Windows, NEW s \in Sups, NEW x \in Kids(s), NEW wk,
           state[s] = "running", DownOK({}, state, wk), x \in Specs => wk[x] = None,
           RestartOrGiveUp(s, x, << >>)
    PROVE  /\ todo' \in Seq(Tasks) /\ state' \in [Sups -> States]
           /\ restartTimes' \in [Sups -> Seq(Nat)] /\ charges' \in [Sups -> Seq(Nat)]
           /\ TodoOK(todo', state', wk)
           /\ \A r \in Sups : WindowOK(restartTimes'[r], charges'[r], now)
           /\ \A r \in Sups : SpanOK(charges'[r], MaxRestarts[r])
  <1>1. /\ state \in [Sups -> States] /\ restartTimes \in [Sups -> Seq(Nat)]
        /\ charges \in [Sups -> Seq(Nat)] /\ now \in Nat
    BY DEF Typed
  <1>2. \A r \in Sups : WindowOK(restartTimes[r], charges[r], now) /\ SpanOK(charges[r], MaxRestarts[r])
    BY DEF Windows
  <1> PICK st : st = state
    OBVIOUS
  <1> PICK times : times = restartTimes[s]
    OBVIOUS
  <1> PICK chs : chs = charges[s]
    OBVIOUS
  <1> PICK t : t = now
    OBVIOUS
  <1> PICK rc : rc = Recent(s)
    OBVIOUS
  <1>3. times \in Seq(Nat) /\ chs \in Seq(Nat) /\ t \in Nat /\ WindowOK(times, chs, t)
    BY <1>1, <1>2
  <1>4. rc = PrunedTo(times, {i \in DOMAIN times : times[i] + Window >= t})
    BY DEF Recent
  <1>5. rc \in Seq(Nat) /\ WindowOK(rc, chs, t)
    BY <1>3, <1>4, PrunedWindow
  <1>6. CASE /\ state' = [state EXCEPT ![s] = "givenUp"]
             /\ restartTimes' = [restartTimes EXCEPT ![s] = rc]
             /\ todo' = GiveUpTasks(s) \o << >>
             /\ UNCHANGED charges
    <2>1. st \in [Sups -> {"idle", "running", "givenUp"}] /\ DownOK({}, st, wk)
      BY <1>1 DEF States
    <2>2. /\ GiveUpTasks(s) \in Seq(Tasks)
          /\ TodoOK(GiveUpTasks(s), [st EXCEPT ![s] = "givenUp"], wk)
      BY <2>1, GiveUpTodo
    <2>3. todo' = GiveUpTasks(s)
      BY <1>6, <2>2, ConcatEmptySeq
    <2>4. state' = [st EXCEPT ![s] = "givenUp"]
      BY <1>6
    <2>5. state' \in [Sups -> States]
      BY <2>1, <2>4 DEF States
    <2>6. TodoOK(todo', state', wk)
      BY <2>2, <2>3, <2>4
    <2>7. /\ restartTimes' \in [Sups -> Seq(Nat)] /\ restartTimes'[s] = rc
          /\ \A r \in Sups : r # s => restartTimes'[r] = restartTimes[r]
      BY <1>1, <1>5, <1>6
    <2>8. \A r \in Sups : WindowOK(restartTimes'[r], charges'[r], now)
      BY <1>2, <1>5, <1>6, <2>7
    <2> QED BY <1>1, <1>2, <1>6, <2>2, <2>3, <2>5, <2>6, <2>7, <2>8
  <1>7. CASE /\ Len(rc) < MaxRestarts[s]
             /\ restartTimes' = [restartTimes EXCEPT ![s] = Append(rc, now)]
             /\ charges' = [charges EXCEPT ![s] = Append(@, now)]
             /\ todo' = ApplyStrategy(s, x) \o << >>
             /\ UNCHANGED state
    <2>1. ApplyStrategy(s, x) \in Seq(Tasks) /\ TodoOK(ApplyStrategy(s, x), st, wk)
      BY StrategyTodo
    <2>2. todo' = ApplyStrategy(s, x)
      BY <1>7, <2>1, ConcatEmptySeq
    <2>3. TodoOK(todo', state', wk)
      BY <1>7, <2>1, <2>2
    <2>4. MaxRestarts[s] \in Nat /\ SpanOK(chs, MaxRestarts[s])
      BY <1>2, FleetAssumption
    <2>5. /\ Append(rc, t) \in Seq(Nat) /\ Append(chs, t) \in Seq(Nat)
          /\ WindowOK(Append(rc, t), Append(chs, t), t)
          /\ SpanOK(Append(chs, t), MaxRestarts[s])
      BY <1>3, <1>5, <1>7, <2>4, ChargedWindow
    <2>6. /\ restartTimes' \in [Sups -> Seq(Nat)] /\ restartTimes'[s] = Append(rc, t)
          /\ \A r \in Sups : r # s => restartTimes'[r] = restartTimes[r]
      BY <1>1, <1>7, <2>5
    <2>7. /\ charges' \in [Sups -> Seq(Nat)] /\ charges'[s] = Append(chs, t)
          /\ \A r \in Sups : r # s => charges'[r] = charges[r]
      BY <1>1, <1>7, <2>5
    <2>8. \A r \in Sups : WindowOK(restartTimes'[r], charges'[r], now)
      BY <1>2, <2>5, <2>6, <2>7
    <2>9. \A r \in Sups : SpanOK(charges'[r], MaxRestarts[r])
      BY <1>2, <2>5, <2>7
    <2> QED BY <1>1, <1>7, <2>1, <2>2, <2>3, <2>6, <2>7, <2>8, <2>9
  <1> QED BY <1>6, <1>7 DEF RestartOrGiveUp

(* A death notice of a worker that nobody owns is dropped. *)
LEMMA UnsupervisedDiedStep ==
    ASSUME IInv, UnsupervisedDied PROVE IInv'
  <1>1. Typed
    BY Parts
  <1>2. inbox # << >> /\ inbox' = Tail(inbox)
        /\ UNCHANGED <<threads, links, guests, stranded, tree, todo, now, faulted>>
    BY DEF UnsupervisedDied
  <1>3. inbox' \in Seq(Slots)
    BY <1>1, <1>2, HeadTailProperties DEF Typed
  <1>4. ThreadsTyped' /\ stranded' \in BOOLEAN
    BY <1>1, <1>2 DEF Typed, ThreadsTyped
  <1> QED BY <1>2, <1>3, <1>4, ThreadsOnly

(* Terminating the worker of c: its slot is free and nobody's. *)
LEMMA TerminatedStep ==
    ASSUME Typed, OwnersAreCurrent, LinksOwned, NEW c \in Specs, worker[c] # None,
           owner' = [owner EXCEPT ![worker[c]] = None],
           links' = Terminated(worker[c]),
           worker' = [worker EXCEPT ![c] = None],
           guests' = guests
    PROVE  /\ owner' \in [Slots -> Specs \cup {None}]
           /\ links' \in [Slots -> LinkRec]
           /\ worker' \in [Specs -> Slots \cup {None}]
           /\ worker'[c] = None /\ \A d \in Specs : d # c => worker'[d] = worker[d]
           /\ OwnersAreCurrent' /\ LinksOwned'
  <1>1. /\ owner \in [Slots -> Specs \cup {None}] /\ links \in [Slots -> LinkRec]
        /\ worker \in [Specs -> Slots \cup {None}]
    BY DEF Typed
  <1> PICK i \in Slots : i = worker[c]
    BY <1>1
  <1>2. [alive |-> FALSE, thread |-> None] \in LinkRec
    BY DEF LinkRec, None
  <1>3. /\ owner' \in [Slots -> Specs \cup {None}] /\ owner'[i] = None
        /\ \A j \in Slots : j # i => owner'[j] = owner[j]
    BY <1>1
  <1>4. /\ links' \in [Slots -> LinkRec] /\ ~links'[i].alive
        /\ \A j \in Slots : j # i => links'[j] = links[j]
    BY <1>1, <1>2 DEF Terminated
  <1>5. /\ worker' \in [Specs -> Slots \cup {None}] /\ worker'[c] = None
        /\ \A d \in Specs : d # c => worker'[d] = worker[d]
    BY <1>1
  <1>6. OwnersAreCurrent'
    <2> SUFFICES ASSUME NEW j \in Slots, owner'[j] # None PROVE worker'[owner'[j]] = j
      BY DEF OwnersAreCurrent
    <2>1. j # i /\ owner'[j] = owner[j] /\ owner[j] \in Specs
      BY <1>1, <1>3
    <2>2. worker[owner[j]] = j
      BY <2>1 DEF OwnersAreCurrent
    <2>3. owner[j] # c
      BY <2>1, <2>2
    <2> QED BY <1>5, <2>1, <2>2, <2>3
  <1>7. LinksOwned'
    BY <1>3, <1>4 DEF LinksOwned
  <1> QED BY <1>3, <1>4, <1>5, <1>6, <1>7

(* A death notice of an owned worker: it is terminated, and its supervisor *)
(* restarts or gives up.                                                   *)
LEMMA ChildDiedStep ==
    ASSUME IInv, ChildDied PROVE IInv'
  <1>1. Typed /\ OwnersAreCurrent /\ LinksOwned /\ TodoOK(todo, state, worker) /\ Windows
    BY Parts
  <1> PICK id : id = Head(inbox)
    OBVIOUS
  <1> PICK c : c = owner[id]
    OBVIOUS
  <1> PICK s : s = SupOf(c)
    OBVIOUS
  <1>2. /\ todo = << >> /\ inbox # << >> /\ c # None
        /\ inbox' = Tail(inbox)
        /\ owner' = [owner EXCEPT ![id] = None]
        /\ links' = IF worker[c] = None THEN links ELSE Terminated(worker[c])
        /\ worker' = [worker EXCEPT ![c] = None]
        /\ IF state[s] = "running" /\ c \notin Temporary
             THEN RestartOrGiveUp(s, c, << >>)
             ELSE UNCHANGED <<state, restartTimes, charges, todo>>
        /\ UNCHANGED <<threads, guests, stranded, now, faulted>>
    BY DEF ChildDied
  <1>3. id \in Slots /\ inbox' \in Seq(Slots)
    BY <1>1, <1>2, HeadTailProperties DEF Typed
  <1>4. c \in Specs /\ worker[c] = id /\ id # None
    <2>1. c \in Specs
      BY <1>1, <1>2, <1>3 DEF Typed
    <2>2. worker[c] = id
      BY <1>1, <1>2, <1>3 DEF OwnersAreCurrent
    <2>3. id # None
      BY <1>3 DEF Slots, None
    <2> QED BY <2>1, <2>2, <2>3
  <1>5. /\ owner' = [owner EXCEPT ![worker[c]] = None]
        /\ links' = Terminated(worker[c]) /\ worker[c] # None /\ guests' = guests
    BY <1>2, <1>4
  <1>6. /\ owner' \in [Slots -> Specs \cup {None}]
        /\ links' \in [Slots -> LinkRec]
        /\ worker' \in [Specs -> Slots \cup {None}]
        /\ worker'[c] = None /\ \A d \in Specs : d # c => worker'[d] = worker[d]
        /\ OwnersAreCurrent' /\ LinksOwned'
    BY <1>1, <1>2, <1>4, <1>5, TerminatedStep
  <1>7. s \in Sups /\ c \in Kids(s)
    BY <1>4, ParentOf
  <1>8. Pending(todo) = {}
    BY <1>2, EmptySeq DEF Pending
  <1>9. DownOK({}, state, worker)
    BY <1>1, <1>8 DEF TodoOK
  <1>10. DownOK({}, state, worker')
    <2> SUFFICES ASSUME NEW r \in Sups, state[r] # "running", NEW d \in Kids(r) \cap Specs
                 PROVE  worker'[d] = None
      BY DEF DownOK
    <2>1. worker[d] = None
      BY <1>9 DEF DownOK
    <2> QED BY <1>6, <2>1
  <1>11. ThreadsTyped'
    BY <1>1, <1>2 DEF Typed, ThreadsTyped
  <1>12. CASE state[s] = "running" /\ c \notin Temporary
    <2> PICK wk : wk = worker'
      OBVIOUS
    <2>1. RestartOrGiveUp(s, c, << >>)
      BY <1>2, <1>12
    <2>2. DownOK({}, state, wk) /\ wk[c] = None
      BY <1>6, <1>10
    <2>3. /\ todo' \in Seq(Tasks) /\ state' \in [Sups -> States]
          /\ restartTimes' \in [Sups -> Seq(Nat)] /\ charges' \in [Sups -> Seq(Nat)]
          /\ TodoOK(todo', state', wk)
          /\ \A r \in Sups : WindowOK(restartTimes'[r], charges'[r], now)
          /\ \A r \in Sups : SpanOK(charges'[r], MaxRestarts[r])
      BY <1>1, <1>7, <1>12, <2>1, <2>2, Decided
    <2>4. Typed'
      BY <1>1, <1>2, <1>3, <1>6, <1>11, <2>3 DEF Typed
    <2>5. Windows'
      BY <1>2, <2>3 DEF Windows
    <2>6. TodoOK(todo', state', worker')
      BY <2>3
    <2> QED BY <1>6, <2>4, <2>5, <2>6, NextParts
  <1>13. CASE ~(state[s] = "running" /\ c \notin Temporary)
    <2>1. UNCHANGED <<state, restartTimes, charges, todo>>
      BY <1>2, <1>13
    <2>2. Typed'
      BY <1>1, <1>2, <1>3, <1>6, <1>11, <2>1 DEF Typed
    <2>3. Windows'
      BY <1>1, <1>2, <2>1 DEF Windows
    <2>4. TodoOK(todo, state, worker')
      BY <1>1, <1>8, <1>10 DEF TodoOK, StartsOK
    <2>5. TodoOK(todo', state', worker')
      BY <2>1, <2>4
    <2> QED BY <1>6, <2>2, <2>3, <2>5, NextParts
  <1> QED BY <1>12, <1>13

-----------------------------------------------------------------------------
(***************************************************************************)
(* Carrying a decision out                                                 *)
(***************************************************************************)

(* What the head of a decision in order says of the rest of it. *)
LEMMA HeadOfTodo ==
    ASSUME NEW td \in Seq(Tasks), td # << >>, NEW st, NEW wk, TodoOK(td, st, wk)
    PROVE  /\ Head(td) \in Tasks /\ Tail(td) \in Seq(Tasks)
           /\ Head(td) \in Pending(td) /\ Pending(Tail(td)) \subseteq Pending(td)
           /\ \A t \in Pending(td) : t = Head(td) \/ t \in Pending(Tail(td))
           /\ Ordered(Tail(td)) /\ StartedOnce(Tail(td))
           /\ Head(td).op # "stop" => \A t \in Pending(td) : t.op # "stop"
           /\ Head(td).op = "gaveUp" => Tail(td) = << >>
           /\ Head(td).op = "start" /\ Head(td).of \in Specs =>
                 Head(td) \notin Pending(Tail(td))
  <1>1. Ordered(td) /\ StartedOnce(td)
    BY DEF TodoOK
  <1> QED BY <1>1, TailTodo

(* What is left after a task whose end no other task waits for. *)
LEMMA RestOfTodo ==
    ASSUME NEW td \in Seq(Tasks), td # << >>, NEW st, NEW wk, TodoOK(td, st, wk),
           \A c \in Specs : Head(td) = Stop(c) => wk[c] = None
    PROVE  TodoOK(Tail(td), st, wk)
  <1> PICK p : p = Pending(td)
    OBVIOUS
  <1> PICK q : q = Pending(Tail(td))
    OBVIOUS
  <1>1. /\ q \subseteq p
        /\ \A t \in p : t = Head(td) \/ t \in q
        /\ Ordered(Tail(td)) /\ StartedOnce(Tail(td))
    BY HeadOfTodo
  <1>2. StartsOK(p, st, wk) /\ StopsBelow(p) /\ DownOK(p, st, wk) /\ GaveUpOK(p)
    BY DEF TodoOK
  <1>3. \A c \in Specs : Stop(c) \in p => wk[c] = None \/ Stop(c) \in q
    BY <1>1
  <1>4. StartsOK(q, st, wk)
    BY <1>1, <1>2, <1>3 DEF StartsOK
  <1>5. StopsBelow(q) /\ GaveUpOK(q)
    BY <1>1, <1>2 DEF StopsBelow, GaveUpOK
  <1>6. DownOK(q, st, wk)
    BY <1>2, <1>3 DEF DownOK
  <1> QED BY <1>1, <1>4, <1>5, <1>6 DEF TodoOK

(* start of a supervisor: its children, which have no worker, are to start. *)
LEMMA StartSupervisorTodo ==
    ASSUME NEW td \in Seq(Tasks), td # << >>, NEW r \in Sups, Head(td) = Start(r),
           NEW st \in [Sups -> States], NEW wk, TodoOK(td, st, wk), st[r] # "running"
    PROVE  /\ StartAll(Children[r]) \o Tail(td) \in Seq(Tasks)
           /\ TodoOK(StartAll(Children[r]) \o Tail(td), [st EXCEPT ![r] = "running"], wk)
  <1> PICK p : p = Pending(td)
    OBVIOUS
  <1> PICK tl : tl = Tail(td)
    OBVIOUS
  <1> PICK q : q = Pending(tl)
    OBVIOUS
  <1> PICK xs : xs = Children[r]
    OBVIOUS
  <1> PICK sr : sr = [st EXCEPT ![r] = "running"]
    OBVIOUS
  <1>1. /\ tl \in Seq(Tasks) /\ q \subseteq p
        /\ Ordered(tl) /\ StartedOnce(tl)
        /\ Head(td).op # "stop" => \A t \in p : t.op # "stop"
    BY HeadOfTodo
  <1>2. \A t \in p : t.op # "stop"
    BY <1>1, TaskForms
  <1>3. \A x : Stop(x) \notin p
    BY <1>2, TaskForms
  <1>4. StartsOK(p, st, wk) /\ DownOK(p, st, wk) /\ GaveUpOK(p)
    BY DEF TodoOK
  <1>5. /\ xs \in Seq(Child) /\ Injective(xs)
        /\ Kids(r) = {xs[i] : i \in 1..Len(xs)}
    BY ChildrenListed
  <1>6. \A c \in Kids(r) \cap Specs : wk[c] = None /\ SupOf(c) = r /\ Start(c) \notin p
    <2> SUFFICES ASSUME NEW c \in Kids(r) \cap Specs
                 PROVE  wk[c] = None /\ SupOf(c) = r /\ Start(c) \notin p
      OBVIOUS
    <2>1. wk[c] = None
      BY <1>3, <1>4 DEF DownOK
    <2>2. SupOf(c) = r
      BY ParentOf
    <2>3. Start(c) \notin p
      BY <1>4, <2>2 DEF StartsOK
    <2> QED BY <2>1, <2>2, <2>3
  <1>7. \A i \in 1..Len(xs) : xs[i] \in Specs => Start(xs[i]) \notin q
    BY <1>1, <1>5, <1>6
  <1>8. \A t \in q : t.op # "stop"
    BY <1>1, <1>2
  <1>9. Ordered(StartAll(xs) \o tl) /\ StartedOnce(StartAll(xs) \o tl)
    BY <1>1, <1>5, <1>7, <1>8, StartsFirst
  <1>10. /\ StartAll(xs) \in Seq(Tasks)
         /\ \A t \in Pending(StartAll(xs)) : \E i \in 1..Len(xs) : t = Start(xs[i])
    BY <1>5, StartAllTasks
  <1> PICK n : n = Pending(StartAll(xs) \o tl)
    OBVIOUS
  <1>11. StartAll(xs) \o tl \in Seq(Tasks) /\ n = Pending(StartAll(xs)) \cup q
    BY <1>1, <1>10, ConcatTodo
  <1>12. \A x : Stop(x) \notin n
    BY <1>1, <1>3, <1>10, <1>11, TasksDiffer
  <1>13. \A x : GaveUp(x) \in n => GaveUp(x) \in p
    BY SMTT(20), <1>1, <1>10, <1>11, TasksDiffer
  <1>14. ASSUME NEW x, Start(x) \in n PROVE x \in Kids(r) \/ Start(x) \in p
    <2>1. CASE Start(x) \in Pending(StartAll(xs))
      <3>1. PICK i \in 1..Len(xs) : Start(x) = Start(xs[i])
        BY <1>10, <2>1
      <3>2. x = xs[i]
        BY <3>1, TasksDiffer
      <3> QED BY <1>5, <3>2
    <2>2. CASE Start(x) \in q
      BY <1>1, <2>2
    <2> QED BY <1>11, <1>14, <2>1, <2>2
  <1>15. sr[r] = "running" /\ \A s \in Sups : s # r => sr[s] = st[s]
    OBVIOUS
  <1>16. StartsOK(n, sr, wk)
    <2> SUFFICES ASSUME NEW c \in Specs, Start(c) \in n
                 PROVE  sr[SupOf(c)] = "running" /\ wk[c] = None
      BY DEF StartsOK
    <2>1. CASE c \in Kids(r)
      BY <1>6, <1>15, <2>1
    <2>2. CASE Start(c) \in p
      <3>1. st[SupOf(c)] = "running" /\ wk[c] = None
        BY <1>3, <1>4, <2>2 DEF StartsOK
      <3>2. SupOf(c) \in Sups
        BY ParentOf
      <3> QED BY <1>15, <3>1, <3>2
    <2> QED BY <1>14, <2>1, <2>2
  <1>17. StopsBelow(n) /\ GaveUpOK(n)
    BY <1>4, <1>12, <1>13 DEF StopsBelow, GaveUpOK
  <1>18. DownOK(n, sr, wk)
    BY <1>3, <1>4, <1>15 DEF DownOK
  <1> QED BY <1>9, <1>11, <1>16, <1>17, <1>18 DEF TodoOK

(* stop of a supervisor: it is below every one that restarts, so no start  *)
(* that is left is for a child of its.                                     *)
LEMMA StopSupervisorTodo ==
    ASSUME NEW td \in Seq(Tasks), td # << >>, NEW r \in Sups, Head(td) = Stop(r),
           NEW st \in [Sups -> States], NEW wk, TodoOK(td, st, wk)
    PROVE  /\ StopAll(Children[r]) \o Tail(td) \in Seq(Tasks)
           /\ TodoOK(StopAll(Children[r]) \o Tail(td), [st EXCEPT ![r] = "idle"], wk)
  <1> PICK p : p = Pending(td)
    OBVIOUS
  <1> PICK tl : tl = Tail(td)
    OBVIOUS
  <1> PICK q : q = Pending(tl)
    OBVIOUS
  <1> PICK xs : xs = Children[r]
    OBVIOUS
  <1> PICK sr : sr = [st EXCEPT ![r] = "idle"]
    OBVIOUS
  <1>1. /\ tl \in Seq(Tasks) /\ Head(td) \in p /\ q \subseteq p
        /\ \A t \in p : t = Head(td) \/ t \in q
        /\ Ordered(tl) /\ StartedOnce(tl)
    BY HeadOfTodo
  <1>2. StartsOK(p, st, wk) /\ StopsBelow(p) /\ DownOK(p, st, wk) /\ GaveUpOK(p)
    BY DEF TodoOK
  <1>3. /\ xs \in Seq(Child)
        /\ Kids(r) = {xs[i] : i \in 1..Len(xs)}
    BY ChildrenListed
  <1>4. Ordered(StopAll(xs) \o tl) /\ StartedOnce(StopAll(xs) \o tl)
    BY <1>1, <1>3, StopsFirst
  <1>5. /\ StopAll(xs) \in Seq(Tasks)
        /\ \A t \in Pending(StopAll(xs)) : \E i \in 1..Len(xs) : t = Stop(xs[i])
        /\ \A i \in 1..Len(xs) : Stop(xs[i]) \in Pending(StopAll(xs))
    BY <1>3, StopAllTasks
  <1> PICK n : n = Pending(StopAll(xs) \o tl)
    OBVIOUS
  <1>6. StopAll(xs) \o tl \in Seq(Tasks) /\ n = Pending(StopAll(xs)) \cup q
    BY <1>1, <1>5, ConcatTodo
  <1>7. \A x : Start(x) \in n => Start(x) \in p
    BY <1>1, <1>5, <1>6, TasksDiffer
  <1>8. ASSUME NEW x, GaveUp(x) \in n PROVE GaveUp(x) \in p
    <2>1. GaveUp(x) \notin Pending(StopAll(xs))
      <3> SUFFICES ASSUME GaveUp(x) \in Pending(StopAll(xs)) PROVE FALSE
        OBVIOUS
      <3>1. PICK i \in 1..Len(xs) : GaveUp(x) = Stop(xs[i])
        BY <1>5
      <3> QED BY <3>1, TasksDiffer
    <2> QED BY <1>1, <1>6, <1>8, <2>1
  <1>9. ASSUME NEW x, Stop(x) \in n PROVE x \in Kids(r) \/ Stop(x) \in p
    <2>1. CASE Stop(x) \in Pending(StopAll(xs))
      <3>1. PICK i \in 1..Len(xs) : Stop(x) = Stop(xs[i])
        BY <1>5, <2>1
      <3>2. x = xs[i]
        BY <3>1, TasksDiffer
      <3> QED BY <1>3, <3>2
    <2>2. CASE Stop(x) \in q
      BY <1>1, <2>2
    <2> QED BY <1>6, <1>9, <2>1, <2>2
  <1>10. \A x \in Kids(r) : Stop(x) \in n
    BY <1>3, <1>5, <1>6
  <1>11. \A c \in Specs : Stop(c) \in p => Stop(c) \in n
    BY <1>1, <1>6, TasksDiffer, ParentOf
  <1>12. sr[r] = "idle" /\ \A s \in Sups : s # r => sr[s] = st[s]
    OBVIOUS
  <1>13. \A c \in Specs : Start(c) \in p =>
            SupOf(c) \in Sups /\ Depth[SupOf(c)] < Depth[r] /\ SupOf(c) # r
    <2> SUFFICES ASSUME NEW c \in Specs, Start(c) \in p
                 PROVE  SupOf(c) \in Sups /\ Depth[SupOf(c)] < Depth[r] /\ SupOf(c) # r
      OBVIOUS
    <2>1. SupOf(c) \in Sups
      BY ParentOf
    <2>2. Depth[SupOf(c)] < Depth[r]
      BY <1>1, <1>2 DEF StopsBelow
    <2>3. Depth[r] \in Int
      BY Deeper
    <2>4. ~(Depth[r] < Depth[r])
      BY <2>3
    <2> QED BY <2>1, <2>2, <2>4
  <1>14. StartsOK(n, sr, wk)
    <2> SUFFICES ASSUME NEW c \in Specs, Start(c) \in n
                 PROVE  sr[SupOf(c)] = "running" /\ (wk[c] = None \/ Stop(c) \in n)
      BY DEF StartsOK
    <2>1. Start(c) \in p
      BY <1>7
    <2>2. st[SupOf(c)] = "running" /\ (wk[c] = None \/ Stop(c) \in p)
      BY <1>2, <2>1 DEF StartsOK
    <2> QED BY <1>11, <1>12, <1>13, <2>1, <2>2
  <1>15. StopsBelow(n)
    <2> SUFFICES ASSUME NEW b \in Sups, NEW c \in Specs, Stop(b) \in n, Start(c) \in n
                 PROVE  Depth[SupOf(c)] < Depth[b]
      BY DEF StopsBelow
    <2>1. Start(c) \in p
      BY <1>7
    <2>2. CASE Stop(b) \in p
      BY <1>2, <2>1, <2>2 DEF StopsBelow
    <2>3. CASE b \in Kids(r)
      <3>1. Depth[SupOf(c)] < Depth[r] /\ SupOf(c) \in Sups
        BY <1>13, <2>1
      <3>2. Depth[r] < Depth[b]
        BY <2>3, Deeper
      <3>3. Depth[SupOf(c)] \in Int /\ Depth[r] \in Int /\ Depth[b] \in Int
        BY <3>1, Deeper
      <3> QED BY <3>1, <3>2, <3>3
    <2> QED BY <1>9, <2>2, <2>3
  <1>16. DownOK(n, sr, wk)
    <2> SUFFICES ASSUME NEW s \in Sups, sr[s] # "running", NEW c \in Kids(s) \cap Specs
                 PROVE  wk[c] = None \/ Stop(c) \in n
      BY DEF DownOK
    <2>1. CASE s = r
      BY <1>10, <2>1
    <2>2. CASE s # r
      BY <1>2, <1>11, <1>12, <2>2 DEF DownOK
    <2> QED BY <2>1, <2>2
  <1>17. GaveUpOK(n)
    BY <1>2, <1>8 DEF GaveUpOK
  <1> QED BY <1>4, <1>6, <1>14, <1>15, <1>16, <1>17 DEF TodoOK

(* Only the tree's own state is touched by a send to a supervisor. *)
LEMMA TreeOnly ==
    ASSUME Typed, OwnersAreCurrent, LinksOwned,
           UNCHANGED <<fleet, owner, worker, now, faulted>>,
           todo' \in Seq(Tasks), state' \in [Sups -> States],
           restartTimes' \in [Sups -> Seq(Nat)], charges' \in [Sups -> Seq(Nat)],
           TodoOK(todo', state', worker'), Windows'
    PROVE  IInv'
  <1>1. Typed'
    BY DEF Typed, ThreadsTyped, fleet
  <1>2. OwnersAreCurrent' /\ LinksOwned'
    BY DEF OwnersAreCurrent, LinksOwned, fleet
  <1> QED BY <1>1, <1>2, NextParts

(* start sent to a supervisor. *)
LEMMA StartSupervisorStep ==
    ASSUME IInv, StartSupervisor PROVE IInv'
  <1>1. Typed /\ OwnersAreCurrent /\ LinksOwned /\ TodoOK(todo, state, worker) /\ Windows
    BY Parts
  <1> PICK td : td = todo
    OBVIOUS
  <1> PICK st : st = state
    OBVIOUS
  <1> PICK wk : wk = worker
    OBVIOUS
  <1> PICK r : r = Target
    OBVIOUS
  <1>2. td \in Seq(Tasks) /\ st \in [Sups -> States] /\ TodoOK(td, st, wk)
    BY <1>1 DEF Typed
  <1>3. td # << >> /\ Head(td).op = "start" /\ r = Head(td).of /\ r \in Sups
    BY DEF StartSupervisor, Doing, Target
  <1>4. Head(td) \in Tasks /\ Tail(td) \in Seq(Tasks)
    BY <1>2, <1>3, HeadOfTodo
  <1>5. Head(td) = Start(r)
    BY <1>3, <1>4, TaskForms
  <1>6. UNCHANGED <<fleet, owner, worker, now, faulted>> /\ worker' = wk /\ now' = now
    BY DEF StartSupervisor
  <1>7. ASSUME todo' = Tail(todo), UNCHANGED <<state, restartTimes, charges>> PROVE IInv'
    <2>1. \A c \in Specs : Head(td) = Stop(c) => wk[c] = None
      BY <1>5, TasksDiffer
    <2>2. TodoOK(Tail(td), st, wk)
      BY <1>2, <1>3, <2>1, RestOfTodo
    <2>3. TodoOK(todo', state', worker')
      BY <1>6, <1>7, <2>2
    <2>4. Windows'
      BY <1>1, <1>6, <1>7 DEF Windows
    <2>5. /\ todo' \in Seq(Tasks) /\ state' \in [Sups -> States]
          /\ restartTimes' \in [Sups -> Seq(Nat)] /\ charges' \in [Sups -> Seq(Nat)]
      BY <1>1, <1>4, <1>7 DEF Typed
    <2> QED BY <1>1, <1>6, <2>3, <2>4, <2>5, TreeOnly
  <1>8. ASSUME st[r] # "running", state' = [st EXCEPT ![r] = "running"],
               restartTimes' = [restartTimes EXCEPT ![r] = << >>],
               charges' = [charges EXCEPT ![r] = << >>],
               todo' = StartAll(Children[r]) \o Tail(td)
        PROVE  IInv'
    <2>1. /\ StartAll(Children[r]) \o Tail(td) \in Seq(Tasks)
          /\ TodoOK(StartAll(Children[r]) \o Tail(td), [st EXCEPT ![r] = "running"], wk)
      BY <1>2, <1>3, <1>5, <1>8, StartSupervisorTodo
    <2>2. TodoOK(todo', state', worker')
      BY <1>6, <1>8, <2>1
    <2>3. state' \in [Sups -> States]
      BY <1>2, <1>8 DEF States
    <2>4. << >> \in Seq(Nat)
      BY EmptySeq
    <2>5. restartTimes \in [Sups -> Seq(Nat)] /\ charges \in [Sups -> Seq(Nat)]
      BY <1>1 DEF Typed
    <2>6. /\ restartTimes' \in [Sups -> Seq(Nat)] /\ restartTimes'[r] = << >>
          /\ \A s \in Sups : s # r => restartTimes'[s] = restartTimes[s]
      BY <1>3, <1>8, <2>4, <2>5
    <2>7. /\ charges' \in [Sups -> Seq(Nat)] /\ charges'[r] = << >>
          /\ \A s \in Sups : s # r => charges'[s] = charges[s]
      BY <1>3, <1>8, <2>4, <2>5
    <2>8. WindowOK(<< >>, << >>, now) /\ \A m : SpanOK(<< >>, m)
      BY DEF WindowOK, SpanOK
    <2>9. Windows'
      BY <1>1, <1>6, <2>6, <2>7, <2>8 DEF Windows
    <2> QED BY <1>1, <1>6, <1>8, <2>1, <2>2, <2>3, <2>6, <2>7, <2>9, TreeOnly
  <1> QED BY <1>7, <1>8 DEF StartSupervisor

(* stop sent to a supervisor. *)
LEMMA StopSupervisorStep ==
    ASSUME IInv, StopSupervisor PROVE IInv'
  <1>1. Typed /\ OwnersAreCurrent /\ LinksOwned /\ TodoOK(todo, state, worker) /\ Windows
    BY Parts
  <1> PICK td : td = todo
    OBVIOUS
  <1> PICK st : st = state
    OBVIOUS
  <1> PICK wk : wk = worker
    OBVIOUS
  <1> PICK r : r = Target
    OBVIOUS
  <1>2. td \in Seq(Tasks) /\ st \in [Sups -> States] /\ TodoOK(td, st, wk)
    BY <1>1 DEF Typed
  <1>3. td # << >> /\ Head(td).op = "stop" /\ r = Head(td).of /\ r \in Sups
    BY DEF StopSupervisor, Doing, Target
  <1>4. Head(td) \in Tasks
    BY <1>2, <1>3, HeadOfTodo
  <1>5. Head(td) = Stop(r)
    BY <1>3, <1>4, TaskForms
  <1>6. /\ UNCHANGED <<fleet, owner, worker, now, faulted>> /\ worker' = wk /\ now' = now
        /\ restartTimes' = restartTimes /\ charges' = charges
        /\ state' = [st EXCEPT ![r] = "idle"] /\ todo' = StopAll(Children[r]) \o Tail(td)
    BY DEF StopSupervisor
  <1>7. /\ StopAll(Children[r]) \o Tail(td) \in Seq(Tasks)
        /\ TodoOK(StopAll(Children[r]) \o Tail(td), [st EXCEPT ![r] = "idle"], wk)
    BY <1>2, <1>3, <1>5, StopSupervisorTodo
  <1>8. todo' \in Seq(Tasks) /\ TodoOK(todo', state', worker')
    BY <1>6, <1>7
  <1>9. state' \in [Sups -> States]
    BY <1>2, <1>6 DEF States
  <1>10. restartTimes' \in [Sups -> Seq(Nat)] /\ charges' \in [Sups -> Seq(Nat)]
    BY <1>1, <1>6 DEF Typed
  <1>11. Windows'
    BY <1>1, <1>6 DEF Windows
  <1> QED BY <1>1, <1>6, <1>8, <1>9, <1>10, <1>11, TreeOnly

(* A child supervisor that gave up: its parent restarts it or gives up. *)
LEMMA ChildSupervisorGaveUpStep ==
    ASSUME IInv, ChildSupervisorGaveUp PROVE IInv'
  <1>1. Typed /\ OwnersAreCurrent /\ LinksOwned /\ TodoOK(todo, state, worker) /\ Windows
    BY Parts
  <1> PICK td : td = todo
    OBVIOUS
  <1> PICK st : st = state
    OBVIOUS
  <1> PICK wk : wk = worker
    OBVIOUS
  <1> PICK r : r = Target
    OBVIOUS
  <1> PICK s : s = SupOf(r)
    OBVIOUS
  <1>2. td \in Seq(Tasks) /\ st \in [Sups -> States] /\ TodoOK(td, st, wk)
    BY <1>1 DEF Typed
  <1>3. td # << >> /\ Head(td).op = "gaveUp" /\ r = Head(td).of
    BY DEF ChildSupervisorGaveUp, Doing, Target
  <1>4. /\ Head(td) \in Tasks /\ Head(td) \in Pending(td) /\ Tail(td) = << >>
        /\ \A t \in Pending(td) : t.op # "stop"
    <2>1. /\ Head(td) \in Tasks /\ Head(td) \in Pending(td)
          /\ Head(td).op # "stop" => \A t \in Pending(td) : t.op # "stop"
          /\ Head(td).op = "gaveUp" => Tail(td) = << >>
      BY <1>2, <1>3, HeadOfTodo
    <2> QED BY <1>3, <2>1
  <1>5. Head(td) = GaveUp(r) /\ r \in Sups
    BY <1>3, <1>4, TaskForms
  <1>6. r # Root
    BY <1>2, <1>4, <1>5 DEF TodoOK, GaveUpOK
  <1>7. s \in Sups /\ r \in Kids(s) /\ r \notin Specs
    BY <1>5, <1>6, ParentOf
  <1>8. \A x : Stop(x) \notin Pending(td)
    BY <1>4, TaskForms
  <1>9. DownOK({}, state, wk)
    BY <1>2, <1>8 DEF TodoOK, DownOK
  <1>10. /\ UNCHANGED <<fleet, owner, worker, now, faulted>> /\ worker' = wk /\ now' = now
         /\ IF state[s] = "running"
              THEN RestartOrGiveUp(s, r, Tail(td))
              ELSE todo' = Tail(td) /\ UNCHANGED <<state, restartTimes, charges>>
    BY DEF ChildSupervisorGaveUp
  <1>11. CASE state[s] = "running"
    <2>1. RestartOrGiveUp(s, r, << >>)
      BY <1>4, <1>10, <1>11
    <2>2. /\ todo' \in Seq(Tasks) /\ state' \in [Sups -> States]
          /\ restartTimes' \in [Sups -> Seq(Nat)] /\ charges' \in [Sups -> Seq(Nat)]
          /\ TodoOK(todo', state', wk)
          /\ \A b \in Sups : WindowOK(restartTimes'[b], charges'[b], now)
          /\ \A b \in Sups : SpanOK(charges'[b], MaxRestarts[b])
      BY <1>1, <1>7, <1>9, <1>11, <2>1, Decided
    <2>3. TodoOK(todo', state', worker')
      BY <1>10, <2>2
    <2>4. Windows'
      BY <1>10, <2>2 DEF Windows
    <2> QED BY <1>1, <1>10, <2>2, <2>3, <2>4, TreeOnly
  <1>12. CASE state[s] # "running"
    <2>1. todo' = Tail(td) /\ UNCHANGED <<state, restartTimes, charges>>
      BY <1>10, <1>12
    <2>2. \A c \in Specs : Head(td) = Stop(c) => wk[c] = None
      BY <1>5, TasksDiffer
    <2>3. TodoOK(Tail(td), st, wk)
      BY <1>2, <1>3, <2>2, RestOfTodo
    <2>4. TodoOK(todo', state', worker')
      BY <1>10, <2>1, <2>3
    <2>5. todo' \in Seq(Tasks)
      BY <1>4, <2>1, EmptySeq
    <2>6. /\ state' \in [Sups -> States]
          /\ restartTimes' \in [Sups -> Seq(Nat)] /\ charges' \in [Sups -> Seq(Nat)]
      BY <1>1, <2>1 DEF Typed
    <2>7. Windows'
      BY <1>1, <1>10, <2>1 DEF Windows
    <2> QED BY <1>1, <1>10, <2>4, <2>5, <2>6, <2>7, TreeOnly
  <1> QED BY <1>11, <1>12

(* startChild: the worker takes a free slot, and only its spec records it. *)
LEMMA StartChildStep ==
    ASSUME IInv, StartChild PROVE IInv'
  <1>1. Typed /\ OwnersAreCurrent /\ LinksOwned /\ TodoOK(todo, state, worker) /\ Windows
    BY Parts
  <1> PICK td : td = todo
    OBVIOUS
  <1> PICK st : st = state
    OBVIOUS
  <1> PICK wk : wk = worker
    OBVIOUS
  <1> PICK c : c = Target
    OBVIOUS
  <1> PICK i : i = FirstFree
    OBVIOUS
  <1>2. td \in Seq(Tasks) /\ TodoOK(td, st, wk)
    BY <1>1 DEF Typed
  <1>3. td # << >> /\ Head(td).op = "start" /\ c = Head(td).of /\ c \in Specs
    BY DEF StartChild, Doing, Target
  <1>4. /\ FreeSlots # {} /\ SpawnAt(FirstFree, NewThread)
        /\ worker' = [wk EXCEPT ![c] = i] /\ owner' = [owner EXCEPT ![i] = c]
        /\ guests' = guests \ {i} /\ todo' = Tail(td) /\ state' = st
        /\ UNCHANGED <<inbox, stranded, state, restartTimes, charges, now, faulted>>
    BY DEF StartChild
  <1>5. /\ ThreadsTyped' /\ links' \in [Slots -> LinkRec]
        /\ i \in Slots /\ ~links[i].alive
        /\ \A j \in Slots : j # i => links'[j] = links[j]
    BY <1>1, <1>4, SpawnTyped
  <1>6. /\ Head(td) \in Tasks /\ Tail(td) \in Seq(Tasks) /\ Head(td) \in Pending(td)
        /\ Pending(Tail(td)) \subseteq Pending(td)
        /\ \A t \in Pending(td) : t.op # "stop"
        /\ Head(td) \notin Pending(Tail(td))
    <2>1. /\ Head(td) \in Tasks /\ Tail(td) \in Seq(Tasks) /\ Head(td) \in Pending(td)
          /\ Pending(Tail(td)) \subseteq Pending(td)
          /\ Head(td).op # "stop" => \A t \in Pending(td) : t.op # "stop"
          /\ Head(td).op = "start" /\ Head(td).of \in Specs =>
                Head(td) \notin Pending(Tail(td))
      BY <1>2, <1>3, HeadOfTodo
    <2> QED BY <1>3, <2>1
  <1>7. Head(td) = Start(c)
    BY <1>3, <1>6, TaskForms
  <1>8. \A x : Stop(x) \notin Pending(td)
    BY <1>6, TaskForms
  <1>9. st[SupOf(c)] = "running" /\ wk[c] = None
    BY <1>2, <1>3, <1>6, <1>7, <1>8 DEF TodoOK, StartsOK
  <1>10. wk \in [Specs -> Slots \cup {None}] /\ owner \in [Slots -> Specs \cup {None}]
    BY <1>1 DEF Typed
  <1>11. /\ worker' \in [Specs -> Slots \cup {None}] /\ worker'[c] = i
         /\ \A d \in Specs : d # c => worker'[d] = wk[d]
    BY <1>3, <1>4, <1>5, <1>10
  <1>12. /\ owner' \in [Slots -> Specs \cup {None}] /\ owner'[i] = c
         /\ \A j \in Slots : j # i => owner'[j] = owner[j]
    BY <1>3, <1>4, <1>5, <1>10
  <1>13. Typed'
    BY <1>1, <1>4, <1>5, <1>6, <1>11, <1>12 DEF Typed
  <1>14. Windows'
    BY <1>1, <1>4 DEF Windows
  <1>15. OwnersAreCurrent'
    <2> SUFFICES ASSUME NEW j \in Slots, owner'[j] # None PROVE worker'[owner'[j]] = j
      BY DEF OwnersAreCurrent
    <2>1. CASE j = i
      BY <1>11, <1>12, <2>1
    <2>2. CASE j # i
      <3>1. owner'[j] = owner[j] /\ owner[j] \in Specs
        BY <1>10, <1>12, <2>2
      <3>2. wk[owner[j]] = j
        BY <1>1, <3>1 DEF OwnersAreCurrent
      <3>3. j # None
        BY DEF Slots, None
      <3>4. owner[j] # c
        BY <1>9, <3>2, <3>3
      <3> QED BY <1>11, <3>1, <3>2, <3>4
    <2> QED BY <2>1, <2>2
  <1>16. LinksOwned'
    <2>1. c # None
      BY <1>3, ParentOf
    <2> QED BY <1>1, <1>4, <1>5, <1>12, <2>1 DEF LinksOwned
  <1>17. \A d \in Specs : Head(td) = Stop(d) => wk[d] = None
    BY <1>7, TasksDiffer
  <1>18. TodoOK(Tail(td), st, wk)
    BY <1>2, <1>3, <1>17, RestOfTodo
  <1>19. TodoOK(Tail(td), st, worker')
    <2> PICK q : q = Pending(Tail(td))
      OBVIOUS
    <2>1. /\ Ordered(Tail(td)) /\ StartedOnce(Tail(td))
          /\ StartsOK(q, st, wk) /\ StopsBelow(q) /\ DownOK(q, st, wk) /\ GaveUpOK(q)
      BY <1>18 DEF TodoOK
    <2>2. StartsOK(q, st, worker')
      <3> SUFFICES ASSUME NEW d \in Specs, Start(d) \in q
                   PROVE  st[SupOf(d)] = "running" /\ (worker'[d] = None \/ Stop(d) \in q)
        BY DEF StartsOK
      <3>1. d # c
        BY <1>6, <1>7
      <3> QED BY <1>11, <2>1, <3>1 DEF StartsOK
    <2>3. DownOK(q, st, worker')
      <3> SUFFICES ASSUME NEW s \in Sups, st[s] # "running", NEW d \in Kids(s) \cap Specs
                   PROVE  worker'[d] = None \/ Stop(d) \in q
        BY DEF DownOK
      <3>1. SupOf(d) = s
        BY ParentOf
      <3>2. d # c
        BY <1>9, <3>1
      <3> QED BY <1>11, <2>1, <3>2 DEF DownOK
    <2> QED BY <2>1, <2>2, <2>3 DEF TodoOK
  <1>20. TodoOK(todo', state', worker')
    BY <1>4, <1>19
  <1> QED BY <1>13, <1>14, <1>15, <1>16, <1>20, NextParts

(* startChild: at the cap: what is abandoned are starts, never a stop. *)
LEMMA StartChildFailsStep ==
    ASSUME IInv, StartChildFails PROVE IInv'
  <1>1. Typed /\ OwnersAreCurrent /\ LinksOwned /\ TodoOK(todo, state, worker) /\ Windows
    BY Parts
  <1> PICK td : td = todo
    OBVIOUS
  <1> PICK st : st = state
    OBVIOUS
  <1> PICK wk : wk = worker
    OBVIOUS
  <1>2. td \in Seq(Tasks) /\ TodoOK(td, st, wk)
    BY <1>1 DEF Typed
  <1>3. td # << >> /\ Head(td).op = "start"
    BY DEF StartChildFails, Doing
  <1>4. /\ todo' = << >> /\ stranded' = TRUE /\ faulted' = TRUE
        /\ UNCHANGED <<threads, links, guests, inbox, tree, now>>
        /\ state' = st /\ worker' = wk
    BY DEF StartChildFails, tree
  <1>5. \A t \in Pending(td) : t.op # "stop"
    <2>1. Head(td).op # "stop" => \A t \in Pending(td) : t.op # "stop"
      BY <1>2, <1>3, HeadOfTodo
    <2> QED BY <1>3, <2>1
  <1>6. \A x : Stop(x) \notin Pending(td)
    BY <1>5, TaskForms
  <1>7. DownOK({}, st, wk)
    BY <1>2, <1>6 DEF TodoOK, DownOK
  <1> PICK e : e = << >>
    OBVIOUS
  <1>8. e \in Seq(Tasks) /\ Len(e) = 0
    BY EmptySeq
  <1>9. Pending(e) = {} /\ Ordered(e) /\ StartedOnce(e)
    BY <1>8 DEF Pending, Ordered, StartedOnce
  <1>10. TodoOK(e, st, wk)
    BY <1>7, <1>9 DEF TodoOK, StartsOK, StopsBelow, GaveUpOK
  <1>11. TodoOK(todo', state', worker')
    BY <1>4, <1>10
  <1>12. Typed'
    BY <1>1, <1>4, <1>8 DEF Typed, ThreadsTyped, tree
  <1>13. OwnersAreCurrent' /\ LinksOwned' /\ Windows'
    BY <1>1, <1>4 DEF OwnersAreCurrent, LinksOwned, Windows, tree
  <1> QED BY <1>11, <1>12, <1>13, NextParts

(* stopChild: of a worker. *)
LEMMA StopChildStep ==
    ASSUME IInv, StopChild PROVE IInv'
  <1>1. Typed /\ OwnersAreCurrent /\ LinksOwned /\ TodoOK(todo, state, worker) /\ Windows
    BY Parts
  <1> PICK td : td = todo
    OBVIOUS
  <1> PICK st : st = state
    OBVIOUS
  <1> PICK wk : wk = worker
    OBVIOUS
  <1> PICK c : c = Target
    OBVIOUS
  <1>2. td \in Seq(Tasks) /\ TodoOK(td, st, wk)
    BY <1>1 DEF Typed
  <1>3. td # << >> /\ Head(td).op = "stop" /\ c = Head(td).of /\ c \in Specs
    BY DEF StopChild, Doing, Target
  <1>4. /\ todo' = Tail(td) /\ state' = st
        /\ UNCHANGED <<threads, guests, inbox, stranded, state, restartTimes, charges,
                       now, faulted>>
    BY DEF StopChild
  <1>5. Head(td) \in Tasks /\ Tail(td) \in Seq(Tasks)
    BY <1>2, <1>3, HeadOfTodo
  <1>6. Head(td) = Stop(c)
    BY <1>3, <1>5, TaskForms
  <1>7. /\ owner' \in [Slots -> Specs \cup {None}]
        /\ links' \in [Slots -> LinkRec]
        /\ worker' \in [Specs -> Slots \cup {None}]
        /\ worker'[c] = None /\ \A d \in Specs : d # c => worker'[d] = wk[d]
        /\ OwnersAreCurrent' /\ LinksOwned'
    <2>1. CASE worker[c] = None /\ UNCHANGED <<links, owner, worker>>
      BY <1>1, <1>4, <2>1 DEF Typed, OwnersAreCurrent, LinksOwned
    <2>2. CASE /\ worker[c] # None
               /\ owner' = [owner EXCEPT ![worker[c]] = None]
               /\ links' = Terminated(worker[c])
               /\ worker' = [worker EXCEPT ![c] = None]
      BY <1>1, <1>3, <1>4, <2>2, TerminatedStep
    <2> QED BY <2>1, <2>2 DEF StopChild
  <1>8. Typed'
    BY <1>1, <1>4, <1>5, <1>7 DEF Typed, ThreadsTyped
  <1>9. Windows'
    BY <1>1, <1>4 DEF Windows
  <1> PICK wn : wn = worker'
    OBVIOUS
  <1>10. wn[c] = None /\ \A d \in Specs : d # c => wn[d] = wk[d]
    BY <1>7
  <1>11. TodoOK(td, st, wn)
    <2> PICK p : p = Pending(td)
      OBVIOUS
    <2>1. /\ Ordered(td) /\ StartedOnce(td)
          /\ StartsOK(p, st, wk) /\ StopsBelow(p) /\ DownOK(p, st, wk) /\ GaveUpOK(p)
      BY <1>2 DEF TodoOK
    <2>2. \A d \in Specs : wk[d] = None => wn[d] = None
      BY <1>10
    <2>3. StartsOK(p, st, wn) /\ DownOK(p, st, wn)
      BY <2>1, <2>2 DEF StartsOK, DownOK
    <2> QED BY <2>1, <2>3 DEF TodoOK
  <1>12. \A d \in Specs : Head(td) = Stop(d) => wn[d] = None
    BY <1>6, <1>10, TasksDiffer
  <1>13. TodoOK(Tail(td), st, wn)
    BY <1>2, <1>3, <1>11, <1>12, RestOfTodo
  <1>14. TodoOK(todo', state', worker')
    BY <1>4, <1>13
  <1> QED BY <1>7, <1>8, <1>9, <1>14, NextParts

-----------------------------------------------------------------------------
(***************************************************************************)
(* Theorems                                                                *)
(***************************************************************************)

(* Every step of the fleet and of the tree keeps the invariant. *)
LEMMA NextInv == IInv /\ [Next]_vars => IInv'
  <1> SUFFICES ASSUME IInv, [Next]_vars PROVE IInv'
    OBVIOUS
  <1>1. ASSUME ThreadStep PROVE IInv'
    BY <1>1, ThreadSteps DEF ThreadStep
  <1>2. ASSUME Crash PROVE IInv'
    BY <1>2, ThreadSteps DEF Crash
  <1>3. ASSUME Died PROVE IInv'
    BY <1>3, ChildDiedStep, UnsupervisedDiedStep DEF Died
  <1>4. ASSUME Carry PROVE IInv'
    BY <1>4, StartSupervisorStep, StartChildStep, StartChildFailsStep,
       StopSupervisorStep, StopChildStep, ChildSupervisorGaveUpStep DEF Carry
  <1>5. ASSUME Client PROVE IInv'
    BY <1>5, CommandStep, SpawnUnsupervisedStep, CastStep DEF Client
  <1>6. ASSUME Tick PROVE IInv'
    BY <1>6, TickStep
  <1>7. ASSUME UNCHANGED vars PROVE IInv'
    <2>1. Typed
      BY Parts
    <2>2. ThreadsTyped' /\ inbox' \in Seq(Slots) /\ stranded' \in BOOLEAN
      BY <1>7, <2>1 DEF vars, Typed, ThreadsTyped
    <2>3. UNCHANGED <<links, guests, tree, todo, now, faulted>>
      BY <1>7 DEF vars, tree
    <2> QED BY <2>2, <2>3, ThreadsOnly
  <1> QED BY <1>1, <1>2, <1>3, <1>4, <1>5, <1>6, <1>7 DEF Next

(* The inductive invariant holds in every reachable state. *)
THEOREM Invariance == Spec => []IInv
  BY InitInv, NextInv, PTL DEF Spec

(* Every variable keeps its shape; in particular a death notice and a      *)
(* registry entry always name a slot, and there is a fresh thread to spawn.*)
THEOREM SupervisionTypeOK == Spec => []TypeOK
  <1>1. IInv => TypeOK
    BY DEF IInv
  <1> QED BY <1>1, Invariance, PTL

(* A registry entry names the spec that records that id, so childDied:     *)
(* terminates the slot its death notice was addressed to.                  *)
THEOREM RegistryIsCurrent == Spec => []OwnersAreCurrent
  <1>1. IInv => OwnersAreCurrent
    BY DEF IInv
  <1> QED BY <1>1, Invariance, PTL

(* No worker VM is abandoned un-terminated, whatever the order of deaths,  *)
(* restarts and stops: a live link is owned, or the embedder's.            *)
THEOREM WorkersAreOwned == Spec => []NoLeakedWorker
  <1>1. IInv => NoLeakedWorker
    BY DEF IInv, NoLeakedWorker, LinksOwned, OwnersAreCurrent
  <1> QED BY <1>1, Invariance, PTL

(* A supervisor that is stopped or has given up has no worker once its     *)
(* decision is carried out, nested stops and abandoned decisions included. *)
THEOREM DownSupervisorsAreEmpty == Spec => []DownMeansDown
  <1>1. IInv => DownMeansDown
    <2> SUFFICES ASSUME IInv, todo = << >> PROVE
                   \A s \in Sups : state[s] # "running" =>
                      \A c \in Kids(s) \cap Specs : worker[c] = None
      BY DEF DownMeansDown
    <2>1. Pending(todo) = {}
      BY EmptySeq DEF Pending
    <2>2. DownOK({}, state, worker)
      BY <2>1 DEF IInv, TodoOK
    <2> QED BY <2>2 DEF DownOK
  <1> QED BY <1>1, Invariance, PTL

(* Restart intensity: never more than maxRestarts charges within a span of *)
(* perSeconds, for the window that pruneRestartsBefore: keeps.             *)
THEOREM RestartsAreBounded == Spec => []IntensityBounded
  <1>1. IInv => IntensityBounded
    BY DEF IInv, IntensityBounded, SpanOK
  <1> QED BY <1>1, Invariance, PTL

=============================================================================
