----------------------------- MODULE HeapProofs -----------------------------
(***************************************************************************)
(* The heap stays in order, for any sizes of spaces and cards, any number  *)
(* of roots and any program: every space is tiled by objects, every        *)
(* reference names an object, old-to-new references are on dirty cards, no *)
(* location is scavenged twice, and a promotion guarantee that is reported *)
(* as met holds; the offset table leads to headers; and a program cannot   *)
(* tell the heap from an object store in which nothing moves.              *)
(***************************************************************************)
EXTENDS HeapLemmas, HeapStore

-----------------------------------------------------------------------------
(***************************************************************************)
(* The inductive invariant                                                 *)
(***************************************************************************)

AreFunctions == obj = [a \in DOMAIN obj |-> obj[a]] /\ fwd = [a \in DOMAIN fwd |-> fwd[a]]

(* Between scavenges: to-space is empty, nothing is forwarded or stalled. *)
Quiet == top[to] = Start[to] /\ DOMAIN fwd = {} /\ ~stall

(* Forwarding leads from what the scavenge vacates to what it keeps. *)
FwdOK ==
    \A a \in DOMAIN fwd :
        a \in DOMAIN obj /\ Vacated(a) /\ fwd[a] \in DOMAIN obj /\ ~Vacated(fwd[a])

(* The running scavenge has been at slot i of the object at a. *)
Scanned(a, i) ==
    \/ /\ IsOld(a) /\ a < oldTop0
       /\ pc \in {"code", "cheney"} \/ (pc = "cards" /\ a + i < cur.w)
    \/ /\ pc = "cheney"
       /\ (In(a, to) /\ a < cur.to) \/ (oldTop0 <= a /\ a < cur.old)
       /\ a = cur.w => i < cur.i

(* A location that was scanned holds nothing that will be vacated, unless  *)
(* a promotion failed; one that was not holds nothing in to-space.         *)
VisitOK(scanned, v) == IF scanned THEN stall \/ ~Vacated(v) ELSE ~In(v, to)

SlotsOK == \A a \in DOMAIN obj : \A i \in Slots(a) : VisitOK(Scanned(a, i), obj[a].f[i])
RootsOK == \A r \in 0..NRoots : VisitOK(~(pc = "roots" /\ r >= cur.i), root[r])
CodeOK ==
    \A c \in 1..NCode :
        VisitOK(~(pc \in {"roots", "cards"} \/ (pc = "code" /\ c >= cur.i)), code[c])

(* No object crosses the old top the scavenge began with; what it promoted *)
(* beyond is on dirty cards.                                               *)
BoundaryOK ==
    /\ oldTop0 <= top.old
    /\ \A a \in DOMAIN obj : a < oldTop0 => a + Size(a) <= oldTop0
    /\ \A a \in DOMAIN obj : oldTop0 <= a => \A i \in Slots(a) : CardOf(a + i) \in dirty

(* The card window: still_points_new remembers what the scan left in it. *)
WindowOK ==
    pc = "cards" =>
        /\ CardBase(cur.i) <= cur.w /\ cur.w <= CardBase(cur.i + 1)
        /\ \A a \in DOMAIN obj : IsOld(a) /\ a < oldTop0 =>
              \A i \in Slots(a) :
                 CardBase(cur.i) <= a + i /\ a + i < cur.w /\ IsNew(obj[a].f[i]) => cur.new

(* The code roots are numbered from 1; the Cheney fronts are between       *)
(* objects.                                                                *)
FrontsOK ==
    /\ pc = "code" => cur.i >= 1
    /\ pc = "cheney" =>
        /\ Start[to] <= cur.to /\ cur.to <= top[to]
        /\ oldTop0 <= cur.old /\ cur.old <= top.old
        /\ \A a \in DOMAIN obj :
              /\ In(a, to) /\ a < cur.to => a + Size(a) <= cur.to
              /\ oldTop0 <= a /\ a < cur.old => a + Size(a) <= cur.old
        /\ cur.w # 0 =>
              /\ cur.w \in DOMAIN obj /\ cur.i >= 1
              /\ (In(cur.w, to) /\ cur.w < cur.to) \/ (oldTop0 <= cur.w /\ cur.w < cur.old)
        /\ stall => cur.w # 0

(* The words still to be copied. *)
Uncopied ==
    {w \in Addr : \E a \in DOMAIN obj :
        Vacated(a) /\ a \notin DOMAIN fwd /\ a <= w /\ w < a + Size(a)}

(* The guarantee, before and during the scavenge it is for. *)
RoomOK ==
    /\ pc = "guarantee" => WorstCase <= worst
    /\ pc = "scavenge" /\ ret # "mutator" /\ met => WorstCase <= OldFree
    /\ pc \in Phases /\ ret # "mutator" /\ met => Cardinality(Uncopied) <= OldFree

PhaseInv ==
    /\ FwdOK /\ SlotsOK /\ RootsOK /\ CodeOK /\ BoundaryOK /\ WindowOK /\ FrontsOK

IInv ==
    /\ TypeOK /\ AreFunctions
    /\ Tiled(Extent(obj), top)
    /\ RefsValid /\ RememberedSet
    /\ NoDoubleVisit /\ GuaranteeHolds
    /\ pc \notin Phases \cup {"stalled"} => Quiet
    /\ pc \in Phases => PhaseInv
    /\ RoomOK

-----------------------------------------------------------------------------
(***************************************************************************)
(* Places                                                                  *)
(***************************************************************************)

LEMMA SpaceFacts ==
    ASSUME TypeOK
    PROVE  /\ from \in Survivors /\ to \in Survivors /\ to # from
           /\ from \in Spaces /\ to \in Spaces /\ "eden" \in Spaces /\ "old" \in Spaces
           /\ from # "old" /\ from # "eden" /\ to # "old" /\ to # "eden"
           /\ \A s \in Spaces : /\ top[s] \in Nat /\ Start[s] \in Nat \ {0}
                                /\ End[s] \in Nat \ {0} /\ End[s] <= End.old
                                /\ Start[s] <= top[s] /\ top[s] <= End[s]
           /\ \A s \in Spaces \ {"old"} : End[s] <= Start.old
           /\ Start.old \in Nat \ {0} /\ End.old \in Nat \ {0}
           /\ top.old \in Nat /\ top.eden \in Nat /\ top[from] \in Nat /\ top[to] \in Nat
           /\ committed \in Nat /\ top.old <= committed /\ committed <= End.old
           /\ Start.old <= top.old
           /\ oldTop0 \in Nat /\ Start.old <= oldTop0
  <1>1. /\ from \in Survivors /\ to \in Survivors /\ to # from
        /\ from \in Spaces /\ to \in Spaces /\ "eden" \in Spaces /\ "old" \in Spaces
        /\ from # "old" /\ from # "eden" /\ to # "old" /\ to # "eden"
    BY DEF TypeOK, to, Survivors, Spaces
  <1>2. ASSUME NEW s \in Spaces
        PROVE  /\ top[s] \in Nat /\ Start[s] \in Nat \ {0} /\ End[s] \in Nat \ {0}
               /\ End[s] <= End.old /\ Start[s] <= top[s] /\ top[s] <= End[s]
    <2>1. Start[s] \in Nat \ {0} /\ End[s] \in Nat \ {0} /\ End[s] <= End.old
      BY Layout
    <2> QED BY <2>1 DEF TypeOK
  <1>3. Start.old \in Nat \ {0} /\ End.old \in Nat \ {0} /\ \A s \in Spaces \ {"old"} : End[s] <= Start.old
    BY Layout
  <1>4. committed \in Nat /\ top.old <= committed /\ committed <= End.old
    BY <1>3 DEF TypeOK
  <1>5. oldTop0 \in Nat /\ Start.old <= oldTop0
    BY <1>3 DEF TypeOK
  <1>6. /\ top.old \in Nat /\ top.eden \in Nat /\ top[from] \in Nat /\ top[to] \in Nat
        /\ Start.old <= top.old
    BY <1>1, <1>2
  <1> QED BY <1>1, <1>2, <1>3, <1>4, <1>5, <1>6

LEMMA ObjFacts ==
    ASSUME TypeOK, Tiled(Extent(obj), top), NEW a \in DOMAIN obj
    PROVE  /\ a \in Nat \ {0} /\ a \in Addr
           /\ obj[a] \in Object /\ obj[a].f \in Seq(Val) /\ Len(obj[a].f) \in Nat
           /\ Slots(a) = 1..Len(obj[a].f) /\ \A i \in Slots(a) : obj[a].f[i] \in Val
           /\ Size(a) = Len(obj[a].f) + 1 /\ Size(a) \in Nat \ {0}
           /\ a \in DOMAIN Extent(obj) /\ Extent(obj)[a] = Size(a)
           /\ \E s \in Spaces : In(a, s)
           /\ \A s \in Spaces : In(a, s) => a + Size(a) <= top[s]
           /\ \A s, t \in Spaces : In(a, s) /\ In(a, t) => s = t
  <1>1. a \in DOMAIN Extent(obj) /\ Extent(obj)[a] = Len(obj[a].f) + 1
    BY DEF Extent
  <1>2. obj[a] \in Object
    BY DEF TypeOK
  <1>3. obj[a].f \in Seq(Val)
    BY <1>2 DEF Object
  <1>4. Len(obj[a].f) \in Nat /\ \A i \in 1..Len(obj[a].f) : obj[a].f[i] \in Val
    BY <1>3
  <1>5. PICK sz, tp : sz = Extent(obj) /\ tp = top
    OBVIOUS
  <1>6. /\ a \in Addr /\ a \in Nat \ {0} /\ sz[a] \in Nat \ {0}
        /\ \E s \in Spaces : Start[s] <= a /\ a < tp[s] /\ a + sz[a] <= tp[s]
        /\ \A s \in Spaces : Start[s] <= a /\ a < tp[s] => a + sz[a] <= tp[s]
        /\ \A s, t \in Spaces : Start[s] <= a /\ a < tp[s] /\ Start[t] <= a /\ a < tp[t]
                                => s = t
    <2>1. Tiled(sz, tp) /\ a \in DOMAIN sz
      BY <1>1, <1>5
    <2> QED BY <2>1, TilePlace
  <1>7. sz[a] = Size(a)
    BY <1>1, <1>5 DEF Size
  <1> QED BY <1>1, <1>2, <1>3, <1>4, <1>5, <1>6, <1>7 DEF Size, Slots, In

(* What a space says of an address. *)
LEMMA PlaceFacts ==
    ASSUME TypeOK, NEW a \in Val
    PROVE  /\ In(a, "old") => IsOld(a)
           /\ \A s \in Spaces \ {"old"} : In(a, s) => IsNew(a) /\ ~IsOld(a) /\ a < oldTop0
           /\ Vacated(a) => IsNew(a) /\ ~IsOld(a) /\ a # 0
           /\ In(a, to) => IsNew(a) /\ ~Vacated(a) /\ a # 0
           /\ \A s \in Spaces : In(a, s) => a # 0
  <1>1. a \in Nat
    BY DEF Val, Addr
  <1>2. ASSUME NEW s \in Spaces, In(a, s) PROVE a # 0 /\ Start[s] <= a /\ a < End[s]
    <2>1. /\ top[s] \in Nat /\ Start[s] \in Nat \ {0} /\ End[s] \in Nat
          /\ top[s] <= End[s] /\ Start[s] <= a /\ a < top[s]
      BY <1>2, SpaceFacts DEF In
    <2> QED BY <1>1, <2>1
  <1>3. ASSUME NEW s \in Spaces \ {"old"}, In(a, s)
        PROVE  IsNew(a) /\ ~IsOld(a) /\ a < oldTop0
    <2>1. End[s] <= Start.old /\ Start.old \in Nat /\ End[s] \in Nat
      BY SpaceFacts
    <2>2. oldTop0 \in Nat /\ Start.old <= oldTop0
      BY SpaceFacts
    <2> QED BY <1>1, <1>2, <1>3, <2>1, <2>2 DEF IsNew, IsOld
  <1>4. In(a, "old") => IsOld(a)
    BY <1>2, SpaceFacts DEF IsOld
  <1>5. Vacated(a) => IsNew(a) /\ ~IsOld(a) /\ a # 0
    BY <1>2, <1>3, SpaceFacts DEF Vacated
  <1>6. ASSUME NEW s \in Spaces, NEW t \in Spaces, In(a, s), In(a, t) PROVE s = t
    <2>1. /\ Start[s] <= a /\ a < End[s] /\ Start[s] \in Nat /\ End[s] \in Nat
          /\ Start[t] <= a /\ a < End[t] /\ Start[t] \in Nat /\ End[t] \in Nat
      BY <1>2, <1>6, SpaceFacts
    <2>2. s # t => End[s] <= Start[t] \/ End[t] <= Start[s]
      BY Layout
    <2> QED BY <1>1, <2>1, <2>2
  <1>7. In(a, to) => IsNew(a) /\ ~Vacated(a) /\ a # 0
    BY <1>2, <1>3, <1>6, SpaceFacts DEF Vacated
  <1> QED BY <1>2, <1>3, <1>4, <1>5, <1>7

(* An object is in the old generation or in one of the others. *)
LEMMA ObjPlace ==
    ASSUME TypeOK, Tiled(Extent(obj), top), NEW a \in DOMAIN obj
    PROVE  /\ IsOld(a) <=> In(a, "old")
           /\ a \in Val /\ (IsOld(a) => a + Size(a) <= top.old)
           /\ IsNew(a) <=> Vacated(a) \/ In(a, to)
           /\ IsOld(a) <=> ~IsNew(a)
  <1>1. a \in Val /\ a \in Nat \ {0}
    BY ObjFacts DEF Val
  <1>2. PICK s \in Spaces : In(a, s) /\ a + Size(a) <= top[s]
    BY ObjFacts
  <1>3. s = "old" \/ (s # "old" /\ (s = "eden" \/ s = from \/ s = to))
    BY DEF TypeOK, to, Survivors, Spaces
  <1>4. IsOld(a) <=> ~IsNew(a)
    BY <1>1, SpaceFacts DEF IsOld, IsNew
  <1>5. CASE s = "old"
    BY <1>1, <1>2, <1>4, <1>5, PlaceFacts
  <1>6. CASE s # "old"
    <2>1. IsNew(a) /\ ~IsOld(a)
      BY <1>1, <1>2, <1>6, PlaceFacts
    <2>2. Vacated(a) \/ In(a, to)
      BY <1>2, <1>3, <1>6 DEF Vacated
    <2>3. ~In(a, "old")
      BY <1>1, <2>1, PlaceFacts
    <2> QED BY <1>1, <2>1, <2>2, <2>3
  <1> QED BY <1>5, <1>6

-----------------------------------------------------------------------------
(***************************************************************************)
(* The program and the allocator                                           *)
(***************************************************************************)

LEMMA InitIInv == Init => IInv
  <1> SUFFICES ASSUME Init PROVE IInv
    OBVIOUS
  <1> USE DEF Init
  <1>1. DOMAIN obj = {} /\ DOMAIN fwd = {}
    OBVIOUS
  <1>2. AreFunctions
    <2>1. obj = [a \in {} |-> obj[a]] /\ fwd = [a \in {} |-> fwd[a]]
      OBVIOUS
    <2> QED BY <1>1, <2>1 DEF AreFunctions
  <1>3. /\ OldInitial \in Nat /\ OldInitial <= OldWords /\ OldWords \in Nat
        /\ AgeMax \in Nat \ {0} /\ MaxChainSkip \in Nat /\ CardWords \in Nat
        /\ NRoots \in Nat /\ NCode \in Nat
    BY HeapAssumption
  <1>4. End.old = Start.old + OldWords /\ Start.old \in Nat \ {0} /\ End.old \in Nat
    BY <1>3, Layout DEF End
  <1>5. top \in [Spaces -> Nat] /\ \A s \in Spaces : Start[s] <= top[s] /\ top[s] <= End[s]
    BY Layout
  <1>6. committed \in Start.old..End.old /\ top.old <= committed /\ oldTop0 \in Start.old..End.old
    BY <1>3, <1>4
  <1>7. TypeOK
    <2>1. offsets \in [Cards -> 0..MaxDirect + MaxChainSkip]
      BY <1>3 DEF MaxDirect
    <2>2. root \in [0..NRoots -> Val] /\ code \in [1..NCode -> Val]
      BY DEF Val
    <2>3. threshold \in 0..AgeMax /\ ageTable \in [0..AgeMax -> Nat]
      BY <1>3 DEF EmptyAges
    <2>4. pc \in Idle \cup Stages \cup Phases
      BY DEF Idle
    <2>5. req \in [n : SlotCounts \cup {0}, dst : 0..NRoots]
      BY <1>3 DEF NoReq
    <2>6. cur \in [i : Nat, w : Nat, new : BOOLEAN, to : Nat, old : Nat]
      BY DEF NoCur
    <2>7. from \in Survivors
      BY DEF Survivors
    <2> QED BY <1>1, <1>5, <1>6, <2>1, <2>2, <2>3, <2>4, <2>5, <2>6, <2>7 DEF TypeOK
  <1>8. Tiled(Extent(obj), top)
    <2>1. PICK sz : sz = Extent(obj)
      OBVIOUS
    <2>2. DOMAIN sz = {} /\ sz \in [DOMAIN sz -> Nat \ {0}]
      BY <1>1, <2>1 DEF Extent
    <2>3. Covered(sz, top)
      <3> SUFFICES ASSUME NEW s \in Spaces PROVE Start[s]..top[s] - 1 = {}
        BY DEF Covered
      <3>1. Start[s] \in Nat /\ top[s] = Start[s]
        BY Layout
      <3> QED BY <3>1
    <2>4. TilingTyped(sz, top)
      BY <1>5, <2>2 DEF TilingTyped
    <2>5. Placed(sz, top) /\ Apart(sz)
      BY <2>2 DEF Placed, Apart
    <2> QED BY <2>1, <2>3, <2>4, <2>5 DEF Tiled
  <1>9. RefsValid /\ RememberedSet
    BY <1>1 DEF RefsValid, RememberedSet, Roots
  <1>10. NoDoubleVisit /\ GuaranteeHolds
    BY DEF NoDoubleVisit, GuaranteeHolds
  <1>11. Quiet
    BY <1>1, <1>5 DEF Quiet, to, Spaces
  <1>12. RoomOK
    BY DEF RoomOK, Phases
  <1>13. pc \notin Phases
    BY DEF Phases
  <1> QED BY <1>2, <1>7, <1>8, <1>9, <1>10, <1>11, <1>12, <1>13 DEF IInv

(* A step outside of a scavenge that leaves the objects and spaces alone. *)
LEMMA FrameKeeps ==
    ASSUME IInv, pc \notin Phases \cup {"stalled"}, TypeOK',
           UNCHANGED <<obj, fwd, top, from, dirty, stall>>,
           Roots' \subseteq DOMAIN obj \cup {0}, pc' \notin Phases \cup {"panic"}, RoomOK'
    PROVE  IInv'
  <1>1. /\ TypeOK /\ AreFunctions /\ Tiled(Extent(obj), top) /\ RefsValid /\ RememberedSet
        /\ Quiet
    BY DEF IInv
  <1>2. AreFunctions'
    BY <1>1 DEF AreFunctions
  <1>3. Tiled(Extent(obj), top)'
    BY <1>1
  <1>4. RefsValid' /\ RememberedSet'
    BY <1>1 DEF RefsValid, RememberedSet, Slots
  <1>5. NoDoubleVisit' /\ GuaranteeHolds'
    BY <1>1 DEF NoDoubleVisit, GuaranteeHolds, Quiet
  <1>6. Quiet'
    BY <1>1 DEF Quiet, to
  <1> QED BY <1>2, <1>3, <1>4, <1>5, <1>6 DEF IInv

(* The references the program holds. *)
LEMMA StackFacts ==
    ASSUME IInv
    PROVE  /\ Stack \subseteq DOMAIN obj \cup {0} /\ Stack \subseteq Val /\ 0 \in Val
           /\ Stack \ {0} \subseteq DOMAIN obj
           /\ \A r \in 0..NRoots : root[r] \in DOMAIN obj \cup {0}
           /\ \A c \in 1..NCode : code[c] \in DOMAIN obj \cup {0}
  <1>1. NRoots \in Nat
    BY HeapAssumption
  <1>2. \A r \in 0..NRoots : root[r] \in DOMAIN obj \cup {0} /\ root[r] \in Val
    BY DEF IInv, RefsValid, Roots, TypeOK
  <1>3. \A c \in 1..NCode : code[c] \in DOMAIN obj \cup {0}
    BY DEF IInv, RefsValid, Roots
  <1>4. \A r \in 1..NRoots : r \in 0..NRoots
    BY <1>1
  <1> QED BY <1>2, <1>3, <1>4 DEF Stack, Val

LEMMA RootsOnly ==
    ASSUME IInv, pc = "mutator", pc' = "mutator", UNCHANGED <<heapVars, gcVars, req>>,
           root' \in [0..NRoots -> Val], code' \in [1..NCode -> Val],
           Roots' \subseteq DOMAIN obj \cup {0}
    PROVE  IInv'
  <1>1. TypeOK'
    BY DEF IInv, TypeOK, heapVars, gcVars, Object
  <1>2. RoomOK'
    BY DEF RoomOK, Phases
  <1> QED BY <1>1, <1>2, FrameKeeps DEF heapVars, gcVars, Phases

LEMMA MoveKeeps ==
    ASSUME IInv, NEW r \in 1..NRoots, NEW v \in Stack \cup {0}, Move(r, v) PROVE IInv'
  <1>1. /\ pc = "mutator" /\ pc' = "mutator" /\ root' = [root EXCEPT ![r] = v]
        /\ UNCHANGED <<heapVars, gcVars, code, req>>
    BY DEF Move
  <1>2. root \in [0..NRoots -> Val] /\ code \in [1..NCode -> Val]
    BY DEF IInv, TypeOK
  <1>3. v \in DOMAIN obj \cup {0} /\ v \in Val
    BY StackFacts
  <1>4. root' \in [0..NRoots -> Val] /\ Roots' \subseteq DOMAIN obj \cup {0}
    BY <1>1, <1>2, <1>3, StackFacts DEF Roots
  <1> QED BY <1>1, <1>2, <1>4, RootsOnly

LEMMA LoadKeeps ==
    ASSUME IInv, NEW r \in 1..NRoots, NEW a \in Stack \ {0}, NEW i \in Slots(a), Load(r, a, i)
    PROVE  IInv'
  <1>1. /\ pc = "mutator" /\ pc' = "mutator" /\ root' = [root EXCEPT ![r] = obj[a].f[i]]
        /\ UNCHANGED <<heapVars, gcVars, code, req>>
    BY DEF Load
  <1>2. root \in [0..NRoots -> Val] /\ code \in [1..NCode -> Val]
    BY DEF IInv, TypeOK
  <1>3. PICK v : v = obj[a].f[i]
    OBVIOUS
  <1>4. v \in DOMAIN obj \cup {0} /\ v \in Val
    <2>1. a \in DOMAIN obj
      BY StackFacts
    <2>2. v \in Val
      BY <1>3, <2>1, ObjFacts DEF IInv
    <2>3. v \in DOMAIN obj \cup {0}
      BY <1>3, <2>1 DEF IInv, RefsValid
    <2> QED BY <2>2, <2>3
  <1>5. root' \in [0..NRoots -> Val] /\ Roots' \subseteq DOMAIN obj \cup {0}
    BY <1>1, <1>2, <1>3, <1>4, StackFacts DEF Roots
  <1> QED BY <1>1, <1>2, <1>5, RootsOnly

LEMMA EmbedKeeps ==
    ASSUME IInv, NEW c \in 1..NCode, NEW v \in Stack \cup {0}, Embed(c, v) PROVE IInv'
  <1>1. /\ pc = "mutator" /\ pc' = "mutator" /\ code' = [code EXCEPT ![c] = v]
        /\ UNCHANGED <<heapVars, gcVars, root, req>>
    BY DEF Embed
  <1>2. root \in [0..NRoots -> Val] /\ code \in [1..NCode -> Val]
    BY DEF IInv, TypeOK
  <1>3. v \in DOMAIN obj \cup {0} /\ v \in Val
    BY StackFacts
  <1>4. code' \in [1..NCode -> Val] /\ Roots' \subseteq DOMAIN obj \cup {0}
    BY <1>1, <1>2, <1>3, StackFacts DEF Roots
  <1> QED BY <1>1, <1>2, <1>4, RootsOnly

LEMMA AllocKeeps ==
    ASSUME IInv, NEW n \in SlotCounts, NEW r \in 1..NRoots, NEW k \in Stack \cup {0},
           Alloc(n, r, k)
    PROVE  IInv'
  <1>1. /\ pc = "mutator" /\ pc' \in {"ensure", "bump"} /\ root' = [root EXCEPT ![0] = k]
        /\ req' = [n |-> n, dst |-> r] /\ ret' = "bump"
        /\ UNCHANGED <<heapVars, threshold, ageTable, met, worst, oldTop0, cur, stall, code>>
    BY DEF Alloc
  <1>2. root \in [0..NRoots -> Val] /\ code \in [1..NCode -> Val] /\ 0 \in 0..NRoots
    <2>1. NRoots \in Nat
      BY HeapAssumption
    <2>2. root \in [0..NRoots -> Val] /\ code \in [1..NCode -> Val]
      BY DEF IInv, TypeOK
    <2> QED BY <2>1, <2>2
  <1>3. k \in DOMAIN obj \cup {0} /\ k \in Val
    BY StackFacts
  <1>4. root' \in [0..NRoots -> Val] /\ Roots' \subseteq DOMAIN obj \cup {0}
    BY <1>1, <1>2, <1>3, StackFacts DEF Roots
  <1>5. req' \in [n : SlotCounts \cup {0}, dst : 0..NRoots]
    BY <1>1, HeapAssumption
  <1>6. pc' \in Stages
    BY <1>1 DEF Stages, AfterBump
  <1>7. TypeOK'
    BY <1>1, <1>2, <1>4, <1>5, <1>6 DEF IInv, TypeOK, heapVars, Object
  <1>8. RoomOK'
    BY <1>1 DEF RoomOK, Phases
  <1> QED BY <1>1, <1>4, <1>7, <1>8, FrameKeeps DEF heapVars, Phases

(* One slot of one object is written. *)
Objects(o) == o = [b \in DOMAIN o |-> o[b]] /\ \A b \in DOMAIN o : o[b] \in Object
Put(o, a, i, v) == [o EXCEPT ![a].f[i] = v]

Wrote(o, p, a, i, v) ==
    /\ Objects(p) /\ DOMAIN p = DOMAIN o /\ Extent(p) = Extent(o)
    /\ \A b \in DOMAIN o : p[b].id = o[b].id /\ Len(p[b].f) = Len(o[b].f)
    /\ \A b \in DOMAIN o : \A j \in 1..Len(o[b].f) :
          p[b].f[j] = IF b = a /\ j = i THEN v ELSE o[b].f[j]

LEMMA SlotWritten ==
    ASSUME NEW o, Objects(o), NEW a \in DOMAIN o, NEW i \in 1..Len(o[a].f), NEW v \in Val,
           NEW p, p = Put(o, a, i, v)
    PROVE  Wrote(o, p, a, i, v)
  <1>1. PICK x, f : x = o[a] /\ f = o[a].f
    OBVIOUS
  <1>2. x \in Object /\ f \in Seq(Val) /\ i \in 1..Len(f)
    BY <1>1 DEF Object, Objects
  <1>3. PICK g : g = [f EXCEPT ![i] = v]
    OBVIOUS
  <1>4. g \in Seq(Val) /\ Len(g) = Len(f) /\ \A j \in 1..Len(f) : g[j] = IF j = i THEN v ELSE f[j]
    BY <1>2, <1>3
  <1>5. PICK y : y = [x EXCEPT !.f = g]
    OBVIOUS
  <1>6. y \in Object /\ y.f = g /\ y.id = x.id
    BY <1>2, <1>4, <1>5 DEF Object
  <1>7. p = [o EXCEPT ![a] = y]
    BY <1>1, <1>3, <1>5 DEF Put
  <1>8. /\ DOMAIN p = DOMAIN o /\ p[a] = y /\ \A b \in DOMAIN o : b # a => p[b] = o[b]
    BY <1>7
  <1>9. p = [b \in DOMAIN p |-> p[b]]
    BY <1>7
  <1>10. \A b \in DOMAIN o : p[b] \in Object /\ p[b].id = o[b].id /\ Len(p[b].f) = Len(o[b].f)
    BY <1>1, <1>4, <1>6, <1>8 DEF Objects
  <1>11. ASSUME NEW b \in DOMAIN o, NEW j \in 1..Len(o[b].f)
         PROVE  p[b].f[j] = IF b = a /\ j = i THEN v ELSE o[b].f[j]
    <2>1. CASE b = a
      BY <1>1, <1>4, <1>6, <1>8, <2>1
    <2>2. CASE b # a
      BY <1>8, <2>2
    <2> QED BY <2>1, <2>2
  <1>12. Extent(p) = Extent(o)
    BY <1>8, <1>10 DEF Extent
  <1> QED BY <1>8, <1>9, <1>10, <1>11, <1>12 DEF Wrote, Objects

LEMMA WriteKeeps ==
    ASSUME IInv, pc = "mutator", NEW a \in Stack \ {0}, NEW i \in Slots(a),
           NEW v \in Stack \cup {0}, obj' = [obj EXCEPT ![a].f[i] = v],
           dirty \subseteq dirty', dirty' \subseteq Cards,
           IsOld(a) /\ IsNew(v) => CardOf(a + i) \in dirty',
           UNCHANGED <<fwd, top, from, committed, offsets, gcVars, root, code, pc, req>>
    PROVE  IInv'
  <1>1. /\ TypeOK /\ AreFunctions /\ Tiled(Extent(obj), top) /\ RefsValid /\ RememberedSet
        /\ Quiet
    BY DEF IInv, Phases
  <1>2. a \in DOMAIN obj /\ v \in DOMAIN obj \cup {0} /\ v \in Val
    BY StackFacts
  <1>3. PICK o, p : o = obj /\ p = obj'
    OBVIOUS
  <1>4. Objects(o) /\ a \in DOMAIN o /\ i \in 1..Len(o[a].f) /\ p = Put(o, a, i, v)
    BY <1>1, <1>2, <1>3 DEF AreFunctions, TypeOK, Slots, Objects, Put
  <1>0. Wrote(o, p, a, i, v)
    BY <1>2, <1>4, SlotWritten
  <1>5. /\ p = [b \in DOMAIN p |-> p[b]] /\ DOMAIN p = DOMAIN o
        /\ \A b \in DOMAIN o : p[b] \in Object /\ Len(p[b].f) = Len(o[b].f)
        /\ \A b \in DOMAIN o : \A j \in 1..Len(o[b].f) :
              p[b].f[j] = IF b = a /\ j = i THEN v ELSE o[b].f[j]
        /\ Extent(p) = Extent(o)
    BY <1>0 DEF Wrote, Objects
  <1>6. TypeOK'
    BY <1>1, <1>3, <1>5 DEF TypeOK, gcVars, Object
  <1>7. AreFunctions'
    BY <1>1, <1>3, <1>5 DEF AreFunctions
  <1>8. Tiled(Extent(obj), top)'
    BY <1>1, <1>3, <1>5
  <1>9. RefsValid'
    <2>1. Roots' = Roots
      BY DEF Roots
    <2>2. ASSUME NEW b \in DOMAIN o, NEW j \in 1..Len(o[b].f)
          PROVE  p[b].f[j] \in DOMAIN o \cup {0}
      BY <1>1, <1>2, <1>3, <1>5 DEF RefsValid, Slots
    <2> QED BY <1>1, <1>3, <1>5, <2>1, <2>2 DEF RefsValid, Slots
  <1>10. RememberedSet'
    <2> SUFFICES ASSUME NEW b \in DOMAIN o, IsOld(b), NEW j \in 1..Len(o[b].f),
                        IsNew(p[b].f[j])
                 PROVE  CardOf(b + j) \in dirty'
      BY <1>3, <1>5 DEF RememberedSet, Slots, IsOld, IsNew
    <2>1. CASE b = a /\ j = i
      BY <1>5, <2>1
    <2>2. CASE ~(b = a /\ j = i)
      BY <1>1, <1>3, <1>5, <2>2 DEF RememberedSet, Slots
    <2> QED BY <2>1, <2>2
  <1>11. NoDoubleVisit' /\ GuaranteeHolds' /\ RoomOK' /\ Quiet'
    BY <1>1 DEF IInv, NoDoubleVisit, GuaranteeHolds, RoomOK, Phases, Quiet, gcVars, to
  <1> QED BY <1>6, <1>7, <1>8, <1>9, <1>10, <1>11 DEF IInv, Phases

LEMMA StoreKeeps ==
    ASSUME IInv, NEW a \in Stack \ {0}, NEW i \in Slots(a), NEW v \in Stack \cup {0},
           Store(a, i, v) \/ RuntimeStore(a, i, v)
    PROVE  IInv'
  <1>1. a \in DOMAIN obj
    BY StackFacts
  <1>2. /\ a \in Nat /\ Size(a) = Len(obj[a].f) + 1 /\ Len(obj[a].f) \in Nat
        /\ i \in 1..Len(obj[a].f) /\ (IsOld(a) => a + Size(a) <= top.old)
    BY <1>1, ObjFacts, ObjPlace DEF IInv
  <1>3. top.old \in Nat /\ top.old <= End.old /\ End.old \in Nat /\ Start.old \in Nat
    BY SpaceFacts DEF IInv
  <1>4. /\ IsOld(a) => /\ CardOf(a + i) \in CardsOf(a, a + Size(a))
                       /\ CardsOf(a, a + Size(a)) \subseteq Cards
    <2> SUFFICES ASSUME IsOld(a)
                 PROVE  /\ CardOf(a + i) \in CardsOf(a, a + Size(a))
                        /\ CardsOf(a, a + Size(a)) \subseteq Cards
      OBVIOUS
    <2>1. PICK e : e = a + Size(a)
      OBVIOUS
    <2>2. a \in Int /\ e \in Int /\ Start.old <= a /\ e <= End.old /\ a + i \in a..e - 1
      <3>1. PICK l : l = Len(obj[a].f)
        OBVIOUS
      <3>2. /\ l \in Nat /\ i \in 1..l /\ e = a + (l + 1) /\ e <= top.old /\ a \in Nat
            /\ Start.old <= a
        BY <1>2, <1>3, <2>1, <3>1 DEF IsOld
      <3> QED BY <1>3, <3>2
    <2> QED BY <2>1, <2>2, RangeCards
  <1>5. dirty \subseteq Cards
    BY DEF IInv, TypeOK
  <1>6. CASE Store(a, i, v)
    <2>1. StoreBarrier(a, i, v) \subseteq Cards /\ (IsOld(a) /\ IsNew(v) => CardOf(a + i) \in StoreBarrier(a, i, v))
      BY <1>4 DEF StoreBarrier
    <2>2. dirty' = dirty \cup StoreBarrier(a, i, v)
      BY <1>6 DEF Store
    <2>3. /\ pc = "mutator" /\ obj' = [obj EXCEPT ![a].f[i] = v]
          /\ UNCHANGED <<fwd, top, from, committed, offsets, gcVars, root, code, pc, req>>
      BY <1>6 DEF Store
    <2>4. /\ dirty \subseteq dirty' /\ dirty' \subseteq Cards
          /\ IsOld(a) /\ IsNew(v) => CardOf(a + i) \in dirty'
      BY <1>5, <2>1, <2>2
    <2> QED BY <2>3, <2>4, WriteKeeps
  <1>7. CASE RuntimeStore(a, i, v)
    <2>1. PostWriteBarrier(a) \subseteq Cards /\ (IsOld(a) => CardOf(a + i) \in PostWriteBarrier(a))
      BY <1>4 DEF PostWriteBarrier
    <2>2. dirty' = dirty \cup PostWriteBarrier(a)
      BY <1>7 DEF RuntimeStore
    <2>3. /\ pc = "mutator" /\ obj' = [obj EXCEPT ![a].f[i] = v]
          /\ UNCHANGED <<fwd, top, from, committed, offsets, gcVars, root, code, pc, req>>
      BY <1>7 DEF RuntimeStore
    <2>4. /\ dirty \subseteq dirty' /\ dirty' \subseteq Cards
          /\ IsOld(a) /\ IsNew(v) => CardOf(a + i) \in dirty'
      BY <1>5, <2>1, <2>2
    <2> QED BY <2>3, <2>4, WriteKeeps
  <1> QED BY <1>6, <1>7

-----------------------------------------------------------------------------
(* The stages of the cascade that only decide what comes next. *)

LEMMA Growth ==
    ASSUME TypeOK
    PROVE  /\ Grown \in Start.old..End.old /\ top.old <= Grown /\ committed <= Grown
           /\ Grown \in Nat /\ WorstCase \in Nat
  <1>1. committed \in Nat /\ top.old <= committed /\ committed <= End.old /\ Start.old <= top.old
        /\ top.old \in Nat /\ Start.old \in Nat /\ End.old \in Nat
    BY SpaceFacts
  <1>2. GrowSegment \in Nat
    BY HeapAssumption
  <1>3. WorstCase \in Nat
    <2>1. /\ top.eden \in Nat /\ Start.eden \in Nat /\ Start.eden <= top.eden
          /\ top[from] \in Nat /\ Start[from] \in Nat /\ Start[from] <= top[from]
      BY SpaceFacts
    <2> QED BY <2>1 DEF WorstCase
  <1> QED BY <1>1, <1>2, <1>3 DEF Grown

LEMMA BumpFails ==
    ASSUME IInv, pc \in DOMAIN AfterBump, pc' = AfterBump[pc], ret' = "rebump",
           UNCHANGED <<heapVars, threshold, ageTable, met, worst, oldTop0, cur, stall,
                       root, code, req>>
    PROVE  IInv'
  <1>1. pc' \in {"ensure", "old", "fullold"} /\ pc \in {"bump", "rebump", "fullbump"}
    BY DEF AfterBump
  <1>2. pc' \in Stages
    BY <1>1 DEF Stages, AfterOld
  <1>3. TypeOK'
    BY <1>2 DEF IInv, TypeOK, heapVars, Object
  <1>4. RoomOK'
    BY <1>1 DEF RoomOK, Phases
  <1>5. Roots' \subseteq DOMAIN obj \cup {0}
    BY DEF IInv, RefsValid, Roots
  <1> QED BY <1>1, <1>3, <1>4, <1>5, FrameKeeps DEF heapVars, Phases

LEMMA OldFails ==
    ASSUME IInv, pc \in DOMAIN AfterOld, pc' = AfterOld[pc],
           UNCHANGED <<heapVars, gcVars, root, code, req>>
    PROVE  IInv'
  <1>1. /\ pc' \in {"grow", "full", "fullgrow", "stalled"}
        /\ pc \in {"old", "grownold", "fullold", "fullgrownold"}
    BY DEF AfterOld
  <1>2. pc' \in Stages \cup Idle
    BY <1>1 DEF Stages, Idle
  <1>3. TypeOK'
    BY <1>2 DEF IInv, TypeOK, heapVars, gcVars, Object
  <1>4. RoomOK'
    BY <1>1 DEF RoomOK, Phases
  <1>5. Roots' \subseteq DOMAIN obj \cup {0}
    BY DEF IInv, RefsValid, Roots
  <1> QED BY <1>1, <1>3, <1>4, <1>5, FrameKeeps DEF heapVars, gcVars, Phases

LEMMA GrowOldKeeps == ASSUME IInv, GrowOld PROVE IInv'
  <1>1. /\ pc \in {"grow", "fullgrow"} /\ committed' = Grown
        /\ UNCHANGED <<obj, fwd, top, from, dirty, offsets, gcVars, root, code, req>>
    BY DEF GrowOld
  <1>2. Grown \in Nat /\ committed \in Nat /\ committed <= Grown
    BY Growth, SpaceFacts DEF IInv
  <1>3. pc' \in {"grownold", "full", "fullgrownold", "stalled"}
    <2>1. Grown > committed \/ Grown = committed
      BY <1>2
    <2> QED BY <1>1, <2>1 DEF GrowOld
  <1>4. pc' \in Stages \cup Idle
    BY <1>3 DEF Stages, Idle, AfterOld
  <1>5. TypeOK'
    <2>1. committed' \in Start.old..End.old /\ top.old <= committed'
      BY <1>1, Growth DEF IInv
    <2> QED BY <1>1, <1>4, <2>1 DEF IInv, TypeOK, gcVars, Object
  <1>6. RoomOK'
    BY <1>3 DEF RoomOK, Phases
  <1>7. Roots' \subseteq DOMAIN obj \cup {0}
    BY <1>1 DEF IInv, RefsValid, Roots
  <1> QED BY <1>1, <1>3, <1>5, <1>6, <1>7, FrameKeeps DEF gcVars, Phases

LEMMA GuaranteeStep == ASSUME IInv, GrowForGuarantee PROVE IInv'
  <1>1. /\ pc = "guarantee" /\ pc' \in {"guarantee", "scavenge"}
        /\ UNCHANGED <<obj, fwd, top, from, dirty, offsets, threshold, ageTable, ret,
                       worst, oldTop0, cur, stall, root, code, req>>
    BY DEF GrowForGuarantee
  <1>2. committed' \in {committed, Grown} /\ met' \in BOOLEAN
    <2>1. committed' \in {committed, Grown}
      BY DEF GrowForGuarantee
    <2>2. met \in BOOLEAN /\ (OldFree >= worst) \in BOOLEAN
      BY DEF IInv, TypeOK
    <2>3. met' = met \/ met' = (OldFree >= worst)
      BY DEF GrowForGuarantee
    <2>4. met' \in BOOLEAN
      BY <2>2, <2>3, Zenon
    <2> QED BY <2>1, <2>4
  <1>3. TypeOK'
    <2>1. committed' \in Start.old..End.old /\ top.old <= committed'
      BY <1>2, Growth DEF IInv, TypeOK
    <2>2. pc' \in Stages
      BY <1>1 DEF Stages
    <2> QED BY <1>1, <1>2, <2>1, <2>2 DEF IInv, TypeOK, Object
  <1>4. WorstCase' = WorstCase /\ WorstCase \in Nat /\ WorstCase <= worst /\ worst \in Nat
    BY <1>1, Growth DEF IInv, RoomOK, TypeOK, WorstCase
  <1>5. RoomOK'
    <2>1. CASE pc' = "guarantee"
      BY <1>1, <1>4, <2>1 DEF RoomOK, Phases
    <2>2. CASE pc' = "scavenge"
      <3>1. met' = (OldFree >= worst) /\ UNCHANGED committed
        BY <2>2, <1>1 DEF GrowForGuarantee
      <3>2. OldFree' = OldFree /\ OldFree \in Int
        BY <1>1, <3>1, SpaceFacts DEF OldFree, IInv
      <3>3. met' => OldFree >= worst
        BY <3>1, Zenon
      <3>4. OldFree >= worst => WorstCase' <= OldFree'
        BY <1>4, <3>2
      <3> QED BY <2>2, <3>3, <3>4 DEF RoomOK, Phases
    <2> QED BY <1>1, <2>1, <2>2
  <1>6. Roots' \subseteq DOMAIN obj \cup {0}
    BY <1>1 DEF IInv, RefsValid, Roots
  <1> QED BY <1>1, <1>3, <1>5, <1>6, FrameKeeps DEF Phases

LEMMA EnsureMet ==
    ASSUME IInv, pc = "ensure", worst' = WorstCase, OldFree >= WorstCase, met' = TRUE,
           pc' = "scavenge",
           UNCHANGED <<heapVars, ageTable, root, code, threshold, ret, oldTop0, cur, stall, req>>
    PROVE  IInv'
  <1>1. WorstCase \in Nat /\ WorstCase' = WorstCase /\ OldFree' = OldFree /\ OldFree \in Int
    BY Growth, SpaceFacts DEF IInv, WorstCase, OldFree, heapVars
  <1>2. TypeOK'
    BY <1>1 DEF IInv, TypeOK, heapVars, Object, Stages
  <1>3. RoomOK'
    BY <1>1 DEF RoomOK, Phases
  <1>4. Roots' \subseteq DOMAIN obj \cup {0}
    BY DEF IInv, RefsValid, Roots
  <1> QED BY <1>2, <1>3, <1>4, FrameKeeps DEF heapVars, Phases

LEMMA PrimGcScavengeKeeps == ASSUME IInv, PrimGcScavenge PROVE IInv'
  <1>1. /\ pc = "mutator" /\ pc' = "scavenge" /\ ret' = "mutator"
        /\ UNCHANGED <<heapVars, threshold, ageTable, met, worst, oldTop0, cur, stall,
                       root, code, req>>
    BY DEF PrimGcScavenge
  <1>2. TypeOK'
    BY <1>1 DEF IInv, TypeOK, heapVars, Object, Stages
  <1>3. RoomOK'
    BY <1>1 DEF RoomOK, Phases
  <1>4. Roots' \subseteq DOMAIN obj \cup {0}
    BY <1>1 DEF IInv, RefsValid, Roots
  <1> QED BY <1>1, <1>2, <1>3, <1>4, FrameKeeps DEF heapVars, Phases

-----------------------------------------------------------------------------
(* An object appears at a bump pointer: by allocation, or as a copy. *)

Added(o, a, x) == [b \in DOMAIN o \cup {a} |-> IF b = a THEN x ELSE o[b]]

Grew(o, p, a, x) ==
    /\ a \notin DOMAIN o /\ Objects(p) /\ DOMAIN p = DOMAIN o \cup {a} /\ p[a] = x
    /\ \A b \in DOMAIN o : p[b] = o[b]

LEMMA ObjectAdded ==
    ASSUME NEW o, Objects(o), NEW tp, Tiled(Extent(o), tp), NEW s \in Spaces,
           NEW x \in Object, NEW n, n = Len(x.f) + 1, tp[s] + n <= End[s],
           NEW a, a = tp[s], NEW p, p = Added(o, a, x), NEW tp2, tp2 = Bumped(tp, s, n)
    PROVE  /\ Grew(o, p, a, x) /\ Tiled(Extent(p), tp2)
           /\ a \in Nat /\ a \in Addr /\ Start[s] <= a /\ tp2[s] = a + n /\ n \in Nat \ {0}
           /\ \A t \in Spaces : t # s => tp2[t] = tp[t]
  <1>1. n \in Nat \ {0}
    <2>1. x.f \in Seq(Val)
      BY DEF Object
    <2>2. Len(x.f) \in Nat
      BY <2>1
    <2> QED BY <2>2
  <1>2. PICK sz, sz2 : sz = Extent(o) /\ sz2 = Extent(p)
    OBVIOUS
  <1>3. DOMAIN sz = DOMAIN o /\ \A b \in DOMAIN o : sz[b] = Len(o[b].f) + 1
    BY <1>2 DEF Extent
  <1>4. DOMAIN p = DOMAIN o \cup {a} /\ p[a] = x /\ \A b \in DOMAIN o : b # a => p[b] = o[b]
    BY DEF Added
  <1>5. sz2 = Joined(sz, tp[s], n)
    <2>1. sz2 = [b \in DOMAIN o \cup {a} |-> Len(p[b].f) + 1]
      BY <1>2, <1>4 DEF Extent
    <2>2. ASSUME NEW b \in DOMAIN o \cup {a}
          PROVE  Len(p[b].f) + 1 = IF b = a THEN n ELSE sz[b]
      BY <1>3, <1>4
    <2> QED BY <1>3, <2>1, <2>2 DEF Joined
  <1>6. tp[s] \notin DOMAIN sz /\ Tiled(sz2, tp2)
    <2>1. Tiled(sz, tp)
      BY <1>2
    <2> QED BY <1>1, <1>5, <2>1, BumpTiled
  <1>7. Objects(p)
    <2>1. p = [b \in DOMAIN p |-> p[b]]
      BY DEF Added
    <2> QED BY <1>4, <2>1 DEF Objects
  <1>8. tp[s] \in Nat /\ Start[s] <= tp[s] /\ Start[s] \in Nat \ {0} /\ End[s] <= End.old
        /\ End[s] \in Nat /\ End.old \in Nat
    BY <1>2, SpaceBounds
  <1>9. a \in Addr
    BY <1>1, <1>8 DEF Addr
  <1>10. tp2[s] = a + n /\ \A t \in Spaces : t # s => tp2[t] = tp[t]
    <2>1. s \in DOMAIN tp
      BY <1>2 DEF Tiled, TilingTyped
    <2> QED BY <2>1 DEF Bumped
  <1> QED BY <1>1, <1>2, <1>3, <1>4, <1>6, <1>7, <1>8, <1>9, <1>10 DEF Grew

(* There is an id for a new object. *)
LEMMA NewIdTyped ==
    ASSUME IsFiniteSet(DOMAIN obj)
    PROVE  NewId \in Nat \ {0} /\ NewId <= Cardinality(DOMAIN obj) + 1 /\ NewId \notin UsedIds
  <1>1. PICK D, N : D = DOMAIN obj /\ N = Cardinality(D) /\ N \in Nat /\ IsFiniteSet(D)
    BY FS_CardinalityType
  <1>2. PICK U : U = UsedIds
    OBVIOUS
  <1>3. IsFiniteSet(U) /\ Cardinality(U) <= N /\ Cardinality(U) \in Nat
    <2>1. PICK f : f = [a \in D |-> obj[a].id]
      OBVIOUS
    <2>2. f \in Surjection(D, U)
      BY <1>1, <1>2, <2>1 DEF Surjection, UsedIds
    <2> QED BY <1>1, <2>2, FS_Surjection, FS_CardinalityType
  <1> DEFINE T == {x \in 1..N + 1 : x \notin U}
  <1>4. T # {}
    <2> SUFFICES ASSUME T = {} PROVE FALSE
      OBVIOUS
    <2>1. 1..N + 1 \in SUBSET U
      OBVIOUS
    <2>2. Cardinality(1..N + 1) <= Cardinality(U)
      BY <1>3, <2>1, FS_Subset
    <2>3. PICK m : m = N + 1
      OBVIOUS
    <2>4. m \in Int /\ 1 \in Int /\ m >= 1
      BY <1>1, <2>3
    <2>5. Cardinality(1..m) = IF 1 > m THEN 0 ELSE m - 1 + 1
      BY <2>4, FS_Interval
    <2> QED BY <1>1, <1>3, <2>2, <2>3, <2>4, <2>5
  <1>5. PICK x \in T : \A y \in T : x <= y
    <2>1. T \subseteq Nat
      BY <1>1
    <2> HIDE DEF T
    <2> QED BY <1>4, <2>1, LeastNat
  <1>6. 1..x - 1 \subseteq U
    <2> SUFFICES ASSUME NEW y \in 1..x - 1, y \notin U PROVE FALSE
      OBVIOUS
    <2>1. y \in T /\ y < x
      BY <1>1
    <2> QED BY <1>1, <1>5, <2>1
  <1>7. x \in 1..N + 1 /\ x \notin U
    BY <1>5
  <1>8. NewId = CHOOSE z \in 1..N + 1 : z \notin U /\ 1..z - 1 \subseteq U
    BY <1>1, <1>2 DEF NewId
  <1>9. NewId \in 1..N + 1 /\ NewId \notin U
    BY <1>6, <1>7, <1>8
  <1> QED BY <1>1, <1>2, <1>9

LEMMA ObjIsObjects ==
    ASSUME TypeOK, AreFunctions PROVE Objects(obj) /\ IsFiniteSet(DOMAIN obj)
  <1>1. IsFiniteSet(Addr)
    <2>1. PICK m : m = End.old - 1
      OBVIOUS
    <2>2. m \in Int /\ 1 \in Int
      BY <2>1, Layout
    <2> QED BY <2>1, <2>2, FS_Interval DEF Addr
  <1>2. DOMAIN obj \in SUBSET Addr
    BY DEF TypeOK
  <1> QED BY <1>1, <1>2, FS_Subset DEF TypeOK, AreFunctions, Objects

(* What the program gets: klass from the handle, an empty body. *)
Fresh(n, k) == [id |-> NewId, age |-> 0, f |-> [i \in 1..n |-> IF i = 1 THEN k ELSE 0]]

LEMMA FreshTyped ==
    ASSUME TypeOK, AreFunctions, NEW n \in Nat, NEW k \in Val
    PROVE  /\ Fresh(n, k) \in Object /\ Len(Fresh(n, k).f) = n
           /\ \A i \in 1..n : Fresh(n, k).f[i] \in {k, 0}
  <1>1. PICK f : f = [i \in 1..n |-> IF i = 1 THEN k ELSE 0]
    OBVIOUS
  <1>2. 0 \in Val
    BY DEF Val
  <1>3. f \in [1..n -> Val] /\ \A i \in 1..n : f[i] \in {k, 0}
    BY <1>1, <1>2
  <1>4. f \in Seq(Val) /\ Len(f) = n
    BY <1>3
  <1>5. NewId \in Nat \ {0}
    BY ObjIsObjects, NewIdTyped
  <1>6. 0 \in 0..AgeMax
    BY HeapAssumption
  <1>7. Fresh(n, k) = [id |-> NewId, age |-> 0, f |-> f]
    BY <1>1 DEF Fresh
  <1> QED BY <1>3, <1>4, <1>5, <1>6, <1>7 DEF Object

LEMMA ReqFacts == ASSUME TypeOK PROVE req.n \in Nat /\ req.dst \in 0..NRoots
  <1>1. req \in [n : SlotCounts \cup {0}, dst : 0..NRoots]
    BY DEF TypeOK
  <1>2. req.n \in SlotCounts \cup {0} /\ req.dst \in 0..NRoots
    BY <1>1
  <1>3. SlotCounts \cup {0} \subseteq Nat
    BY HeapAssumption
  <1> QED BY <1>2, <1>3

LEMMA PlaceKeeps ==
    ASSUME IInv, pc \notin Phases \cup {"stalled"}, NEW s \in {"eden", "old"},
           InitObjectAt(top[s], s), top[s] + req.n + 1 <= End[s],
           s = "old" => top[s] + req.n + 1 <= committed,
           dirty \subseteq dirty', dirty' \subseteq Cards,
           s = "old" => \A i \in 1..req.n : CardOf(top[s] + i) \in dirty',
           offsets' \in OffsetTable, UNCHANGED <<fwd, from, committed, gcVars, code>>
    PROVE  IInv'
  <1>1. /\ TypeOK /\ AreFunctions /\ Tiled(Extent(obj), top) /\ RefsValid /\ RememberedSet
        /\ Quiet
    BY DEF IInv
  <1>2. req.n \in Nat /\ req.dst \in 0..NRoots /\ s \in Spaces
    BY <1>1, ReqFacts DEF Spaces
  <1>3. PICK n, k, x, a : n = req.n /\ k = root[0] /\ x = Fresh(n, k) /\ a = top[s]
    OBVIOUS
  <1>4. k \in DOMAIN obj \cup {0} /\ k \in Val /\ 0 \in 0..NRoots
    BY <1>1, <1>3, StackFacts, HeapAssumption DEF TypeOK
  <1>5. x \in Object /\ Len(x.f) = n /\ \A i \in 1..n : x.f[i] \in {k, 0}
    BY <1>1, <1>2, <1>3, <1>4, FreshTyped
  <1>6. /\ obj' = Added(obj, a, x)
        /\ top' = [top EXCEPT ![s] = a + n + 1]
        /\ root' = [root EXCEPT ![0] = 0, ![req.dst] = a]
        /\ req' = NoReq /\ pc' = "mutator"
    BY <1>3 DEF InitObjectAt, Added, Fresh
  <1>7. PICK o, p, tp, tp2, m : o = obj /\ p = obj' /\ tp = top /\ tp2 = top' /\ m = n + 1
    OBVIOUS
  <1>8. Objects(o) /\ IsFiniteSet(DOMAIN o) /\ Tiled(Extent(o), tp)
    BY <1>1, <1>7, ObjIsObjects
  <1>9. tp[s] \in Nat
    BY <1>1, <1>2, <1>7, SpaceFacts
  <1>10. tp2 = Bumped(tp, s, m) /\ m = Len(x.f) + 1 /\ tp[s] + m <= End[s]
    <2>1. a + n + 1 = tp[s] + m
      BY <1>2, <1>3, <1>7, <1>9
    <2>2. a + n + 1 <= End[s]
      BY <1>3
    <2> QED BY <1>5, <1>6, <1>7, <2>1, <2>2 DEF Bumped
  <1>11. /\ Grew(o, p, a, x) /\ Tiled(Extent(p), tp2)
         /\ a \in Nat /\ a \in Addr /\ Start[s] <= a /\ tp2[s] = a + m /\ m \in Nat \ {0}
         /\ \A t \in Spaces : t # s => tp2[t] = tp[t]
    <2>1. a = tp[s] /\ p = Added(o, a, x)
      BY <1>3, <1>6, <1>7
    <2>2. s \in Spaces /\ x \in Object
      BY <1>2, <1>5
    <2>3. Objects(o) /\ Tiled(Extent(o), tp)
      BY <1>8
    <2> QED BY <1>10, <2>1, <2>2, <2>3, ObjectAdded
  <1>12. /\ a \notin DOMAIN o /\ Objects(p) /\ DOMAIN p = DOMAIN o \cup {a} /\ p[a] = x
         /\ \A b \in DOMAIN o : p[b] = o[b]
    BY <1>11 DEF Grew
  <1>13. /\ s # to /\ top'[to] = top[to] /\ to' = to
         /\ top'.old <= committed' /\ committed' \in Start.old..End.old
    <2>1. s # to /\ to \in Spaces /\ "old" \in Spaces
      BY <1>1, SpaceFacts
    <2>2. to' = to
      BY DEF to
    <2>3. top'.old <= committed
      <3>1. CASE s = "old"
        <4>1. top'.old = a + m /\ a + m <= committed
          BY <1>2, <1>3, <1>7, <1>9, <1>11, <3>1
        <4> QED BY <4>1
      <3>2. CASE s # "old"
        BY <1>1, <1>7, <1>11, <2>1, <3>2 DEF TypeOK
      <3> QED BY <3>1, <3>2
    <2> QED BY <1>1, <1>7, <1>11, <2>1, <2>2, <2>3 DEF TypeOK
  <1>14. TypeOK'
    <2>1. DOMAIN p \subseteq Addr /\ \A b \in DOMAIN p : p[b] \in Object
      BY <1>1, <1>7, <1>11, <1>12 DEF Objects, TypeOK
    <2>2. tp2 \in [Spaces -> Nat] /\ \A t \in Spaces : Start[t] <= tp2[t] /\ tp2[t] <= End[t]
      BY <1>11 DEF Tiled, TilingTyped
    <2>3. root' \in [0..NRoots -> Val]
      BY <1>1, <1>6, <1>11 DEF TypeOK, Val
    <2>4. req' \in [n : SlotCounts \cup {0}, dst : 0..NRoots] /\ pc' \in Idle
      BY <1>4, <1>6 DEF NoReq, Idle
    <2>5. DOMAIN fwd' = {}
      BY <1>1 DEF Quiet
    <2> QED BY <1>1, <1>7, <1>13, <2>1, <2>2, <2>3, <2>4, <2>5
            DEF TypeOK, gcVars, OffsetTable, Object
  <1>15. AreFunctions'
    BY <1>1, <1>7, <1>12 DEF AreFunctions, Objects
  <1>16. Tiled(Extent(obj), top)'
    BY <1>7, <1>11
  <1>17. RefsValid'
    <2>1. ASSUME NEW b \in DOMAIN p, NEW i \in 1..Len(p[b].f)
          PROVE  p[b].f[i] \in DOMAIN p \cup {0}
      <3>1. CASE b = a
        BY <1>4, <1>5, <1>7, <1>12, <3>1
      <3>2. CASE b # a
        BY <1>1, <1>7, <1>12, <3>2 DEF RefsValid, Slots
      <3> QED BY <3>1, <3>2
    <2>2. \A r \in 0..NRoots : root'[r] \in DOMAIN p \cup {0}
      <3>1. \A r \in 0..NRoots : root[r] \in DOMAIN o \cup {0}
        BY <1>7, StackFacts
      <3>2. \A r \in 0..NRoots : root'[r] \in {root[r], 0, a}
        BY <1>1, <1>6 DEF TypeOK
      <3> QED BY <1>12, <3>1, <3>2
    <2>3. \A c \in 1..NCode : code'[c] \in DOMAIN p \cup {0}
      BY <1>7, <1>12, StackFacts
    <2> QED BY <1>7, <2>1, <2>2, <2>3 DEF RefsValid, Slots, Roots
  <1>18. RememberedSet'
    <2> SUFFICES ASSUME NEW b \in DOMAIN p, IsOld(b), NEW i \in 1..Len(p[b].f),
                        IsNew(p[b].f[i])
                 PROVE  CardOf(b + i) \in dirty'
      BY <1>7 DEF RememberedSet, Slots, IsOld, IsNew
    <2>1. CASE b = a
      <3>1. s = "old"
        <4>1. End["eden"] <= Start.old /\ End["eden"] \in Nat /\ Start.old \in Nat
          BY <1>1, SpaceFacts
        <4> QED BY <1>9, <1>10, <1>11, <2>1, <4>1, <1>3, <1>7 DEF IsOld
      <3> QED BY <1>3, <1>5, <1>12, <2>1, <3>1
    <2>2. CASE b # a
      BY <1>1, <1>7, <1>12, <2>2 DEF RememberedSet, Slots
    <2> QED BY <2>1, <2>2
  <1>19. NoDoubleVisit' /\ GuaranteeHolds' /\ RoomOK' /\ Quiet'
    BY <1>1, <1>6, <1>13 DEF NoDoubleVisit, GuaranteeHolds, RoomOK, Phases, Quiet, gcVars
  <1> QED BY <1>6, <1>14, <1>15, <1>16, <1>17, <1>18, <1>19 DEF IInv, Phases

LEMMA TryBumpEdenKeeps == ASSUME IInv, TryBumpEden PROVE IInv'
  <1>1. pc \in DOMAIN AfterBump /\ pc \notin Phases \cup {"stalled"}
    BY DEF TryBumpEden, AfterBump, Phases
  <1>2. CASE ~BumpFits
    <2>1. /\ pc' = AfterBump[pc] /\ ret' = "rebump"
          /\ UNCHANGED <<heapVars, threshold, ageTable, met, worst, oldTop0, cur, stall,
                         root, code, req>>
      BY <1>2 DEF TryBumpEden
    <2> QED BY <1>1, <2>1, BumpFails
  <1>3. CASE BumpFits
    <2>1. /\ InitObjectAt(top.eden, "eden")
          /\ UNCHANGED <<fwd, from, committed, dirty, offsets, gcVars, code>>
      BY <1>3 DEF TryBumpEden
    <2>2. top["eden"] + req.n + 1 <= End["eden"]
      BY <1>3 DEF BumpFits
    <2>3. dirty' \subseteq Cards /\ dirty \subseteq dirty' /\ offsets' \in OffsetTable
      BY <2>1 DEF IInv, TypeOK, OffsetTable
    <2> QED BY <1>1, <2>1, <2>2, <2>3, PlaceKeeps
  <1> QED BY <1>2, <1>3

LEMMA TryOldAllocKeeps == ASSUME IInv, TryOldAlloc PROVE IInv'
  <1>1. pc \in DOMAIN AfterOld /\ pc \notin Phases \cup {"stalled"}
    BY DEF TryOldAlloc, AfterOld, Phases
  <1>2. CASE ~OldFits(req.n + 1)
    <2>1. pc' = AfterOld[pc] /\ UNCHANGED <<heapVars, gcVars, root, code, req>>
      BY <1>2 DEF TryOldAlloc
    <2> QED BY <1>1, <2>1, OldFails
  <1>3. CASE OldFits(req.n + 1)
    <2>1. /\ InitObjectAt(top.old, "old")
          /\ dirty' = dirty \cup CardsOf(top.old, top.old + req.n + 1)
          /\ offsets' = record_object(offsets, top.old, req.n + 1)
          /\ UNCHANGED <<fwd, from, committed, gcVars, code>>
      BY <1>3 DEF TryOldAlloc
    <2>2. /\ top.old \in Nat /\ Start.old <= top.old /\ committed <= End.old
          /\ committed \in Nat /\ End.old \in Nat
      BY SpaceFacts DEF IInv
    <2>3. req.n \in Nat
      BY ReqFacts DEF IInv
    <2>4. PICK e : e = top.old + req.n + 1
      OBVIOUS
    <2>5. e \in Int /\ e <= committed /\ e <= End.old /\ top.old \in Int
      BY <1>3, <2>2, <2>3, <2>4 DEF OldFits
    <2>6. /\ CardsOf(top.old, e) \subseteq Cards
          /\ \A w \in top.old..e - 1 : CardOf(w) \in CardsOf(top.old, e)
      BY <2>2, <2>5, RangeCards
    <2>7. \A i \in 1..req.n : top.old + i \in top.old..e - 1
      BY <2>2, <2>3, <2>4
    <2>8. /\ dirty \subseteq dirty' /\ dirty' \subseteq Cards
          /\ \A i \in 1..req.n : CardOf(top.old + i) \in dirty'
      BY <2>1, <2>4, <2>6, <2>7 DEF IInv, TypeOK
    <2>9. offsets' \in OffsetTable
      <3>1. offsets \in OffsetTable /\ top.old >= Start.old
        BY <2>2 DEF IInv, TypeOK, OffsetTable
      <3> QED BY <2>1, <2>5, <3>1, RecordTyped
    <2> QED BY <1>1, <2>1, <2>4, <2>5, <2>8, <2>9, PlaceKeeps
  <1> QED BY <1>2, <1>3

-----------------------------------------------------------------------------
(***************************************************************************)
(* The full collection                                                     *)
(***************************************************************************)

LEMMA LiveSurvives ==
    ASSUME TypeOK, Tiled(Extent(obj), top), NEW live, live \subseteq DOMAIN obj,
           NEW s \in Spaces
    PROVE  LiveWords(live, s) = Surviving(Extent(obj), top, live, s)
  <1>1. PICK W : W = Start[s]..top[s] - 1
    OBVIOUS
  <1>2. ASSUME NEW a \in live PROVE Size(a) = Extent(obj)[a]
    BY ObjFacts
  <1>3. LiveWords(live, s) = {w \in W : \E a \in live : In(a, s) /\ a <= w /\ w < a + Size(a)}
    BY <1>1 DEF LiveWords
  <1>4. Surviving(Extent(obj), top, live, s) =
           {w \in W : \E a \in live : Start[s] <= a /\ a < top[s] /\ a <= w /\ w < a + Extent(obj)[a]}
    BY <1>1 DEF Surviving
  <1>5. ASSUME NEW w \in W
        PROVE  (\E a \in live : In(a, s) /\ a <= w /\ w < a + Size(a)) <=>
               (\E a \in live : Start[s] <= a /\ a < top[s] /\ a <= w /\ w < a + Extent(obj)[a])
    BY <1>2 DEF In
  <1> QED BY <1>3, <1>4, <1>5

SlideTops(live) == [s \in Spaces |-> CompactTop(live, s)]

LEMMA SlideCompacts ==
    ASSUME TypeOK, Tiled(Extent(obj), top), NEW live, live \subseteq DOMAIN obj
    PROVE  /\ Compacts(Extent(obj), top, live, Forwarding(live), SlideTops(live))
           /\ Forwarding(live)[0] = 0
  <1>1. ASSUME NEW s \in Spaces, NEW a \in live, Start[s] <= a, a < top[s]
        PROVE  Forwarding(live)[a] =
                  Start[s] + Cardinality(Below(Surviving(Extent(obj), top, live, s), a))
    <2>1. a \in DOMAIN obj /\ In(a, s)
      BY <1>1 DEF In
    <2>2. a # 0 /\ \A t \in Spaces : In(a, t) => t = s
      BY <2>1, ObjFacts
    <2>3. SpaceOf(a) = s
      BY <2>1, <2>2 DEF SpaceOf
    <2>4. PICK W : W = LiveWords(live, s)
      OBVIOUS
    <2>5. Forward(live, a) = Start[s] + Cardinality({w \in W : w < a})
      BY <2>2, <2>3, <2>4 DEF Forward
    <2>6. W = Surviving(Extent(obj), top, live, s)
      BY <2>4, LiveSurvives
    <2>7. Forward(live, a) = Start[s] + Cardinality(Below(W, a))
      BY <2>5 DEF Below
    <2> QED BY <2>6, <2>7 DEF Forwarding
  <1>2. SlideTops(live) =
          [s \in Spaces |-> Start[s] + Cardinality(Surviving(Extent(obj), top, live, s))]
    <2>1. ASSUME NEW s \in Spaces
          PROVE  CompactTop(live, s) =
                   Start[s] + Cardinality(Surviving(Extent(obj), top, live, s))
      BY LiveSurvives DEF CompactTop
    <2> QED BY <2>1 DEF SlideTops
  <1>3. Forwarding(live)[0] = 0
    BY DEF Forwarding, Forward
  <1> QED BY <1>1, <1>2, <1>3 DEF Compacts

(* The objects after the collection, seen from those before it. *)
Slid(o, live, nw, p) ==
    /\ Objects(p) /\ DOMAIN p = {nw[a] : a \in live}
    /\ \A a \in live : /\ p[nw[a]].id = o[a].id /\ Len(p[nw[a]].f) = Len(o[a].f)
                       /\ \A i \in 1..Len(o[a].f) : p[nw[a]].f[i] = nw[o[a].f[i]]

LEMMA GcSlides ==
    ASSUME IInv, FullGc, NEW live, live = Reach, NEW nw, nw = Forwarding(live)
    PROVE  /\ live \subseteq DOMAIN obj /\ top' = SlideTops(live)
           /\ \A a \in live : nw[a] \in Addr /\ nw[a] \in Nat \ {0}
           /\ Slid(obj, live, nw, obj')
           /\ \A a \in live : \A i \in Slots(a) : obj[a].f[i] \in live \cup {0}
           /\ \A r \in 0..NRoots : root[r] \in live \cup {0} /\ root'[r] = nw[root[r]]
           /\ \A c \in 1..NCode : code[c] \in live \cup {0} /\ code'[c] = nw[code[c]]
           /\ root' = [r \in 0..NRoots |-> nw[root[r]]]
           /\ code' = [c \in 1..NCode |-> nw[code[c]]]
  <1>1. /\ TypeOK /\ AreFunctions /\ Tiled(Extent(obj), top) /\ RefsValid
    BY DEF IInv
  <1>2. /\ live \subseteq DOMAIN obj /\ Roots \cap DOMAIN obj \subseteq live /\ RefsClosed(live)
    BY <1>1, ObjIsObjects, ReachClosed
  <1>3. /\ obj' = [b \in {nw[a] : a \in live} |->
                     LET a == CHOOSE x \in live : nw[x] = b
                     IN  [obj[a] EXCEPT !.f = [i \in Slots(a) |-> nw[@[i]]]]]
        /\ root' = [r \in 0..NRoots |-> nw[root[r]]]
        /\ code' = [c \in 1..NCode |-> nw[code[c]]]
        /\ top' = SlideTops(live)
    <2>2. top' = SlideTops(live)
      BY DEF FullGc, SlideTops
    <2>3. root' = [r \in 0..NRoots |-> nw[root[r]]] /\ code' = [c \in 1..NCode |-> nw[code[c]]]
      BY DEF FullGc
    <2>4. obj' = Compacted(live, nw)
      BY DEF FullGc
    <2> QED BY <2>2, <2>3, <2>4 DEF Compacted
  <1>4. Compacts(Extent(obj), top, live, nw, SlideTops(live)) /\ nw[0] = 0
    BY <1>1, <1>2, SlideCompacts
  <1>5. PICK sz, tp, tp2 : sz = Extent(obj) /\ tp = top /\ tp2 = SlideTops(live)
    OBVIOUS
  <1>6. Tiled(sz, tp) /\ live \subseteq DOMAIN sz /\ Compacts(sz, tp, live, nw, tp2)
    BY <1>1, <1>2, <1>4, <1>5 DEF Extent
  <1>7. ASSUME NEW a \in live PROVE nw[a] \in Addr /\ nw[a] \in Nat \ {0}
    <2>1. PICK s \in Spaces : Start[s] <= a /\ a < tp[s]
      BY <1>6, TilePlace
    <2>2. nw[a] \in Nat /\ Start[s] <= nw[a] /\ nw[a] + sz[a] <= tp2[s] /\ tp2[s] <= tp[s]
          /\ tp2 \in [Spaces -> Nat]
      BY <1>6, <2>1, CompactMoves
    <2>3. sz[a] \in Nat \ {0}
      BY <1>6, TilePlace
    <2>4. /\ tp[s] \in Nat /\ tp[s] <= End[s] /\ End[s] <= End.old /\ End[s] \in Nat
          /\ End.old \in Nat /\ Start[s] \in Nat \ {0}
      BY <1>6, SpaceBounds
    <2>5. nw[a] < End.old /\ nw[a] >= 1
      BY <2>2, <2>3, <2>4
    <2> QED BY <2>2, <2>4, <2>5 DEF Addr
  <1>8. ASSUME NEW a \in live, NEW i \in Slots(a) PROVE obj[a].f[i] \in live \cup {0}
    <2>1. obj[a].f[i] \in DOMAIN obj \cup {0}
      BY <1>1, <1>2 DEF RefsValid
    <2>2. obj[a].f[i] # 0 => obj[a].f[i] \in Refs(a)
      BY DEF Refs
    <2> QED BY <1>2, <2>1, <2>2 DEF RefsClosed
  <1>9. ASSUME NEW a \in live, NEW b \in live, nw[a] = nw[b] PROVE a = b
    BY <1>6, <1>9, CompactInjective
  <1>10. ASSUME NEW a \in live
         PROVE  /\ nw[a] \in DOMAIN obj' /\ obj'[nw[a]] \in Object
                /\ obj'[nw[a]].id = obj[a].id /\ Len(obj'[nw[a]].f) = Len(obj[a].f)
                /\ \A i \in 1..Len(obj[a].f) : obj'[nw[a]].f[i] = nw[obj[a].f[i]]
    <2>1. a = CHOOSE x \in live : nw[x] = nw[a]
      BY <1>9
    <2>2. PICK x, f, g : x = obj[a] /\ f = obj[a].f /\ g = [i \in Slots(a) |-> nw[f[i]]]
      OBVIOUS
    <2>3. obj'[nw[a]] = [x EXCEPT !.f = g]
      BY <1>3, <2>1, <2>2
    <2>4. x \in Object /\ Slots(a) = 1..Len(f) /\ Len(f) \in Nat
      BY <1>1, <1>2, <2>2, ObjFacts
    <2>5. \A i \in 1..Len(f) : nw[f[i]] \in Val
      BY <1>4, <1>7, <1>8, <2>2, <2>4 DEF Val
    <2>6. g \in [1..Len(f) -> Val]
      BY <2>2, <2>4, <2>5
    <2>7. g \in Seq(Val) /\ Len(g) = Len(f)
      BY <2>4, <2>6
    <2>8. [x EXCEPT !.f = g] \in Object /\ [x EXCEPT !.f = g].f = g /\ [x EXCEPT !.f = g].id = x.id
      BY <2>4, <2>7 DEF Object
    <2>9. nw[a] \in DOMAIN obj'
      BY <1>3
    <2>10. obj'[nw[a]] \in Object /\ obj'[nw[a]].f = g /\ obj'[nw[a]].id = obj[a].id
      BY <2>2, <2>3, <2>8
    <2>11. \A i \in 1..Len(f) : g[i] = nw[f[i]]
      BY <2>2, <2>4
    <2> QED BY <2>2, <2>7, <2>9, <2>10, <2>11
  <1>11. Slid(obj, live, nw, obj')
    <2>1. DOMAIN obj' = {nw[a] : a \in live} /\ obj' = [b \in DOMAIN obj' |-> obj'[b]]
      BY <1>3
    <2>2. \A b \in DOMAIN obj' : obj'[b] \in Object
      BY <1>10, <2>1
    <2> QED BY <1>10, <2>1, <2>2 DEF Slid, Objects
  <1>12. /\ \A r \in 0..NRoots : root[r] \in live \cup {0}
         /\ \A c \in 1..NCode : code[c] \in live \cup {0}
    <2>1. \A v \in Roots : v \in live \cup {0}
      BY <1>1, <1>2 DEF RefsValid
    <2> QED BY <2>1 DEF Roots
  <1> QED BY <1>2, <1>3, <1>7, <1>8, <1>11, <1>12

LEMMA GcKeeps ==
    ASSUME IInv, FullGc, pc \notin Phases \cup {"stalled"},
           UNCHANGED <<committed, threshold, ret, oldTop0, cur, stall, req>>,
           met' \in BOOLEAN, worst' \in Nat, pc' \in {"mutator", "fullbump", "guarantee"},
           pc' = "guarantee" => worst' = WorstCase
    PROVE  IInv'
  <1>1. /\ TypeOK /\ AreFunctions /\ Tiled(Extent(obj), top) /\ RefsValid /\ RememberedSet
        /\ Quiet
    BY DEF IInv
  <1>2. PICK live, nw : live = Reach /\ nw = Forwarding(live)
    OBVIOUS
  <1>3. /\ live \subseteq DOMAIN obj /\ top' = SlideTops(live)
        /\ \A a \in live : nw[a] \in Addr /\ nw[a] \in Nat \ {0}
        /\ Slid(obj, live, nw, obj')
        /\ \A a \in live : \A i \in Slots(a) : obj[a].f[i] \in live \cup {0}
        /\ \A r \in 0..NRoots : root[r] \in live \cup {0} /\ root'[r] = nw[root[r]]
        /\ \A c \in 1..NCode : code[c] \in live \cup {0} /\ code'[c] = nw[code[c]]
        /\ root' = [r \in 0..NRoots |-> nw[root[r]]]
        /\ code' = [c \in 1..NCode |-> nw[code[c]]]
    BY <1>2, GcSlides
  <1>4. Compacts(Extent(obj), top, live, nw, SlideTops(live)) /\ nw[0] = 0
    BY <1>1, <1>2, <1>3, SlideCompacts
  <1>5. PICK o, p, tp, tp2, sz, sz2 : /\ o = obj /\ p = obj' /\ tp = top /\ tp2 = top'
                                      /\ sz = Extent(o) /\ sz2 = Extent(p)
    OBVIOUS
  <1>6. /\ Tiled(sz, tp) /\ live \subseteq DOMAIN sz /\ DOMAIN sz = DOMAIN o
        /\ Compacts(sz, tp, live, nw, tp2) /\ tp2 = SlideTops(live)
    BY <1>1, <1>3, <1>4, <1>5 DEF Extent
  <1>7. /\ Objects(p) /\ DOMAIN p = {nw[a] : a \in live}
        /\ \A a \in live : /\ Len(p[nw[a]].f) = Len(o[a].f)
                           /\ \A i \in 1..Len(o[a].f) : p[nw[a]].f[i] = nw[o[a].f[i]]
    BY <1>3, <1>5 DEF Slid
  <1>8. \A a \in live : nw[a] \in DOMAIN p
    BY <1>7
  <1>9. Tiled(sz2, tp2)
    <2>1. sz2 = [b \in DOMAIN sz2 |-> sz2[b]] /\ DOMAIN sz2 = {nw[a] : a \in live}
      BY <1>5, <1>7 DEF Extent
    <2>2. \A a \in live : sz2[nw[a]] = sz[a]
      BY <1>3, <1>5, <1>7, <1>8 DEF Extent
    <2> QED BY <1>6, <2>1, <2>2, CompactTiled
  <1>10. /\ \A a \in live \cup {0} : nw[a] \in DOMAIN p \cup {0}
         /\ \A a \in live \cup {0} : nw[a] \in Val
    BY <1>3, <1>4, <1>8 DEF Val
  <1>11. /\ tp2 \in [Spaces -> Nat] /\ \A s \in Spaces : Start[s] <= tp2[s] /\ tp2[s] <= tp[s]
         /\ \A s \in Spaces : \A a \in live : Start[s] <= a /\ a < tp[s] =>
                 nw[a] \in Nat /\ Start[s] <= nw[a] /\ nw[a] + sz[a] <= tp2[s]
    BY <1>6, CompactMoves
  <1>12. ASSUME NEW a \in live, IsOld(nw[a]), NEW i \in 1..Len(o[a].f)
         PROVE  nw[a] + i \in Start.old..tp2.old - 1
    <2>1. PICK s \in Spaces : Start[s] <= a /\ a < tp[s]
      BY <1>6, TilePlace
    <2>2. /\ nw[a] \in Nat /\ Start[s] <= nw[a] /\ nw[a] + sz[a] <= tp2[s]
          /\ tp2[s] \in Nat /\ tp2[s] <= tp[s]
      BY <1>11, <2>1
    <2>3. sz[a] = Len(o[a].f) + 1 /\ sz[a] \in Nat
      <3>1. a \in DOMAIN sz /\ a \in DOMAIN o
        BY <1>6
      <3>2. sz[a] \in Nat
        BY <1>6, <3>1, TilePlace
      <3> QED BY <1>5, <3>1, <3>2 DEF Extent
    <2>4. /\ tp[s] \in Nat /\ tp[s] <= End[s] /\ End[s] \in Nat /\ Start.old \in Nat
          /\ s # "old" => End[s] <= Start.old
      BY <1>1, <1>5, SpaceFacts
    <2>5. s = "old"
      <3>1. PICK b, n, E, S : b = nw[a] /\ n = sz[a] /\ E = End[s] /\ S = Start.old
        OBVIOUS
      <3>2. /\ b \in Nat /\ n \in Nat /\ n >= 1 /\ E \in Nat /\ S \in Nat /\ b >= S
            /\ b + n <= E
        <4>1. n >= 1
          BY <2>3, <3>1
        <4>2. b \in Nat /\ b >= S /\ b + n <= tp2[s]
          BY <1>12, <2>2, <3>1 DEF IsOld
        <4>3. PICK t, u : t = tp2[s] /\ u = tp[s]
          OBVIOUS
        <4>4. /\ t \in Nat /\ u \in Nat /\ E \in Nat /\ S \in Nat /\ n \in Nat /\ b + n <= t
              /\ t <= u /\ u <= E
          BY <2>2, <2>3, <2>4, <3>1, <4>2, <4>3
        <4> QED BY <4>1, <4>2, <4>4
      <3>3. ~(E <= S)
        BY <3>2
      <3> QED BY <2>4, <3>1, <3>3
    <2>6. Len(o[a].f) \in Nat
      BY <1>1, <1>3, <1>5, ObjFacts
    <2>7. PICK x, n, e : x = nw[a] /\ n = Len(o[a].f) /\ e = tp2[s]
      OBVIOUS
    <2>8. x \in Nat /\ x >= Start.old /\ x + n + 1 <= e /\ n \in Nat /\ e \in Nat /\ i \in 1..n
      BY <1>12, <2>2, <2>3, <2>6, <2>7 DEF IsOld
    <2>9. x + i \in Start.old..e - 1
      BY <2>4, <2>8
    <2> QED BY <2>5, <2>7, <2>9
  <1>13. PICK e : e = tp2.old
    OBVIOUS
  <1>14. /\ Start.old \in Int /\ e \in Int /\ e <= End.old
         /\ dirty' = dirty \cup CardsOf(Start.old, e)
    <2>1. "old" \in Spaces /\ Start.old \in Nat
      BY <1>1, SpaceFacts
    <2>2. e = CompactTop(live, "old")
      BY <1>6, <1>13, <2>1 DEF SlideTops
    <2>3. e \in Nat /\ e <= End.old
      <3>1. tp2["old"] \in Nat /\ tp2["old"] <= End["old"]
        BY <1>9, <2>1, SpaceBounds
      <3> QED BY <1>13, <3>1
    <2>4. dirty' = dirty \cup CardsOf(Start.old, CompactTop(live, "old"))
      BY <1>2 DEF FullGc
    <2> QED BY <2>1, <2>2, <2>3, <2>4
  <1>15. CardsOf(Start.old, e) \subseteq Cards /\ \A w \in Start.old..e - 1 : CardOf(w) \in CardsOf(Start.old, e)
    BY <1>14, RangeCards
  <1>16. offsets' \in OffsetTable
    <2>1. PICK words : words = [b \in {x \in DOMAIN obj' : IsOld(x)} |-> Len(obj'[b].f) + 1]
      OBVIOUS
    <2>2. PICK t : t = clear_through(offsets, top.old)
      OBVIOUS
    <2>3. offsets' = record_objects(t, words)
      BY <2>1, <2>2 DEF FullGc
    <2>4. t \in OffsetTable
      <3>1. offsets \in OffsetTable
        BY <1>1 DEF TypeOK, OffsetTable
      <3> QED BY <2>2, <3>1, ClearTyped
    <2>5. \A a \in DOMAIN words : a \in Int /\ a >= Start.old
      <3>1. ASSUME NEW a \in DOMAIN words PROVE a \in Int /\ a >= Start.old
        <4>1. a \in DOMAIN p /\ IsOld(a)
          BY <1>5, <2>1
        <4>2. a \in Nat
          BY <1>3, <1>7, <4>1
        <4> QED BY <4>1, <4>2 DEF IsOld
      <3> QED BY <3>1
    <2> QED BY <2>3, <2>4, <2>5, RecordsTyped
  <1>17. to' = to /\ from' = from /\ fwd' = fwd /\ ageTable' = EmptyAges
    BY DEF FullGc, to
  <1>18. TypeOK'
    <2>1. DOMAIN p \subseteq Addr /\ \A b \in DOMAIN p : p[b] \in Object
      BY <1>3, <1>7 DEF Objects
    <2>2. tp2 \in [Spaces -> Nat] /\ \A t \in Spaces : Start[t] <= tp2[t] /\ tp2[t] <= End[t]
      BY <1>9 DEF Tiled, TilingTyped
    <2>3. root' \in [0..NRoots -> Val] /\ code' \in [1..NCode -> Val]
      BY <1>3, <1>10
    <2>4. DOMAIN fwd' = {}
      BY <1>1, <1>17 DEF Quiet
    <2>5. tp2.old <= committed'
      <3>1. /\ tp2["old"] <= tp["old"] /\ tp["old"] <= committed /\ tp2["old"] \in Nat
            /\ tp["old"] \in Nat /\ committed \in Nat
        BY <1>1, <1>5, <1>11, SpaceFacts
      <3> QED BY <3>1
    <2>6. ageTable' \in [0..AgeMax -> Nat]
      BY <1>17 DEF EmptyAges
    <2>7. pc' \in Idle \cup Stages
      BY DEF Idle, Stages, AfterBump
    <2>8. dirty' \subseteq Cards
      BY <1>1, <1>14, <1>15 DEF TypeOK
    <2> QED BY <1>1, <1>5, <1>16, <1>17, <2>1, <2>2, <2>3, <2>4, <2>5, <2>6, <2>7, <2>8
            DEF TypeOK, OffsetTable, Object
  <1>19. AreFunctions'
    BY <1>1, <1>5, <1>7, <1>17 DEF AreFunctions, Objects
  <1>20. RefsValid'
    <2>1. ASSUME NEW b \in DOMAIN p, NEW i \in 1..Len(p[b].f)
          PROVE  p[b].f[i] \in DOMAIN p \cup {0}
      <3>1. PICK a \in live : b = nw[a]
        BY <1>7
      <3>2. i \in 1..Len(o[a].f) /\ p[b].f[i] = nw[o[a].f[i]]
        BY <1>7, <3>1
      <3>3. o[a].f[i] \in live \cup {0}
        BY <1>3, <1>5, <3>2 DEF Slots
      <3> QED BY <1>10, <3>2, <3>3
    <2>2. \A r \in 0..NRoots : root'[r] \in DOMAIN p \cup {0}
      BY <1>3, <1>10
    <2>3. \A c \in 1..NCode : code'[c] \in DOMAIN p \cup {0}
      BY <1>3, <1>10
    <2> QED BY <1>5, <2>1, <2>2, <2>3 DEF RefsValid, Slots, Roots
  <1>21. RememberedSet'
    <2> SUFFICES ASSUME NEW b \in DOMAIN p, IsOld(b), NEW i \in 1..Len(p[b].f)
                 PROVE  CardOf(b + i) \in dirty'
      BY <1>5 DEF RememberedSet, Slots, IsOld, IsNew
    <2>1. PICK a \in live : b = nw[a]
      BY <1>7
    <2>2. i \in 1..Len(o[a].f)
      BY <1>7, <2>1
    <2>3. b + i \in Start.old..e - 1
      BY <1>12, <1>13, <2>1, <2>2
    <2> QED BY <1>14, <1>15, <2>3
  <1>22. Quiet'
    <2>1. to \in Spaces /\ tp[to] = Start[to] /\ Start[to] \in Nat
      BY <1>1, <1>5, SpaceFacts DEF Quiet
    <2>2. tp2[to] = Start[to]
      BY <1>11, <2>1
    <2> QED BY <1>1, <1>5, <1>17, <2>2 DEF Quiet
  <1>23. RoomOK'
    <2>1. CASE pc' = "guarantee"
      <3>1. worst' = WorstCase
        BY <2>1
      <3>2. /\ "eden" \in Spaces /\ from \in Spaces
            /\ tp["eden"] \in Nat /\ tp[from] \in Nat
            /\ Start["eden"] \in Nat /\ Start[from] \in Nat
        BY <1>1, <1>5, SpaceFacts
      <3>3. tp2["eden"] <= tp["eden"] /\ tp2[from] <= tp[from] /\ tp2["eden"] \in Nat /\ tp2[from] \in Nat
        BY <1>11, <3>2
      <3>4. WorstCase' = (tp2["eden"] - Start["eden"]) + (tp2[from] - Start[from])
        BY <1>5, <1>17 DEF WorstCase
      <3>5. WorstCase = (tp["eden"] - Start["eden"]) + (tp[from] - Start[from])
        BY <1>5 DEF WorstCase
      <3>6. WorstCase' <= WorstCase
        BY <3>2, <3>3, <3>4, <3>5
      <3> QED BY <2>1, <3>1, <3>6 DEF RoomOK, Phases
    <2>2. CASE pc' # "guarantee"
      BY <2>2 DEF RoomOK, Phases
    <2> QED BY <2>1, <2>2
  <1>24. NoDoubleVisit' /\ GuaranteeHolds'
    BY <1>1 DEF NoDoubleVisit, GuaranteeHolds, Quiet
  <1> QED BY <1>5, <1>9, <1>18, <1>19, <1>20, <1>21, <1>22, <1>23, <1>24 DEF IInv, Phases

LEMMA LastResortKeeps == ASSUME IInv, LastResort PROVE IInv'
  <1>1. /\ FullGc /\ pc = "full" /\ pc' = "fullbump"
        /\ UNCHANGED <<committed, met, worst, threshold, ret, oldTop0, cur, stall, req>>
    BY DEF LastResort
  <1>2. met' \in BOOLEAN /\ worst' \in Nat
    BY <1>1 DEF IInv, TypeOK
  <1> QED BY <1>1, <1>2, GcKeeps DEF Phases

LEMMA PrimGcFullKeeps == ASSUME IInv, PrimGcFull PROVE IInv'
  <1>1. /\ FullGc /\ pc = "mutator" /\ pc' = "mutator"
        /\ UNCHANGED <<committed, met, worst, threshold, ret, oldTop0, cur, stall, req>>
    BY DEF PrimGcFull
  <1>2. met' \in BOOLEAN /\ worst' \in Nat
    BY <1>1 DEF IInv, TypeOK
  <1> QED BY <1>1, <1>2, GcKeeps DEF Phases

LEMMA EnsureKeeps == ASSUME IInv, EnsurePromotionGuarantee PROVE IInv'
  <1>1. /\ pc = "ensure" /\ worst' = WorstCase
        /\ UNCHANGED <<threshold, ret, oldTop0, cur, stall, req>>
    BY DEF EnsurePromotionGuarantee
  <1>2. WorstCase \in Nat
    BY Growth DEF IInv
  <1>3. CASE /\ OldFree >= WorstCase /\ met' = TRUE /\ pc' = "scavenge"
             /\ UNCHANGED <<heapVars, ageTable, root, code>>
    BY <1>1, <1>3, EnsureMet
  <1>4. CASE OldFree < WorstCase /\ FullGc /\ pc' = "guarantee" /\ UNCHANGED <<committed, met>>
    <2>1. met' \in BOOLEAN /\ worst' \in Nat
      BY <1>1, <1>2, <1>4 DEF IInv, TypeOK
    <2> QED BY <1>1, <1>4, <2>1, GcKeeps DEF Phases
  <1> QED BY <1>3, <1>4 DEF EnsurePromotionGuarantee

-----------------------------------------------------------------------------
(***************************************************************************)
(* The scavenge: the steps between two visits                              *)
(***************************************************************************)

ScanTypes == [i : Nat, w : Nat, new : BOOLEAN, to : Nat, old : Nat]

(* A step that moves the scan on and leaves the heap alone, the dirty      *)
(* cards excepted.                                                         *)
LEMMA ScanFrameKeeps ==
    ASSUME IInv, pc \in Phases, cur' \in ScanTypes, pc' \in Phases \cup {"stalled"},
           UNCHANGED <<obj, fwd, top, offsets, ageTable, oldTop0, stall, root, code, scanFrame>>,
           dirty' \subseteq dirty, RememberedSet',
           pc' \in Phases => /\ SlotsOK' /\ RootsOK' /\ CodeOK'
                             /\ BoundaryOK' /\ WindowOK' /\ FrontsOK'
    PROVE  IInv'
  <1>1. /\ TypeOK /\ AreFunctions /\ Tiled(Extent(obj), top) /\ RefsValid
        /\ GuaranteeHolds /\ FwdOK /\ RoomOK
    BY DEF IInv, PhaseInv
  <1>2. UNCHANGED <<from, committed, threshold, met, ret, worst, req>>
    BY DEF scanFrame
  <1>3. TypeOK'
    <2>1. pc' \in Idle \cup Phases
      BY DEF Idle
    <2>2. dirty' \subseteq Cards
      BY <1>1 DEF TypeOK
    <2> QED BY <1>1, <1>2, <2>1, <2>2 DEF TypeOK, ScanTypes, Object
  <1>4. AreFunctions' /\ Tiled(Extent(obj), top)'
    BY <1>1 DEF AreFunctions
  <1>5. RefsValid'
    BY <1>1 DEF RefsValid, Slots, Roots
  <1>6. NoDoubleVisit' /\ GuaranteeHolds'
    BY <1>1, <1>2 DEF NoDoubleVisit, GuaranteeHolds, Phases
  <1>7. FwdOK'
    BY <1>1, <1>2 DEF FwdOK, Vacated, In
  <1>8. RoomOK'
    <2>1. pc' # "guarantee" /\ pc' # "scavenge"
      BY DEF Phases
    <2>2. Uncopied' = Uncopied /\ OldFree' = OldFree
      BY <1>2 DEF Uncopied, Vacated, In, OldFree, Size
    <2> QED BY <1>1, <1>2, <2>1, <2>2 DEF RoomOK
  <1> QED BY <1>3, <1>4, <1>5, <1>6, <1>7, <1>8 DEF IInv, PhaseInv

LEMMA SlotsKeep ==
    ASSUME SlotsOK, UNCHANGED <<obj, top, from, stall>>,
           \A a \in DOMAIN obj : \A i \in Slots(a) :
              /\ Scanned(a, i) => Scanned(a, i)'
              /\ Scanned(a, i)' /\ ~Scanned(a, i) => ~Vacated(obj[a].f[i])
    PROVE  SlotsOK'
  <1>1. UNCHANGED to
    BY DEF to
  <1> SUFFICES ASSUME NEW a \in DOMAIN obj, NEW i \in Slots(a)
               PROVE  VisitOK(Scanned(a, i), obj[a].f[i])'
    BY DEF SlotsOK, Slots
  <1>2. VisitOK(Scanned(a, i), obj[a].f[i])
    BY DEF SlotsOK
  <1>3. (Vacated(obj[a].f[i]) <=> Vacated(obj[a].f[i])') /\ (In(obj[a].f[i], to) <=> In(obj[a].f[i], to)')
    BY <1>1 DEF Vacated, In
  <1> QED BY <1>2, <1>3 DEF VisitOK

LEMMA VisitKeep ==
    ASSUME UNCHANGED <<top, from, stall>>, NEW u, NEW v, VisitOK(u, v) PROVE VisitOK(u, v)'
  BY DEF VisitOK, Vacated, In, to

(* What a slot of an old object knows while the cards are scanned. *)
LEMMA OldSlot ==
    ASSUME TypeOK, Tiled(Extent(obj), top), BoundaryOK,
           NEW a \in DOMAIN obj, IsOld(a), NEW i \in Slots(a)
    PROVE  /\ a \in Nat /\ i \in Nat \ {0} /\ a + i \in Nat /\ a + i >= Start.old
           /\ Start.old <= a
           /\ a < oldTop0 => a + i < oldTop0
           /\ oldTop0 <= a => a + i >= oldTop0
           /\ oldTop0 \in Nat
           /\ CardOf(a + i) \in Nat
  <1>1. a \in Nat /\ Slots(a) = 1..Len(obj[a].f) /\ Size(a) = Len(obj[a].f) + 1
        /\ Len(obj[a].f) \in Nat
    BY ObjFacts
  <1>2. Start.old \in Nat /\ oldTop0 \in Nat
    BY SpaceFacts
  <1>3. a < oldTop0 => a + Size(a) <= oldTop0
    BY DEF BoundaryOK
  <1>4. /\ i \in Nat \ {0} /\ a + i \in Nat /\ a + i >= Start.old
    BY <1>1, <1>2 DEF IsOld
  <1>5. CardOf(a + i) \in Nat
    BY <1>4, CardWindow
  <1> QED BY <1>1, <1>2, <1>3, <1>4, <1>5 DEF IsOld

LEMMA RootsDoneKeeps == ASSUME IInv, RootsDone PROVE IInv'
  <1>1. /\ pc = "roots" /\ cur.i > NRoots /\ pc' = "cards" /\ cur' = CardCursor(0)
        /\ UNCHANGED <<obj, fwd, top, dirty, offsets, ageTable, oldTop0, stall, root, code,
                       scanFrame, from>>
    BY DEF RootsDone, scanFrame
  <1>2. /\ TypeOK /\ Tiled(Extent(obj), top) /\ RememberedSet /\ SlotsOK /\ RootsOK /\ CodeOK
        /\ BoundaryOK
    BY <1>1 DEF IInv, Phases, PhaseInv
  <1>3. CardBase(0) = Start.old /\ CardBase(0) \in Nat /\ CardBase(0) <= CardBase(0 + 1)
    BY SpaceFacts, CardBases, HeapAssumption, <1>2 DEF CardBase
  <1>4. /\ cur' \in ScanTypes /\ cur'.i = 0 /\ cur'.w = Start.old
    BY <1>1, <1>3 DEF CardCursor, NoCur, ScanTypes
  <1>5. SlotsOK'
    <2>1. ASSUME NEW a \in DOMAIN obj, NEW i \in Slots(a), Scanned(a, i)' PROVE FALSE
      <3>1. IsOld(a) /\ a + i < Start.old
        BY <1>1, <1>4, <2>1 DEF Scanned, IsOld
      <3>2. a + i >= Start.old /\ a + i \in Nat /\ Start.old \in Nat
        BY <1>2, <3>1, OldSlot, SpaceFacts
      <3> QED BY <3>1, <3>2
    <2>2. ASSUME NEW a \in DOMAIN obj, NEW i \in Slots(a), Scanned(a, i) PROVE FALSE
      BY <1>1, <2>2 DEF Scanned
    <2> QED BY <1>1, <1>2, <2>1, <2>2, SlotsKeep
  <1>6. RootsOK'
    <2>1. NRoots \in Nat /\ cur.i \in Nat
      BY <1>2, HeapAssumption DEF TypeOK
    <2>2. ASSUME NEW r \in 0..NRoots PROVE ~(pc = "roots" /\ r >= cur.i)
      BY <1>1, <2>1
    <2>3. ASSUME NEW r \in 0..NRoots PROVE VisitOK(TRUE, root[r])'
      <3>1. VisitOK(TRUE, root[r])
        BY <1>2, <2>2 DEF RootsOK, VisitOK
      <3>2. PICK v : v = root[r]
        OBVIOUS
      <3> QED BY <1>1, <3>1, <3>2, VisitKeep
    <2> QED BY <1>1, <2>3 DEF RootsOK, VisitOK
  <1>7. CodeOK'
    <2>1. ASSUME NEW c \in 1..NCode PROVE VisitOK(FALSE, code[c])'
      <3>1. VisitOK(FALSE, code[c])
        BY <1>1, <1>2 DEF CodeOK, VisitOK
      <3>2. PICK v : v = code[c]
        OBVIOUS
      <3> QED BY <1>1, <3>1, <3>2, VisitKeep
    <2> QED BY <1>1, <2>1 DEF CodeOK, VisitOK
  <1>8. BoundaryOK'
    BY <1>1, <1>2 DEF BoundaryOK, Size, Slots
  <1>9. WindowOK'
    <2>1. ASSUME NEW a \in DOMAIN obj, IsOld(a), NEW i \in Slots(a) PROVE ~(a + i < Start.old)
      BY <1>2, <2>1, OldSlot, SpaceFacts
    <2> QED BY <1>1, <1>3, <1>4, <2>1 DEF WindowOK, Slots, IsOld
  <1>10. FrontsOK'
    BY <1>1 DEF FrontsOK
  <1>11. RememberedSet'
    BY <1>1, <1>2 DEF RememberedSet, Slots
  <1> QED BY <1>1, <1>4, <1>5, <1>6, <1>7, <1>8, <1>9, <1>10, <1>11, ScanFrameKeeps DEF Phases

(* The card scan moves its window forward. *)
LEMMA CardStep ==
    ASSUME IInv, pc = "cards", pc' = "cards", cur' \in ScanTypes,
           UNCHANGED <<obj, fwd, top, offsets, ageTable, oldTop0, stall, root, code, scanFrame>>,
           dirty' \subseteq dirty, RememberedSet', BoundaryOK', WindowOK',
           \A a \in DOMAIN obj : IsOld(a) /\ a < oldTop0 =>
              \A i \in Slots(a) :
                 /\ a + i < cur.w => a + i < cur'.w
                 /\ a + i < cur'.w /\ ~(a + i < cur.w) => ~Vacated(obj[a].f[i])
    PROVE  IInv'
  <1>1. UNCHANGED from
    BY DEF scanFrame
  <1>2. /\ TypeOK /\ Tiled(Extent(obj), top) /\ SlotsOK /\ RootsOK /\ CodeOK
    BY DEF IInv, Phases, PhaseInv
  <1>3. SlotsOK'
    <2>1. ASSUME NEW a \in DOMAIN obj, NEW i \in Slots(a)
          PROVE  /\ Scanned(a, i) <=> IsOld(a) /\ a < oldTop0 /\ a + i < cur.w
                 /\ Scanned(a, i)' <=> IsOld(a) /\ a < oldTop0 /\ a + i < cur'.w
      BY DEF Scanned, IsOld
    <2> QED BY <1>1, <1>2, <2>1, SlotsKeep
  <1>4. RootsOK'
    <2>1. ASSUME NEW r \in 0..NRoots PROVE VisitOK(TRUE, root[r])'
      <3>1. VisitOK(TRUE, root[r])
        BY <1>2 DEF RootsOK, VisitOK
      <3>2. PICK v : v = root[r]
        OBVIOUS
      <3> QED BY <1>1, <3>1, <3>2, VisitKeep
    <2> QED BY <2>1 DEF RootsOK, VisitOK
  <1>5. CodeOK'
    <2>1. ASSUME NEW c \in 1..NCode PROVE VisitOK(FALSE, code[c])'
      <3>1. VisitOK(FALSE, code[c])
        BY <1>2 DEF CodeOK, VisitOK
      <3>2. PICK v : v = code[c]
        OBVIOUS
      <3> QED BY <1>1, <3>1, <3>2, VisitKeep
    <2> QED BY <2>1 DEF CodeOK, VisitOK
  <1>6. FrontsOK'
    BY DEF FrontsOK
  <1> QED BY <1>3, <1>4, <1>5, <1>6, ScanFrameKeeps DEF Phases

(* The window of the card being scanned. *)
LEMMA WindowFacts ==
    ASSUME IInv, pc = "cards"
    PROVE  /\ TypeOK /\ Tiled(Extent(obj), top) /\ RememberedSet /\ BoundaryOK
           /\ cur \in ScanTypes /\ cur.i \in Nat /\ cur.w \in Nat /\ oldTop0 \in Nat
           /\ CardBase(cur.i) \in Nat /\ CardBase(cur.i + 1) \in Nat /\ CardEnd = CardBase(cur.i + 1)
           /\ CardBase(cur.i) >= Start.old /\ Start.old \in Nat
           /\ CardBase(cur.i) < CardBase(cur.i + 1) /\ CardBase(cur.i + 1) <= CardBase(cur.i + 2)
           /\ CardBase(cur.i) <= cur.w /\ cur.w <= CardBase(cur.i + 1)
           /\ \A a \in DOMAIN obj : IsOld(a) /\ a < oldTop0 =>
                 \A i \in Slots(a) :
                    CardBase(cur.i) <= a + i /\ a + i < cur.w /\ IsNew(obj[a].f[i]) => cur.new
           /\ \A c \in {cur.i + 1} : /\ CardCursor(c) \in ScanTypes /\ CardCursor(c).i = c
                                     /\ CardCursor(c).w = CardBase(c) /\ ~CardCursor(c).new
  <1>1. /\ TypeOK /\ Tiled(Extent(obj), top) /\ RememberedSet /\ BoundaryOK /\ WindowOK
    BY DEF IInv, Phases, PhaseInv
  <1>2. /\ cur \in ScanTypes /\ cur.i \in Nat /\ cur.w \in Nat
    BY <1>1 DEF TypeOK, ScanTypes
  <1>3. oldTop0 \in Nat /\ Start.old \in Nat
    BY <1>1, SpaceFacts
  <1>4. PICK c, d : c = cur.i /\ d = cur.i + 1
    OBVIOUS
  <1>5. c \in Int /\ d \in Int /\ c >= 0 /\ d >= 0 /\ d = c + 1 /\ d + 1 = cur.i + 2 /\ d \in Nat
    BY <1>2, <1>4
  <1>6. /\ CardBase(c) \in Int /\ CardBase(c) >= Start.old /\ CardBase(d) = CardBase(c) + CardWords
        /\ CardBase(d) \in Int /\ CardBase(d + 1) = CardBase(d) + CardWords /\ CardWords \in Nat \ {0}
    BY <1>5, CardBases, HeapAssumption
  <1>7. /\ CardCursor(d) \in ScanTypes /\ CardCursor(d).i = d
        /\ CardCursor(d).w = CardBase(d) /\ ~CardCursor(d).new
    <2>1. CardBase(d) \in Nat
      BY <1>3, <1>6
    <2> QED BY <1>5, <2>1 DEF CardCursor, NoCur, ScanTypes
  <1>8. /\ CardBase(cur.i) <= cur.w /\ cur.w <= CardBase(cur.i + 1)
        /\ \A a \in DOMAIN obj : IsOld(a) /\ a < oldTop0 =>
                 \A i \in Slots(a) :
                    CardBase(cur.i) <= a + i /\ a + i < cur.w /\ IsNew(obj[a].f[i]) => cur.new
    BY <1>1 DEF WindowOK
  <1>9. CardEnd = CardBase(cur.i + 1)
    BY DEF CardEnd
  <1> QED BY <1>1, <1>2, <1>3, <1>4, <1>5, <1>6, <1>7, <1>8, <1>9

LEMMA SkipCleanCardKeeps == ASSUME IInv, SkipCleanCard PROVE IInv'
  <1>1. /\ pc = "cards" /\ pc' = "cards" /\ cur.i \notin dirty /\ cur' = CardCursor(cur.i + 1)
        /\ UNCHANGED <<obj, fwd, top, dirty, offsets, ageTable, oldTop0, stall, root, code,
                       scanFrame, from>>
    BY DEF SkipCleanCard, CardInRange, scanFrame
  <1>2. PICK c, d, b, e : c = cur.i /\ d = cur.i + 1 /\ b = CardBase(c) /\ e = CardBase(d)
    OBVIOUS
  <1>3. /\ TypeOK /\ Tiled(Extent(obj), top) /\ RememberedSet /\ BoundaryOK
        /\ c \in Nat /\ cur.w \in Nat /\ b \in Nat /\ e \in Nat /\ b <= cur.w /\ cur.w <= e
        /\ cur' \in ScanTypes /\ cur'.i = d /\ cur'.w = e /\ oldTop0 \in Nat
        /\ e <= CardBase(d + 1) /\ d = c + 1
    <2>1. cur.i + 1 + 1 = cur.i + 2
      BY <1>1, WindowFacts
    <2> QED BY <1>1, <1>2, <2>1, WindowFacts
  <1>4. ASSUME NEW a \in DOMAIN obj, IsOld(a), a < oldTop0, NEW i \in Slots(a)
        PROVE  /\ a + i < cur.w => a + i < cur'.w
               /\ a + i < cur'.w /\ ~(a + i < cur.w) => ~Vacated(obj[a].f[i])
    <2>1. a + i \in Nat /\ a + i >= Start.old
      BY <1>3, <1>4, OldSlot
    <2>2. ASSUME a + i < e, ~(a + i < cur.w), Vacated(obj[a].f[i]) PROVE FALSE
      <3>1. obj[a].f[i] \in Val
        BY <1>3, ObjFacts
      <3>2. IsNew(obj[a].f[i])
        BY <1>3, <2>2, <3>1, PlaceFacts
      <3>3. PICK w : w = a + i
        OBVIOUS
      <3>4. b <= w /\ w < e /\ w \in Int /\ w >= Start.old /\ c \in Int
        BY <1>3, <2>1, <2>2, <3>3
      <3>5. c = CardOf(w)
        BY <1>2, <1>3, <3>4, CardUnique
      <3>6. CardOf(a + i) \in dirty
        BY <1>3, <1>4, <3>2 DEF RememberedSet
      <3> QED BY <1>1, <1>2, <3>3, <3>5, <3>6
    <2> QED BY <1>3, <2>1, <2>2
  <1>5. BoundaryOK'
    BY <1>1, <1>3 DEF BoundaryOK, Size, Slots
  <1>6. RememberedSet'
    BY <1>1, <1>3 DEF RememberedSet, Slots
  <1>7. WindowOK'
    <2>1. ASSUME NEW a \in DOMAIN obj, IsOld(a), NEW i \in Slots(a), e <= a + i, a + i < e
          PROVE  FALSE
      BY <1>3, <2>1, OldSlot
    <2>2. CardBase(cur'.i) = e
      BY <1>2, <1>3
    <2> QED BY <1>1, <1>2, <1>3, <2>1, <2>2 DEF WindowOK, Slots, IsOld
  <1> QED BY <1>1, <1>3, <1>4, <1>5, <1>6, <1>7, CardStep

LEMMA SkipMarkWordKeeps == ASSUME IInv, SkipMarkWord PROVE IInv'
  <1>1. /\ pc = "cards" /\ pc' = "cards" /\ cur.w < WindowEnd /\ cur' = [cur EXCEPT !.w = @ + 1]
        /\ \A a \in DOMAIN obj : ~SlotAt(a, cur.w)
        /\ UNCHANGED <<obj, fwd, top, dirty, offsets, ageTable, oldTop0, stall, root, code,
                       scanFrame, from>>
    BY DEF SkipMarkWord, CardInRange, scanFrame
  <1>2. PICK c, b, e, w : c = cur.i /\ b = CardBase(c) /\ e = CardBase(c + 1) /\ w = cur.w
    OBVIOUS
  <1>3. /\ TypeOK /\ Tiled(Extent(obj), top) /\ RememberedSet /\ BoundaryOK
        /\ c \in Nat /\ w \in Nat /\ b \in Nat /\ e \in Nat /\ b <= w /\ w <= e
        /\ cur \in ScanTypes /\ CardEnd = e /\ oldTop0 \in Nat
        /\ \A a \in DOMAIN obj : IsOld(a) /\ a < oldTop0 =>
                 \A i \in Slots(a) : b <= a + i /\ a + i < w /\ IsNew(obj[a].f[i]) => cur.new
    BY <1>1, <1>2, WindowFacts
  <1>4. /\ cur' \in ScanTypes /\ cur'.i = c /\ cur'.w = w + 1 /\ cur'.new = cur.new
    BY <1>1, <1>2, <1>3 DEF ScanTypes
  <1>5. w + 1 <= e
    BY <1>1, <1>2, <1>3 DEF WindowEnd
  <1>6. ASSUME NEW a \in DOMAIN obj, IsOld(a), NEW i \in Slots(a)
        PROVE  a + i \in Nat /\ a + i # w
    <2>1. a + i \in Nat /\ a \in Nat /\ i \in Nat
      BY <1>3, <1>6, OldSlot
    <2>2. ~(w - a \in Slots(a))
      BY <1>1, <1>2, <1>6 DEF SlotAt
    <2> QED BY <2>1, <2>2
  <1>7. BoundaryOK'
    BY <1>1, <1>3 DEF BoundaryOK, Size, Slots
  <1>8. RememberedSet'
    BY <1>1, <1>3 DEF RememberedSet, Slots
  <1>9. WindowOK'
    <2>1. ASSUME NEW a \in DOMAIN obj, IsOld(a), a < oldTop0, NEW i \in Slots(a),
                 b <= a + i, a + i < w + 1, IsNew(obj[a].f[i])
          PROVE  cur.new
      <3>1. a + i < w
        BY <1>3, <1>6, <2>1
      <3> QED BY <1>3, <2>1, <3>1
    <2>2. b <= w + 1
      BY <1>3
    <2> QED BY <1>1, <1>2, <1>4, <1>5, <2>1, <2>2 DEF WindowOK, Slots, IsOld, IsNew
  <1>10. ASSUME NEW a \in DOMAIN obj, IsOld(a), a < oldTop0, NEW i \in Slots(a)
        PROVE  /\ a + i < cur.w => a + i < cur'.w
               /\ a + i < cur'.w /\ ~(a + i < cur.w) => ~Vacated(obj[a].f[i])
    <2>1. a + i \in Nat /\ a + i # w
      BY <1>6, <1>10
    <2> QED BY <1>2, <1>3, <1>4, <2>1
  <1> QED BY <1>1, <1>4, <1>7, <1>8, <1>9, <1>10, CardStep

LEMMA FinishCardKeeps == ASSUME IInv, FinishCard PROVE IInv'
  <1>1. /\ pc = "cards" /\ pc' = "cards" /\ ~(cur.w < WindowEnd) /\ cur' = CardCursor(cur.i + 1)
        /\ dirty' = IF MayClean THEN dirty \ {cur.i} ELSE dirty
        /\ UNCHANGED <<obj, fwd, top, offsets, ageTable, oldTop0, stall, root, code,
                       scanFrame, from>>
    <2>1. /\ pc = "cards" /\ pc' = "cards" /\ cur.w >= WindowEnd /\ cur' = CardCursor(cur.i + 1)
          /\ dirty' = IF MayClean THEN dirty \ {cur.i} ELSE dirty
          /\ UNCHANGED <<obj, fwd, top, offsets, ageTable, oldTop0, stall, root, code,
                         scanFrame, from>>
      BY DEF FinishCard, CardInRange, scanFrame
    <2>2. cur.w \in Nat /\ WindowEnd \in Nat
      BY <2>1, WindowFacts DEF WindowEnd
    <2> QED BY <2>1, <2>2
  <1>2. PICK c, d, b, e, w : /\ c = cur.i /\ d = cur.i + 1 /\ b = CardBase(c) /\ e = CardBase(d)
                             /\ w = cur.w
    OBVIOUS
  <1>3. /\ TypeOK /\ Tiled(Extent(obj), top) /\ RememberedSet /\ BoundaryOK
        /\ c \in Nat /\ w \in Nat /\ b \in Nat /\ e \in Nat /\ b <= w /\ w <= e
        /\ cur' \in ScanTypes /\ cur'.i = d /\ cur'.w = e /\ oldTop0 \in Nat
        /\ e <= CardBase(d + 1) /\ CardEnd = e /\ d = c + 1
        /\ \A a \in DOMAIN obj : IsOld(a) /\ a < oldTop0 =>
                 \A i \in Slots(a) : b <= a + i /\ a + i < w /\ IsNew(obj[a].f[i]) => cur.new
    <2>1. cur.i + 1 + 1 = cur.i + 2
      BY <1>1, WindowFacts
    <2> QED BY <1>1, <1>2, <2>1, WindowFacts
  <1>4. w = e \/ (~(e <= oldTop0) /\ oldTop0 <= w)
    BY <1>1, <1>2, <1>3 DEF WindowEnd
  <1>5. MayClean => ~cur.new /\ e <= oldTop0 /\ w = e
    BY <1>1, <1>2, <1>3, <1>4 DEF MayClean
  <1>6. dirty' \subseteq dirty /\ (dirty' # dirty => MayClean) /\ \A x \in dirty : x # c => x \in dirty'
    BY <1>1, <1>2
  <1>7. ASSUME NEW a \in DOMAIN obj, IsOld(a), a < oldTop0, NEW i \in Slots(a)
        PROVE  /\ a + i < cur.w => a + i < cur'.w
               /\ a + i < cur'.w /\ ~(a + i < cur.w) => ~Vacated(obj[a].f[i])
    <2>1. a + i \in Nat /\ a + i < oldTop0
      BY <1>3, <1>7, OldSlot
    <2> QED BY <1>2, <1>3, <1>4, <2>1
  <1>8. ASSUME NEW a \in DOMAIN obj, IsOld(a), NEW i \in Slots(a), CardOf(a + i) = c
        PROVE  b <= a + i /\ a + i < e /\ a + i \in Nat
    <2>1. PICK x : x = a + i
      OBVIOUS
    <2>2. x \in Int /\ x >= Start.old /\ c \in Int /\ x \in Nat
      BY <1>3, <1>8, <2>1, OldSlot
    <2>3. CardBase(c) <= x /\ x < CardBase(c + 1)
      BY <1>8, <2>1, <2>2, CardUnique
    <2> QED BY <1>2, <1>3, <2>1, <2>2, <2>3
  <1>9. BoundaryOK'
    <2>1. ASSUME NEW a \in DOMAIN obj, oldTop0 <= a, NEW i \in Slots(a)
          PROVE  CardOf(a + i) \in dirty'
      <3>1. CardOf(a + i) \in dirty
        BY <1>3, <2>1 DEF BoundaryOK
      <3>2. a \in Nat /\ Start.old \in Nat /\ Start.old <= oldTop0
        BY <1>3, ObjFacts, SpaceFacts
      <3>3. IsOld(a)
        BY <1>3, <2>1, <3>2 DEF IsOld
      <3>4. a + i >= oldTop0 /\ a + i \in Nat
        BY <1>3, <2>1, <3>3, OldSlot
      <3>5. MayClean => CardOf(a + i) # c
        BY <1>3, <1>5, <1>8, <3>3, <3>4
      <3> QED BY <1>6, <3>1, <3>5
    <2> QED BY <1>1, <1>3, <2>1 DEF BoundaryOK, Size, Slots
  <1>10. RememberedSet'
    <2>1. ASSUME NEW a \in DOMAIN obj, IsOld(a), NEW i \in Slots(a), IsNew(obj[a].f[i])
          PROVE  CardOf(a + i) \in dirty'
      <3>1. CardOf(a + i) \in dirty
        BY <1>3, <2>1 DEF RememberedSet
      <3>2. ASSUME MayClean, CardOf(a + i) = c PROVE FALSE
        <4>1. b <= a + i /\ a + i < e /\ a + i \in Nat
          BY <1>8, <2>1, <3>2
        <4>2. a + i < oldTop0 /\ a + i < w
          BY <1>3, <1>5, <3>2, <4>1
        <4>3. a < oldTop0
          <5>1. oldTop0 <= a => a + i >= oldTop0
            BY <1>3, <2>1, OldSlot
          <5>2. a \in Nat
            BY <1>3, ObjFacts
          <5> QED BY <1>3, <4>1, <4>2, <5>1, <5>2
        <4>4. cur.new
          BY <1>3, <2>1, <4>1, <4>2, <4>3
        <4> QED BY <1>5, <3>2, <4>4
      <3> QED BY <1>6, <3>1, <3>2
    <2> QED BY <1>1, <2>1 DEF RememberedSet, Slots, IsOld, IsNew
  <1>11. WindowOK'
    <2>1. ASSUME NEW a \in DOMAIN obj, IsOld(a), NEW i \in Slots(a), e <= a + i, a + i < e
          PROVE  FALSE
      BY <1>3, <2>1, OldSlot
    <2>2. CardBase(cur'.i) = e
      BY <1>2, <1>3
    <2> QED BY <1>1, <1>2, <1>3, <2>1, <2>2 DEF WindowOK, Slots, IsOld
  <1> QED BY <1>1, <1>3, <1>6, <1>7, <1>9, <1>10, <1>11, CardStep

LEMMA CardsDoneKeeps == ASSUME IInv, CardsDone PROVE IInv'
  <1>1. /\ pc = "cards" /\ CardBase(cur.i) >= oldTop0 /\ pc' = "code"
        /\ cur' = [NoCur EXCEPT !.i = 1]
        /\ UNCHANGED <<obj, fwd, top, dirty, offsets, ageTable, oldTop0, stall, root, code,
                       scanFrame, from>>
    BY DEF CardsDone, scanFrame
  <1>2. /\ TypeOK /\ Tiled(Extent(obj), top) /\ RememberedSet /\ SlotsOK /\ RootsOK /\ CodeOK
        /\ BoundaryOK
    BY <1>1 DEF IInv, Phases, PhaseInv
  <1>3. cur' \in ScanTypes /\ cur'.i = 1
    BY <1>1 DEF NoCur, ScanTypes
  <1>4. oldTop0 <= cur.w /\ cur.w \in Nat /\ oldTop0 \in Nat
    BY <1>1, WindowFacts
  <1>5. SlotsOK'
    <2>1. ASSUME NEW a \in DOMAIN obj, NEW i \in Slots(a)
          PROVE  /\ Scanned(a, i) <=> IsOld(a) /\ a < oldTop0 /\ a + i < cur.w
                 /\ Scanned(a, i)' <=> IsOld(a) /\ a < oldTop0
      BY <1>1 DEF Scanned, IsOld
    <2>2. ASSUME NEW a \in DOMAIN obj, NEW i \in Slots(a), IsOld(a), a < oldTop0
          PROVE  a + i < cur.w
      BY <1>2, <1>4, <2>2, OldSlot
    <2> QED BY <1>1, <1>2, <2>1, <2>2, SlotsKeep
  <1>6. RootsOK'
    <2>1. ASSUME NEW r \in 0..NRoots PROVE VisitOK(TRUE, root[r])'
      <3>1. VisitOK(TRUE, root[r])
        BY <1>1, <1>2 DEF RootsOK, VisitOK
      <3>2. PICK v : v = root[r]
        OBVIOUS
      <3> QED BY <1>1, <3>1, <3>2, VisitKeep
    <2> QED BY <1>1, <2>1 DEF RootsOK, VisitOK
  <1>7. CodeOK'
    <2>1. ASSUME NEW c \in 1..NCode PROVE VisitOK(FALSE, code[c])'
      <3>1. VisitOK(FALSE, code[c])
        BY <1>1, <1>2 DEF CodeOK, VisitOK
      <3>2. PICK v : v = code[c]
        OBVIOUS
      <3> QED BY <1>1, <3>1, <3>2, VisitKeep
    <2>2. NCode \in Nat
      BY HeapAssumption
    <2>3. \A c \in 1..NCode : c >= cur'.i
      BY <1>3, <2>2
    <2> QED BY <1>1, <2>1, <2>3 DEF CodeOK, VisitOK
  <1>8. BoundaryOK'
    BY <1>1, <1>2 DEF BoundaryOK, Size, Slots
  <1>9. WindowOK' /\ FrontsOK'
    BY <1>1 DEF WindowOK, FrontsOK
  <1>10. RememberedSet'
    BY <1>1, <1>2 DEF RememberedSet, Slots
  <1> QED BY <1>1, <1>3, <1>5, <1>6, <1>7, <1>8, <1>9, <1>10, ScanFrameKeeps DEF Phases

LEMMA CodeDoneKeeps == ASSUME IInv, CodeDone PROVE IInv'
  <1>1. /\ pc = "code" /\ cur.i > NCode /\ pc' = (IF stall THEN "stalled" ELSE "cheney")
        /\ cur' = [NoCur EXCEPT !.to = Start[to], !.old = oldTop0]
        /\ UNCHANGED <<obj, fwd, top, dirty, offsets, ageTable, oldTop0, stall, root, code,
                       scanFrame, from>>
    BY DEF CodeDone, scanFrame
  <1>2. /\ TypeOK /\ Tiled(Extent(obj), top) /\ RememberedSet /\ SlotsOK /\ RootsOK /\ CodeOK
        /\ BoundaryOK
    BY <1>1 DEF IInv, Phases, PhaseInv
  <1>3. Start[to] \in Nat /\ oldTop0 \in Nat /\ Start[to] <= top[to] /\ to' = to
    BY <1>1, <1>2, SpaceFacts DEF to
  <1>4. cur' \in ScanTypes /\ cur'.w = 0 /\ cur'.to = Start[to] /\ cur'.old = oldTop0
    BY <1>1, <1>3 DEF NoCur, ScanTypes
  <1>5. pc' \in Phases => pc' = "cheney" /\ ~stall
    BY <1>1 DEF Phases
  <1>6. ASSUME NEW a \in DOMAIN obj
        PROVE  ~(In(a, to) /\ a < Start[to]) /\ ~(oldTop0 <= a /\ a < oldTop0)
    <2>1. a \in Nat
      BY <1>2, ObjFacts
    <2> QED BY <1>3, <2>1 DEF In
  <1>7. ASSUME pc' = "cheney" PROVE SlotsOK'
    <2>1. ASSUME NEW a \in DOMAIN obj, NEW i \in Slots(a)
          PROVE  /\ Scanned(a, i) <=> IsOld(a) /\ a < oldTop0
                 /\ Scanned(a, i)' <=> IsOld(a) /\ a < oldTop0
      <3>1. In(a, to)' = In(a, to)
        BY <1>1, <1>3 DEF In
      <3> QED BY <1>1, <1>4, <1>6, <1>7, <3>1 DEF Scanned, IsOld
    <2> QED BY <1>1, <1>2, <2>1, SlotsKeep
  <1>8. ASSUME pc' = "cheney" PROVE RootsOK' /\ CodeOK'
    <2>1. ASSUME NEW r \in 0..NRoots PROVE VisitOK(TRUE, root[r])'
      <3>1. VisitOK(TRUE, root[r])
        BY <1>1, <1>2 DEF RootsOK, VisitOK
      <3>2. PICK v : v = root[r]
        OBVIOUS
      <3> QED BY <1>1, <3>1, <3>2, VisitKeep
    <2>2. ASSUME NEW c \in 1..NCode PROVE VisitOK(TRUE, code[c])'
      <3>0. NCode \in Nat /\ cur.i \in Nat
        BY <1>2, HeapAssumption DEF TypeOK
      <3>1. ~(c >= cur.i)
        BY <1>1, <3>0
      <3>2. VisitOK(TRUE, code[c])
        BY <1>1, <1>2, <3>1 DEF CodeOK, VisitOK
      <3>3. PICK v : v = code[c]
        OBVIOUS
      <3> QED BY <1>1, <3>2, <3>3, VisitKeep
    <2> QED BY <1>1, <1>8, <2>1, <2>2 DEF RootsOK, CodeOK, VisitOK
  <1>9. BoundaryOK' /\ RememberedSet'
    BY <1>1, <1>2 DEF BoundaryOK, RememberedSet, Size, Slots
  <1>10. ASSUME pc' = "cheney" PROVE WindowOK' /\ FrontsOK'
    <2>1. WindowOK'
      BY <1>10 DEF WindowOK
    <2>2. oldTop0 <= top.old /\ oldTop0 <= oldTop0 /\ Start[to] <= Start[to]
      BY <1>2, <1>3 DEF BoundaryOK
    <2>3. \A a \in DOMAIN obj : In(a, to)' = In(a, to)
      BY <1>1, <1>3 DEF In
    <2>4. ~stall'
      BY <1>1, <1>5, <1>10 DEF Phases
    <2> QED BY <1>1, <1>3, <1>4, <1>6, <2>1, <2>2, <2>3, <2>4 DEF FrontsOK
  <1>11. pc' \in Phases \cup {"stalled"}
    BY <1>1 DEF Phases
  <1> QED BY <1>1, <1>4, <1>5, <1>7, <1>8, <1>9, <1>10, <1>11, ScanFrameKeeps DEF Phases

LEMMA ObjApart ==
    ASSUME Tiled(Extent(obj), top), NEW a \in DOMAIN obj, NEW b \in DOMAIN obj, a < b
    PROVE  a + Size(a) <= b
  <1>1. PICK sz : sz = Extent(obj)
    OBVIOUS
  <1>2. Apart(sz) /\ a \in DOMAIN sz /\ b \in DOMAIN sz /\ sz[a] = Size(a)
    BY <1>1 DEF Tiled, Extent, Size
  <1> QED BY <1>2 DEF Apart

(* A word that no object below it reaches is a header. *)
LEMMA HeaderAt ==
    ASSUME TypeOK, Tiled(Extent(obj), top), NEW s \in Spaces, NEW w \in Nat,
           Start[s] <= w, w < top[s],
           \A a \in DOMAIN obj : In(a, s) /\ a < w => a + Size(a) <= w
    PROVE  w \in DOMAIN obj /\ In(w, s)
  <1>1. PICK sz, tp : sz = Extent(obj) /\ tp = top
    OBVIOUS
  <1>2. top[s] \in Nat /\ Start[s] \in Nat /\ End[s] \in Nat /\ top[s] <= End[s]
    BY SpaceFacts
  <1>3. PICK a \in DOMAIN sz : a <= w /\ w < a + sz[a]
    <2>1. Covered(sz, tp) /\ w \in Start[s]..tp[s] - 1
      BY <1>1, <1>2 DEF Tiled
    <2> QED BY <2>1 DEF Covered
  <1>4. a \in DOMAIN obj /\ sz[a] = Size(a) /\ a \in Nat /\ Size(a) \in Nat
    <2>1. a \in DOMAIN obj
      BY <1>1 DEF Extent
    <2> QED BY <1>1, <2>1, ObjFacts
  <1>5. PICK t \in Spaces : In(a, t) /\ a + Size(a) <= top[t]
    BY <1>4, ObjFacts
  <1>6. t = s
    <2>1. /\ top[t] \in Nat /\ Start[t] \in Nat /\ End[t] \in Nat /\ top[t] <= End[t]
          /\ Start[t] <= a
      BY <1>5, SpaceFacts DEF In
    <2>2. t # s => End[t] <= Start[s] \/ End[s] <= Start[t]
      BY Layout
    <2> QED BY <1>2, <1>3, <1>4, <1>5, <2>1, <2>2
  <1>7. ~(a < w)
    BY <1>3, <1>4, <1>5, <1>6
  <1>8. a = w
    BY <1>3, <1>4, <1>7
  <1> QED BY <1>4, <1>5, <1>6, <1>8

LEMMA ScanRootsKeep ==
    ASSUME pc = "cheney", pc' = "cheney", RootsOK, CodeOK,
           UNCHANGED <<root, code, top, from, stall>>
    PROVE  RootsOK' /\ CodeOK'
  <1>1. ASSUME NEW r \in 0..NRoots PROVE VisitOK(TRUE, root[r])'
    <2>1. VisitOK(TRUE, root[r])
      BY DEF RootsOK, VisitOK
    <2>2. PICK v : v = root[r]
      OBVIOUS
    <2> QED BY <2>1, <2>2, VisitKeep
  <1>2. ASSUME NEW c \in 1..NCode PROVE VisitOK(TRUE, code[c])'
    <2>1. VisitOK(TRUE, code[c])
      BY DEF CodeOK, VisitOK
    <2>2. PICK v : v = code[c]
      OBVIOUS
    <2> QED BY <2>1, <2>2, VisitKeep
  <1> QED BY <1>1, <1>2 DEF RootsOK, CodeOK, VisitOK

(* Where the Cheney scan stands. *)
Behind(a) == (In(a, to) /\ a < cur.to) \/ (oldTop0 <= a /\ a < cur.old)

LEMMA CheneyFacts ==
    ASSUME IInv, pc = "cheney"
    PROVE  /\ TypeOK /\ Tiled(Extent(obj), top) /\ RememberedSet /\ SlotsOK /\ RootsOK /\ CodeOK
           /\ BoundaryOK /\ cur \in ScanTypes
           /\ cur.i \in Nat /\ cur.w \in Nat /\ cur.to \in Nat /\ cur.old \in Nat
           /\ Start[to] <= cur.to /\ cur.to <= top[to] /\ oldTop0 <= cur.old /\ cur.old <= top.old
           /\ \A a \in DOMAIN obj :
                 /\ In(a, to) /\ a < cur.to => a + Size(a) <= cur.to
                 /\ oldTop0 <= a /\ a < cur.old => a + Size(a) <= cur.old
                 /\ a < oldTop0 => a + Size(a) <= oldTop0
           /\ cur.w # 0 => cur.w \in DOMAIN obj /\ cur.i >= 1 /\ Behind(cur.w)
           /\ stall => cur.w # 0
           /\ \A a \in DOMAIN obj : \A i \in Slots(a) :
                 Scanned(a, i) <=> \/ IsOld(a) /\ a < oldTop0
                                   \/ Behind(a) /\ (a = cur.w => i < cur.i)
  <1>1. /\ TypeOK /\ Tiled(Extent(obj), top) /\ RememberedSet /\ SlotsOK /\ RootsOK /\ CodeOK
        /\ BoundaryOK /\ FrontsOK
    BY DEF IInv, Phases, PhaseInv
  <1>2. cur \in ScanTypes /\ cur.i \in Nat /\ cur.w \in Nat /\ cur.to \in Nat /\ cur.old \in Nat
    BY <1>1 DEF TypeOK, ScanTypes
  <1> QED BY <1>1, <1>2 DEF FrontsOK, BoundaryOK, Scanned, Behind

LEMMA PickKeeps ==
    ASSUME IInv, pc = "cheney", pc' = "cheney", cur.w = 0, cur' \in ScanTypes, cur'.i = 1,
           NEW w \in DOMAIN obj, cur'.w = w,
           \/ /\ w = cur.to /\ In(w, to) /\ cur'.to = w + Size(w) /\ cur'.old = cur.old
           \/ /\ w = cur.old /\ In(w, "old") /\ cur'.old = w + Size(w) /\ cur'.to = cur.to,
           UNCHANGED <<obj, fwd, top, dirty, offsets, ageTable, oldTop0, stall, root, code,
                       scanFrame, from>>
    PROVE  IInv'
  <1>1. /\ TypeOK /\ Tiled(Extent(obj), top) /\ RememberedSet /\ SlotsOK /\ RootsOK /\ CodeOK
        /\ BoundaryOK
        /\ cur.to \in Nat /\ cur.old \in Nat
        /\ Start[to] <= cur.to /\ cur.to <= top[to] /\ oldTop0 <= cur.old /\ cur.old <= top.old
        /\ \A a \in DOMAIN obj :
                 /\ In(a, to) /\ a < cur.to => a + Size(a) <= cur.to
                 /\ oldTop0 <= a /\ a < cur.old => a + Size(a) <= cur.old
                 /\ a < oldTop0 => a + Size(a) <= oldTop0
        /\ \A a \in DOMAIN obj : \A i \in Slots(a) :
                 Scanned(a, i) <=> \/ IsOld(a) /\ a < oldTop0
                                   \/ Behind(a) /\ (a = cur.w => i < cur.i)
    BY CheneyFacts
  <1>2. /\ w \in Nat \ {0} /\ Size(w) \in Nat \ {0} /\ w \in Val
        /\ In(w, to) => w + Size(w) <= top[to] /\ w < oldTop0
        /\ In(w, "old") => w + Size(w) <= top.old /\ ~In(w, to)
    <2>1. w \in Nat \ {0} /\ Size(w) \in Nat \ {0} /\ w \in Val
      BY <1>1, ObjFacts, ObjPlace
    <2>2. "old" \in Spaces /\ to \in Spaces /\ to # "old"
      BY <1>1, SpaceFacts
    <2>3. In(w, to) => w + Size(w) <= top[to] /\ w < oldTop0
      BY <1>1, <2>1, <2>2, ObjFacts, PlaceFacts
    <2>4. In(w, "old") => w + Size(w) <= top.old /\ ~In(w, to)
      BY <1>1, <2>2, ObjFacts
    <2> QED BY <2>1, <2>3, <2>4
  <1>3. oldTop0 \in Nat /\ Start[to] \in Nat /\ top[to] \in Nat /\ top.old \in Nat /\ to' = to
    BY <1>1, SpaceFacts DEF to
  <1>4. ASSUME NEW a \in DOMAIN obj
        PROVE  /\ a \in Nat \ {0} /\ In(a, to)' = In(a, to) /\ Size(a) \in Nat \ {0}
               /\ a < w => a + Size(a) <= w
               /\ w < a => w + Size(w) <= a
               /\ In(a, to) => a < oldTop0
    <2>1. a \in Nat \ {0} /\ Size(a) \in Nat \ {0} /\ a \in Val
      BY <1>1, ObjFacts, ObjPlace
    <2>2. In(a, to)' = In(a, to)
      BY <1>3 DEF In
    <2>3. (a < w => a + Size(a) <= w) /\ (w < a => w + Size(w) <= a)
      BY <1>1, ObjApart
    <2>4. In(a, to) => a < oldTop0
      BY <1>1, <2>1, PlaceFacts, SpaceFacts
    <2> QED BY <2>1, <2>2, <2>3, <2>4
  <1>5. ASSUME NEW a \in DOMAIN obj
        PROVE  /\ a # w => (Behind(a)' <=> Behind(a))
               /\ ~Behind(w) /\ Behind(w)'
               /\ ~(IsOld(w) /\ w < oldTop0)
    <2>1. CASE w = cur.to /\ In(w, to) /\ cur'.to = w + Size(w) /\ cur'.old = cur.old
      <3>1. a # w /\ In(a, to) => (a < w + Size(w) <=> a < cur.to)
        BY <1>2, <1>4, <2>1
      <3>2. ~IsOld(w)
        BY <1>1, <1>2, <2>1, PlaceFacts, SpaceFacts
      <3>3. ~Behind(w)
        BY <1>1, <1>2, <1>3, <2>1 DEF Behind
      <3>4. Behind(w)'
        BY <1>2, <1>4, <2>1 DEF Behind
      <3>5. a # w => (Behind(a)' <=> Behind(a))
        BY <1>4, <2>1, <3>1 DEF Behind
      <3> QED BY <3>2, <3>3, <3>4, <3>5
    <2>2. CASE w = cur.old /\ In(w, "old") /\ cur'.old = w + Size(w) /\ cur'.to = cur.to
      <3>1. a # w => (a < w + Size(w) <=> a < cur.old)
        BY <1>2, <1>4, <2>2
      <3>2. ~(w < oldTop0)
        BY <1>1, <1>2, <1>3, <2>2
      <3>3. ~Behind(w)
        BY <1>1, <1>2, <2>2 DEF Behind
      <3>4. Behind(w)'
        BY <1>1, <1>2, <1>4, <2>2 DEF Behind
      <3>5. a # w => (Behind(a)' <=> Behind(a))
        BY <1>4, <2>2, <3>1 DEF Behind
      <3> QED BY <3>2, <3>3, <3>4, <3>5
    <2> QED BY <2>1, <2>2
  <1>6. SlotsOK'
    <2>1. ASSUME NEW a \in DOMAIN obj, NEW i \in Slots(a)
          PROVE  Scanned(a, i)' <=> Scanned(a, i)
      <3>1. Scanned(a, i)' <=> \/ IsOld(a) /\ a < oldTop0
                               \/ Behind(a)' /\ (a = w => i < 1)
        BY DEF Scanned, Behind, IsOld
      <3>2. i \in Nat \ {0}
        <4>1. Slots(a) = 1..Len(obj[a].f) /\ Len(obj[a].f) \in Nat
          BY <1>1, ObjFacts
        <4> QED BY <4>1
      <3>3. a # cur.w
        BY <1>4
      <3>4. ~(i < 1)
        BY <3>2
      <3> QED BY <1>1, <1>5, <3>1, <3>3, <3>4
    <2> QED BY <1>1, <2>1, SlotsKeep
  <1>7. FrontsOK'
    <2>1. cur'.to \in Nat /\ Start[to] <= cur'.to /\ cur'.to <= top[to]
      BY <1>1, <1>2, <1>3
    <2>2. oldTop0 <= cur'.old /\ cur'.old <= top.old
      BY <1>1, <1>2, <1>3
    <2>3. ASSUME NEW a \in DOMAIN obj
          PROVE  /\ In(a, to) /\ a < cur'.to => a + Size(a) <= cur'.to
                 /\ oldTop0 <= a /\ a < cur'.old => a + Size(a) <= cur'.old
      <3>1. CASE w = cur.to /\ In(w, to) /\ cur'.to = w + Size(w) /\ cur'.old = cur.old
        <4>1. In(a, to) /\ a < cur'.to => a + Size(a) <= cur'.to
          BY <1>1, <1>2, <1>4, <3>1
        <4> QED BY <1>1, <3>1, <4>1
      <3>2. CASE w = cur.old /\ In(w, "old") /\ cur'.old = w + Size(w) /\ cur'.to = cur.to
        <4>1. oldTop0 <= a /\ a < cur'.old => a + Size(a) <= cur'.old
          BY <1>1, <1>2, <1>4, <3>2
        <4> QED BY <1>1, <3>2, <4>1
      <3> QED BY <3>1, <3>2
    <2>4. Behind(w)'
      BY <1>5
    <2>5. w # 0
      BY <1>2
    <2> QED BY <1>3, <1>4, <2>1, <2>2, <2>3, <2>4, <2>5 DEF FrontsOK, Behind, Size
  <1>8. BoundaryOK' /\ RememberedSet' /\ WindowOK'
    BY <1>1 DEF BoundaryOK, RememberedSet, WindowOK, Size, Slots
  <1>9. RootsOK' /\ CodeOK'
    BY <1>1, ScanRootsKeep
  <1> QED BY <1>6, <1>7, <1>8, <1>9, ScanFrameKeeps DEF Phases

LEMMA PickObjectKeeps == ASSUME IInv, PickObject PROVE IInv'
  <1>1. /\ pc = "cheney" /\ cur.w = 0 /\ pc' = "cheney"
        /\ UNCHANGED <<obj, fwd, top, dirty, offsets, ageTable, oldTop0, stall, root, code,
                       scanFrame, from>>
    BY DEF PickObject, scanFrame
  <1>2. /\ TypeOK /\ Tiled(Extent(obj), top) /\ cur \in ScanTypes
        /\ cur.to \in Nat /\ cur.old \in Nat
        /\ Start[to] <= cur.to /\ cur.to <= top[to] /\ oldTop0 <= cur.old /\ cur.old <= top.old
        /\ \A a \in DOMAIN obj :
                 /\ In(a, to) /\ a < cur.to => a + Size(a) <= cur.to
                 /\ oldTop0 <= a /\ a < cur.old => a + Size(a) <= cur.old
                 /\ a < oldTop0 => a + Size(a) <= oldTop0
    BY <1>1, CheneyFacts
  <1>3. /\ to \in Spaces /\ "old" \in Spaces /\ oldTop0 \in Nat /\ Start.old \in Nat
        /\ Start.old <= oldTop0
    BY <1>2, SpaceFacts
  <1>4. CASE cur.to < top[to] /\ cur' = [cur EXCEPT !.w = cur.to, !.i = 1, !.to = @ + Size(@)]
    <2>1. PICK w : w = cur.to
      OBVIOUS
    <2>2. w \in DOMAIN obj /\ In(w, to)
      BY <1>2, <1>3, <1>4, <2>1, HeaderAt
    <2>3. Size(w) \in Nat /\ w \in Nat
      BY <1>2, <2>2, ObjFacts
    <2>4. /\ cur' \in ScanTypes /\ cur'.i = 1 /\ cur'.w = w /\ cur'.to = w + Size(w)
          /\ cur'.old = cur.old
      <3>1. PICK e, c : e = w + Size(w) /\ c = cur
        OBVIOUS
      <3>2. cur' = [c EXCEPT !.w = w, !.i = 1, !.to = e]
        BY <1>4, <2>1, <3>1
      <3>3. e \in Nat /\ c \in ScanTypes
        BY <1>2, <2>3, <3>1
      <3> QED BY <2>3, <3>1, <3>2, <3>3 DEF ScanTypes
    <2> QED BY <1>1, <2>1, <2>2, <2>4, PickKeeps
  <1>5. CASE cur.old < top.old /\ cur' = [cur EXCEPT !.w = cur.old, !.i = 1, !.old = @ + Size(@)]
    <2>1. PICK w : w = cur.old
      OBVIOUS
    <2>2. \A a \in DOMAIN obj : In(a, "old") /\ a < w => a + Size(a) <= w
      <3> SUFFICES ASSUME NEW a \in DOMAIN obj, a < w PROVE a + Size(a) <= w
        OBVIOUS
      <3>1. a \in Nat /\ Size(a) \in Nat
        BY <1>2, ObjFacts
      <3> QED BY <1>2, <1>3, <2>1, <3>1
    <2>3. Start["old"] <= w /\ w < top["old"] /\ w \in Nat
      BY <1>2, <1>3, <1>5, <2>1
    <2>4. w \in DOMAIN obj /\ In(w, "old")
      BY <1>2, <1>3, <2>2, <2>3, HeaderAt
    <2>5. Size(w) \in Nat /\ w \in Nat
      BY <1>2, <2>4, ObjFacts
    <2>6. /\ cur' \in ScanTypes /\ cur'.i = 1 /\ cur'.w = w /\ cur'.old = w + Size(w)
          /\ cur'.to = cur.to
      <3>1. PICK e, c : e = w + Size(w) /\ c = cur
        OBVIOUS
      <3>2. cur' = [c EXCEPT !.w = w, !.i = 1, !.old = e]
        BY <1>5, <2>1, <3>1
      <3>3. e \in Nat /\ c \in ScanTypes
        BY <1>2, <2>5, <3>1
      <3> QED BY <2>5, <3>1, <3>2, <3>3 DEF ScanTypes
    <2> QED BY <1>1, <2>1, <2>4, <2>6, PickKeeps
  <1> QED BY <1>4, <1>5 DEF PickObject

LEMMA ObjectDoneKeeps == ASSUME IInv, ObjectDone PROVE IInv'
  <1>1. /\ pc = "cheney" /\ cur.w # 0 /\ cur.i \notin Slots(cur.w)
        /\ pc' = (IF stall THEN "stalled" ELSE "cheney")
        /\ cur' = [cur EXCEPT !.w = 0]
        /\ UNCHANGED <<obj, fwd, top, dirty, offsets, ageTable, oldTop0, stall, root, code,
                       scanFrame, from>>
    BY DEF ObjectDone, scanFrame
  <1>2. /\ TypeOK /\ Tiled(Extent(obj), top) /\ RememberedSet /\ SlotsOK /\ RootsOK /\ CodeOK
        /\ BoundaryOK /\ cur \in ScanTypes /\ cur.i \in Nat
        /\ Start[to] <= cur.to /\ cur.to <= top[to] /\ oldTop0 <= cur.old /\ cur.old <= top.old
        /\ \A a \in DOMAIN obj :
                 /\ In(a, to) /\ a < cur.to => a + Size(a) <= cur.to
                 /\ oldTop0 <= a /\ a < cur.old => a + Size(a) <= cur.old
        /\ cur.w \in DOMAIN obj /\ cur.i >= 1
        /\ \A a \in DOMAIN obj : \A i \in Slots(a) :
                 Scanned(a, i) <=> \/ IsOld(a) /\ a < oldTop0
                                   \/ Behind(a) /\ (a = cur.w => i < cur.i)
    BY <1>1, CheneyFacts
  <1>3. /\ cur' \in ScanTypes /\ cur'.w = 0 /\ cur'.i = cur.i /\ cur'.to = cur.to
        /\ cur'.old = cur.old /\ to' = to
    BY <1>1, <1>2 DEF ScanTypes, to
  <1>4. ASSUME NEW a \in DOMAIN obj PROVE a # 0 /\ In(a, to)' = In(a, to)
    <2>1. a \in Nat \ {0}
      BY <1>2, ObjFacts
    <2> QED BY <1>1, <1>3, <2>1 DEF In
  <1>5. ASSUME pc' = "cheney" PROVE SlotsOK'
    <2>1. ASSUME NEW a \in DOMAIN obj, NEW i \in Slots(a)
          PROVE  Scanned(a, i)' <=> Scanned(a, i)
      <3>1. Scanned(a, i)' <=> (IsOld(a) /\ a < oldTop0) \/ Behind(a)
        BY <1>1, <1>3, <1>4, <1>5 DEF Scanned, Behind, IsOld
      <3>2. a = cur.w => i < cur.i
        <4> SUFFICES ASSUME a = cur.w PROVE i < cur.i
          OBVIOUS
        <4>1. Slots(a) = 1..Len(obj[a].f) /\ Len(obj[a].f) \in Nat
          BY <1>2, ObjFacts
        <4> QED BY <1>1, <1>2, <4>1
      <3> QED BY <1>2, <3>1, <3>2
    <2> QED BY <1>1, <1>2, <2>1, SlotsKeep
  <1>6. ASSUME pc' = "cheney" PROVE FrontsOK'
    <2>1. ~stall'
      BY <1>1, <1>6
    <2> QED BY <1>1, <1>2, <1>3, <1>4, <2>1 DEF FrontsOK, Size
  <1>7. BoundaryOK' /\ RememberedSet'
    BY <1>1, <1>2 DEF BoundaryOK, RememberedSet, Size, Slots
  <1>8. ASSUME pc' = "cheney" PROVE WindowOK' /\ RootsOK' /\ CodeOK'
    BY <1>1, <1>2, <1>8, ScanRootsKeep DEF WindowOK
  <1>9. pc' \in Phases => pc' = "cheney"
    BY <1>1 DEF Phases
  <1>10. pc' \in Phases \cup {"stalled"}
    BY <1>1 DEF Phases
  <1> QED BY <1>1, <1>3, <1>5, <1>6, <1>7, <1>8, <1>9, <1>10, ScanFrameKeeps DEF Phases

-----------------------------------------------------------------------------
(***************************************************************************)
(* The scavenge: its first and its last step                               *)
(***************************************************************************)

(* The words to copy are words of eden and of the survivor space `from`. *)
LEMMA UncopiedBound ==
    ASSUME TypeOK, Tiled(Extent(obj), top)
    PROVE  /\ IsFiniteSet(Uncopied) /\ Cardinality(Uncopied) \in Nat
           /\ Cardinality(Uncopied) <= WorstCase
  <1>1. PICK A, B : A = Start.eden..top.eden - 1 /\ B = Start[from]..top[from] - 1
    OBVIOUS
  <1>2. /\ top.eden \in Nat /\ Start.eden \in Nat /\ Start.eden <= top.eden
        /\ top[from] \in Nat /\ Start[from] \in Nat /\ Start[from] <= top[from]
        /\ from \in Spaces /\ "eden" \in Spaces
    BY SpaceFacts
  <1>3. /\ IsFiniteSet(A) /\ Cardinality(A) = top.eden - Start.eden
        /\ IsFiniteSet(B) /\ Cardinality(B) = top[from] - Start[from]
    <2>1. ASSUME NEW lo \in Nat, NEW hi \in Nat, lo <= hi
          PROVE  IsFiniteSet(lo..hi - 1) /\ Cardinality(lo..hi - 1) = hi - lo
      <3>1. PICK m : m = hi - 1
        OBVIOUS
      <3>2. m \in Int /\ lo \in Int
        BY <3>1
      <3>3. IsFiniteSet(lo..m) /\ Cardinality(lo..m) = IF lo > m THEN 0 ELSE m - lo + 1
        BY <3>2, FS_Interval
      <3> QED BY <2>1, <3>1, <3>2, <3>3
    <2> QED BY <1>1, <1>2, <2>1
  <1>4. /\ IsFiniteSet(A \cup B) /\ Cardinality(A \cup B) <= Cardinality(A) + Cardinality(B)
    <2>1. IsFiniteSet(A \cap B) /\ Cardinality(A \cap B) \in Nat
      <3>1. A \cap B \in SUBSET A
        OBVIOUS
      <3> QED BY <1>3, <3>1, FS_Subset, FS_CardinalityType
    <2>2. /\ IsFiniteSet(A \cup B)
          /\ Cardinality(A \cup B) = Cardinality(A) + Cardinality(B) - Cardinality(A \cap B)
      BY <1>3, FS_Union
    <2>3. Cardinality(A) \in Nat /\ Cardinality(B) \in Nat
      BY <1>3, FS_CardinalityType
    <2> QED BY <2>1, <2>2, <2>3
  <1>5. Uncopied \in SUBSET (A \cup B)
    <2> SUFFICES ASSUME NEW w \in Addr, NEW a \in DOMAIN obj, Vacated(a), a <= w, w < a + Size(a)
                 PROVE  w \in A \cup B
      BY DEF Uncopied
    <2>1. a \in Nat /\ Size(a) \in Nat /\ w \in Nat
      BY ObjFacts DEF Addr
    <2>2. CASE In(a, "eden")
      <3>1. a + Size(a) <= top.eden /\ Start.eden <= a
        BY <1>2, <2>2, ObjFacts DEF In
      <3> QED BY <1>1, <1>2, <2>1, <3>1
    <2>3. CASE In(a, from)
      <3>1. a + Size(a) <= top[from] /\ Start[from] <= a
        BY <1>2, <2>3, ObjFacts DEF In
      <3> QED BY <1>1, <1>2, <2>1, <3>1
    <2> QED BY <2>2, <2>3 DEF Vacated
  <1>6. IsFiniteSet(Uncopied) /\ Cardinality(Uncopied) <= Cardinality(A \cup B)
    BY <1>4, <1>5, FS_Subset
  <1>7. Cardinality(Uncopied) \in Nat /\ Cardinality(A \cup B) \in Nat
    BY <1>4, <1>6, FS_CardinalityType
  <1> QED BY <1>2, <1>3, <1>4, <1>6, <1>7 DEF WorstCase

LEMMA StartScavengeKeeps == ASSUME IInv, StartScavenge PROVE IInv'
  <1>1. /\ pc = "scavenge" /\ ageTable' = EmptyAges /\ oldTop0' = top.old /\ cur' = NoCur
        /\ top' = [top EXCEPT ![to] = Start[to]] /\ pc' = "roots"
        /\ UNCHANGED <<obj, fwd, dirty, offsets, stall, root, code>>
        /\ UNCHANGED <<from, committed, threshold, met, ret, worst, req>>
    BY DEF StartScavenge, scanFrame
  <1>2. /\ TypeOK /\ AreFunctions /\ Tiled(Extent(obj), top) /\ RefsValid /\ RememberedSet
        /\ GuaranteeHolds /\ RoomOK /\ top[to] = Start[to] /\ DOMAIN fwd = {} /\ ~stall
    BY <1>1 DEF IInv, Phases, Quiet
  <1>3. to \in Spaces /\ to' = to /\ top.old \in Nat /\ Start.old <= top.old /\ Start.old \in Nat
        /\ Start[to] \in Nat
    BY <1>1, <1>2, SpaceFacts DEF to
  <1>4. top' = top
    <2>1. top = [s \in Spaces |-> top[s]]
      BY <1>2 DEF TypeOK
    <2> QED BY <1>1, <1>2, <2>1
  <1>5. ASSUME NEW v \in Val PROVE ~In(v, to)
    <2>1. v \in Nat
      BY DEF Val, Addr
    <2> QED BY <1>2, <1>3, <2>1 DEF In
  <1>6. TypeOK'
    <2>1. ageTable' \in [0..AgeMax -> Nat]
      BY <1>1 DEF EmptyAges
    <2>2. oldTop0' \in Start.old..End.old
      <3>1. top.old <= End.old /\ End.old \in Nat
        BY <1>2, SpaceFacts
      <3> QED BY <1>1, <1>3, <3>1
    <2>3. cur' \in ScanTypes
      BY <1>1 DEF NoCur, ScanTypes
    <2> QED BY <1>1, <1>2, <1>4, <2>1, <2>2, <2>3 DEF TypeOK, ScanTypes, Phases, Object
  <1>7. AreFunctions' /\ Tiled(Extent(obj), top)'
    BY <1>1, <1>2, <1>4 DEF AreFunctions
  <1>8. RefsValid' /\ RememberedSet'
    BY <1>1, <1>2 DEF RefsValid, RememberedSet, Slots, Roots
  <1>9. NoDoubleVisit' /\ GuaranteeHolds'
    BY <1>1, <1>2 DEF NoDoubleVisit, GuaranteeHolds
  <1>10. \A v : In(v, to)' <=> In(v, to)
    BY <1>3, <1>4 DEF In
  <1>11. SlotsOK'
    <2>1. ASSUME NEW a \in DOMAIN obj, NEW i \in Slots(a)
          PROVE  ~Scanned(a, i)' /\ ~In(obj[a].f[i], to)
      <3>1. obj[a].f[i] \in Val
        BY <1>2, ObjFacts
      <3>2. ~Scanned(a, i)'
        BY <1>1 DEF Scanned
      <3> QED BY <1>5, <3>1, <3>2
    <2> QED BY <1>1, <1>10, <2>1 DEF SlotsOK, Slots, VisitOK
  <1>12. RootsOK'
    <2>1. ASSUME NEW r \in 0..NRoots PROVE root[r] \in Val /\ r >= cur'.i
      <3>1. cur'.i = 0 /\ NRoots \in Nat
        BY <1>1, HeapAssumption DEF NoCur
      <3>2. root[r] \in Val
        BY <1>2 DEF TypeOK
      <3> QED BY <3>1, <3>2
    <2> QED BY <1>1, <1>5, <1>10, <2>1 DEF RootsOK, VisitOK
  <1>13. CodeOK'
    <2>1. ASSUME NEW c \in 1..NCode PROVE code[c] \in Val
      BY <1>2 DEF TypeOK
    <2> QED BY <1>1, <1>5, <1>10, <2>1 DEF CodeOK, VisitOK
  <1>14. BoundaryOK'
    <2>1. ASSUME NEW a \in DOMAIN obj PROVE a + Size(a) <= top.old /\ a < top.old
      <3>1. PICK s \in Spaces : In(a, s) /\ a + Size(a) <= top[s]
        BY <1>2, ObjFacts
      <3>2. a \in Nat /\ Size(a) \in Nat \ {0}
        BY <1>2, ObjFacts
      <3>3. /\ top[s] \in Nat /\ top[s] <= End[s] /\ End[s] \in Nat
            /\ s # "old" => End[s] <= Start.old
        BY <1>2, SpaceFacts
      <3> QED BY <1>3, <3>1, <3>2, <3>3
    <2>2. ASSUME NEW a \in DOMAIN obj PROVE ~(top.old <= a)
      <3>1. a \in Nat
        BY <1>2, ObjFacts
      <3> QED BY <1>3, <2>1, <3>1
    <2> QED BY <1>1, <1>3, <1>4, <2>1, <2>2 DEF BoundaryOK, Size, Slots
  <1>15. WindowOK' /\ FrontsOK' /\ FwdOK'
    BY <1>1, <1>2 DEF WindowOK, FrontsOK, FwdOK
  <1>16. RoomOK'
    <2>1. Uncopied' = Uncopied /\ OldFree' = OldFree
      BY <1>1, <1>4 DEF Uncopied, Vacated, In, Size, OldFree
    <2>2. Cardinality(Uncopied) \in Nat /\ Cardinality(Uncopied) <= WorstCase /\ WorstCase \in Nat
      BY <1>2, UncopiedBound, Growth
    <2>3. OldFree \in Int
      BY <1>2, SpaceFacts DEF OldFree
    <2>4. ret # "mutator" /\ met => WorstCase <= OldFree
      BY <1>1, <1>2 DEF RoomOK
    <2>5. ret # "mutator" /\ met => Cardinality(Uncopied) <= OldFree
      BY <2>2, <2>3, <2>4
    <2> QED BY <1>1, <2>1, <2>5 DEF RoomOK
  <1> QED BY <1>1, <1>6, <1>7, <1>8, <1>9, <1>11, <1>12, <1>13, <1>14, <1>15, <1>16
          DEF IInv, PhaseInv, Phases

(* Two spaces are emptied. *)
Vacate(sz, tp, e) == [a \in {b \in DOMAIN sz : \A s \in e : ~(Start[s] <= b /\ b < tp[s])} |-> sz[a]]
Emptied(tp, e) == [s \in Spaces |-> IF s \in e THEN Start[s] ELSE tp[s]]

LEMMA VacateTiled ==
    ASSUME NEW sz, NEW tp, Tiled(sz, tp), NEW e, e \subseteq Spaces
    PROVE  Tiled(Vacate(sz, tp, e), Emptied(tp, e))
  <1>1. PICK sz2, tp2 : sz2 = Vacate(sz, tp, e) /\ tp2 = Emptied(tp, e)
    OBVIOUS
  <1>2. /\ DOMAIN sz2 = {b \in DOMAIN sz : \A s \in e : ~(Start[s] <= b /\ b < tp[s])}
        /\ sz2 = [b \in DOMAIN sz2 |-> sz2[b]] /\ \A b \in DOMAIN sz2 : sz2[b] = sz[b]
    BY <1>1 DEF Vacate
  <1>3. ASSUME NEW s \in Spaces
        PROVE  /\ Start[s] \in Nat /\ tp[s] \in Nat /\ Start[s] <= tp[s] /\ tp[s] <= End[s]
               /\ End[s] \in Nat /\ tp2[s] = IF s \in e THEN Start[s] ELSE tp[s]
    BY <1>1, SpaceBounds DEF Emptied
  <1>4. ASSUME NEW b \in DOMAIN sz
        PROVE  b \in Nat /\ sz[b] \in Nat \ {0}
    BY TilePlace
  <1>5. TilingTyped(sz2, tp2)
    <2>1. sz2 \in [DOMAIN sz2 -> Nat \ {0}]
      BY <1>2, <1>4
    <2>2. tp2 \in [Spaces -> Nat]
      BY <1>1, <1>3 DEF Emptied
    <2>3. \A s \in Spaces : Start[s] <= tp2[s] /\ tp2[s] <= End[s]
      BY <1>3
    <2> QED BY <2>1, <2>2, <2>3 DEF TilingTyped
  <1>6. Placed(sz2, tp2)
    <2> SUFFICES ASSUME NEW b \in DOMAIN sz2
                 PROVE  \E s \in Spaces : Start[s] <= b /\ b + sz2[b] <= tp2[s] /\ b \in Nat
      BY DEF Placed
    <2>1. b \in DOMAIN sz /\ sz2[b] = sz[b]
      BY <1>2
    <2>2. PICK s \in Spaces : Start[s] <= b /\ b < tp[s] /\ b + sz[b] <= tp[s]
      BY <2>1, TilePlace
    <2>3. s \notin e
      BY <1>2, <2>2
    <2> QED BY <1>3, <1>4, <2>1, <2>2, <2>3
  <1>7. Covered(sz2, tp2)
    <2> SUFFICES ASSUME NEW s \in Spaces, NEW w \in Start[s]..tp2[s] - 1
                 PROVE  \E a \in DOMAIN sz2 : a <= w /\ w < a + sz2[a]
      BY DEF Covered
    <2>1. s \notin e /\ tp2[s] = tp[s] /\ w \in Nat
      BY <1>3
    <2>2. PICK a \in DOMAIN sz : a <= w /\ w < a + sz[a]
      BY <2>1 DEF Tiled, Covered
    <2>3. ASSUME NEW t \in e, Start[t] <= a, a < tp[t] PROVE FALSE
      <3>1. t \in Spaces /\ t # s
        BY <2>1
      <3>2. a + sz[a] <= tp[t]
        BY <2>3, <3>1, TilePlace
      <3>3. End[t] <= Start[s] \/ End[s] <= Start[t]
        BY <3>1, Layout
      <3>4. /\ Start[t] \in Nat /\ tp[t] \in Nat /\ tp[t] <= End[t] /\ End[t] \in Nat
            /\ Start[s] \in Nat /\ tp[s] \in Nat /\ tp[s] <= End[s] /\ End[s] \in Nat
        BY <1>3, <3>1
      <3>5. a \in Nat /\ sz[a] \in Nat /\ Start[s] <= w /\ w < tp[s]
        BY <1>4, <2>1, <3>4
      <3> QED BY <2>1, <2>2, <2>3, <3>2, <3>3, <3>4, <3>5
    <2>4. a \in DOMAIN sz2 /\ sz2[a] = sz[a]
      BY <1>2, <2>3
    <2> QED BY <2>2, <2>4
  <1>8. Apart(sz2)
    BY <1>2 DEF Tiled, Apart
  <1> QED BY <1>1, <1>5, <1>6, <1>7, <1>8 DEF Tiled

LEMMA ThresholdTyped == ComputeThreshold \in 0..AgeMax
  <1>1. ASSUME NEW T \in SUBSET (0..AgeMax)
        PROVE  (IF T = {} THEN AgeMax ELSE CHOOSE a \in T : \A b \in T : a <= b) \in 0..AgeMax
    <2>1. CASE T = {}
      BY <2>1, HeapAssumption
    <2>2. CASE T # {}
      <3>1. T \subseteq Nat
        BY HeapAssumption
      <3>2. \E a \in T : \A b \in T : a <= b
        BY <2>2, <3>1, LeastNat
      <3> QED BY <2>2, <3>2
    <2> QED BY <2>1, <2>2
  <1> QED BY <1>1 DEF ComputeThreshold

LEMMA FinishScavengeKeeps == ASSUME IInv, FinishScavenge PROVE IInv'
  <1>1. /\ pc = "cheney" /\ cur.w = 0 /\ cur.to >= top[to] /\ cur.old >= top.old
        /\ obj' = [a \in {b \in DOMAIN obj : ~Vacated(b)} |-> obj[a]]
        /\ fwd' = <<>> /\ from' = to
        /\ top' = [top EXCEPT !.eden = Start.eden, ![from] = Start[from]]
        /\ threshold' = ComputeThreshold /\ pc' = ret
        /\ cur' = NoCur /\ worst' = 0 /\ oldTop0' = Start.old
        /\ UNCHANGED <<committed, dirty, offsets, ageTable, met, ret, stall, root, code, req>>
    BY DEF FinishScavenge
  <1>2. /\ TypeOK /\ AreFunctions /\ Tiled(Extent(obj), top) /\ RefsValid
    BY DEF IInv
  <1>3. /\ RememberedSet /\ SlotsOK /\ RootsOK /\ CodeOK /\ BoundaryOK /\ ~stall
        /\ cur.to \in Nat /\ cur.old \in Nat
        /\ cur.to <= top[to] /\ cur.old <= top.old
        /\ \A a \in DOMAIN obj : \A i \in Slots(a) :
                 Scanned(a, i) <=> \/ IsOld(a) /\ a < oldTop0
                                   \/ Behind(a) /\ (a = cur.w => i < cur.i)
    BY <1>1, CheneyFacts
  <1>4. /\ to \in Spaces /\ from \in Spaces /\ to # from /\ from # "eden" /\ to # "eden"
        /\ from # "old" /\ to # "old" /\ top[to] \in Nat /\ top.old \in Nat /\ oldTop0 \in Nat
        /\ "eden" \in Spaces /\ "old" \in Spaces /\ Start.old \in Nat /\ from \in Survivors /\ to \in Survivors
        /\ top.old <= committed /\ committed <= End.old /\ Start.old <= committed /\ committed \in Nat
        /\ End.old \in Nat
    BY <1>2, SpaceFacts
  <1>5. ret \in {"mutator", "bump", "rebump"}
    BY <1>2 DEF TypeOK
  <1>6. ASSUME NEW a \in DOMAIN obj, ~Vacated(a), NEW i \in Slots(a)
        PROVE  ~Vacated(obj[a].f[i])
    <2>1. a \in Nat \ {0} /\ (In(a, to) \/ In(a, "old"))
      BY <1>2, <1>6, ObjFacts, ObjPlace
    <2>2. Scanned(a, i)
      <3>1. CASE In(a, to)
        <4>1. a < cur.to
          BY <1>1, <1>3, <1>4, <2>1, <3>1 DEF In
        <4> QED BY <1>1, <1>3, <2>1, <3>1, <4>1 DEF Behind
      <3>2. CASE In(a, "old")
        <4>1. a < cur.old /\ IsOld(a)
          <5>1. a \in Val
            BY <1>2, ObjPlace
          <5>2. IsOld(a)
            BY <1>2, <3>2, <5>1, PlaceFacts
          <5> QED BY <1>1, <1>3, <1>4, <2>1, <3>2, <5>2 DEF In
        <4> QED BY <1>1, <1>3, <1>4, <2>1, <4>1 DEF Behind
      <3> QED BY <2>1, <3>1, <3>2
    <2> QED BY <1>3, <2>2 DEF SlotsOK, VisitOK
  <1>7. ASSUME NEW v \in Roots PROVE ~Vacated(v)
    <2>1. \A r \in 0..NRoots : ~Vacated(root[r])
      BY <1>1, <1>3 DEF RootsOK, VisitOK
    <2>2. \A c \in 1..NCode : ~Vacated(code[c])
      BY <1>1, <1>3 DEF CodeOK, VisitOK
    <2> QED BY <2>1, <2>2 DEF Roots
  <1>8. PICK o, p, tp, tp2 : o = obj /\ p = obj' /\ tp = top /\ tp2 = top'
    OBVIOUS
  <1>9. /\ DOMAIN p = {b \in DOMAIN o : ~Vacated(b)} /\ p = [b \in DOMAIN p |-> p[b]]
        /\ \A b \in DOMAIN p : b \in DOMAIN o /\ p[b] = o[b]
    BY <1>1, <1>8
  <1>10. tp2 = Emptied(tp, {"eden", from})
    <2>1. tp = [s \in Spaces |-> tp[s]]
      BY <1>2, <1>8 DEF TypeOK
    <2>2. ASSUME NEW s \in Spaces
          PROVE  tp2[s] = IF s \in {"eden", from} THEN Start[s] ELSE tp[s]
      BY <1>1, <1>4, <1>8, <2>1
    <2>3. tp2 = [s \in Spaces |-> tp2[s]]
      BY <1>1, <1>8, <2>1
    <2> QED BY <2>2, <2>3 DEF Emptied
  <1>11. Extent(p) = Vacate(Extent(o), tp, {"eden", from})
    <2>1. PICK sz : sz = Extent(o)
      OBVIOUS
    <2>2. DOMAIN sz = DOMAIN o /\ \A b \in DOMAIN o : sz[b] = Len(o[b].f) + 1
      BY <2>1 DEF Extent
    <2>3. ASSUME NEW b \in DOMAIN o
          PROVE  ~Vacated(b) <=> \A s \in {"eden", from} : ~(Start[s] <= b /\ b < tp[s])
      BY <1>8 DEF Vacated, In
    <2>4. DOMAIN p = {b \in DOMAIN sz : \A s \in {"eden", from} : ~(Start[s] <= b /\ b < tp[s])}
      BY <1>9, <2>2, <2>3
    <2>5. \A b \in DOMAIN p : Len(p[b].f) + 1 = sz[b]
      BY <1>9, <2>2
    <2>6. Extent(p) = [b \in DOMAIN p |-> sz[b]]
      BY <2>5 DEF Extent
    <2>7. Extent(p) = Vacate(sz, tp, {"eden", from})
      BY <2>4, <2>6 DEF Vacate
    <2> QED BY <2>1, <2>7
  <1>12. Tiled(Extent(obj), top)'
    <2>1. Tiled(Extent(o), tp) /\ {"eden", from} \subseteq Spaces
      BY <1>2, <1>4, <1>8
    <2>2. Tiled(Extent(p), tp2)
      BY <1>10, <1>11, <2>1, VacateTiled
    <2> QED BY <1>8, <2>2
  <1>13. TypeOK'
    <2>1. tp2 \in [Spaces -> Nat] /\ \A s \in Spaces : Start[s] <= tp2[s] /\ tp2[s] <= End[s]
      BY <1>8, <1>12 DEF Tiled, TilingTyped
    <2>2. tp2.old = top.old
      BY <1>4, <1>8, <1>10 DEF Emptied
    <2>3. cur' \in ScanTypes
      BY <1>1 DEF NoCur, ScanTypes
    <2>4. threshold' \in 0..AgeMax
      BY <1>1, ThresholdTyped
    <2>5. pc' \in Idle \cup Stages
      BY <1>1, <1>5 DEF Idle, Stages, AfterBump
    <2>6. oldTop0' \in Start.old..End.old
      BY <1>1, <1>4
    <2>7. DOMAIN fwd' = {}
      BY <1>1
    <2>8. DOMAIN p \subseteq Addr /\ \A b \in DOMAIN p : p[b] \in Object
      BY <1>2, <1>8, <1>9 DEF TypeOK
    <2> QED BY <1>1, <1>2, <1>4, <1>8, <2>1, <2>2, <2>3, <2>4, <2>5, <2>6, <2>7, <2>8
            DEF TypeOK, ScanTypes, Object
  <1>14. AreFunctions'
    <2>1. fwd' = [a \in {} |-> fwd'[a]] /\ DOMAIN fwd' = {}
      BY <1>1
    <2> QED BY <1>8, <1>9, <2>1 DEF AreFunctions
  <1>15. RefsValid'
    <2>1. ASSUME NEW v \in DOMAIN o \cup {0}, ~Vacated(v) PROVE v \in DOMAIN p \cup {0}
      BY <1>9, <2>1
    <2>2. ASSUME NEW b \in DOMAIN p, NEW i \in 1..Len(p[b].f)
          PROVE  p[b].f[i] \in DOMAIN p \cup {0}
      <3>1. b \in DOMAIN obj /\ ~Vacated(b) /\ i \in Slots(b) /\ p[b].f[i] = obj[b].f[i]
        BY <1>8, <1>9 DEF Slots
      <3>2. obj[b].f[i] \in DOMAIN o \cup {0}
        BY <1>2, <1>8, <3>1 DEF RefsValid
      <3> QED BY <1>6, <2>1, <3>1, <3>2
    <2>3. Roots' = Roots /\ Roots \subseteq DOMAIN o \cup {0}
      BY <1>1, <1>2, <1>8 DEF Roots, RefsValid
    <2> QED BY <1>7, <1>8, <2>1, <2>2, <2>3 DEF RefsValid, Slots
  <1>16. RememberedSet'
    BY <1>1, <1>3, <1>8, <1>9 DEF RememberedSet, Slots, IsOld, IsNew
  <1>17. Quiet'
    <2>1. to' = from
      BY <1>1, <1>4 DEF to, Survivors
    <2>2. top'[from] = Start[from]
      BY <1>4, <1>8, <1>10 DEF Emptied
    <2> QED BY <1>1, <1>3, <2>1, <2>2 DEF Quiet
  <1>18. NoDoubleVisit' /\ GuaranteeHolds' /\ RoomOK'
    BY <1>1, <1>3, <1>5 DEF NoDoubleVisit, GuaranteeHolds, RoomOK, Phases
  <1> QED BY <1>1, <1>5, <1>12, <1>13, <1>14, <1>15, <1>16, <1>17, <1>18 DEF IInv, Phases

-----------------------------------------------------------------------------
(***************************************************************************)
(* One visit of a scavenge: scavenge_oop                                   *)
(***************************************************************************)

(* The heap after the visit, before the visited location is written: the   *)
(* objects there were, and possibly a copy at a bump pointer.              *)
KeptObjects(o2) ==
    /\ Objects(o2) /\ Tiled(Extent(o2), top')
    /\ DOMAIN obj \subseteq DOMAIN o2 /\ \A a \in DOMAIN obj : o2[a] = obj[a]

NewObjects(o2) ==
    \A a \in DOMAIN o2 \ DOMAIN obj :
        /\ a \in Nat \ {0}
        /\ \/ a = top[to] /\ In(a, to)' /\ a < oldTop0 /\ a + Len(o2[a].f) + 1 <= oldTop0
           \/ /\ a = top.old /\ oldTop0 <= a /\ ~In(a, to)'
              /\ \A i \in 1..Len(o2[a].f) : CardOf(a + i) \in dirty'
        /\ \A i \in 1..Len(o2[a].f) :
              o2[a].f[i] \in DOMAIN obj \cup {0} /\ ~In(o2[a].f[i], to)

(* What is where. *)
SamePlaces ==
    /\ to' = to /\ \A x : Vacated(x)' <=> Vacated(x)
    /\ \A x \in DOMAIN obj \cup {0} : In(x, to)' <=> In(x, to)
    /\ top[to] <= top'[to] /\ top.old <= top'.old /\ top'.old <= committed

SoundVisit(m, o2) ==
    /\ m \in DOMAIN o2 \cup {0} /\ m \in Val /\ VisitOK(TRUE, m)'
    /\ stall => stall'
    /\ stall' \in BOOLEAN

SoundTables(o2) ==
    /\ dirty \subseteq dirty' /\ dirty' \subseteq Cards
    /\ offsets' \in OffsetTable /\ ageTable' \in [0..AgeMax -> Nat]
    /\ fwd' = [a \in DOMAIN fwd' |-> fwd'[a]]
    /\ \A a \in DOMAIN fwd' : /\ a \in DOMAIN o2 /\ Vacated(a)
                              /\ fwd'[a] \in DOMAIN o2 /\ ~Vacated(fwd'[a])

Left(sz, done) ==
    {w \in Addr : \E a \in DOMAIN sz : Vacated(a) /\ a \notin done /\ a <= w /\ w < a + sz[a]}

(* The guarantee survives the visit. *)
SoundRoom(o2) ==
    /\ GuaranteeHolds'
    /\ ret # "mutator" /\ met => Cardinality(Left(Extent(o2), DOMAIN fwd')) <= OldFree'

Visited(m, o2) ==
    /\ KeptObjects(o2) /\ NewObjects(o2) /\ SamePlaces /\ SoundVisit(m, o2)
    /\ SoundTables(o2) /\ SoundRoom(o2)

(* What a scavenge knows of the value it visits. *)
LEMMA ValueFacts ==
    ASSUME IInv, pc \in Phases, NEW v \in DOMAIN obj \cup {0}, ~In(v, to)
    PROVE  /\ TypeOK /\ AreFunctions /\ Tiled(Extent(obj), top) /\ RefsValid /\ RememberedSet
           /\ GuaranteeHolds /\ FwdOK /\ SlotsOK /\ BoundaryOK /\ RoomOK
           /\ v \in Val /\ (v = 0 => ~IsNew(v)) /\ ~IsNew(0) /\ ~Vacated(0) /\ ~In(0, to)
           /\ v # 0 => v \in DOMAIN obj
           /\ NeedsCopy(v) => v \in DOMAIN obj /\ Vacated(v) /\ IsNew(v)
           /\ IsNew(v) => Vacated(v) /\ v \in DOMAIN obj
           /\ ~IsNew(v) => ~Vacated(v)
           /\ NeedsCopy(v) <=> IsNew(v) /\ v \notin DOMAIN fwd
  <1>1. /\ TypeOK /\ AreFunctions /\ Tiled(Extent(obj), top) /\ RefsValid /\ RememberedSet
        /\ GuaranteeHolds /\ FwdOK /\ SlotsOK /\ BoundaryOK /\ RoomOK
    BY DEF IInv, PhaseInv
  <1>2. 0 \in Val
    BY DEF Val
  <1>3. ~IsNew(0) /\ ~Vacated(0) /\ ~In(0, to)
    BY <1>1, <1>2, PlaceFacts DEF IsNew
  <1>4. CASE v = 0
    BY <1>1, <1>2, <1>3, <1>4 DEF NeedsCopy
  <1>5. CASE v # 0
    <2>1. v \in DOMAIN obj
      BY <1>5
    <2>2. v \in Val /\ (IsNew(v) <=> Vacated(v) \/ In(v, to))
      BY <1>1, <2>1, ObjPlace
    <2> QED BY <1>1, <1>3, <1>5, <2>1, <2>2 DEF NeedsCopy
  <1> QED BY <1>4, <1>5

(* The guarantee and the words still to be copied. *)
LEMMA LeftFacts ==
    ASSUME TypeOK, AreFunctions, Tiled(Extent(obj), top), NEW v \in DOMAIN obj, Vacated(v),
           v \notin DOMAIN fwd
    PROVE  /\ IsFiniteSet(Uncopied) /\ Uncopied = Left(Extent(obj), DOMAIN fwd)
           /\ Cardinality(Uncopied) \in Nat /\ Size(v) <= Cardinality(Uncopied)
           /\ IsFiniteSet(Left(Extent(obj), DOMAIN fwd \cup {v}))
           /\ Cardinality(Left(Extent(obj), DOMAIN fwd \cup {v})) = Cardinality(Uncopied) - Size(v)
  <1>1. PICK sz : sz = Extent(obj)
    OBVIOUS
  <1>2. DOMAIN sz = DOMAIN obj /\ \A a \in DOMAIN obj : sz[a] = Size(a)
    BY <1>1 DEF Extent, Size
  <1>3. Uncopied = Left(sz, DOMAIN fwd)
    BY <1>2 DEF Uncopied, Left
  <1>4. IsFiniteSet(Uncopied) /\ Cardinality(Uncopied) \in Nat
    BY UncopiedBound
  <1>5. /\ v \in Nat \ {0} /\ Size(v) \in Nat \ {0} /\ \E s \in Spaces : v + Size(v) <= top[s]
    BY ObjFacts
  <1>6. PICK V, L, e : V = v..e - 1 /\ L = Left(sz, DOMAIN fwd \cup {v}) /\ e = v + Size(v)
    OBVIOUS
  <1>7. e \in Nat /\ e <= End.old /\ End.old \in Nat
    <2>1. PICK s \in Spaces : e <= top[s]
      BY <1>5, <1>6
    <2>2. top[s] \in Nat /\ top[s] <= End[s] /\ End[s] <= End.old /\ End[s] \in Nat /\ End.old \in Nat
      BY SpaceFacts
    <2> QED BY <1>5, <1>6, <2>1, <2>2
  <1>8. V \subseteq Addr
    BY <1>5, <1>6, <1>7 DEF Addr
  <1>9. Uncopied = L \cup V
    <2>1. \A w \in Addr : w \in Uncopied <=> \E a \in DOMAIN obj :
              Vacated(a) /\ a \notin DOMAIN fwd /\ a <= w /\ w < a + Size(a)
      BY DEF Uncopied
    <2>2. \A w \in Addr : w \in L <=> \E a \in DOMAIN obj :
              Vacated(a) /\ a \notin DOMAIN fwd /\ a # v /\ a <= w /\ w < a + Size(a)
      BY <1>2, <1>6 DEF Left
    <2>3. \A w \in Addr : w \in V <=> v <= w /\ w < v + Size(v)
      BY <1>5, <1>6, <1>7 DEF Addr
    <2>4. Uncopied \subseteq Addr /\ L \subseteq Addr
      BY <1>6 DEF Uncopied, Left
    <2>5. ASSUME NEW w \in Addr, w \in Uncopied PROVE w \in L \cup V
      <3>1. PICK a \in DOMAIN obj : Vacated(a) /\ a \notin DOMAIN fwd /\ a <= w /\ w < a + Size(a)
        BY <2>1, <2>5
      <3>2. CASE a = v
        BY <2>3, <3>1, <3>2
      <3>3. CASE a # v
        BY <2>2, <3>1, <3>3
      <3> QED BY <3>2, <3>3
    <2>6. ASSUME NEW w \in Addr, w \in L PROVE w \in Uncopied
      BY <2>1, <2>2, <2>6
    <2>7. ASSUME NEW w \in Addr, w \in V PROVE w \in Uncopied
      BY <2>1, <2>3, <2>7
    <2> QED BY <1>8, <2>4, <2>5, <2>6, <2>7
  <1>10. L \cap V = {}
    <2> SUFFICES ASSUME NEW w \in L, w \in V PROVE FALSE
      OBVIOUS
    <2>1. PICK a \in DOMAIN obj : a # v /\ a <= w /\ w < a + Size(a)
      BY <1>2, <1>6 DEF Left
    <2>2. a \in Nat /\ Size(a) \in Nat /\ w \in Nat
      BY <1>5, <1>6, <1>7, ObjFacts
    <2>3. (a < v => a + Size(a) <= v) /\ (v < a => v + Size(v) <= a)
      BY ObjApart
    <2> QED BY <1>5, <1>6, <1>7, <2>1, <2>2, <2>3
  <1>11. IsFiniteSet(L) /\ IsFiniteSet(V) /\ Cardinality(V) = Size(v)
    <2>1. L \in SUBSET Uncopied
      BY <1>9
    <2>2. PICK m : m = e - 1
      OBVIOUS
    <2>3. m \in Int /\ v \in Int
      BY <1>5, <1>7, <2>2
    <2>4. IsFiniteSet(v..m) /\ Cardinality(v..m) = IF v > m THEN 0 ELSE m - v + 1
      BY <2>3, FS_Interval
    <2>5. IsFiniteSet(L)
      BY <1>4, <2>1, FS_Subset
    <2>6. V = v..m
      BY <1>6, <2>2
    <2>7. m - v + 1 = Size(v) /\ ~(v > m)
      BY <1>5, <1>6, <1>7, <2>2
    <2> QED BY <2>4, <2>5, <2>6, <2>7
  <1>12. Cardinality(L \cup V) = Cardinality(L) + Cardinality(V) - Cardinality(L \cap V)
    BY <1>11, FS_Union
  <1>13. Cardinality(L \cap V) = 0 /\ Cardinality(L) \in Nat
    BY <1>10, <1>11, FS_EmptySet, FS_CardinalityType
  <1>14. /\ Size(v) <= Cardinality(Uncopied) /\ Cardinality(L) = Cardinality(Uncopied) - Size(v)
    BY <1>5, <1>9, <1>11, <1>12, <1>13
  <1> QED BY <1>1, <1>3, <1>4, <1>6, <1>11, <1>14

LEMMA UncopiedLeft == Uncopied = Left(Extent(obj), DOMAIN fwd)
  <1>1. DOMAIN Extent(obj) = DOMAIN obj /\ \A a \in DOMAIN obj : Extent(obj)[a] = Size(a)
    BY DEF Extent, Size
  <1>2. \A w \in Addr, a \in DOMAIN obj :
            w < a + Size(a) <=> w < a + Extent(obj)[a]
    BY <1>1
  <1> QED BY <1>1, <1>2, Zenon DEF Uncopied, Left

(* A visit that copies nothing: the value is no reference to the spaces    *)
(* being vacated, or was copied already, or has no room.                   *)
LEMMA NoCopyStep ==
    ASSUME IInv, pc \in Phases, NEW v \in DOMAIN obj \cup {0}, ~In(v, to), ~Copies(v),
           ScavengeOop(v, pc), UNCHANGED <<oldTop0, scanFrame>>,
           NEW m, m = Moved(v), NEW o2, o2 = ObjAfter(v)
    PROVE  pc' = pc /\ Visited(m, o2)
  <1>1. /\ TypeOK /\ AreFunctions /\ Tiled(Extent(obj), top) /\ GuaranteeHolds /\ FwdOK /\ RoomOK
        /\ v \in Val /\ ~Vacated(0) /\ (v # 0 => v \in DOMAIN obj)
        /\ NeedsCopy(v) => v \in DOMAIN obj /\ Vacated(v)
        /\ NeedsCopy(v) <=> IsNew(v) /\ v \notin DOMAIN fwd
        /\ ~IsNew(v) => ~Vacated(v)
    BY ValueFacts
  <1>2. /\ UNCHANGED <<fwd, top, dirty, offsets, ageTable, from, committed, met, ret>>
        /\ stall' = (stall \/ (NeedsCopy(v) /\ Target(v) = "none")) /\ pc' = pc
    BY DEF ScavengeOop, scanFrame
  <1>3. o2 = obj /\ m = (IF v \in DOMAIN fwd THEN fwd[v] ELSE v)
    BY DEF ObjAfter, Moved
  <1>4. to' = to /\ \A x : (Vacated(x)' <=> Vacated(x)) /\ (In(x, to)' <=> In(x, to))
    BY <1>2 DEF to, Vacated, In
  <1>5. KeptObjects(o2) /\ NewObjects(o2)
    BY <1>1, <1>2, <1>3, ObjIsObjects DEF KeptObjects, NewObjects
  <1>6. SamePlaces
    BY <1>1, <1>2, <1>4, SpaceFacts DEF SamePlaces
  <1>7. SoundTables(o2)
    <2>1. \A a \in DOMAIN fwd' : /\ a \in DOMAIN o2 /\ Vacated(a)
                                 /\ fwd'[a] \in DOMAIN o2 /\ ~Vacated(fwd'[a])
      BY <1>1, <1>2, <1>3 DEF FwdOK
    <2>2. fwd' = [a \in DOMAIN fwd' |-> fwd'[a]]
      BY <1>1, <1>2 DEF AreFunctions
    <2> QED BY <1>1, <1>2, <2>1, <2>2 DEF SoundTables, TypeOK, OffsetTable
  <1>8. SoundVisit(m, o2)
    <2>1. CASE v \in DOMAIN fwd
      <3>1. m \in DOMAIN obj /\ ~Vacated(m)
        BY <1>1, <1>3, <2>1 DEF FwdOK
      <3>2. m \in Val
        BY <1>1, <3>1, ObjFacts DEF Val
      <3> QED BY <1>1, <1>2, <1>3, <1>4, <3>1, <3>2 DEF SoundVisit, VisitOK, TypeOK
    <2>2. CASE v \notin DOMAIN fwd
      <3>1. m = v
        BY <1>3, <2>2
      <3>2. stall' \/ ~Vacated(v)
        BY <1>1, <1>2, <2>2 DEF Copies
      <3> QED BY <1>1, <1>2, <1>3, <1>4, <3>1, <3>2 DEF SoundVisit, VisitOK, TypeOK
    <2> QED BY <2>1, <2>2
  <1>9. SoundRoom(o2)
    <2>1. OldFree' = OldFree /\ Left(Extent(o2), DOMAIN fwd') = Uncopied
      BY <1>2, <1>3, UncopiedLeft DEF OldFree
    <2>2. ret # "mutator" /\ met => Cardinality(Uncopied) <= OldFree
      BY <1>1 DEF RoomOK
    <2>3. ASSUME ~stall, stall', ret # "mutator", met PROVE FALSE
      <3>1. NeedsCopy(v) /\ Target(v) = "none" /\ v \in DOMAIN obj /\ Vacated(v)
            /\ v \notin DOMAIN fwd
        BY <1>1, <1>2, <2>3
      <3>2. to # "none"
        BY DEF to
      <3>3. ~(top.old + Size(v) <= committed)
        BY <3>1, <3>2 DEF Target, OldFits
      <3>4. Size(v) \in Nat /\ Cardinality(Uncopied) \in Nat /\ Size(v) <= Cardinality(Uncopied)
        BY <1>1, <3>1, ObjFacts, LeftFacts
      <3>5. top.old \in Nat /\ committed \in Nat
        BY <1>1, SpaceFacts
      <3> QED BY <2>2, <2>3, <3>3, <3>4, <3>5 DEF OldFree
    <2>4. GuaranteeHolds'
      BY <1>1, <1>2, <2>3 DEF GuaranteeHolds, TypeOK
    <2> QED BY <2>1, <2>2, <2>4 DEF SoundRoom
  <1> QED BY <1>2, <1>5, <1>6, <1>7, <1>8, <1>9 DEF Visited

(* Where a copy goes, and what it is. *)
LEMMA CopyFacts ==
    ASSUME TypeOK, AreFunctions, Tiled(Extent(obj), top), NEW v \in DOMAIN obj,
           Target(v) # "none", NEW t, t = Target(v)
    PROVE  /\ t \in {to, "old"} /\ t \in Spaces /\ t # "eden" /\ t # from
           /\ top[t] + Size(v) <= End[t] /\ (t = "old" => top.old + Size(v) <= committed)
           /\ CopyOf(v) \in Object /\ CopyOf(v).f = obj[v].f
           /\ NewAge(v) \in 0..AgeMax
  <1>1. t \in {to, "old"} /\ (t = to => top[t] + Size(v) <= End[t])
        /\ (t = "old" => top.old + Size(v) <= committed)
    BY SpaceFacts DEF Target, OldFits
  <1>2. t \in Spaces /\ t # "eden" /\ t # from
    BY <1>1, SpaceFacts
  <1>3. top[t] + Size(v) <= End[t]
    <2>1. CASE t = to
      BY <1>1, <2>1
    <2>2. CASE t = "old"
      <3>1. /\ top.old \in Nat /\ committed \in Nat /\ committed <= End.old /\ End.old \in Nat
            /\ Size(v) \in Nat
        BY SpaceFacts, ObjFacts
      <3> QED BY <1>1, <2>2, <3>1
    <2> QED BY <1>1, <2>1, <2>2
  <1>4. obj[v] \in Object /\ obj[v].age \in 0..AgeMax
    BY ObjFacts DEF Object
  <1>5. NewAge(v) \in 0..AgeMax
    BY <1>4, HeapAssumption DEF NewAge
  <1>6. CopyOf(v) \in Object /\ CopyOf(v).f = obj[v].f
    <2>1. PICK y, g : y = obj[v] /\ g = NewAge(v)
      OBVIOUS
    <2>2. y \in Object /\ g \in 0..AgeMax
      BY <1>4, <1>5, <2>1
    <2>3. CopyOf(v) = y \/ CopyOf(v) = [y EXCEPT !.age = g]
      BY <2>1 DEF CopyOf
    <2>4. [y EXCEPT !.age = g] \in Object /\ [y EXCEPT !.age = g].f = y.f
      BY <2>2 DEF Object
    <2> QED BY <2>1, <2>2, <2>3, <2>4
  <1> QED BY <1>1, <1>2, <1>3, <1>5, <1>6
(* A visit that copies. *)
LEMMA CopyStep ==
    ASSUME IInv, pc \in Phases, NEW v \in DOMAIN obj \cup {0}, ~In(v, to), Copies(v),
           ScavengeOop(v, pc), UNCHANGED <<oldTop0, scanFrame>>,
           NEW m, m = Moved(v), NEW o2, o2 = ObjAfter(v)
    PROVE  pc' = pc /\ Visited(m, o2)
  <1>1. /\ TypeOK /\ AreFunctions /\ Tiled(Extent(obj), top) /\ RefsValid
        /\ GuaranteeHolds /\ FwdOK /\ SlotsOK /\ BoundaryOK /\ RoomOK
        /\ v \in DOMAIN obj /\ v \in Val /\ Vacated(v) /\ v \notin DOMAIN fwd
        /\ ~Vacated(0) /\ ~In(0, to)
    BY ValueFacts DEF Copies
  <1>2. PICK t, n, a, x : t = Target(v) /\ n = Size(v) /\ a = top[t] /\ x = CopyOf(v)
    OBVIOUS
  <1>3. /\ t \in {to, "old"} /\ t \in Spaces /\ t # "eden" /\ t # from
        /\ top[t] + n <= End[t] /\ (t = "old" => top.old + n <= committed)
        /\ x \in Object /\ x.f = obj[v].f /\ NewAge(v) \in 0..AgeMax
    <2>1. Target(v) # "none"
      BY DEF Copies
    <2> QED BY <1>1, <1>2, <2>1, CopyFacts
  <1>4. /\ n \in Nat \ {0} /\ n = Len(x.f) + 1 /\ Len(x.f) \in Nat
        /\ Slots(v) = 1..Len(x.f)
    BY <1>1, <1>2, <1>3, ObjFacts
  <1>5. /\ m = a /\ o2 = Added(obj, a, x)
        /\ fwd' = [b \in DOMAIN fwd \cup {v} |-> IF b = v THEN m ELSE fwd[b]]
        /\ top' = [top EXCEPT ![t] = top[t] + n]
        /\ dirty' = dirty \cup PromotionCards(v)
        /\ offsets' = (IF t = "old" THEN record_object(offsets, top.old, n) ELSE offsets)
        /\ ageTable' = (IF t = "old" THEN ageTable ELSE [ageTable EXCEPT ![NewAge(v)] = @ + n])
        /\ PromotionCards(v) = (IF t = "old" THEN CardsOf(top.old, top.old + n) ELSE {})
    <2>1. m = a
      BY <1>2 DEF Moved
    <2>2. o2 = Added(obj, a, x)
      BY <1>2, <2>1 DEF ObjAfter, Added
    <2> QED BY <1>2, <2>1, <2>2 DEF ScavengeOop, PromotionCards
  <1>6. pc' = pc /\ UNCHANGED <<from, committed, met, ret, oldTop0, to>>
    BY DEF ScavengeOop, scanFrame, to
  <1>7. stall' = stall
    BY <1>1 DEF ScavengeOop, Copies, TypeOK
  <1>8. PICK o, tp, tp2 : o = obj /\ tp = top /\ tp2 = top'
    OBVIOUS
  <1>9. Objects(o) /\ Tiled(Extent(o), tp) /\ a = tp[t] /\ o2 = Added(o, a, x)
        /\ tp2 = Bumped(tp, t, n) /\ tp[t] + n <= End[t]
    BY <1>1, <1>2, <1>3, <1>5, <1>8, ObjIsObjects DEF Bumped
  <1>10. /\ Grew(o, o2, a, x) /\ Tiled(Extent(o2), tp2)
         /\ a \in Nat /\ a \in Addr /\ Start[t] <= a /\ tp2[t] = a + n /\ n \in Nat \ {0}
         /\ \A s \in Spaces : s # t => tp2[s] = tp[s]
    <2>1. t \in Spaces /\ x \in Object /\ n = Len(x.f) + 1
      BY <1>3, <1>4
    <2> QED BY <1>9, <2>1, ObjectAdded
  <1>11. /\ a \notin DOMAIN o /\ Objects(o2) /\ DOMAIN o2 = DOMAIN o \cup {a} /\ o2[a] = x
         /\ \A b \in DOMAIN o : o2[b] = o[b]
    BY <1>10 DEF Grew
  <1>12. /\ to \in Spaces /\ from \in Spaces /\ "eden" \in Spaces /\ "old" \in Spaces
         /\ to # "old" /\ to # from /\ End[to] <= Start.old /\ End[to] \in Nat
         /\ Start.old \in Nat \ {0} /\ oldTop0 \in Nat /\ Start.old <= oldTop0
         /\ top.old \in Nat /\ top[to] \in Nat /\ committed \in Nat /\ Start[to] \in Nat \ {0}
         /\ top[to] <= End[to] /\ Start[t] \in Nat \ {0} /\ End[t] \in Nat
         /\ Start.old <= top.old /\ committed <= End.old /\ End.old \in Nat
         /\ top.old <= committed
    BY <1>1, <1>3, SpaceFacts
  <1>13. ~Vacated(a)
    <2>1. ASSUME NEW s \in Spaces, s # t, In(a, s) PROVE FALSE
      <3>1. /\ top[s] \in Nat /\ Start[s] \in Nat /\ End[s] \in Nat /\ top[s] <= End[s]
            /\ Start[s] <= a /\ a < top[s]
        BY <1>1, <2>1, SpaceFacts DEF In
      <3>2. End[s] <= Start[t] \/ End[t] <= Start[s]
        BY <1>3, <2>1, Layout
      <3>3. a + n <= End[t]
        BY <1>9
      <3> QED BY <1>10, <1>12, <3>1, <3>2, <3>3
    <2> QED BY <1>3, <1>12, <2>1 DEF Vacated
  <1>14. KeptObjects(o2)
    BY <1>8, <1>10, <1>11 DEF KeptObjects
  <1>15. SamePlaces
    <2>1. \A b : Vacated(b)' <=> Vacated(b)
      BY <1>3, <1>6, <1>8, <1>10, <1>12 DEF Vacated, In
    <2>2. top[to] <= top'[to] /\ top.old <= top'.old /\ top'.old <= committed
      <3>1. CASE t = to
        <4>1. top'[to] = top[to] + n /\ top'.old = top.old
          BY <1>2, <1>8, <1>10, <1>12, <3>1
        <4> QED BY <1>10, <1>12, <4>1
      <3>2. CASE t = "old"
        <4>1. top'.old = top.old + n /\ top'[to] = top[to]
          BY <1>2, <1>8, <1>10, <1>12, <3>2
        <4> QED BY <1>3, <1>10, <1>12, <3>2, <4>1
      <3> QED BY <1>3, <3>1, <3>2
    <2>3. ASSUME NEW b \in DOMAIN obj PROVE In(b, to)' <=> In(b, to)
      <3>1. CASE t # to
        BY <1>6, <1>8, <1>10, <1>12, <3>1 DEF In
      <3>2. CASE t = to
        <4>1. b \in Nat /\ b # a /\ b \in DOMAIN Extent(o2) /\ a \in DOMAIN Extent(o2)
          BY <1>1, <1>8, <1>11, ObjFacts DEF Extent
        <4>2. a < b => a + Extent(o2)[a] <= b
          BY <1>10, <4>1 DEF Tiled, Apart
        <4>3. Extent(o2)[a] = n
          BY <1>4, <1>11 DEF Extent
        <4>4. a = top[to] /\ top'[to] = a + n
          BY <1>2, <1>8, <1>10, <3>2
        <4> QED BY <1>6, <1>10, <4>1, <4>2, <4>3, <4>4 DEF In
      <3> QED BY <3>1, <3>2
    <2>4. In(0, to)' <=> In(0, to)
      BY <1>6, <1>12 DEF In
    <2> QED BY <1>6, <2>1, <2>2, <2>3, <2>4 DEF SamePlaces
  <1>16. NewObjects(o2)
    <2>1. DOMAIN o2 \ DOMAIN obj = {a} /\ o2[a].f = x.f /\ a \in Nat \ {0}
      BY <1>8, <1>10, <1>11, <1>12
    <2>2. ASSUME NEW i \in 1..Len(x.f)
          PROVE  x.f[i] \in DOMAIN obj \cup {0} /\ ~In(x.f[i], to)
      <3>1. i \in Slots(v) /\ x.f[i] = obj[v].f[i]
        BY <1>3, <1>4
      <3>2. ~IsOld(v) /\ v < oldTop0 /\ v \in Nat
        <4>1. \A s \in Spaces \ {"old"} : In(v, s) => ~IsOld(v) /\ v < oldTop0
          BY <1>1, PlaceFacts
        <4>2. from # "old" /\ from \in Spaces /\ "eden" \in Spaces
          BY <1>1, SpaceFacts
        <4> QED BY <1>1, <4>1, <4>2, ObjFacts DEF Vacated
      <3>3. ~Scanned(v, i)
        BY <1>12, <3>2 DEF Scanned
      <3> QED BY <1>1, <3>1, <3>3 DEF SlotsOK, VisitOK, RefsValid
    <2>3. CASE t = to
      <3>1. a = top[to] /\ top'[to] = a + n
        BY <1>2, <1>8, <1>10, <2>3
      <3>2. In(a, to)' /\ a < oldTop0 /\ a + Len(x.f) + 1 <= oldTop0
        <4>1. a + n <= End[to] /\ Start[to] <= a
          BY <1>9, <1>10, <2>3
        <4>2. a < a + n /\ a < oldTop0 /\ a + n <= oldTop0 /\ a + n = a + Len(x.f) + 1
          <5>1. PICK k, E, S : k = Len(x.f) /\ E = End[to] /\ S = Start.old
            OBVIOUS
          <5>2. /\ a \in Nat /\ k \in Nat /\ n = k + 1 /\ E \in Nat /\ S \in Nat /\ oldTop0 \in Nat
                /\ a + n <= E /\ E <= S /\ S <= oldTop0
            BY <1>4, <1>10, <1>12, <4>1, <5>1
          <5> QED BY <5>1, <5>2
        <4>3. In(a, to)'
          BY <1>6, <3>1, <4>1, <4>2 DEF In
        <4> QED BY <4>2, <4>3
      <3> QED BY <2>1, <2>2, <3>1, <3>2 DEF NewObjects
    <2>4. CASE t = "old"
      <3>1. a = top.old /\ top'[to] = top[to]
        BY <1>2, <1>8, <1>10, <1>12, <2>4
      <3>2. oldTop0 <= a /\ ~In(a, to)'
        BY <1>1, <1>6, <1>12, <3>1 DEF In, BoundaryOK
      <3>3. ASSUME NEW i \in 1..Len(x.f) PROVE CardOf(a + i) \in dirty'
        <4>1. PICK e : e = a + n
          OBVIOUS
        <4>2. a \in Int /\ e \in Int /\ Start.old <= a /\ e <= End.old /\ a + i \in a..e - 1
          <5>1. a + n <= committed /\ a \in Nat
            BY <1>3, <1>10, <2>4, <3>1
          <5>2. a + i \in a..a + n - 1
            BY <1>4, <5>1
          <5>3. /\ n \in Nat /\ committed \in Nat /\ committed <= End.old /\ End.old \in Nat
                /\ Start.old <= a
            BY <1>4, <1>12, <3>1
          <5> QED BY <4>1, <5>1, <5>2, <5>3
        <4>3. CardOf(a + i) \in CardsOf(a, e)
          BY <4>2, RangeCards
        <4> QED BY <1>5, <2>4, <3>1, <4>1, <4>3
      <3> QED BY <2>1, <2>2, <3>1, <3>2, <3>3 DEF NewObjects
    <2> QED BY <1>3, <2>3, <2>4
  <1>17. SoundVisit(m, o2)
    <2>1. m \in DOMAIN o2 /\ m \in Val
      BY <1>5, <1>10, <1>11 DEF Val
    <2>2. ~Vacated(m)'
      BY <1>5, <1>13, <1>15 DEF SamePlaces
    <2> QED BY <1>1, <1>7, <2>1, <2>2 DEF SoundVisit, VisitOK, TypeOK
  <1>18. SoundTables(o2)
    <2>1. dirty' \subseteq Cards
      <3>1. CASE t = "old"
        <4>1. PICK e : e = top.old + n
          OBVIOUS
        <4>2. top.old \in Int /\ e \in Int /\ Start.old <= top.old /\ e <= End.old
          BY <1>3, <1>4, <1>12, <3>1, <4>1
        <4>3. CardsOf(top.old, e) \subseteq Cards
          BY <4>2, RangeCards
        <4> QED BY <1>1, <1>5, <3>1, <4>1, <4>3 DEF TypeOK
      <3>2. CASE t # "old"
        BY <1>1, <1>5, <3>2 DEF TypeOK
      <3> QED BY <3>1, <3>2
    <2>2. offsets' \in OffsetTable
      <3>1. offsets \in OffsetTable
        BY <1>1 DEF TypeOK, OffsetTable
      <3>2. top.old \in Int /\ top.old >= Start.old
        BY <1>12
      <3>3. record_object(offsets, top.old, n) \in OffsetTable
        BY <3>1, <3>2, RecordTyped
      <3> QED BY <1>5, <3>1, <3>3
    <2>3. ageTable' \in [0..AgeMax -> Nat]
      <3>1. PICK g, T : g = NewAge(v) /\ T = ageTable
        OBVIOUS
      <3>2. g \in 0..AgeMax /\ T \in [0..AgeMax -> Nat]
        BY <1>1, <1>3, <3>1 DEF TypeOK
      <3>3. ageTable' = T \/ ageTable' = [T EXCEPT ![g] = T[g] + n]
        BY <1>5, <3>1
      <3>4. T[g] + n \in Nat
        BY <1>4, <3>2
      <3> QED BY <3>2, <3>3, <3>4
    <2>4. DOMAIN fwd' = DOMAIN fwd \cup {v} /\ fwd'[v] = a /\ fwd' = [b \in DOMAIN fwd' |-> fwd'[b]]
          /\ \A b \in DOMAIN fwd : b # v => fwd'[b] = fwd[b]
      BY <1>5
    <2>5. \A b \in DOMAIN fwd' : /\ b \in DOMAIN o2 /\ Vacated(b)
                                 /\ fwd'[b] \in DOMAIN o2 /\ ~Vacated(fwd'[b])
      BY <1>1, <1>8, <1>11, <1>13, <2>4 DEF FwdOK
    <2> QED BY <1>5, <2>1, <2>2, <2>3, <2>4, <2>5 DEF SoundTables
  <1>19. SoundRoom(o2)
    <2>1. GuaranteeHolds'
      BY <1>1, <1>6, <1>7 DEF GuaranteeHolds
    <2>2. DOMAIN fwd' = DOMAIN fwd \cup {v}
      BY <1>5
    <2>3. PICK sz, sz2, D : sz = Extent(obj) /\ sz2 = Extent(o2) /\ D = DOMAIN fwd \cup {v}
      OBVIOUS
    <2>4. DOMAIN sz2 = DOMAIN sz \cup {a} /\ \A b \in DOMAIN sz : sz2[b] = sz[b]
      BY <1>8, <1>11, <2>3 DEF Extent
    <2>5. Left(sz2, D) = Left(sz, D)
      <3>1. ASSUME NEW w \in Addr, NEW b \in DOMAIN sz2, Vacated(b), b \notin D, b <= w, w < b + sz2[b]
            PROVE  \E c \in DOMAIN sz : Vacated(c) /\ c \notin D /\ c <= w /\ w < c + sz[c]
        BY <1>13, <2>4, <3>1
      <3>2. ASSUME NEW w \in Addr, NEW b \in DOMAIN sz, Vacated(b), b \notin D, b <= w, w < b + sz[b]
            PROVE  \E c \in DOMAIN sz2 : Vacated(c) /\ c \notin D /\ c <= w /\ w < c + sz2[c]
        BY <2>4, <3>2
      <3> QED BY <3>1, <3>2 DEF Left
    <2>6. /\ Cardinality(Uncopied) \in Nat /\ n <= Cardinality(Uncopied)
          /\ Cardinality(Left(sz, D)) = Cardinality(Uncopied) - n
      BY <1>1, <1>2, <2>3, LeftFacts
    <2>7. OldFree' = committed - top'.old /\ top'.old \in {top.old, top.old + n}
      BY <1>2, <1>3, <1>6, <1>8, <1>10, <1>12 DEF OldFree
    <2>8. ret # "mutator" /\ met => Cardinality(Uncopied) <= OldFree
      BY <1>1 DEF RoomOK
    <2>9. ret # "mutator" /\ met => Cardinality(Left(sz2, D)) <= OldFree'
      <3>1. PICK words, rest, free, free2, bump, bump2 :
              /\ words = Cardinality(Uncopied) /\ rest = Cardinality(Left(sz2, D))
              /\ free = OldFree /\ free2 = OldFree' /\ bump = top.old /\ bump2 = top'.old
        OBVIOUS
      <3>2. words \in Nat /\ rest = words - n
        BY <2>5, <2>6, <3>1
      <3>3. n \in Nat /\ bump \in Int /\ committed \in Int
        BY <1>4, <1>12, <3>1
      <3>4. free = committed - bump /\ free2 = committed - bump2 /\ bump2 \in {bump, bump + n}
        BY <2>7, <3>1 DEF OldFree
      <3>5. words <= free => rest <= free2
        BY <3>2, <3>3, <3>4
      <3> QED BY <2>8, <3>1, <3>5
    <2> QED BY <2>1, <2>2, <2>3, <2>9 DEF SoundRoom
  <1> QED BY <1>6, <1>14, <1>15, <1>16, <1>17, <1>18, <1>19 DEF Visited
LEMMA VisitStep ==
    ASSUME IInv, pc \in Phases, NEW v \in DOMAIN obj \cup {0}, ~In(v, to),
           ScavengeOop(v, pc), UNCHANGED <<oldTop0, scanFrame>>,
           NEW m, m = Moved(v), NEW o2, o2 = ObjAfter(v)
    PROVE  pc' = pc /\ Visited(m, o2)
  <1>1. CASE Copies(v)
    BY <1>1, CopyStep
  <1>2. CASE ~Copies(v)
    BY <1>2, NoCopyStep
  <1> QED BY <1>1, <1>2

(* A location that is not the one visited is as well off as before. *)
LEMMA VisitStays ==
    ASSUME NEW m, NEW o2, Visited(m, o2), NEW v \in DOMAIN obj \cup {0}, NEW b, VisitOK(b, v)
    PROVE  VisitOK(b, v)'
  <1>1. (stall => stall') /\ (Vacated(v)' <=> Vacated(v)) /\ (In(v, to)' <=> In(v, to))
    BY DEF Visited, SoundVisit, SamePlaces
  <1> QED BY <1>1 DEF VisitOK

LEMMA SlotsAfter ==
    ASSUME IInv, pc \in Phases, NEW m, NEW o2, Visited(m, o2), NEW la, NEW li,
           Wrote(o2, obj', la, li, m),
           \A a \in DOMAIN obj : \A i \in Slots(a) :
              Scanned(a, i)' <=> Scanned(a, i) \/ (a = la /\ i = li),
           \A a \in DOMAIN o2 \ DOMAIN obj : a # la /\ \A i \in 1..Len(o2[a].f) : ~Scanned(a, i)'
    PROVE  SlotsOK'
  <1>1. /\ SlotsOK /\ RefsValid
    BY DEF IInv, PhaseInv
  <1>2. /\ DOMAIN obj' = DOMAIN o2 /\ DOMAIN obj \subseteq DOMAIN o2
        /\ \A b \in DOMAIN o2 : Len(obj'[b].f) = Len(o2[b].f)
        /\ \A b \in DOMAIN o2 : \A j \in 1..Len(o2[b].f) :
              obj'[b].f[j] = IF b = la /\ j = li THEN m ELSE o2[b].f[j]
        /\ \A a \in DOMAIN obj : o2[a] = obj[a]
        /\ VisitOK(TRUE, m)'
        /\ \A a \in DOMAIN o2 \ DOMAIN obj : \A i \in 1..Len(o2[a].f) :
              o2[a].f[i] \in DOMAIN obj \cup {0} /\ ~In(o2[a].f[i], to)
    BY DEF Wrote, Visited, KeptObjects, NewObjects, SoundVisit
  <1> SUFFICES ASSUME NEW a \in DOMAIN o2, NEW i \in 1..Len(o2[a].f)
               PROVE  VisitOK(Scanned(a, i), obj[a].f[i])'
    BY <1>2 DEF SlotsOK, Slots
  <1>3. CASE a = la /\ i = li
    <2>1. a \in DOMAIN obj /\ i \in Slots(a)
      BY <1>2, <1>3 DEF Slots
    <2>2. Scanned(a, i)' /\ obj'[a].f[i] = m
      BY <1>2, <1>3, <2>1
    <2> QED BY <1>2, <2>2 DEF VisitOK
  <1>4. CASE ~(a = la /\ i = li) /\ a \in DOMAIN obj
    <2>1. i \in Slots(a) /\ obj'[a].f[i] = obj[a].f[i]
      BY <1>2, <1>4 DEF Slots
    <2>2. PICK u : u = obj[a].f[i]
      OBVIOUS
    <2>3. u \in DOMAIN obj \cup {0} /\ (Scanned(a, i)' <=> Scanned(a, i))
      BY <1>1, <1>4, <2>1, <2>2 DEF RefsValid
    <2>4. VisitOK(Scanned(a, i), u)
      BY <1>1, <1>4, <2>1, <2>2 DEF SlotsOK
    <2>5. CASE Scanned(a, i)
      <3>1. VisitOK(TRUE, u)
        BY <2>4, <2>5 DEF VisitOK
      <3>2. VisitOK(TRUE, u)'
        BY <2>3, <3>1, VisitStays
      <3> QED BY <2>1, <2>2, <2>3, <2>5, <3>2 DEF VisitOK
    <2>6. CASE ~Scanned(a, i)
      <3>1. VisitOK(FALSE, u)
        BY <2>4, <2>6 DEF VisitOK
      <3>2. VisitOK(FALSE, u)'
        BY <2>3, <3>1, VisitStays
      <3> QED BY <2>1, <2>2, <2>3, <2>6, <3>2 DEF VisitOK
    <2> QED BY <2>5, <2>6
  <1>5. CASE a \notin DOMAIN obj
    <2>1. ~Scanned(a, i)' /\ a # la
      BY <1>5
    <2>2. PICK u : u = o2[a].f[i]
      OBVIOUS
    <2>3. u \in DOMAIN obj \cup {0} /\ VisitOK(FALSE, u) /\ obj'[a].f[i] = u
      BY <1>2, <1>5, <2>1, <2>2 DEF VisitOK
    <2>4. VisitOK(FALSE, u)'
      BY <2>3, VisitStays
    <2> QED BY <2>1, <2>3, <2>4 DEF VisitOK
  <1> QED BY <1>3, <1>4, <1>5

(* A visit and the write of the visited location keep the heap in order. *)
LEMMA VisitKeeps ==
    ASSUME IInv, pc \in Phases, pc' = pc, UNCHANGED <<oldTop0, scanFrame>>,
           NEW m, NEW o2, Visited(m, o2), NEW la, NEW li, Wrote(o2, obj', la, li, m),
           IsOld(la) /\ IsNew(m) => CardOf(la + li) \in dirty',
           root' \in [0..NRoots -> Val], code' \in [1..NCode -> Val],
           Roots' \subseteq DOMAIN o2 \cup {0}, cur' \in ScanTypes,
           SlotsOK', RootsOK', CodeOK', WindowOK', FrontsOK'
    PROVE  IInv'
  <1>1. /\ TypeOK /\ AreFunctions /\ Tiled(Extent(obj), top) /\ RefsValid /\ RememberedSet
        /\ BoundaryOK
    BY DEF IInv, PhaseInv
  <1>2. UNCHANGED <<from, committed, threshold, met, ret, worst, req>>
    BY DEF scanFrame
  <1>3. PICK p, tp2 : p = obj' /\ tp2 = top'
    OBVIOUS
  <1>4. /\ Objects(p) /\ DOMAIN p = DOMAIN o2 /\ Extent(p) = Extent(o2)
        /\ \A b \in DOMAIN o2 : Len(p[b].f) = Len(o2[b].f)
        /\ \A b \in DOMAIN o2 : \A j \in 1..Len(o2[b].f) :
              p[b].f[j] = IF b = la /\ j = li THEN m ELSE o2[b].f[j]
    BY <1>3 DEF Wrote
  <1>5. /\ Objects(o2) /\ Tiled(Extent(o2), tp2)
        /\ DOMAIN obj \subseteq DOMAIN o2 /\ \A a \in DOMAIN obj : o2[a] = obj[a]
    BY <1>3 DEF Visited, KeptObjects
  <1>6. ASSUME NEW a \in DOMAIN o2 \ DOMAIN obj
        PROVE  /\ a \in Nat \ {0}
               /\ \/ /\ In(a, to)' /\ a < oldTop0 /\ a + Len(o2[a].f) + 1 <= oldTop0
                  \/ oldTop0 <= a /\ \A i \in 1..Len(o2[a].f) : CardOf(a + i) \in dirty'
               /\ \A i \in 1..Len(o2[a].f) : o2[a].f[i] \in DOMAIN obj \cup {0}
    BY <1>6 DEF Visited, NewObjects
  <1>7. /\ to' = to /\ (\A x : Vacated(x)' <=> Vacated(x))
        /\ top.old <= top'.old /\ top'.old <= committed
    BY DEF Visited, SamePlaces
  <1>8. m \in DOMAIN o2 \cup {0} /\ stall' \in BOOLEAN
    BY DEF Visited, SoundVisit
  <1>9. /\ dirty \subseteq dirty' /\ dirty' \subseteq Cards
        /\ offsets' \in OffsetTable /\ ageTable' \in [0..AgeMax -> Nat]
        /\ fwd' = [a \in DOMAIN fwd' |-> fwd'[a]]
        /\ \A a \in DOMAIN fwd' : /\ a \in DOMAIN o2 /\ Vacated(a)
                                  /\ fwd'[a] \in DOMAIN o2 /\ ~Vacated(fwd'[a])
    BY DEF Visited, SoundTables
  <1>10. /\ GuaranteeHolds'
         /\ ret # "mutator" /\ met => Cardinality(Left(Extent(o2), DOMAIN fwd')) <= OldFree'
    BY DEF Visited, SoundRoom
  <1>11. DOMAIN p \subseteq Addr /\ \A b \in DOMAIN p : p[b] \in Object
    <2>1. ASSUME NEW b \in DOMAIN o2 PROVE b \in Addr
      <3>1. PICK sz : sz = Extent(o2)
        OBVIOUS
      <3>2. b \in DOMAIN sz /\ Tiled(sz, tp2)
        BY <1>5, <3>1 DEF Extent
      <3> QED BY <3>2, TilePlace
    <2> QED BY <1>4, <2>1 DEF Objects
  <1>12. tp2 \in [Spaces -> Nat] /\ \A s \in Spaces : Start[s] <= tp2[s] /\ tp2[s] <= End[s]
    BY <1>5 DEF Tiled, TilingTyped
  <1>13. TypeOK'
    <2>1. DOMAIN fwd' \subseteq DOMAIN p /\ \A a \in DOMAIN fwd' : fwd'[a] \in Addr
      BY <1>4, <1>9, <1>11
    <2>2. pc' \in Idle \cup Stages \cup Phases
      OBVIOUS
    <2> QED BY <1>1, <1>2, <1>3, <1>7, <1>8, <1>9, <1>11, <1>12, <2>1, <2>2
            DEF TypeOK, OffsetTable, ScanTypes, Object
  <1>14. AreFunctions' /\ Tiled(Extent(obj), top)'
    BY <1>3, <1>4, <1>5, <1>9 DEF AreFunctions, Objects
  <1>15. RefsValid'
    <2>1. ASSUME NEW b \in DOMAIN p, NEW j \in 1..Len(p[b].f)
          PROVE  p[b].f[j] \in DOMAIN p \cup {0}
      <3>1. j \in 1..Len(o2[b].f) /\ b \in DOMAIN o2
        BY <1>4
      <3>2. CASE b = la /\ j = li
        BY <1>4, <1>8, <3>1, <3>2
      <3>3. CASE ~(b = la /\ j = li)
        <4>1. p[b].f[j] = o2[b].f[j]
          BY <1>4, <3>1, <3>3
        <4>2. CASE b \in DOMAIN obj
          <5>1. j \in Slots(b) /\ o2[b] = obj[b]
            BY <1>5, <3>1, <4>2 DEF Slots
          <5>2. obj[b].f[j] \in DOMAIN obj \cup {0}
            BY <1>1, <4>2, <5>1 DEF RefsValid
          <5> QED BY <1>4, <1>5, <4>1, <5>1, <5>2
        <4>3. CASE b \notin DOMAIN obj
          BY <1>4, <1>5, <1>6, <3>1, <4>1, <4>3
        <4> QED BY <4>2, <4>3
      <3> QED BY <3>2, <3>3
    <2> QED BY <1>3, <1>4, <2>1 DEF RefsValid, Slots
  <1>16. RememberedSet'
    <2> SUFFICES ASSUME NEW b \in DOMAIN p, IsOld(b), NEW j \in 1..Len(p[b].f), IsNew(p[b].f[j])
                 PROVE  CardOf(b + j) \in dirty'
      BY <1>3 DEF RememberedSet, Slots, IsOld, IsNew
    <2>1. j \in 1..Len(o2[b].f) /\ b \in DOMAIN o2
      BY <1>4
    <2>2. CASE b = la /\ j = li
      BY <1>4, <2>1, <2>2
    <2>3. CASE ~(b = la /\ j = li) /\ b \in DOMAIN obj
      <3>1. p[b].f[j] = obj[b].f[j] /\ j \in Slots(b)
        BY <1>4, <1>5, <2>1, <2>3 DEF Slots
      <3> QED BY <1>1, <1>9, <2>3, <3>1 DEF RememberedSet
    <2>4. CASE b \notin DOMAIN obj
      <3>1. ~In(b, to)'
        <4>1. to \in Spaces /\ End[to] <= Start.old /\ End[to] \in Nat /\ Start.old \in Nat
          BY <1>1, SpaceFacts
        <4>2. tp2[to] <= End[to] /\ tp2[to] \in Nat /\ b \in Nat
          BY <1>6, <1>12, <2>1, <2>4, <4>1
        <4> QED BY <1>3, <1>7, <4>1, <4>2 DEF In, IsOld
      <3> QED BY <1>6, <2>1, <2>4, <3>1
    <2> QED BY <2>2, <2>3, <2>4
  <1>17. FwdOK'
    BY <1>3, <1>4, <1>7, <1>9 DEF FwdOK
  <1>18. BoundaryOK'
    <2>0. oldTop0 \in Nat /\ top.old \in Nat /\ top'.old \in Nat
      BY <1>1, <1>3, <1>12, SpaceFacts
    <2>1. oldTop0 <= top'.old
      BY <1>1, <1>7, <2>0 DEF BoundaryOK
    <2>2. ASSUME NEW b \in DOMAIN p, b < oldTop0 PROVE b + (Len(p[b].f) + 1) <= oldTop0
      <3>1. b \in DOMAIN o2 /\ Len(p[b].f) = Len(o2[b].f)
        BY <1>4
      <3>2. CASE b \in DOMAIN obj
        <4>1. b + (Len(obj[b].f) + 1) <= oldTop0
          BY <1>1, <2>2, <3>2 DEF BoundaryOK, Size
        <4> QED BY <1>5, <3>1, <3>2, <4>1
      <3>3. CASE b \notin DOMAIN obj
        <4>1. b \in Nat /\ ~(oldTop0 <= b) /\ Len(o2[b].f) \in Nat
          <5>1. o2[b] \in Object
            BY <1>5, <3>1 DEF Objects
          <5>2. o2[b].f \in Seq(Val)
            BY <5>1 DEF Object
          <5> QED BY <1>6, <2>0, <2>2, <3>1, <3>3, <5>2
        <4>2. b + Len(o2[b].f) + 1 <= oldTop0
          BY <1>6, <3>1, <3>3, <4>1
        <4> QED BY <2>0, <3>1, <4>1, <4>2
      <3> QED BY <3>2, <3>3
    <2>3. ASSUME NEW b \in DOMAIN p, oldTop0 <= b, NEW j \in 1..Len(p[b].f)
          PROVE  CardOf(b + j) \in dirty'
      <3>1. b \in DOMAIN o2 /\ j \in 1..Len(o2[b].f)
        BY <1>4
      <3>2. CASE b \in DOMAIN obj
        <4>1. j \in Slots(b)
          BY <1>5, <3>1, <3>2 DEF Slots
        <4> QED BY <1>1, <1>9, <2>3, <3>2, <4>1 DEF BoundaryOK
      <3>3. CASE b \notin DOMAIN obj
        <4>1. ~(b < oldTop0)
          BY <1>6, <2>0, <2>3, <3>1, <3>3
        <4> QED BY <1>6, <3>1, <3>3, <4>1
      <3> QED BY <3>2, <3>3
    <2> QED BY <1>3, <2>1, <2>2, <2>3 DEF BoundaryOK, Size, Slots
  <1>19. RoomOK'
    <2>1. pc' # "guarantee" /\ pc' # "scavenge"
      BY DEF Phases
    <2>2. Uncopied' = Left(Extent(o2), DOMAIN fwd')
      <3>1. DOMAIN Extent(p) = DOMAIN p /\ \A a \in DOMAIN p : Extent(p)[a] = Len(p[a].f) + 1
        BY DEF Extent
      <3>2. Uncopied' = {w \in Addr : \E a \in DOMAIN p :
                Vacated(a) /\ a \notin DOMAIN fwd' /\ a <= w /\ w < a + (Len(p[a].f) + 1)}
        BY <1>3, <1>7 DEF Uncopied, Size
      <3>3. \A w \in Addr, a \in DOMAIN p :
                w < a + (Len(p[a].f) + 1) <=> w < a + Extent(p)[a]
        BY <3>1
      <3>4. Uncopied' = Left(Extent(p), DOMAIN fwd')
        BY <3>1, <3>2, <3>3, Zenon DEF Left
      <3> QED BY <1>4, <3>4
    <2> QED BY <1>2, <1>10, <2>1, <2>2 DEF RoomOK
  <1>20. NoDoubleVisit'
    BY DEF NoDoubleVisit, Phases
  <1>21. PhaseInv'
    BY <1>17, <1>18 DEF PhaseInv
  <1> QED BY <1>10, <1>13, <1>14, <1>15, <1>16, <1>19, <1>20, <1>21 DEF IInv
(* A copy made by the visit is beyond everything that was scanned. *)
LEMMA CopyPlace ==
    ASSUME TypeOK, NEW m, NEW o2, Visited(m, o2), NEW a \in DOMAIN o2 \ DOMAIN obj
    PROVE  /\ a \in Nat \ {0} /\ ~(IsOld(a) /\ a < oldTop0)
           /\ \/ a = top[to] /\ In(a, to)' /\ a < oldTop0 /\ ~IsOld(a)
              \/ a = top.old /\ oldTop0 <= a /\ ~In(a, to)'
  <1>1. /\ a \in Nat \ {0}
        /\ \/ a = top[to] /\ In(a, to)' /\ a < oldTop0
           \/ a = top.old /\ oldTop0 <= a /\ ~In(a, to)'
    BY DEF Visited, NewObjects
  <1>2. to' = to /\ Tiled(Extent(o2), top')
    BY DEF Visited, SamePlaces, KeptObjects
  <1>3. /\ to \in Spaces /\ End[to] <= Start.old /\ End[to] \in Nat /\ Start.old \in Nat
        /\ oldTop0 \in Nat
    BY SpaceFacts
  <1>4. top'[to] <= End[to] /\ top'[to] \in Nat
    BY <1>2, <1>3 DEF Tiled, TilingTyped
  <1>5. In(a, to)' => ~IsOld(a)
    BY <1>1, <1>2, <1>3, <1>4 DEF In, IsOld
  <1>6. oldTop0 <= a => ~(a < oldTop0)
    BY <1>1, <1>3
  <1> QED BY <1>1, <1>5, <1>6

(* A visit of a root writes no object. *)
LEMMA NothingWritten ==
    ASSUME NEW o, Objects(o), NEW m PROVE Wrote(o, o, 0, 0, m)
  BY DEF Wrote

LEMMA ScanRootKeeps == ASSUME IInv, ScanRoot PROVE IInv'
  <1>1. PICK k, v, m, o2 : k = cur.i /\ v = root[k] /\ m = Moved(v) /\ o2 = ObjAfter(v)
    OBVIOUS
  <1>2. /\ pc = "roots" /\ k <= NRoots /\ root' = [root EXCEPT ![k] = m] /\ obj' = o2
        /\ ScavengeOop(v, pc) /\ cur' = [cur EXCEPT !.i = k + 1]
        /\ UNCHANGED <<oldTop0, code, scanFrame>>
    BY <1>1 DEF ScanRoot
  <1>3. /\ TypeOK /\ SlotsOK /\ RootsOK /\ CodeOK /\ pc \in Phases
    BY <1>2 DEF IInv, Phases, PhaseInv
  <1>4. NRoots \in Nat
    BY HeapAssumption
  <1>5. k \in Nat /\ k \in 0..NRoots /\ cur \in ScanTypes
    BY <1>1, <1>2, <1>3, <1>4 DEF TypeOK, ScanTypes
  <1>6. v \in DOMAIN obj \cup {0} /\ ~In(v, to)
    <2>1. v \in DOMAIN obj \cup {0}
      BY <1>1, <1>5, StackFacts
    <2>2. VisitOK(~(pc = "roots" /\ k >= cur.i), root[k])
      BY <1>3, <1>5 DEF RootsOK
    <2>3. k >= cur.i
      BY <1>1, <1>5
    <2> QED BY <1>1, <1>2, <2>1, <2>2, <2>3 DEF VisitOK
  <1>7. pc' = pc /\ Visited(m, o2)
    BY <1>1, <1>2, <1>3, <1>6, VisitStep
  <1>8. /\ Objects(o2) /\ DOMAIN obj \subseteq DOMAIN o2 /\ m \in DOMAIN o2 \cup {0} /\ m \in Val
        /\ VisitOK(TRUE, m)'
    BY <1>7 DEF Visited, KeptObjects, SoundVisit
  <1>9. Wrote(o2, obj', 0, 0, m)
    BY <1>2, <1>8, NothingWritten
  <1>10. cur' \in ScanTypes /\ cur'.i = k + 1
    BY <1>2, <1>5 DEF ScanTypes
  <1>11. root' \in [0..NRoots -> Val] /\ code' \in [1..NCode -> Val]
    BY <1>2, <1>3, <1>5, <1>8 DEF TypeOK
  <1>12. \A r \in 0..NRoots : root'[r] = IF r = k THEN m ELSE root[r]
    BY <1>2, <1>3 DEF TypeOK
  <1>13. Roots' \subseteq DOMAIN o2 \cup {0}
    <2>1. \A r \in 0..NRoots : root'[r] \in DOMAIN o2 \cup {0}
      BY <1>8, <1>12, StackFacts
    <2>2. \A c \in 1..NCode : code'[c] \in DOMAIN o2 \cup {0}
      BY <1>2, <1>8, StackFacts
    <2> QED BY <2>1, <2>2 DEF Roots
  <1>14. SlotsOK'
    <2>1. \A a, i : ~Scanned(a, i) /\ ~Scanned(a, i)'
      BY <1>2, <1>7 DEF Scanned
    <2>2. \A a \in DOMAIN obj : a # 0
      BY <1>3 DEF TypeOK, Addr
    <2>3. \A a \in DOMAIN o2 \ DOMAIN obj : a # 0
      BY <1>3, <1>7, CopyPlace
    <2> QED BY <1>3, <1>7, <1>9, <2>1, <2>2, <2>3, SlotsAfter
  <1>15. RootsOK'
    <2> SUFFICES ASSUME NEW r \in 0..NRoots
                 PROVE  VisitOK(~(pc = "roots" /\ r >= cur.i), root[r])'
      BY DEF RootsOK
    <2>0. r \in Nat /\ root[r] \in DOMAIN obj \cup {0}
      BY <1>4, StackFacts
    <2>1. VisitOK(~(pc = "roots" /\ r >= cur.i), root[r])
      BY <1>3 DEF RootsOK
    <2>2. PICK u : u = root[r]
      OBVIOUS
    <2>3. CASE r = k
      BY <1>5, <1>8, <1>10, <1>12, <2>3 DEF VisitOK
    <2>4. CASE r < k
      <3>1. VisitOK(TRUE, u)
        BY <1>1, <1>5, <2>0, <2>1, <2>2, <2>4 DEF VisitOK
      <3>2. VisitOK(TRUE, u)'
        BY <1>7, <2>0, <2>2, <3>1, VisitStays
      <3>3. root'[r] = u /\ ~(r >= cur'.i)
        BY <1>5, <1>10, <1>12, <2>0, <2>2, <2>4
      <3> QED BY <3>2, <3>3 DEF VisitOK
    <2>5. CASE r > k
      <3>1. VisitOK(FALSE, u)
        BY <1>1, <1>2, <1>5, <2>0, <2>1, <2>2, <2>5 DEF VisitOK
      <3>2. VisitOK(FALSE, u)'
        BY <1>7, <2>0, <2>2, <3>1, VisitStays
      <3>3. root'[r] = u /\ r >= cur'.i /\ pc' = "roots"
        BY <1>2, <1>5, <1>7, <1>10, <1>12, <2>0, <2>2, <2>5
      <3> QED BY <3>2, <3>3 DEF VisitOK
    <2> QED BY <1>5, <2>0, <2>3, <2>4, <2>5
  <1>16. CodeOK'
    <2>1. ASSUME NEW c \in 1..NCode PROVE VisitOK(FALSE, code[c])'
      <3>1. VisitOK(FALSE, code[c]) /\ code[c] \in DOMAIN obj \cup {0}
        BY <1>2, <1>3, StackFacts DEF CodeOK, VisitOK
      <3>2. PICK u : u = code[c]
        OBVIOUS
      <3> QED BY <1>2, <1>7, <3>1, <3>2, VisitStays
    <2> QED BY <1>2, <1>7, <2>1 DEF CodeOK, VisitOK
  <1>17. WindowOK' /\ FrontsOK'
    BY <1>2, <1>7 DEF WindowOK, FrontsOK
  <1>18. ~IsOld(0)
    BY Layout DEF IsOld
  <1> QED BY <1>2, <1>3, <1>7, <1>9, <1>10, <1>11, <1>13, <1>14, <1>15, <1>16, <1>17, <1>18,
             VisitKeeps

LEMMA ScanCodeKeeps == ASSUME IInv, ScanCode PROVE IInv'
  <1>1. PICK k, v, m, o2 : k = cur.i /\ v = code[k] /\ m = Moved(v) /\ o2 = ObjAfter(v)
    OBVIOUS
  <1>2. /\ pc = "code" /\ k <= NCode /\ code' = [code EXCEPT ![k] = m] /\ obj' = o2
        /\ ScavengeOop(v, pc) /\ cur' = [cur EXCEPT !.i = k + 1]
        /\ UNCHANGED <<oldTop0, root, scanFrame>>
    BY <1>1 DEF ScanCode
  <1>3. /\ TypeOK /\ SlotsOK /\ RootsOK /\ CodeOK /\ pc \in Phases
    BY <1>2 DEF IInv, Phases, PhaseInv
  <1>4. NCode \in Nat
    BY HeapAssumption
  <1>5. k \in Nat /\ cur \in ScanTypes /\ k \in 1..NCode
    <2>1. k \in Nat /\ cur \in ScanTypes
      BY <1>1, <1>3 DEF TypeOK, ScanTypes
    <2>2. k >= 1
      BY <1>1, <1>2 DEF IInv, Phases, PhaseInv, FrontsOK
    <2> QED BY <1>2, <1>4, <2>1, <2>2
  <1>6. v \in DOMAIN obj \cup {0} /\ ~In(v, to)
    <2>1. v \in DOMAIN obj \cup {0}
      BY <1>1, <1>5, StackFacts
    <2>2. VisitOK(~(pc \in {"roots", "cards"} \/ (pc = "code" /\ k >= cur.i)), code[k])
      BY <1>3, <1>5 DEF CodeOK
    <2>3. k >= cur.i
      BY <1>1, <1>5
    <2> QED BY <1>1, <1>2, <2>1, <2>2, <2>3 DEF VisitOK
  <1>7. pc' = pc /\ Visited(m, o2)
    BY <1>1, <1>2, <1>3, <1>6, VisitStep
  <1>8. /\ Objects(o2) /\ DOMAIN obj \subseteq DOMAIN o2 /\ m \in DOMAIN o2 \cup {0} /\ m \in Val
        /\ VisitOK(TRUE, m)'
    BY <1>7 DEF Visited, KeptObjects, SoundVisit
  <1>9. Wrote(o2, obj', 0, 0, m)
    BY <1>2, <1>8, NothingWritten
  <1>10. cur' \in ScanTypes /\ cur'.i = k + 1
    BY <1>2, <1>5 DEF ScanTypes
  <1>11. root' \in [0..NRoots -> Val] /\ code' \in [1..NCode -> Val]
    BY <1>2, <1>3, <1>5, <1>8 DEF TypeOK
  <1>12. \A c \in 1..NCode : code'[c] = IF c = k THEN m ELSE code[c]
    BY <1>2, <1>3 DEF TypeOK
  <1>13. Roots' \subseteq DOMAIN o2 \cup {0}
    <2>1. \A r \in 0..NRoots : root'[r] \in DOMAIN o2 \cup {0}
      BY <1>2, <1>8, StackFacts
    <2>2. \A c \in 1..NCode : code'[c] \in DOMAIN o2 \cup {0}
      BY <1>8, <1>12, StackFacts
    <2> QED BY <2>1, <2>2 DEF Roots
  <1>14. SlotsOK'
    <2>1. \A a, i : /\ Scanned(a, i) <=> IsOld(a) /\ a < oldTop0
                    /\ Scanned(a, i)' <=> IsOld(a) /\ a < oldTop0
      BY <1>2, <1>7 DEF Scanned, IsOld
    <2>2. \A a \in DOMAIN obj : a # 0
      BY <1>3 DEF TypeOK, Addr
    <2>3. \A a \in DOMAIN o2 \ DOMAIN obj : a # 0 /\ ~(IsOld(a) /\ a < oldTop0)
      BY <1>3, <1>7, CopyPlace
    <2> QED BY <1>3, <1>7, <1>9, <2>1, <2>2, <2>3, SlotsAfter
  <1>15. CodeOK'
    <2> SUFFICES ASSUME NEW c \in 1..NCode
                 PROVE  VisitOK(~(pc \in {"roots", "cards"} \/ (pc = "code" /\ c >= cur.i)), code[c])'
      BY DEF CodeOK
    <2>0. c \in Nat /\ code[c] \in DOMAIN obj \cup {0}
      BY <1>4, StackFacts
    <2>1. VisitOK(~(pc \in {"roots", "cards"} \/ (pc = "code" /\ c >= cur.i)), code[c])
      BY <1>3 DEF CodeOK
    <2>2. PICK u : u = code[c]
      OBVIOUS
    <2>3. CASE c = k
      BY <1>2, <1>5, <1>7, <1>8, <1>10, <1>12, <2>3 DEF VisitOK
    <2>4. CASE c < k
      <3>1. VisitOK(TRUE, u)
        BY <1>1, <1>2, <1>5, <2>0, <2>1, <2>2, <2>4 DEF VisitOK
      <3>2. VisitOK(TRUE, u)'
        BY <1>7, <2>0, <2>2, <3>1, VisitStays
      <3>3. code'[c] = u /\ ~(c >= cur'.i) /\ pc' = "code"
        BY <1>2, <1>5, <1>7, <1>10, <1>12, <2>0, <2>2, <2>4
      <3> QED BY <3>2, <3>3 DEF VisitOK
    <2>5. CASE c > k
      <3>1. VisitOK(FALSE, u)
        BY <1>1, <1>2, <1>5, <2>0, <2>1, <2>2, <2>5 DEF VisitOK
      <3>2. VisitOK(FALSE, u)'
        BY <1>7, <2>0, <2>2, <3>1, VisitStays
      <3>3. code'[c] = u /\ c >= cur'.i /\ pc' = "code"
        BY <1>2, <1>5, <1>7, <1>10, <1>12, <2>0, <2>2, <2>5
      <3> QED BY <3>2, <3>3 DEF VisitOK
    <2> QED BY <1>5, <2>0, <2>3, <2>4, <2>5
  <1>16. RootsOK'
    <2>1. ASSUME NEW r \in 0..NRoots PROVE VisitOK(TRUE, root[r])'
      <3>1. VisitOK(TRUE, root[r]) /\ root[r] \in DOMAIN obj \cup {0}
        BY <1>2, <1>3, StackFacts DEF RootsOK, VisitOK
      <3>2. PICK u : u = root[r]
        OBVIOUS
      <3> QED BY <1>2, <1>7, <3>1, <3>2, VisitStays
    <2> QED BY <1>2, <1>7, <2>1 DEF RootsOK, VisitOK
  <1>17. WindowOK' /\ FrontsOK'
    BY <1>2, <1>5, <1>7, <1>10 DEF WindowOK, FrontsOK
  <1>18. ~IsOld(0)
    BY Layout DEF IsOld
  <1> QED BY <1>2, <1>3, <1>7, <1>9, <1>10, <1>11, <1>13, <1>14, <1>15, <1>16, <1>17, <1>18,
             VisitKeeps
(* A visit of a slot. *)
LEMMA SlotVisit ==
    ASSUME IInv, pc \in Phases, NEW a \in DOMAIN obj, NEW i \in Slots(a), ~Scanned(a, i),
           NEW v, v = obj[a].f[i], ScavengeOop(v, pc), UNCHANGED <<oldTop0, root, code, scanFrame>>,
           NEW m, m = Moved(v), NEW o2, o2 = ObjAfter(v), obj' = Put(o2, a, i, m)
    PROVE  /\ pc' = pc /\ Visited(m, o2) /\ Wrote(o2, obj', a, i, m)
           /\ root' \in [0..NRoots -> Val] /\ code' \in [1..NCode -> Val]
           /\ Roots' \subseteq DOMAIN o2 \cup {0}
  <1>1. TypeOK /\ SlotsOK /\ RefsValid
    BY DEF IInv, PhaseInv
  <1>2. v \in DOMAIN obj \cup {0} /\ ~In(v, to)
    BY <1>1 DEF SlotsOK, RefsValid, VisitOK
  <1>3. pc' = pc /\ Visited(m, o2)
    BY <1>2, VisitStep
  <1>4. /\ Objects(o2) /\ DOMAIN obj \subseteq DOMAIN o2 /\ o2[a] = obj[a] /\ m \in Val
    BY <1>3 DEF Visited, KeptObjects, SoundVisit
  <1>5. a \in DOMAIN o2 /\ i \in 1..Len(o2[a].f)
    BY <1>4 DEF Slots
  <1>6. PICK p : p = obj'
    OBVIOUS
  <1>7. Wrote(o2, p, a, i, m)
    BY <1>4, <1>5, <1>6, SlotWritten
  <1>8. Roots' = Roots /\ Roots \subseteq DOMAIN obj \cup {0}
    BY <1>1 DEF Roots, RefsValid
  <1> QED BY <1>1, <1>3, <1>4, <1>6, <1>7, <1>8 DEF TypeOK

(* During the visits of slots the roots wait or are done. *)
LEMMA RootsStay ==
    ASSUME IInv, pc \in {"cards", "cheney"}, pc' = pc, UNCHANGED <<root, code>>,
           NEW m, NEW o2, Visited(m, o2)
    PROVE  RootsOK' /\ CodeOK'
  <1>1. RootsOK /\ CodeOK
    BY DEF IInv, PhaseInv, Phases
  <1>2. ASSUME NEW r \in 0..NRoots PROVE VisitOK(TRUE, root[r])'
    <2>1. VisitOK(TRUE, root[r]) /\ root[r] \in DOMAIN obj \cup {0}
      BY <1>1, StackFacts DEF RootsOK, VisitOK
    <2>2. PICK u : u = root[r]
      OBVIOUS
    <2> QED BY <2>1, <2>2, VisitStays
  <1>3. RootsOK'
    BY <1>2 DEF RootsOK, VisitOK
  <1>4. ASSUME NEW c \in 1..NCode PROVE VisitOK(pc = "cheney", code[c])'
    <2>1. VisitOK(pc = "cheney", code[c]) /\ code[c] \in DOMAIN obj \cup {0}
      BY <1>1, StackFacts DEF CodeOK, VisitOK
    <2>2. PICK u, b : u = code[c] /\ b = (pc = "cheney")
      OBVIOUS
    <2>3. VisitOK(b, u)'
      BY <2>1, <2>2, VisitStays
    <2> QED BY <2>2, <2>3
  <1>5. CodeOK'
    BY <1>4 DEF CodeOK, VisitOK
  <1> QED BY <1>3, <1>5

LEMMA ScanCardSlotKeeps ==
    ASSUME IInv, NEW a \in DOMAIN obj, ScanCardSlot(a) PROVE IInv'
  <1>1. PICK c, w, i, v, m, o2 : /\ c = cur.i /\ w = cur.w /\ i = w - a /\ v = obj[a].f[i]
                                 /\ m = Moved(v) /\ o2 = ObjAfter(v)
    OBVIOUS
  <1>2. /\ pc = "cards" /\ c \in dirty /\ w < WindowEnd /\ IsOld(a) /\ i \in Slots(a)
        /\ obj' = Put(o2, a, i, m) /\ ScavengeOop(v, pc)
        /\ cur' = [cur EXCEPT !.w = w + 1, !.new = cur.new \/ IsNew(m)]
        /\ UNCHANGED <<oldTop0, root, code, scanFrame>>
    BY <1>1 DEF ScanCardSlot, CardInRange, SlotAt, Put
  <1>3. PICK b, e : b = CardBase(c) /\ e = CardBase(c + 1)
    OBVIOUS
  <1>4. /\ TypeOK /\ Tiled(Extent(obj), top) /\ BoundaryOK /\ pc \in Phases
        /\ c \in Nat /\ w \in Nat /\ b \in Nat /\ e \in Nat /\ b <= w /\ w <= e
        /\ cur \in ScanTypes /\ CardEnd = e /\ oldTop0 \in Nat /\ b >= Start.old
        /\ Start.old \in Nat
        /\ \A x \in DOMAIN obj : IsOld(x) /\ x < oldTop0 =>
                 \A j \in Slots(x) : b <= x + j /\ x + j < w /\ IsNew(obj[x].f[j]) => cur.new
    BY <1>1, <1>2, <1>3, WindowFacts DEF Phases
  <1>5. w < e /\ w < oldTop0
    BY <1>2, <1>4 DEF WindowEnd
  <1>6. a \in Nat /\ i \in Nat \ {0} /\ a + i = w /\ a < oldTop0
    <2>1. a \in Nat /\ i \in Nat \ {0}
      BY <1>2, <1>4, OldSlot
    <2> QED BY <1>1, <1>4, <1>5, <2>1
  <1>7. \A x, j : Scanned(x, j) <=> IsOld(x) /\ x < oldTop0 /\ x + j < w
    BY <1>1, <1>2 DEF Scanned
  <1>8. ~Scanned(a, i)
    BY <1>4, <1>6, <1>7
  <1>9. /\ pc' = pc /\ Visited(m, o2) /\ Wrote(o2, obj', a, i, m)
        /\ root' \in [0..NRoots -> Val] /\ code' \in [1..NCode -> Val]
        /\ Roots' \subseteq DOMAIN o2 \cup {0}
    BY <1>1, <1>2, <1>4, <1>8, SlotVisit
  <1>10. cur' \in ScanTypes /\ cur'.w = w + 1 /\ cur'.i = c /\ cur'.new = (cur.new \/ IsNew(m))
    <2>1. PICK z, n : z = cur /\ n = (cur.new \/ IsNew(m))
      OBVIOUS
    <2>2. z \in ScanTypes /\ n \in BOOLEAN /\ z.i = c
      BY <1>1, <1>4, <2>1
    <2>3. cur' = [z EXCEPT !.w = w + 1, !.new = n]
      BY <1>2, <2>1
    <2>4. cur' \in ScanTypes /\ cur'.w = w + 1 /\ cur'.i = c /\ cur'.new = n
      <3>1. PICK y : y = w + 1
        OBVIOUS
      <3>2. y \in Nat /\ cur' = [z EXCEPT !.w = y, !.new = n]
        BY <1>4, <2>3, <3>1
      <3>3. cur' \in ScanTypes /\ cur'.w = y /\ cur'.i = z.i /\ cur'.new = n
        BY <2>2, <3>2 DEF ScanTypes
      <3> QED BY <2>2, <3>1, <3>3
    <2> QED BY <2>1, <2>4
  <1>11. CardOf(a + i) \in dirty'
    <2>1. w \in Int /\ w >= Start.old /\ c \in Int /\ CardBase(c) <= w /\ w < CardBase(c + 1)
      BY <1>3, <1>4, <1>5
    <2>2. c = CardOf(w)
      BY <2>1, CardUnique
    <2>3. dirty \subseteq dirty'
      BY <1>9 DEF Visited, SoundTables
    <2> QED BY <1>2, <1>6, <2>2, <2>3
  <1>12. ASSUME NEW x \in DOMAIN obj, IsOld(x), NEW j \in Slots(x)
         PROVE  x + j \in Nat /\ (x + j = w => x = a /\ j = i)
    <2>1. x \in Nat /\ j \in Nat /\ j \in 1..Len(obj[x].f) /\ Size(x) = Len(obj[x].f) + 1
          /\ Len(obj[x].f) \in Nat
      BY <1>4, <1>12, OldSlot, ObjFacts
    <2>2. i \in 1..Len(obj[a].f) /\ Size(a) = Len(obj[a].f) + 1 /\ Len(obj[a].f) \in Nat
      BY <1>2, <1>4, ObjFacts
    <2>3. (x < a => x + Size(x) <= a) /\ (a < x => a + Size(a) <= x)
      BY <1>4, ObjApart
    <2>4. CASE x < a
      BY <1>6, <2>1, <2>2, <2>3, <2>4
    <2>5. CASE a < x
      BY <1>6, <2>1, <2>2, <2>3, <2>5
    <2>6. CASE x = a
      BY <1>6, <2>1, <2>2, <2>6
    <2> QED BY <1>6, <2>1, <2>4, <2>5, <2>6
  <1>13. SlotsOK'
    <2>1. \A x, j : Scanned(x, j)' <=> IsOld(x) /\ x < oldTop0 /\ x + j < w + 1
      BY <1>2, <1>9, <1>10 DEF Scanned, IsOld
    <2>2. ASSUME NEW x \in DOMAIN obj, NEW j \in Slots(x)
          PROVE  Scanned(x, j)' <=> Scanned(x, j) \/ (x = a /\ j = i)
      <3>1. CASE ~IsOld(x)
        BY <1>2, <1>7, <2>1, <3>1
      <3>2. CASE IsOld(x)
        <4>1. x + j < w + 1 <=> x + j < w \/ x + j = w
          BY <1>4, <1>12, <3>2
        <4> QED BY <1>2, <1>6, <1>7, <1>12, <2>1, <3>2, <4>1
      <3> QED BY <3>1, <3>2
    <2>3. \A x \in DOMAIN o2 \ DOMAIN obj : x # a /\ ~(IsOld(x) /\ x < oldTop0)
      BY <1>4, <1>9, CopyPlace
    <2> QED BY <1>4, <1>9, <2>1, <2>2, <2>3, SlotsAfter
  <1>14. WindowOK'
    <2>1. ASSUME NEW x \in DOMAIN obj', IsOld(x), x < oldTop0, NEW j \in 1..Len(obj'[x].f),
                 b <= x + j, x + j < w + 1, IsNew(obj'[x].f[j])
          PROVE  cur'.new
      <3>1. x \in DOMAIN obj
        <4>1. x \in DOMAIN o2
          BY <1>9 DEF Wrote
        <4> QED BY <1>4, <1>9, <2>1, <4>1, CopyPlace
      <3>2. /\ j \in Slots(x) /\ obj'[x].f[j] = IF x = a /\ j = i THEN m ELSE obj[x].f[j]
        <4>1. x \in DOMAIN o2 /\ o2[x] = obj[x]
          BY <1>9, <3>1 DEF Visited, KeptObjects
        <4> QED BY <1>9, <4>1 DEF Wrote, Slots
      <3>3. CASE x = a /\ j = i
        BY <1>10, <2>1, <3>2, <3>3
      <3>4. CASE ~(x = a /\ j = i)
        <4>1. x + j < w
          BY <1>4, <1>12, <2>1, <3>1, <3>2, <3>4
        <4>2. cur.new
          BY <1>4, <2>1, <3>1, <3>2, <3>4, <4>1
        <4> QED BY <1>10, <4>2
      <3> QED BY <3>3, <3>4
    <2>2. b <= w + 1 /\ w + 1 <= e
      BY <1>4, <1>5
    <2> QED BY <1>2, <1>3, <1>10, <2>1, <2>2 DEF WindowOK, Slots, IsOld, IsNew
  <1>15. RootsOK' /\ CodeOK'
    BY <1>2, <1>9, RootsStay
  <1>16. FrontsOK'
    BY <1>2, <1>9 DEF FrontsOK
  <1> QED BY <1>2, <1>4, <1>9, <1>10, <1>11, <1>13, <1>14, <1>15, <1>16, VisitKeeps

LEMMA ScanObjectSlotKeeps == ASSUME IInv, ScanObjectSlot PROVE IInv'
  <1>1. PICK w, i, v, m, o2 : /\ w = cur.w /\ i = cur.i /\ v = obj[w].f[i]
                              /\ m = Moved(v) /\ o2 = ObjAfter(v)
    OBVIOUS
  <1>2. /\ pc = "cheney" /\ w # 0 /\ i \in Slots(w)
        /\ obj' = Put(o2, w, i, m) /\ ScavengeOop(v, pc)
        /\ cur' = [cur EXCEPT !.i = i + 1]
        /\ UNCHANGED <<oldTop0, root, code, scanFrame>>
    BY <1>1 DEF ScanObjectSlot, Put
  <1>3. /\ TypeOK /\ Tiled(Extent(obj), top) /\ BoundaryOK /\ pc \in Phases
        /\ cur \in ScanTypes /\ i \in Nat /\ w \in Nat /\ cur.to \in Nat /\ cur.old \in Nat
        /\ Start[to] <= cur.to /\ cur.to <= top[to] /\ oldTop0 <= cur.old /\ cur.old <= top.old
        /\ \A a \in DOMAIN obj :
              /\ In(a, to) /\ a < cur.to => a + Size(a) <= cur.to
              /\ oldTop0 <= a /\ a < cur.old => a + Size(a) <= cur.old
        /\ w \in DOMAIN obj /\ Behind(w)
        /\ \A a \in DOMAIN obj : \A j \in Slots(a) :
              Scanned(a, j) <=> \/ IsOld(a) /\ a < oldTop0
                                \/ Behind(a) /\ (a = w => j < i)
    BY <1>1, <1>2, CheneyFacts DEF Phases
  <1>4. /\ oldTop0 \in Nat /\ Start.old \in Nat /\ Start.old <= oldTop0 /\ to \in Spaces
        /\ to # "old" /\ top[to] \in Nat /\ top.old \in Nat
    BY <1>3, SpaceFacts
  <1>5. ~(IsOld(w) /\ w < oldTop0)
    <2>1. w \in Val
      BY <1>3, ObjPlace
    <2>2. In(w, to) => ~IsOld(w)
      BY <1>3, <1>4, <2>1, PlaceFacts
    <2> QED BY <1>3, <1>4, <2>2 DEF Behind
  <1>6. ~Scanned(w, i)
    BY <1>2, <1>3, <1>5
  <1>7. /\ pc' = pc /\ Visited(m, o2) /\ Wrote(o2, obj', w, i, m)
        /\ root' \in [0..NRoots -> Val] /\ code' \in [1..NCode -> Val]
        /\ Roots' \subseteq DOMAIN o2 \cup {0}
    BY <1>1, <1>2, <1>3, <1>6, SlotVisit
  <1>8. cur' \in ScanTypes /\ cur'.i = i + 1 /\ cur'.w = w /\ cur'.to = cur.to /\ cur'.old = cur.old
    BY <1>1, <1>2, <1>3 DEF ScanTypes
  <1>9. /\ to' = to /\ \A a \in DOMAIN obj : In(a, to)' <=> In(a, to)
        /\ top'[to] \in Nat /\ top[to] <= top'[to] /\ top'.old \in Nat /\ top.old <= top'.old
    <2>1. Tiled(Extent(o2), top')
      BY <1>7 DEF Visited, KeptObjects
    <2>2. top' \in [Spaces -> Nat]
      BY <2>1 DEF Tiled, TilingTyped
    <2> QED BY <1>4, <1>7, <2>2 DEF Visited, SamePlaces, Spaces
  <1>10. IsOld(w) => CardOf(w + i) \in dirty'
    <2>1. dirty \subseteq dirty'
      BY <1>7 DEF Visited, SoundTables
    <2>2. IsOld(w) => oldTop0 <= w
      BY <1>3, <1>4, <1>5
    <2> QED BY <1>2, <1>3, <2>1, <2>2 DEF BoundaryOK
  <1>11. \A a \in DOMAIN obj : Behind(a)' <=> Behind(a)
    BY <1>2, <1>8, <1>9 DEF Behind
  <1>12. ASSUME NEW a \in DOMAIN o2 \ DOMAIN obj
         PROVE  ~Behind(a)' /\ ~(IsOld(a) /\ a < oldTop0) /\ a # w
    <2>1. /\ a \in Nat /\ ~(IsOld(a) /\ a < oldTop0)
          /\ \/ a = top[to] /\ a < oldTop0
             \/ a = top.old /\ oldTop0 <= a /\ ~In(a, to)'
      BY <1>3, <1>7, <1>12, CopyPlace
    <2>2. ~Behind(a)'
      BY <1>2, <1>3, <1>4, <1>8, <2>1 DEF Behind
    <2> QED BY <1>3, <1>12, <2>1, <2>2
  <1>13. \A a, j : Scanned(a, j)' <=> \/ IsOld(a) /\ a < oldTop0
                                      \/ Behind(a)' /\ (a = w => j < i + 1)
    BY <1>2, <1>7, <1>8 DEF Scanned, Behind, IsOld
  <1>14. SlotsOK'
    <2>1. ASSUME NEW a \in DOMAIN obj, NEW j \in Slots(a)
          PROVE  Scanned(a, j)' <=> Scanned(a, j) \/ (a = w /\ j = i)
      <3>1. j \in Nat
        <4>1. Slots(a) = 1..Len(obj[a].f) /\ Len(obj[a].f) \in Nat
          BY <1>3, ObjFacts
        <4> QED BY <4>1
      <3>2. j < i + 1 <=> j < i \/ j = i
        BY <1>3, <3>1
      <3>3. CASE a = w
        BY <1>3, <1>11, <1>13, <3>2, <3>3
      <3>4. CASE a # w
        BY <1>3, <1>11, <1>13, <3>4
      <3> QED BY <3>3, <3>4
    <2>2. \A a \in DOMAIN o2 \ DOMAIN obj : a # w /\ \A j \in 1..Len(o2[a].f) : ~Scanned(a, j)'
      BY <1>12, <1>13
    <2> QED BY <1>3, <1>7, <2>1, <2>2, SlotsAfter
  <1>15. FrontsOK'
    <2>1. DOMAIN obj' = DOMAIN o2 /\ w \in DOMAIN o2
      BY <1>3, <1>7 DEF Wrote, Visited, KeptObjects
    <2>2. ASSUME NEW a \in DOMAIN obj
          PROVE  Size(a)' = Size(a)
      BY <1>7 DEF Size, Wrote, Visited, KeptObjects
    <2>3. ASSUME NEW a \in DOMAIN obj'
          PROVE  /\ In(a, to)' /\ a < cur'.to => a + Size(a)' <= cur'.to
                 /\ oldTop0 <= a /\ a < cur'.old => a + Size(a)' <= cur'.old
      <3>1. CASE a \in DOMAIN obj
        BY <1>3, <1>8, <1>9, <2>2, <3>1
      <3>2. CASE a \notin DOMAIN obj
        <4>1. ~Behind(a)'
          BY <1>12, <2>1, <3>2
        <4> QED BY <1>2, <4>1 DEF Behind
      <3> QED BY <3>1, <3>2
    <2>4. Start[to'] <= cur'.to /\ cur'.to <= top'[to'] /\ oldTop0 <= cur'.old /\ cur'.old <= top'.old
      BY <1>3, <1>4, <1>8, <1>9
    <2>5. Behind(w)' /\ i + 1 >= 1
      BY <1>3, <1>11
    <2> QED BY <1>2, <1>7, <1>8, <2>1, <2>3, <2>4, <2>5 DEF FrontsOK, Behind
  <1>16. RootsOK' /\ CodeOK'
    BY <1>2, <1>7, RootsStay
  <1>17. WindowOK'
    BY <1>2, <1>7 DEF WindowOK
  <1> QED BY <1>2, <1>3, <1>7, <1>8, <1>10, <1>14, <1>15, <1>16, <1>17, VisitKeeps

-----------------------------------------------------------------------------
(***************************************************************************)
(* The theorems                                                            *)
(***************************************************************************)

LEMMA StutterKeeps == ASSUME IInv, UNCHANGED vars PROVE IInv'
  <1>1. /\ UNCHANGED <<obj, fwd, top, from, committed, dirty, offsets, root, code, pc, req>>
        /\ UNCHANGED <<threshold, ageTable, met, ret, worst, oldTop0, cur, stall>>
    BY DEF vars, heapVars, gcVars
  <1>2. UNCHANGED to
    BY <1>1 DEF to
  <1>3. TypeOK' /\ AreFunctions' /\ Tiled(Extent(obj), top)'
    BY <1>1 DEF IInv, TypeOK, AreFunctions, Object
  <1>4. RefsValid' /\ RememberedSet' /\ NoDoubleVisit' /\ GuaranteeHolds'
    BY <1>1 DEF IInv, RefsValid, RememberedSet, NoDoubleVisit, GuaranteeHolds, Slots, Roots
  <1>5. pc' \notin Phases \cup {"stalled"} => Quiet'
    BY <1>1, <1>2 DEF IInv, Quiet
  <1>6. ASSUME pc \in Phases PROVE PhaseInv'
    <2>1. PhaseInv
      BY <1>6 DEF IInv
    <2>2. \A v : (Vacated(v)' <=> Vacated(v)) /\ (In(v, to)' <=> In(v, to))
      BY <1>1, <1>2 DEF Vacated, In
    <2>3. \A b, v : VisitOK(b, v)' <=> VisitOK(b, v)
      BY <1>1, <2>2 DEF VisitOK
    <2>4. FwdOK' /\ BoundaryOK'
      BY <1>1, <2>1, <2>2 DEF PhaseInv, FwdOK, BoundaryOK, Size, Slots
    <2>5. SlotsOK'
      <3>1. \A a, i : Scanned(a, i)' <=> Scanned(a, i)
        BY <1>1, <2>2 DEF Scanned
      <3> QED BY <1>1, <2>1, <2>2, <3>1, SlotsKeep DEF PhaseInv
    <2>6. RootsOK' /\ CodeOK'
      <3>1. ASSUME NEW r \in 0..NRoots
            PROVE  VisitOK(~(pc = "roots" /\ r >= cur.i), root[r])'
        <4>1. VisitOK(~(pc = "roots" /\ r >= cur.i), root[r])
          BY <2>1 DEF PhaseInv, RootsOK
        <4> QED BY <1>1, <2>2, <4>1 DEF VisitOK
      <3>2. ASSUME NEW c \in 1..NCode
            PROVE  VisitOK(~(pc \in {"roots", "cards"} \/ (pc = "code" /\ c >= cur.i)), code[c])'
        <4>1. VisitOK(~(pc \in {"roots", "cards"} \/ (pc = "code" /\ c >= cur.i)), code[c])
          BY <2>1 DEF PhaseInv, CodeOK
        <4> QED BY <1>1, <2>2, <4>1 DEF VisitOK
      <3> QED BY <3>1, <3>2 DEF RootsOK, CodeOK
    <2>7. WindowOK'
      BY <1>1, <2>1 DEF PhaseInv, WindowOK, Slots
    <2>8. FrontsOK'
      BY <1>1, <1>2, <2>1, <2>2 DEF PhaseInv, FrontsOK, Size
    <2> QED BY <2>4, <2>5, <2>6, <2>7, <2>8 DEF PhaseInv
  <1>7. RoomOK'
    <2>1. Uncopied' = Uncopied /\ OldFree' = OldFree /\ WorstCase' = WorstCase
      BY <1>1 DEF Uncopied, Vacated, In, OldFree, Size, WorstCase
    <2> QED BY <1>1, <2>1 DEF IInv, RoomOK
  <1> QED BY <1>1, <1>3, <1>4, <1>5, <1>6, <1>7 DEF IInv

LEMMA MutateKeeps == ASSUME IInv, Mutate PROVE IInv'
  <1>1. CASE \E r \in 1..NRoots, v \in Stack \cup {0} : Move(r, v)
    BY <1>1, MoveKeeps
  <1>2. CASE \E r \in 1..NRoots, a \in Stack \ {0} : \E i \in Slots(a) : Load(r, a, i)
    BY <1>2, LoadKeeps
  <1>3. CASE \E c \in 1..NCode, v \in Stack \cup {0} : Embed(c, v)
    BY <1>3, EmbedKeeps
  <1>4. CASE \E a \in Stack \ {0}, v \in Stack \cup {0} : \E i \in Slots(a) :
                 Store(a, i, v) \/ RuntimeStore(a, i, v)
    BY <1>4, StoreKeeps
  <1>5. CASE \E n \in SlotCounts, r \in 1..NRoots, k \in Stack \cup {0} : Alloc(n, r, k)
    BY <1>5, AllocKeeps
  <1>6. CASE PrimGcScavenge
    BY <1>6, PrimGcScavengeKeeps
  <1>7. CASE PrimGcFull
    BY <1>7, PrimGcFullKeeps
  <1> QED BY <1>1, <1>2, <1>3, <1>4, <1>5, <1>6, <1>7 DEF Mutate

LEMMA CascadeKeeps == ASSUME IInv, Cascade PROVE IInv'
  BY TryBumpEdenKeeps, TryOldAllocKeeps, GrowOldKeeps, LastResortKeeps, EnsureKeeps,
     GuaranteeStep DEF Cascade

LEMMA ScavengeKeeps == ASSUME IInv, Scavenge PROVE IInv'
  <1>1. CASE \E a \in DOMAIN obj : ScanCardSlot(a)
    BY <1>1, ScanCardSlotKeeps
  <1>2. CASE StartScavenge \/ ScanRoot \/ RootsDone \/ ScanCode \/ CodeDone
    BY <1>2, StartScavengeKeeps, ScanRootKeeps, RootsDoneKeeps, ScanCodeKeeps, CodeDoneKeeps
  <1>3. CASE SkipCleanCard \/ SkipMarkWord \/ FinishCard \/ CardsDone
    BY <1>3, SkipCleanCardKeeps, SkipMarkWordKeeps, FinishCardKeeps, CardsDoneKeeps
  <1>4. CASE PickObject \/ ScanObjectSlot \/ ObjectDone \/ FinishScavenge
    BY <1>4, PickObjectKeeps, ScanObjectSlotKeeps, ObjectDoneKeeps, FinishScavengeKeeps
  <1> QED BY <1>1, <1>2, <1>3, <1>4 DEF Scavenge

LEMMA NextIInv == IInv /\ [Next]_vars => IInv'
  BY MutateKeeps, CascadeKeeps, ScavengeKeeps, StutterKeeps DEF Next

(* The inductive invariant holds in every reachable state of mutator,      *)
(* allocator and collector.                                                *)
THEOREM Invariance == Spec => []IInv
  BY InitIInv, NextIInv, PTL DEF Spec

(* Every variable keeps its type: bump pointers stay inside their spaces,  *)
(* no card and no offset entry is out of range, ages do not pass their     *)
(* maximum, and there is always an id for the next object.                 *)
THEOREM HeapTypeOK == Spec => []TypeOK
  <1>1. IInv => TypeOK
    BY DEF IInv
  <1> QED BY <1>1, Invariance, PTL

(* A scavenge that skips the clean cards misses no reference to the new    *)
(* generation: both store barriers, promotion, direct allocation in the    *)
(* old generation, the boundary-card rule and the full collection keep     *)
(* every old-to-new reference on a dirty card.                             *)
THEOREM OldToNewIsRemembered == Spec => []RememberedSet
  <1>1. IInv => RememberedSet
    BY DEF IInv
  <1> QED BY <1>1, Invariance, PTL

(* No root, code pool or object ever holds a dangling reference, in the    *)
(* middle of a scavenge, after it and after a compaction.                  *)
THEOREM NothingDangles == Spec => []RefsValid
  <1>1. IInv => RefsValid
    BY DEF IInv
  <1> QED BY <1>1, Invariance, PTL

(* scavenge_oop's panic is unreachable: no location is visited twice.      *)
THEOREM NoLocationTwice == Spec => []NoDoubleVisit
  <1>1. IInv => NoDoubleVisit
    BY DEF IInv
  <1> QED BY <1>1, Invariance, PTL

(* A promotion never fails in a scavenge the cascade started with the      *)
(* guarantee met: ensure_promotion_guarantee reserves enough.              *)
THEOREM PromotionIsGuaranteed == Spec => []GuaranteeHolds
  <1>1. IInv => GuaranteeHolds
    BY DEF IInv
  <1> QED BY <1>1, Invariance, PTL

(* Every space can be walked object by object from its bottom to its bump  *)
(* pointer, at every step: each word below it is in exactly one object.    *)
THEOREM SpacesAreParsable == Spec => []Parsable
  <1>1. IInv => Parsable
    <2> SUFFICES ASSUME IInv, NEW s \in Spaces, NEW w \in Start[s]..top[s] - 1
                 PROVE  Cardinality({a \in DOMAIN obj : a <= w /\ w < a + Size(a)}) = 1
      BY DEF Parsable
    <2>1. PICK sz, tp : sz = Extent(obj) /\ tp = top
      OBVIOUS
    <2>2. Tiled(sz, tp) /\ w \in Start[s]..tp[s] - 1
      BY <2>1 DEF IInv
    <2>3. Cardinality({a \in DOMAIN sz : a <= w /\ w < a + sz[a]}) = 1
      BY <2>2, TiledWords
    <2>4. DOMAIN sz = DOMAIN obj /\ \A a \in DOMAIN obj : sz[a] = Size(a)
      BY <2>1 DEF Extent, Size
    <2>5. {a \in DOMAIN sz : a <= w /\ w < a + sz[a]} = {a \in DOMAIN obj : a <= w /\ w < a + Size(a)}
      BY <2>4
    <2> QED BY <2>3, <2>5
  <1> QED BY <1>1, Invariance, PTL

-----------------------------------------------------------------------------
(***************************************************************************)
(* The offset table.  The old objects and their entries change only where  *)
(* an object is placed at the old top, and in a compaction.                *)
(***************************************************************************)

OffsetsOK == EntriesOK(Extent(obj), top.old, offsets)

LEMMA InitOffsets == Init => OffsetsOK
  <1> SUFFICES ASSUME Init PROVE OffsetsOK
    OBVIOUS
  <1>1. DOMAIN Extent(obj) = {} /\ \A c \in Cards : offsets[c] = 0
    BY DEF Init, Extent
  <1> QED BY <1>1 DEF OffsetsOK, EntriesOK

(* The old objects other than x are where and as long as they were. *)
OldStays(x) ==
    /\ top.old <= top'.old
    /\ \A a \in DOMAIN obj' \ {x} : IsOld(a) =>
          a \in DOMAIN obj /\ Len(obj'[a].f) = Len(obj[a].f)

LEMMA OffsetsStay ==
    ASSUME IInv, IInv', OffsetsOK, OldStays(0), offsets' = offsets
    PROVE  OffsetsOK'
  <1>1. PICK sz, tp, sz2, tp2, table : /\ sz = Extent(obj) /\ tp = top /\ table = offsets
                                       /\ sz2 = Extent(obj') /\ tp2 = top'
    OBVIOUS
  <1>2. Tiled(sz, tp) /\ Tiled(sz2, tp2) /\ EntriesOK(sz, tp.old, table)
    BY <1>1 DEF IInv, OffsetsOK
  <1>3. ASSUME NEW a \in DOMAIN sz2, a >= Start.old PROVE a \in DOMAIN sz /\ sz2[a] = sz[a]
    <2>1. a \in DOMAIN obj' /\ IsOld(a)
      BY <1>1, <1>3 DEF Extent, IsOld
    <2>2. a # 0
      BY <1>2, TilePlace
    <2>3. a \in DOMAIN obj /\ Len(obj'[a].f) = Len(obj[a].f)
      BY <2>1, <2>2 DEF OldStays
    <2> QED BY <1>1, <2>1, <2>3 DEF Extent
  <1>4. EntriesOK(sz2, tp2.old, table)
    <2>1. tp.old <= tp2.old
      BY <1>1 DEF OldStays
    <2> QED BY <1>2, <1>3, <2>1, EntriesKept
  <1> QED BY <1>1, <1>4 DEF OffsetsOK

LEMMA OffsetsRecord ==
    ASSUME IInv, IInv', OffsetsOK, NEW x \in DOMAIN obj', IsOld(x), OldStays(x),
           NEW n, n = Len(obj'[x].f) + 1, offsets' = record_object(offsets, x, n)
    PROVE  OffsetsOK'
  <1>1. PICK sz, tp, sz2, tp2, table, t2 :
            /\ sz = Extent(obj) /\ tp = top /\ table = offsets
            /\ sz2 = Extent(obj') /\ tp2 = top' /\ t2 = offsets'
    OBVIOUS
  <1>2. Tiled(sz, tp) /\ Tiled(sz2, tp2) /\ EntriesOK(sz, tp.old, table)
    BY <1>1 DEF IInv, OffsetsOK
  <1>3. ASSUME NEW a \in DOMAIN sz2 \ {x}, a >= Start.old
        PROVE  a \in DOMAIN sz /\ sz2[a] = sz[a]
    <2>1. a \in DOMAIN obj' \ {x} /\ IsOld(a)
      BY <1>1, <1>3 DEF Extent, IsOld
    <2>2. a \in DOMAIN obj /\ Len(obj'[a].f) = Len(obj[a].f)
      BY <2>1 DEF OldStays
    <2> QED BY <1>1, <2>1, <2>2 DEF Extent
  <1>4. EntriesOK(sz2, tp2.old, t2)
    <2>1. tp.old <= tp2.old
      BY <1>1 DEF OldStays
    <2>2. x \in DOMAIN sz2 /\ x >= Start.old /\ n = sz2[x]
      BY <1>1 DEF Extent, IsOld
    <2>3. t2 = record_object(table, x, n)
      BY <1>1
    <2> QED BY <1>2, <1>3, <2>1, <2>2, <2>3, EntriesRecorded
  <1> QED BY <1>1, <1>4 DEF OffsetsOK

LEMMA OffsetsRebuilt == ASSUME IInv, IInv', OffsetsOK, FullGc PROVE OffsetsOK'
  <1>1. PICK p, tp, sz2, tp2, table, t2, words :
            /\ p = obj' /\ tp = top /\ table = offsets
            /\ sz2 = Extent(p) /\ tp2 = top' /\ t2 = offsets'
            /\ words = [b \in {x \in DOMAIN sz2 : x >= Start.old} |-> sz2[b]]
    OBVIOUS
  <1>2. Tiled(sz2, tp2) /\ tp.old \in Nat
    BY <1>1, SpaceFacts DEF IInv
  <1>3. \A c \in Cards : tp.old <= CardBase(c) => table[c] = 0
    BY <1>1 DEF OffsetsOK, EntriesOK
  <1>4. [b \in {x \in DOMAIN p : IsOld(x)} |-> Len(p[b].f) + 1] = words
    BY <1>1 DEF Extent, IsOld
  <1>5. t2 = record_objects(clear_through(table, tp.old), words)
    BY <1>1, <1>4 DEF FullGc
  <1>6. EntriesOK(sz2, tp2.old, t2)
    <2>1. PICK t : t = tp.old
      OBVIOUS
    <2> QED BY <1>1, <1>2, <1>3, <1>5, <2>1, EntriesRebuilt
  <1> QED BY <1>1, <1>6 DEF OffsetsOK

(* An object is placed. *)
LEMMA PlaceOffsets ==
    ASSUME IInv, IInv', OffsetsOK, NEW s \in {"eden", "old"}, InitObjectAt(top[s], s),
           offsets' = IF s = "old" THEN record_object(offsets, top.old, req.n + 1) ELSE offsets
    PROVE  OffsetsOK'
  <1>1. PICK a, n, x : a = top[s] /\ n = req.n /\ x = Fresh(n, root[0])
    OBVIOUS
  <1>2. TypeOK /\ Tiled(Extent(obj), top)
    BY DEF IInv
  <1>3. n \in Nat
    BY <1>1, <1>2, ReqFacts
  <1>4. obj' = Added(obj, a, x) /\ top' = [top EXCEPT ![s] = a + n + 1]
    BY <1>1 DEF InitObjectAt, Added, Fresh
  <1>5. /\ DOMAIN obj' = DOMAIN obj \cup {a} /\ obj'[a] = x
        /\ \A b \in DOMAIN obj : b # a => obj'[b] = obj[b]
    BY <1>4 DEF Added
  <1>6. Len(x.f) = n
    BY <1>1, <1>3 DEF Fresh
  <1>7. /\ a \in Nat /\ top.old \in Nat /\ Start.old <= top.old /\ top \in [Spaces -> Nat]
        /\ s \in Spaces /\ "old" \in Spaces
    BY <1>1, <1>2, SpaceFacts DEF TypeOK, Spaces
  <1>8. top'.old >= top.old
    <2>1. CASE s = "old"
      <3>1. top'.old = a + n + 1 /\ a = top.old
        BY <1>1, <1>4, <1>7, <2>1
      <3> QED BY <1>3, <1>7, <3>1
    <2>2. CASE s = "eden"
      BY <1>4, <1>7, <2>2
    <2> QED BY <2>1, <2>2
  <1>9. CASE s = "old"
    <2>1. a \in DOMAIN obj' /\ IsOld(a) /\ a = top.old
      BY <1>1, <1>5, <1>7, <1>9 DEF IsOld
    <2>2. OldStays(a)
      BY <1>5, <1>7, <1>8, <1>9 DEF OldStays
    <2>3. PICK m : m = Len(obj'[a].f) + 1
      OBVIOUS
    <2>4. offsets' = record_object(offsets, a, m)
      BY <1>1, <1>5, <1>6, <1>9, <2>1, <2>3
    <2> QED BY <2>1, <2>2, <2>3, <2>4, OffsetsRecord
  <1>10. CASE s = "eden"
    <2>1. ~IsOld(a)
      <3>1. Tiled(Extent(obj'), top') /\ a \in DOMAIN Extent(obj') /\ Extent(obj')[a] = n + 1
        BY <1>5, <1>6 DEF IInv, Extent
      <3>2. top'.eden = a + n + 1
        BY <1>4, <1>7, <1>10
      <3>3. top'.eden <= End.eden /\ End.eden <= Start.old /\ End.eden \in Nat /\ Start.old \in Nat
        BY <1>7, <1>10, <3>1, Layout DEF Tiled, TilingTyped
      <3> QED BY <1>3, <1>7, <3>2, <3>3 DEF IsOld
    <2>2. OldStays(0)
      BY <1>5, <1>7, <1>8, <2>1 DEF OldStays
    <2>3. offsets' = offsets
      BY <1>10
    <2> QED BY <2>2, <2>3, OffsetsStay
  <1> QED BY <1>9, <1>10

(* The heap after a visit, before the visited location is written: what    *)
(* there was, and a copy if the visit makes one.                           *)
CopyMade(v, m, o2) ==
    /\ v \in DOMAIN obj /\ Target(v) \in {to, "old"} /\ m = top[Target(v)]
    /\ m \notin DOMAIN obj /\ DOMAIN o2 = DOMAIN obj \cup {m}
    /\ Len(o2[m].f) + 1 = Size(v) /\ Size(v) \in Nat \ {0}

HeapVisited(v, m, o2) ==
    /\ Objects(o2) /\ m \in Val
    /\ DOMAIN obj \subseteq DOMAIN o2 /\ \A a \in DOMAIN obj : o2[a] = obj[a]
    /\ IF Copies(v) THEN CopyMade(v, m, o2) ELSE o2 = obj

LEMMA AfterVisit ==
    ASSUME IInv, NEW v \in DOMAIN obj \cup {0}, NEW m, m = Moved(v), NEW o2, o2 = ObjAfter(v)
    PROVE  HeapVisited(v, m, o2)
  <1>1. TypeOK /\ AreFunctions /\ Tiled(Extent(obj), top) /\ Objects(obj)
    BY ObjIsObjects DEF IInv
  <1>2. CASE ~Copies(v)
    <2>1. o2 = obj /\ m = IF v \in DOMAIN fwd THEN fwd[v] ELSE v
      BY <1>2 DEF ObjAfter, Moved
    <2>2. m \in Val
      BY <1>1, <2>1 DEF TypeOK, Val
    <2> QED BY <1>1, <1>2, <2>1, <2>2 DEF HeapVisited
  <1>3. CASE Copies(v)
    <2>1. v \in DOMAIN obj /\ Target(v) # "none"
      BY <1>3 DEF Copies, NeedsCopy, IsNew
    <2>2. PICK t, n, x, o, tp, tp2 : /\ t = Target(v) /\ n = Size(v) /\ x = CopyOf(v)
                                     /\ o = obj /\ tp = top /\ tp2 = Bumped(tp, t, n)
      OBVIOUS
    <2>3. /\ t \in {to, "old"} /\ t \in Spaces /\ tp[t] + n <= End[t]
          /\ x \in Object /\ x.f = obj[v].f
      BY <1>1, <2>1, <2>2, CopyFacts
    <2>4. n = Len(x.f) + 1 /\ n \in Nat \ {0}
      BY <1>1, <2>1, <2>2, <2>3, ObjFacts
    <2>5. m = tp[t] /\ o2 = Added(o, m, x)
      BY <1>3, <2>2 DEF Moved, ObjAfter, Added
    <2>6. Grew(o, o2, m, x) /\ m \in Addr
      <3>1. Objects(o) /\ Tiled(Extent(o), tp)
        BY <1>1, <2>2
      <3> QED BY <2>2, <2>3, <2>4, <2>5, <3>1, ObjectAdded
    <2>7. /\ m \notin DOMAIN o /\ Objects(o2) /\ DOMAIN o2 = DOMAIN o \cup {m} /\ o2[m] = x
          /\ \A b \in DOMAIN o : o2[b] = o[b]
      BY <2>6 DEF Grew
    <2>8. CopyMade(v, m, o2)
      BY <2>1, <2>2, <2>3, <2>4, <2>5, <2>7 DEF CopyMade
    <2> QED BY <1>3, <2>2, <2>6, <2>7, <2>8 DEF Val, HeapVisited
  <1> QED BY <1>2, <1>3

LEMMA VisitOffsets ==
    ASSUME IInv, IInv', OffsetsOK, NEW v \in DOMAIN obj \cup {0}, NEW next,
           ScavengeOop(v, next), NEW o2, o2 = ObjAfter(v), DOMAIN obj' = DOMAIN o2,
           \A a \in DOMAIN o2 : Len(obj'[a].f) = Len(o2[a].f)
    PROVE  OffsetsOK'
  <1>1. PICK m : m = Moved(v)
    OBVIOUS
  <1>2. HeapVisited(v, m, o2)
    BY <1>1, AfterVisit
  <1>3. /\ TypeOK /\ to \in Spaces /\ "old" \in Spaces /\ to # "old" /\ top \in [Spaces -> Nat]
        /\ top.old \in Nat /\ Start.old <= top.old
    BY SpaceFacts DEF IInv, TypeOK
  <1>4. CASE ~Copies(v)
    <2>1. o2 = obj /\ top' = top /\ offsets' = offsets
      BY <1>2, <1>4 DEF ScavengeOop, HeapVisited
    <2>2. OldStays(0)
      BY <1>3, <2>1 DEF OldStays
    <2> QED BY <2>1, <2>2, OffsetsStay
  <1>5. CASE Copies(v)
    <2>1. PICK t, n : t = Target(v) /\ n = Size(v)
      OBVIOUS
    <2>2. /\ t \in {to, "old"} /\ m = top[t] /\ m \notin DOMAIN obj
          /\ DOMAIN obj' = DOMAIN obj \cup {m} /\ Len(obj'[m].f) + 1 = n /\ n \in Nat \ {0}
          /\ \A a \in DOMAIN obj : Len(obj'[a].f) = Len(obj[a].f)
      BY <1>2, <1>5, <2>1 DEF HeapVisited, CopyMade
    <2>3. /\ top' = [top EXCEPT ![t] = top[t] + n]
          /\ offsets' = IF t = "old" THEN record_object(offsets, top.old, n) ELSE offsets
      BY <1>5, <2>1 DEF ScavengeOop
    <2>4. CASE t = "old"
      <3>1. m = top.old /\ IsOld(m) /\ m \in DOMAIN obj'
        BY <1>3, <2>2, <2>4 DEF IsOld
      <3>2. top'.old = top.old + n
        BY <1>3, <2>3, <2>4
      <3>3. OldStays(m)
        <4>1. top.old <= top'.old
          BY <1>3, <2>2, <3>2
        <4> QED BY <2>2, <4>1 DEF OldStays
      <3>4. PICK k : k = Len(obj'[m].f) + 1
        OBVIOUS
      <3>5. offsets' = record_object(offsets, m, k)
        BY <2>2, <2>3, <2>4, <3>1, <3>4
      <3> QED BY <3>1, <3>3, <3>4, <3>5, OffsetsRecord
    <2>5. CASE t = to
      <3>1. top'.old = top.old /\ top'[to] = m + n /\ offsets' = offsets
        BY <1>3, <2>2, <2>3, <2>5
      <3>2. ~IsOld(m)
        <4>1. Tiled(Extent(obj'), top')
          BY DEF IInv
        <4>2. /\ top'[to] <= End[to] /\ End[to] <= Start.old /\ End[to] \in Nat
              /\ Start.old \in Nat
          BY <1>3, <4>1, Layout DEF Tiled, TilingTyped
        <4>3. m \in Nat
          BY <1>3, <2>2, <2>5
        <4> QED BY <2>2, <3>1, <4>2, <4>3 DEF IsOld
      <3>3. OldStays(0)
        BY <1>3, <2>2, <3>1, <3>2 DEF OldStays
      <3> QED BY <3>1, <3>3, OffsetsStay
    <2> QED BY <2>2, <2>4, <2>5
  <1> QED BY <1>4, <1>5

(* A visit of a slot. *)
LEMMA SlotOffsets ==
    ASSUME IInv, IInv', OffsetsOK, NEW a \in DOMAIN obj, NEW i \in Slots(a), NEW v,
           v = obj[a].f[i], NEW next, ScavengeOop(v, next),
           obj' = [ObjAfter(v) EXCEPT ![a].f[i] = Moved(v)]
    PROVE  OffsetsOK'
  <1>1. PICK m, o2, p : m = Moved(v) /\ o2 = ObjAfter(v) /\ p = obj'
    OBVIOUS
  <1>2. v \in DOMAIN obj \cup {0}
    BY DEF IInv, RefsValid
  <1>3. Objects(o2) /\ m \in Val /\ DOMAIN obj \subseteq DOMAIN o2 /\ o2[a] = obj[a]
    BY <1>1, <1>2, AfterVisit DEF HeapVisited
  <1>4. a \in DOMAIN o2 /\ i \in 1..Len(o2[a].f) /\ p = Put(o2, a, i, m)
    BY <1>1, <1>3 DEF Slots, Put
  <1>5. Wrote(o2, p, a, i, m)
    BY <1>3, <1>4, SlotWritten
  <1>6. DOMAIN obj' = DOMAIN o2 /\ \A b \in DOMAIN o2 : Len(obj'[b].f) = Len(o2[b].f)
    BY <1>1, <1>5 DEF Wrote
  <1> QED BY <1>1, <1>2, <1>6, VisitOffsets

LEMMA ScanOffsets ==
    ASSUME IInv, IInv', OffsetsOK,
           ScanRoot \/ ScanCode \/ ScanObjectSlot \/ \E a \in DOMAIN obj : ScanCardSlot(a)
    PROVE  OffsetsOK'
  <1>0. TypeOK
    BY DEF IInv
  <1>1. CASE ScanRoot
    <2>1. PICK v, o2 : v = root[cur.i] /\ o2 = ObjAfter(v)
      OBVIOUS
    <2>2. obj' = o2 /\ ScavengeOop(v, "roots") /\ cur.i <= NRoots
      BY <1>1, <2>1 DEF ScanRoot
    <2>3. cur.i \in 0..NRoots
      BY <1>0, <2>2, HeapAssumption DEF TypeOK
    <2>4. v \in DOMAIN obj \cup {0}
      BY <2>1, <2>3, StackFacts
    <2> QED BY <2>1, <2>2, <2>4, VisitOffsets
  <1>2. CASE ScanCode
    <2>1. PICK v, o2 : v = code[cur.i] /\ o2 = ObjAfter(v)
      OBVIOUS
    <2>2. obj' = o2 /\ ScavengeOop(v, "code") /\ cur.i <= NCode /\ pc = "code"
      BY <1>2, <2>1 DEF ScanCode
    <2>3. cur.i \in Nat /\ cur.i >= 1
      BY <1>0, <2>2 DEF TypeOK, IInv, PhaseInv, FrontsOK, Phases
    <2>4. cur.i \in 1..NCode
      BY <2>2, <2>3, HeapAssumption
    <2>5. v \in DOMAIN obj \cup {0}
      BY <2>1, <2>4, StackFacts
    <2> QED BY <2>1, <2>2, <2>5, VisitOffsets
  <1>3. CASE ScanObjectSlot
    <2>1. PICK a, i, v : a = cur.w /\ i = cur.i /\ v = obj[a].f[i]
      OBVIOUS
    <2>2. /\ pc = "cheney" /\ a # 0 /\ i \in Slots(a) /\ ScavengeOop(v, "cheney")
          /\ obj' = [ObjAfter(v) EXCEPT ![a].f[i] = Moved(v)]
      BY <1>3, <2>1 DEF ScanObjectSlot
    <2>3. a \in DOMAIN obj
      BY <2>1, <2>2 DEF IInv, PhaseInv, FrontsOK, Phases
    <2> QED BY <2>1, <2>2, <2>3, SlotOffsets
  <1>4. CASE \E a \in DOMAIN obj : ScanCardSlot(a)
    <2>1. PICK a \in DOMAIN obj : ScanCardSlot(a)
      BY <1>4
    <2>2. PICK i, v : i = cur.w - a /\ v = obj[a].f[i]
      OBVIOUS
    <2>3. /\ i \in Slots(a) /\ ScavengeOop(v, "cards")
          /\ obj' = [ObjAfter(v) EXCEPT ![a].f[i] = Moved(v)]
      BY <2>1, <2>2 DEF ScanCardSlot, SlotAt
    <2> QED BY <2>2, <2>3, SlotOffsets
  <1> QED BY <1>1, <1>2, <1>3, <1>4

LEMMA FinishOffsets == ASSUME IInv, IInv', OffsetsOK, FinishScavenge PROVE OffsetsOK'
  <1>1. /\ obj' = [a \in {b \in DOMAIN obj : ~Vacated(b)} |-> obj[a]] /\ offsets' = offsets
        /\ top' = [top EXCEPT !.eden = Start.eden, ![from] = Start[from]]
    BY DEF FinishScavenge
  <1>2. top'.old = top.old /\ top.old \in Nat
    <2>1. TypeOK
      BY DEF IInv
    <2>2. from # "old" /\ top \in [Spaces -> Nat] /\ "old" \in Spaces /\ top.old \in Nat
      BY <2>1, SpaceFacts DEF TypeOK
    <2> QED BY <1>1, <2>2
  <1>3. OldStays(0)
    BY <1>1, <1>2 DEF OldStays
  <1> QED BY <1>1, <1>3, OffsetsStay

(* A store changes the length of no object. *)
LEMMA StoreOffsets ==
    ASSUME IInv, IInv', OffsetsOK, NEW a \in Stack \ {0}, NEW i \in Slots(a),
           NEW v \in Stack \cup {0}, Store(a, i, v) \/ RuntimeStore(a, i, v)
    PROVE  OffsetsOK'
  <1>1. PICK o, p : o = obj /\ p = obj'
    OBVIOUS
  <1>2. obj' = [obj EXCEPT ![a].f[i] = v] /\ top' = top /\ offsets' = offsets
    BY DEF Store, RuntimeStore
  <1>3. TypeOK /\ Objects(o) /\ top.old \in Nat
    BY <1>1, ObjIsObjects, SpaceFacts DEF IInv
  <1>4. a \in DOMAIN o /\ v \in Val /\ i \in 1..Len(o[a].f) /\ p = Put(o, a, i, v)
    BY <1>1, <1>2, StackFacts DEF Slots, Put
  <1>5. Wrote(o, p, a, i, v)
    BY <1>3, <1>4, SlotWritten
  <1>6. OldStays(0)
    BY <1>1, <1>2, <1>3, <1>5 DEF Wrote, OldStays
  <1> QED BY <1>2, <1>6, OffsetsStay

(* The other steps leave objects, old top and table alone. *)
LEMMA QuietOffsets ==
    ASSUME IInv, IInv', OffsetsOK, UNCHANGED <<obj, offsets>>, top'.old = top.old
    PROVE  OffsetsOK'
  BY DEF OffsetsOK

LEMMA NextOffsets == ASSUME IInv, IInv', OffsetsOK, [Next]_vars PROVE OffsetsOK'
  <1>1. CASE UNCHANGED vars
    BY <1>1, QuietOffsets DEF vars, heapVars
  <1>2. CASE Mutate
    <2>1. CASE \E r \in 1..NRoots, v \in Stack \cup {0} : Move(r, v)
      BY <2>1, QuietOffsets DEF Move, heapVars
    <2>2. CASE \E r \in 1..NRoots, a \in Stack \ {0} : \E i \in Slots(a) : Load(r, a, i)
      BY <2>2, QuietOffsets DEF Load, heapVars
    <2>3. CASE \E c \in 1..NCode, v \in Stack \cup {0} : Embed(c, v)
      BY <2>3, QuietOffsets DEF Embed, heapVars
    <2>4. CASE \E a \in Stack \ {0}, v \in Stack \cup {0} : \E i \in Slots(a) :
                   Store(a, i, v) \/ RuntimeStore(a, i, v)
      BY <2>4, StoreOffsets
    <2>5. CASE \E n \in SlotCounts, r \in 1..NRoots, k \in Stack \cup {0} : Alloc(n, r, k)
      BY <2>5, QuietOffsets DEF Alloc, heapVars
    <2>6. CASE PrimGcScavenge
      BY <2>6, QuietOffsets DEF PrimGcScavenge, heapVars
    <2>7. CASE PrimGcFull
      BY <2>7, OffsetsRebuilt DEF PrimGcFull
    <2> QED BY <1>2, <2>1, <2>2, <2>3, <2>4, <2>5, <2>6, <2>7 DEF Mutate
  <1>3. CASE Cascade
    <2>1. CASE TryBumpEden
      <3>1. CASE BumpFits
        <4>1. InitObjectAt(top["eden"], "eden") /\ offsets' = offsets
          BY <2>1, <3>1 DEF TryBumpEden
        <4> QED BY <4>1, PlaceOffsets
      <3>2. CASE ~BumpFits
        BY <2>1, <3>2, QuietOffsets DEF TryBumpEden, heapVars
      <3> QED BY <3>1, <3>2
    <2>2. CASE TryOldAlloc
      <3>1. CASE OldFits(req.n + 1)
        <4>1. /\ InitObjectAt(top["old"], "old")
              /\ offsets' = record_object(offsets, top.old, req.n + 1)
          BY <2>2, <3>1 DEF TryOldAlloc
        <4> QED BY <4>1, PlaceOffsets
      <3>2. CASE ~OldFits(req.n + 1)
        BY <2>2, <3>2, QuietOffsets DEF TryOldAlloc, heapVars
      <3> QED BY <3>1, <3>2
    <2>3. CASE GrowOld
      BY <2>3, QuietOffsets DEF GrowOld
    <2>4. CASE LastResort
      BY <2>4, OffsetsRebuilt DEF LastResort
    <2>5. CASE EnsurePromotionGuarantee
      <3>1. CASE FullGc
        BY <3>1, OffsetsRebuilt
      <3>2. CASE UNCHANGED heapVars
        BY <3>2, QuietOffsets DEF heapVars
      <3> QED BY <2>5, <3>1, <3>2 DEF EnsurePromotionGuarantee
    <2>6. CASE GrowForGuarantee
      BY <2>6, QuietOffsets DEF GrowForGuarantee
    <2> QED BY <1>3, <2>1, <2>2, <2>3, <2>4, <2>5, <2>6 DEF Cascade
  <1>4. CASE Scavenge
    <2>1. CASE StartScavenge
      <3>1. top'.old = top.old
        <4>1. to # "old" /\ top' = [top EXCEPT ![to] = Start[to]]
          BY <2>1, SpaceFacts DEF StartScavenge, IInv
        <4> QED BY <4>1
      <3> QED BY <2>1, <3>1, QuietOffsets DEF StartScavenge
    <2>2. CASE RootsDone \/ CardsDone \/ CodeDone
      BY <2>2, QuietOffsets DEF RootsDone, CardsDone, CodeDone
    <2>3. CASE SkipCleanCard \/ SkipMarkWord \/ FinishCard
      BY <2>3, QuietOffsets DEF SkipCleanCard, SkipMarkWord, FinishCard
    <2>4. CASE PickObject \/ ObjectDone
      BY <2>4, QuietOffsets DEF PickObject, ObjectDone
    <2>5. CASE ScanRoot \/ ScanCode \/ ScanObjectSlot \/ \E a \in DOMAIN obj : ScanCardSlot(a)
      BY <2>5, ScanOffsets
    <2>6. CASE FinishScavenge
      BY <2>6, FinishOffsets
    <2> QED BY <1>4, <2>1, <2>2, <2>3, <2>4, <2>5, <2>6 DEF Scavenge
  <1> QED BY <1>1, <1>2, <1>3, <1>4 DEF Next

(* From every card below the old top, the chain of the offset table leads  *)
(* to the object over the card's base: dirty_card_scan never starts its    *)
(* walk in the middle of an object.                                        *)
THEOREM ChainsLeadToHeaders == Spec => []OffsetsResolve
  <1>1. Init => IInv /\ OffsetsOK
    BY InitIInv, InitOffsets
  <1>2. IInv /\ OffsetsOK /\ [Next]_vars => IInv' /\ OffsetsOK'
    BY NextIInv, NextOffsets
  <1>3. IInv /\ OffsetsOK => OffsetsResolve
    <2> SUFFICES ASSUME IInv, OffsetsOK, NEW c \in Cards, CardBase(c) < top.old
                 PROVE  \E a \in DOMAIN obj : /\ a <= CardBase(c) /\ CardBase(c) < a + Size(a)
                                              /\ resolve(c) = a
      BY DEF OffsetsResolve
    <2>1. PICK sz, tp : sz = Extent(obj) /\ tp = top
      OBVIOUS
    <2>2. Tiled(sz, tp) /\ EntriesOK(sz, tp.old, offsets) /\ CardBase(c) < tp.old
      BY <2>1 DEF IInv, OffsetsOK
    <2>3. PICK a \in DOMAIN sz : Over(a, sz[a], c)
      BY <2>2, CardCovered
    <2>4. resolve(c) = a
      BY <2>2, <2>3, ResolveLeads
    <2>5. a \in DOMAIN obj /\ sz[a] = Size(a)
      BY <2>1, <2>3 DEF Extent, Size
    <2> QED BY <2>3, <2>4, <2>5 DEF Over
  <1> QED BY <1>1, <1>2, <1>3, PTL DEF Spec

-----------------------------------------------------------------------------
(***************************************************************************)
(* The object store: what a program sees                                   *)
(***************************************************************************)

(* What a program sees of memory o: the identity of a reference, and the   *)
(* identities in the slots of an object.                                   *)
IdIn(o, v) == IF v = 0 THEN 0 ELSE IF v \in DOMAIN o THEN o[v].id ELSE -1
Shape(o, a) == [i \in 1..Len(o[a].f) |-> IdIn(o, o[a].f[i])]

(* Objects of one identity look the same, and are copies of each other     *)
(* that a scavenge makes: one of any two is forwarded.                     *)
IdsOK ==
    \A a, b \in DOMAIN obj : obj[a].id = obj[b].id =>
        /\ Shape(obj, a) = Shape(obj, b)
        /\ a # b => a \in DOMAIN fwd \/ b \in DOMAIN fwd

FwdIds == \A a \in DOMAIN fwd : obj[fwd[a]].id = obj[a].id

(* The klass handle names nothing that the stack does not.                 *)
KlassOK ==
    root[0] # 0 => /\ pc # "mutator" /\ ret # "mutator"
                   /\ \E r \in 1..NRoots : IdIn(obj, root[r]) = IdIn(obj, root[0])

(* An allocation is on its way. *)
InAlloc ==
    \/ pc \in Stages \ {"scavenge"}
    \/ pc \in Phases \cup {"scavenge"} /\ ret # "mutator"

ReqOK == InAlloc => req.n \in SlotCounts /\ req.dst \in 1..NRoots

StoreInv == IdsOK /\ FwdIds /\ KlassOK /\ ReqOK

Marked ==
    /\ Reach \subseteq DOMAIN obj
    /\ Roots \cap DOMAIN obj \subseteq Reach
    /\ RefsClosed(Reach)
    /\ \A S : Roots \cap DOMAIN obj \subseteq S /\ RefsClosed(S) => Reach \subseteq S

LEMMA MarkedNow == IInv => Marked
  <1> SUFFICES ASSUME IInv PROVE Marked
    OBVIOUS
  <1>1. IsFiniteSet(DOMAIN obj)
    BY ObjIsObjects DEF IInv
  <1> QED BY <1>1, ReachClosed, ReachLeast DEF Marked

LEMMA MarkedNext == IInv' => Marked'
  BY MarkedNow, PTL

(* The store that a graph g of identities shows through the roots. *)
Shows(g) ==
    /\ 0 \notin DOMAIN g
    /\ \A a \in Reach : obj[a].id \in DOMAIN g /\ g[obj[a].id] = Shape(obj, a)

StoreIsVisible == \A g : Shows(g) => StoreField = Abstract!Visible(StoreRef, g)

LEMMA RootIds ==
    ASSUME IInv, StoreInv, NEW g, Shows(g)
    PROVE  /\ \A r \in DOMAIN StoreRef : StoreRef[r] \in {obj[a].id : a \in Reach} \cup {0}
           /\ \A a \in Roots \cap DOMAIN obj : \E r \in DOMAIN StoreRef : StoreRef[r] = obj[a].id
  <1>1. TypeOK /\ RefsValid /\ Marked
    BY MarkedNow DEF IInv
  <1>2. NRoots \in Nat /\ NCode \in Nat
    BY HeapAssumption
  <1>3. /\ \A r \in 0..NRoots : root[r] \in Reach \cup {0}
        /\ \A c \in 1..NCode : code[c] \in Reach \cup {0}
    BY <1>1 DEF RefsValid, Roots, Marked
  <1>4. \A v \in Reach : v # 0 /\ IdOf(v) = obj[v].id
    BY <1>1 DEF IdOf, Marked, TypeOK, Addr
  <1>5. IdOf(0) = 0
    BY DEF IdOf
  <1>6. DOMAIN StoreRef = (1..NRoots) \cup {-c : c \in 1..NCode}
    BY DEF StoreRef
  <1>7. \A r \in 1..NRoots : r \in DOMAIN StoreRef /\ StoreRef[r] = IdOf(root[r])
    BY <1>2 DEF StoreRef
  <1>8. \A c \in 1..NCode : -c \in DOMAIN StoreRef /\ StoreRef[-c] = IdOf(code[c])
    BY <1>2 DEF StoreRef
  <1>9. ASSUME NEW r \in DOMAIN StoreRef
        PROVE  StoreRef[r] \in {obj[a].id : a \in Reach} \cup {0}
    <2>1. CASE r \in 1..NRoots
      BY <1>2, <1>3, <1>4, <1>5, <1>7, <2>1
    <2>2. CASE r \notin 1..NRoots
      <3>1. PICK c \in 1..NCode : r = -c
        BY <1>6, <2>2
      <3> QED BY <1>3, <1>4, <1>5, <1>8, <3>1
    <2> QED BY <2>1, <2>2
  <1>10. ASSUME NEW a \in Roots \cap DOMAIN obj
         PROVE  \E r \in DOMAIN StoreRef : StoreRef[r] = obj[a].id
    <2>1. a # 0 /\ IdOf(a) = obj[a].id
      BY <1>1, <1>4 DEF Marked
    <2>2. CASE \E r \in 1..NRoots : a = root[r]
      BY <1>7, <2>1, <2>2
    <2>3. CASE \E c \in 1..NCode : a = code[c]
      BY <1>8, <2>1, <2>3
    <2>4. CASE a = root[0]
      <3>1. PICK r \in 1..NRoots : IdIn(obj, root[r]) = IdIn(obj, root[0])
        BY <2>1, <2>4 DEF StoreInv, KlassOK
      <3>2. IdOf(root[r]) = IdOf(root[0])
        BY <3>1 DEF IdIn, IdOf
      <3> QED BY <1>7, <2>1, <2>4, <3>2
    <2>5. \A r \in 0..NRoots : r = 0 \/ r \in 1..NRoots
      BY <1>2
    <2> QED BY <2>2, <2>3, <2>4, <2>5 DEF Roots
  <1> QED BY <1>9, <1>10

LEMMA StoreNow == IInv /\ StoreInv => StoreIsVisible
  <1> SUFFICES ASSUME IInv, StoreInv, NEW g, Shows(g)
               PROVE  StoreField = Abstract!Visible(StoreRef, g)
    BY DEF StoreIsVisible
  <1>1. TypeOK /\ RefsValid /\ Marked
    BY MarkedNow DEF IInv
  <1>2. PICK L, D, p, o : /\ L = {obj[a].id : a \in Reach} /\ D = DOMAIN g /\ p = StoreRef
                          /\ o = obj
    OBVIOUS
  <1>3. /\ \A r \in DOMAIN p : p[r] \in L \cup {0}
        /\ \A a \in Roots \cap DOMAIN obj : \E r \in DOMAIN p : p[r] = obj[a].id
    BY <1>2, RootIds
  <1>4. L \subseteq D /\ 0 \notin D
    BY <1>2 DEF Shows
  <1>5. ASSUME NEW a \in Reach, NEW i \in Slots(a)
        PROVE  /\ i \in DOMAIN g[obj[a].id]
               /\ \/ obj[a].f[i] = 0 /\ g[obj[a].id][i] = 0
                  \/ obj[a].f[i] \in Reach /\ g[obj[a].id][i] = obj[obj[a].f[i]].id
    <2>1. obj[a].f[i] \in DOMAIN obj \cup {0} /\ (obj[a].f[i] # 0 => obj[a].f[i] \in Refs(a))
      BY <1>1 DEF RefsValid, Refs, Marked
    <2>2. obj[a].f[i] \in Reach \cup {0}
      BY <1>1, <2>1 DEF Marked, RefsClosed
    <2>3. g[obj[a].id] = Shape(obj, a)
      BY DEF Shows
    <2>4. i \in DOMAIN Shape(obj, a) /\ Shape(obj, a)[i] = IdIn(obj, obj[a].f[i])
      BY DEF Shape, Slots
    <2>5. \A v \in Reach : v # 0 /\ v \in DOMAIN obj
      BY <1>1 DEF Marked, TypeOK, Addr
    <2> QED BY <2>2, <2>3, <2>4, <2>5 DEF IdIn
  <1>6. ASSUME NEW S \in SUBSET D, Abstract!Closed(p, g, S), NEW x \in L PROVE x \in S
    <2> DEFINE T == {a \in Reach : obj[a].id \in S}
    <2>1. Roots \cap DOMAIN obj \subseteq T
      <3> SUFFICES ASSUME NEW a \in Roots \cap DOMAIN obj PROVE a \in T
        OBVIOUS
      <3>1. PICK r \in DOMAIN p : p[r] = obj[a].id
        BY <1>3
      <3>2. a \in Reach /\ p[r] \in D
        BY <1>1, <1>2, <1>4, <3>1 DEF Marked
      <3> QED BY <1>2, <1>6, <3>1, <3>2 DEF Abstract!Closed
    <2>2. RefsClosed(T)
      <3> SUFFICES ASSUME NEW a \in T, NEW b \in Refs(a), b \in DOMAIN obj PROVE b \in T
        BY DEF RefsClosed
      <3>1. PICK i \in Slots(a) : b = obj[a].f[i] /\ b # 0
        BY DEF Refs
      <3>2. b \in Reach /\ i \in DOMAIN g[obj[a].id] /\ g[obj[a].id][i] = obj[b].id
        BY <1>5, <3>1
      <3>3. obj[a].id \in S /\ obj[b].id \in D
        BY <1>2, <1>4, <3>2
      <3>4. obj[b].id \in S
        BY <1>2, <1>6, <3>2, <3>3 DEF Abstract!Closed
      <3> QED BY <3>2, <3>4
    <2>3. Reach \subseteq T
      <3> HIDE DEF T
      <3> QED BY <1>1, <2>1, <2>2 DEF Marked
    <2> QED BY <1>2, <2>3
  <1>7. Abstract!Closed(p, g, L)
    <2>1. \A r \in DOMAIN p : p[r] \in DOMAIN g => p[r] \in L
      BY <1>2, <1>3, <1>4
    <2>2. ASSUME NEW x \in L, NEW i \in DOMAIN g[x], g[x][i] \in DOMAIN g PROVE g[x][i] \in L
      <3>1. PICK a \in Reach : x = obj[a].id
        BY <1>2
      <3>2. DOMAIN g[x] = Slots(a)
        BY <3>1 DEF Shows, Shape, Slots
      <3> QED BY <1>2, <1>4, <1>5, <2>2, <3>1, <3>2
    <2> QED BY <2>1, <2>2 DEF Abstract!Closed
  <1>8. {y \in DOMAIN g : \A S \in SUBSET DOMAIN g : Abstract!Closed(p, g, S) => y \in S} = L
    BY <1>2, <1>4, <1>6, <1>7
  <1>9. Abstract!Visible(p, g) = [x \in L |-> g[x]]
    BY <1>8 DEF Abstract!Visible
  <1>10. ASSUME NEW x \in L
         PROVE  LET a == CHOOSE b \in Reach : obj[b].id = x
                IN  [i \in Slots(a) |-> IdOf(obj[a].f[i])] = g[x]
    <2>1. PICK a : a = CHOOSE b \in Reach : obj[b].id = x
      OBVIOUS
    <2>2. a \in Reach /\ obj[a].id = x
      BY <1>2, <2>1
    <2>3. g[x] = Shape(obj, a)
      BY <2>2 DEF Shows
    <2> QED BY <2>1, <2>3 DEF Shape, Slots, IdOf, IdIn
  <1>11. StoreField = [x \in L |-> g[x]]
    BY <1>2, <1>10 DEF StoreField
  <1> QED BY <1>2, <1>9, <1>11

LEMMA StoreNext == IInv' /\ StoreInv' => StoreIsVisible'
  BY StoreNow, PTL

(* Every object of memory p is, to the program, one of memory o. *)
SameObjects(o, p) ==
    \A b \in DOMAIN p : \E a \in DOMAIN o : p[b].id = o[a].id /\ Shape(p, b) = Shape(o, a)

(* A step that brings no new object and leaves the roots' identities alone *)
(* is invisible: all objects of the state before show the store before and *)
(* after.                                                                  *)
LEMMA Invisible ==
    ASSUME IInv, StoreInv, IInv', StoreInv', StoreRef' = StoreRef, SameObjects(obj, obj')
    PROVE  UNCHANGED <<StoreRef, StoreField>>
  <1>0. PICK g : g = [x \in UsedIds |-> Shape(obj, CHOOSE a \in DOMAIN obj : obj[a].id = x)]
    OBVIOUS
  <1>1. TypeOK /\ Marked /\ Marked' /\ IdsOK
    BY MarkedNow, MarkedNext DEF IInv, StoreInv
  <1>2. DOMAIN g = UsedIds /\ 0 \notin UsedIds
    BY <1>0, <1>1 DEF UsedIds, TypeOK, Object
  <1>3. ASSUME NEW a \in DOMAIN obj PROVE obj[a].id \in UsedIds /\ g[obj[a].id] = Shape(obj, a)
    <2>1. obj[a].id \in UsedIds
      BY DEF UsedIds
    <2>2. PICK b : b = CHOOSE c \in DOMAIN obj : obj[c].id = obj[a].id
      OBVIOUS
    <2>3. b \in DOMAIN obj /\ obj[b].id = obj[a].id
      BY <2>2
    <2>4. g[obj[a].id] = Shape(obj, b)
      BY <1>0, <2>1, <2>2
    <2> QED BY <1>1, <2>1, <2>3, <2>4 DEF IdsOK
  <1>4. Shows(g)
    BY <1>1, <1>2, <1>3 DEF Shows, Marked
  <1>5. Shows(g)'
    <2>1. ASSUME NEW b \in Reach'
          PROVE  obj'[b].id \in DOMAIN g /\ g[obj'[b].id] = Shape(obj', b)
      <3>1. b \in DOMAIN obj'
        BY <1>1 DEF Marked
      <3>2. PICK a \in DOMAIN obj : obj'[b].id = obj[a].id /\ Shape(obj', b) = Shape(obj, a)
        BY <3>1 DEF SameObjects
      <3> QED BY <1>2, <1>3, <3>2
    <2> QED BY <1>2, <2>1 DEF Shows, Shape, IdIn
  <1>6. StoreField = Abstract!Visible(StoreRef, g)
    BY <1>4, StoreNow DEF StoreIsVisible
  <1>7. StoreField' = Abstract!Visible(StoreRef', g)
    BY <1>5, StoreNext DEF StoreIsVisible
  <1> QED BY <1>6, <1>7

LEMMA InitStore == Init => Abstract!Init /\ StoreInv
  <1> SUFFICES ASSUME Init PROVE Abstract!Init /\ StoreInv
    OBVIOUS
  <1>1. DOMAIN obj = {} /\ DOMAIN fwd = {} /\ NRoots \in Nat /\ NCode \in Nat
    BY HeapAssumption DEF Init
  <1>2. StoreInv
    BY <1>1 DEF StoreInv, IdsOK, FwdIds, KlassOK, ReqOK, InAlloc, Stages, Phases, Init, AfterBump,
                AfterOld
  <1>3. Reach = {}
    BY <1>1, InitIInv, MarkedNow DEF Marked
  <1>4. StoreField = <<>>
    BY <1>3 DEF StoreField
  <1>5. StoreRef = [r \in (1..NRoots) \cup {-c : c \in 1..NCode} |-> 0]
    <2>1. \A r \in 1..NRoots : IdOf(root[r]) = 0
      BY DEF Init, IdOf
    <2>2. \A c \in 1..NCode : IdOf(code[c]) = 0
      BY DEF Init, IdOf
    <2>3. ASSUME NEW r \in (1..NRoots) \cup {-c : c \in 1..NCode}
          PROVE  (IF r > 0 THEN IdOf(root[r]) ELSE IdOf(code[-r])) = 0
      BY <1>1, <2>1, <2>2
    <2> QED BY <2>3 DEF StoreRef
  <1> QED BY <1>2, <1>4, <1>5 DEF Abstract!Init

-----------------------------------------------------------------------------
(***************************************************************************)
(* Collections                                                             *)
(***************************************************************************)

(* Memory p has every object of o, looking as it did. *)
Kept(o, p) ==
    /\ DOMAIN o \subseteq DOMAIN p
    /\ \A a \in DOMAIN o : p[a].id = o[a].id /\ Shape(p, a) = Shape(o, a)

LEMMA ShapeSame ==
    ASSUME NEW o, NEW p, NEW a, NEW b, Len(p[b].f) = Len(o[a].f),
           \A i \in 1..Len(o[a].f) : IdIn(p, p[b].f[i]) = IdIn(o, o[a].f[i])
    PROVE  Shape(p, b) = Shape(o, a)
  BY DEF Shape

(* A copy, and then possibly a slot that follows the object it named. *)
CopyLooks(v, m, o2) ==
    /\ Kept(obj, o2) /\ IdIn(o2, m) = IdIn(obj, v) /\ m \in DOMAIN o2 \cup {0}
    /\ \A b \in DOMAIN o2 \ DOMAIN obj :
          b = m /\ v \in DOMAIN obj /\ o2[b].id = obj[v].id /\ Shape(o2, b) = Shape(obj, v)

LEMMA CopySame ==
    ASSUME IInv, StoreInv, pc \in Phases, NEW v \in DOMAIN obj \cup {0}, NEW m, m = Moved(v),
           NEW o2, o2 = ObjAfter(v)
    PROVE  CopyLooks(v, m, o2)
  <1>1. TypeOK /\ RefsValid /\ FwdOK /\ FwdIds /\ 0 \notin DOMAIN obj /\ HeapVisited(v, m, o2)
    <2>1. TypeOK /\ RefsValid /\ FwdOK /\ FwdIds
      BY DEF IInv, StoreInv, PhaseInv
    <2>2. 0 \notin DOMAIN obj
      BY <2>1 DEF TypeOK, Addr
    <2>3. HeapVisited(v, m, o2)
      BY AfterVisit
    <2> QED BY <2>1, <2>2, <2>3
  <1>2. \A u \in DOMAIN obj \cup {0} : IdIn(o2, u) = IdIn(obj, u)
    BY <1>1 DEF HeapVisited, IdIn
  <1>3. Kept(obj, o2)
    <2>1. ASSUME NEW a \in DOMAIN obj PROVE o2[a].id = obj[a].id /\ Shape(o2, a) = Shape(obj, a)
      <3>1. o2[a] = obj[a]
        BY <1>1 DEF HeapVisited
      <3>2. \A i \in 1..Len(obj[a].f) : obj[a].f[i] \in DOMAIN obj \cup {0}
        BY <1>1 DEF RefsValid, Slots
      <3> QED BY <1>2, <3>1, <3>2, ShapeSame
    <2> QED BY <1>1, <2>1 DEF Kept, HeapVisited
  <1>4. CASE ~Copies(v)
    <2>1. o2 = obj /\ m = IF v \in DOMAIN fwd THEN fwd[v] ELSE v
      BY <1>4 DEF ObjAfter, Moved
    <2>2. IdIn(o2, m) = IdIn(obj, v) /\ m \in DOMAIN o2 \cup {0}
      <3>1. CASE v \in DOMAIN fwd
        BY <1>1, <2>1, <3>1 DEF FwdOK, FwdIds, IdIn
      <3>2. CASE v \notin DOMAIN fwd
        BY <2>1, <3>2
      <3> QED BY <3>1, <3>2
    <2> QED BY <1>3, <2>1, <2>2 DEF CopyLooks
  <1>5. CASE Copies(v)
    <2>1. v \in DOMAIN obj /\ m \notin DOMAIN obj /\ DOMAIN o2 = DOMAIN obj \cup {m} /\ m \in Val
      BY <1>1, <1>5 DEF HeapVisited, CopyMade
    <2>2. o2[m] = CopyOf(v)
      BY <1>5, <2>1 DEF ObjAfter
    <2>3. obj[v] \in Object
      BY <1>1, <2>1 DEF TypeOK
    <2>4. o2[m].id = obj[v].id /\ o2[m].f = obj[v].f
      BY <2>2, <2>3 DEF CopyOf, Object
    <2>5. Shape(o2, m) = Shape(obj, v)
      <3>1. \A i \in 1..Len(obj[v].f) : obj[v].f[i] \in DOMAIN obj \cup {0}
        BY <1>1, <2>1 DEF RefsValid, Slots
      <3> QED BY <1>2, <2>4, <3>1, ShapeSame
    <2>6. m # 0
      <3>1. m = top[Target(v)] /\ Target(v) \in {to, "old"}
        BY <1>1, <1>5 DEF HeapVisited, CopyMade
      <3>2. Target(v) \in Spaces /\ top[Target(v)] \in Nat /\ Start[Target(v)] <= top[Target(v)]
        BY <1>1, <3>1, SpaceFacts DEF TypeOK
      <3>3. Start[Target(v)] \in Nat \ {0}
        BY <3>2, Layout
      <3> QED BY <3>1, <3>2, <3>3
    <2>7. IdIn(o2, m) = IdIn(obj, v)
      BY <1>1, <2>1, <2>4, <2>6 DEF IdIn
    <2> QED BY <1>3, <2>1, <2>4, <2>5, <2>7 DEF CopyLooks
  <1> QED BY <1>4, <1>5

(* The slot that is visited is written. *)
SlotFollows(v, m, o2, p) ==
    \E a \in DOMAIN obj : \E i \in Slots(a) : v = obj[a].f[i] /\ p = Put(o2, a, i, m)

LEMMA VisitSame ==
    ASSUME IInv, StoreInv, pc \in Phases, NEW v \in DOMAIN obj \cup {0}, NEW m, m = Moved(v),
           NEW o2, o2 = ObjAfter(v), NEW p, p = o2 \/ SlotFollows(v, m, o2, p)
    PROVE  CopyLooks(v, m, p) /\ DOMAIN p = DOMAIN o2
  <1>1. CopyLooks(v, m, o2)
    BY CopySame
  <1>2. CASE p = o2
    BY <1>1, <1>2
  <1>3. CASE SlotFollows(v, m, o2, p)
    <2>0. PICK a \in DOMAIN obj : \E i \in Slots(a) : v = obj[a].f[i] /\ p = Put(o2, a, i, m)
      BY <1>3 DEF SlotFollows
    <2>1. PICK i \in Slots(a) : v = obj[a].f[i] /\ p = Put(o2, a, i, m)
      BY <2>0
    <2>2. HeapVisited(v, m, o2)
      BY AfterVisit
    <2>3. /\ Objects(o2) /\ m \in Val /\ a \in DOMAIN o2 /\ o2[a] = obj[a] /\ i \in 1..Len(o2[a].f)
      BY <2>2 DEF HeapVisited, Slots
    <2>4. Wrote(o2, p, a, i, m)
      BY <2>1, <2>3, SlotWritten
    <2>5. \A b \in DOMAIN o2 : p[b].id = o2[b].id
      BY <2>4 DEF Wrote
    <2>6. DOMAIN p = DOMAIN o2
      BY <2>4 DEF Wrote
    <2>7. \A u : IdIn(p, u) = IdIn(o2, u)
      BY <2>5, <2>6 DEF IdIn
    <2>8. IdIn(o2, m) = IdIn(o2, v)
      <3>1. IdIn(o2, v) = IdIn(obj, v)
        BY <1>1 DEF CopyLooks, Kept, IdIn
      <3> QED BY <1>1, <3>1 DEF CopyLooks
    <2>9. ASSUME NEW b \in DOMAIN o2 PROVE Shape(p, b) = Shape(o2, b)
      <3>1. Len(p[b].f) = Len(o2[b].f)
        BY <2>4 DEF Wrote
      <3>2. ASSUME NEW j \in 1..Len(o2[b].f) PROVE IdIn(p, p[b].f[j]) = IdIn(o2, o2[b].f[j])
        <4>1. p[b].f[j] = IF b = a /\ j = i THEN m ELSE o2[b].f[j]
          BY <2>4 DEF Wrote
        <4>2. o2[a].f[i] = v
          BY <2>1, <2>3
        <4> QED BY <2>7, <2>8, <4>1, <4>2
      <3> QED BY <3>1, <3>2, ShapeSame
    <2> QED BY <1>1, <2>5, <2>6, <2>7, <2>9 DEF CopyLooks, Kept
  <1> QED BY <1>2, <1>3

(* Identities stay unique up to forwarding when a copy is made. *)
LEMMA VisitIds ==
    ASSUME IInv, StoreInv, pc \in Phases, NEW v \in DOMAIN obj \cup {0}, NEW next,
           ScavengeOop(v, next), NEW m, m = Moved(v), NEW o2, o2 = ObjAfter(v),
           obj' = o2 \/ SlotFollows(v, m, o2, obj')
    PROVE  IdsOK' /\ FwdIds' /\ CopyLooks(v, m, obj') /\ SameObjects(obj, obj')
  <1>1. PICK p, F, o : p = obj' /\ F = DOMAIN fwd' /\ o = obj
    OBVIOUS
  <1>2. CopyLooks(v, m, p) /\ DOMAIN p = DOMAIN o2 /\ HeapVisited(v, m, o2)
    BY <1>1, VisitSame, AfterVisit
  <1>3. TypeOK /\ IdsOK /\ FwdIds /\ FwdOK /\ DOMAIN fwd \subseteq DOMAIN obj
    BY DEF IInv, StoreInv, PhaseInv, TypeOK
  <1>4. Kept(o, p)
    BY <1>1, <1>2 DEF CopyLooks
  <1>5. SameObjects(o, p)
    <2> SUFFICES ASSUME NEW b \in DOMAIN p
                 PROVE  \E a \in DOMAIN o : p[b].id = o[a].id /\ Shape(p, b) = Shape(o, a)
      BY DEF SameObjects
    <2>1. CASE b \in DOMAIN o
      BY <1>4, <2>1 DEF Kept
    <2>2. CASE b \notin DOMAIN o
      BY <1>1, <1>2, <2>2 DEF CopyLooks
    <2> QED BY <2>1, <2>2
  <1>6. DOMAIN fwd \subseteq F
    BY <1>1 DEF ScavengeOop
  <1>7. ASSUME NEW b \in DOMAIN p \ DOMAIN o
        PROVE  b = m /\ v \in DOMAIN o /\ p[b].id = o[v].id /\ Shape(p, b) = Shape(o, v) /\ v \in F
    <2>1. b = m /\ v \in DOMAIN o /\ p[b].id = o[v].id /\ Shape(p, b) = Shape(o, v)
      BY <1>1, <1>2 DEF CopyLooks
    <2>2. Copies(v)
      BY <1>1, <1>2 DEF HeapVisited
    <2> QED BY <1>1, <2>1, <2>2 DEF ScavengeOop
  <1>8. v \in F \/ DOMAIN p \subseteq DOMAIN o
    BY <1>7
  <1>9. ASSUME NEW a \in DOMAIN p, NEW b \in DOMAIN p, p[a].id = p[b].id
        PROVE  Shape(p, a) = Shape(p, b) /\ (a # b => a \in F \/ b \in F)
    <2>1. CASE a \in DOMAIN o /\ b \in DOMAIN o
      BY <1>1, <1>3, <1>4, <1>6, <1>9, <2>1 DEF Kept, IdsOK
    <2>2. ASSUME NEW c \in DOMAIN p, c \notin DOMAIN o, NEW d \in DOMAIN p, p[c].id = p[d].id
          PROVE  Shape(p, c) = Shape(p, d) /\ (c # d => d \in F)
      <3>1. c = m /\ v \in DOMAIN o /\ p[c].id = o[v].id /\ Shape(p, c) = Shape(o, v) /\ v \in F
        BY <1>7, <2>2
      <3>2. CASE d \notin DOMAIN o
        BY <1>7, <3>1, <3>2
      <3>3. CASE d \in DOMAIN o
        <4>1. o[d].id = o[v].id /\ Shape(p, d) = Shape(o, d)
          BY <1>4, <2>2, <3>1, <3>3 DEF Kept
        <4>2. Shape(o, d) = Shape(o, v) /\ (d # v => d \in DOMAIN fwd \/ v \in DOMAIN fwd)
          BY <1>1, <1>3, <3>1, <3>3, <4>1 DEF IdsOK
        <4>3. v \notin DOMAIN fwd
          <5>1. Copies(v)
            BY <1>1, <1>2, <2>2 DEF HeapVisited
          <5> QED BY <5>1 DEF Copies, NeedsCopy
        <4> QED BY <1>6, <3>1, <4>1, <4>2, <4>3
      <3> QED BY <3>2, <3>3
    <2>3. CASE a \notin DOMAIN o
      BY <1>9, <2>2, <2>3
    <2>4. CASE b \notin DOMAIN o
      <3>1. Shape(p, b) = Shape(p, a) /\ (b # a => a \in F)
        BY <1>9, <2>2, <2>4
      <3> QED BY <3>1
    <2> QED BY <2>1, <2>3, <2>4
  <1>10. ASSUME NEW a \in F PROVE p[fwd'[a]].id = p[a].id
    <2>1. CASE ~Copies(v)
      <3>1. fwd' = fwd
        BY <2>1 DEF ScavengeOop
      <3>2. a \in DOMAIN o /\ fwd[a] \in DOMAIN o /\ o[fwd[a]].id = o[a].id
        BY <1>1, <1>3, <3>1 DEF FwdOK, FwdIds
      <3> QED BY <1>4, <3>1, <3>2 DEF Kept
    <2>2. CASE Copies(v)
      <3>1. fwd' = [c \in DOMAIN fwd \cup {v} |-> IF c = v THEN m ELSE fwd[c]]
        BY <2>2 DEF ScavengeOop
      <3>2. v \in DOMAIN o /\ m \in DOMAIN p /\ m \notin DOMAIN o
        BY <1>1, <1>2, <2>2 DEF HeapVisited, CopyMade
      <3>3. CASE a = v
        BY <1>4, <1>7, <3>1, <3>2, <3>3 DEF Kept
      <3>4. CASE a # v
        <4>1. a \in DOMAIN fwd /\ fwd'[a] = fwd[a]
          BY <1>1, <3>1, <3>4
        <4>2. a \in DOMAIN o /\ fwd[a] \in DOMAIN o /\ o[fwd[a]].id = o[a].id
          BY <1>1, <1>3, <4>1 DEF FwdOK, FwdIds
        <4> QED BY <1>4, <4>1, <4>2 DEF Kept
      <3> QED BY <3>3, <3>4
    <2> QED BY <2>1, <2>2
  <1>11. IdsOK'
    BY <1>1, <1>9 DEF IdsOK, Shape, IdIn
  <1>12. FwdIds'
    BY <1>1, <1>10 DEF FwdIds
  <1> QED BY <1>1, <1>2, <1>5, <1>11, <1>12

LEMMA RefsSame ==
    ASSUME \A r \in 1..NRoots : IdIn(obj', root'[r]) = IdIn(obj, root[r]),
           \A c \in 1..NCode : IdIn(obj', code'[c]) = IdIn(obj, code[c])
    PROVE  StoreRef' = StoreRef
  <1>1. NRoots \in Nat /\ NCode \in Nat
    BY HeapAssumption
  <1>2. \A r \in 1..NRoots : IdOf(root[r])' = IdOf(root[r])
    BY DEF IdIn, IdOf
  <1>3. \A c \in 1..NCode : IdOf(code[c])' = IdOf(code[c])
    BY DEF IdIn, IdOf
  <1>4. ASSUME NEW r \in (1..NRoots) \cup {-c : c \in 1..NCode}
        PROVE  (IF r > 0 THEN IdOf(root[r]) ELSE IdOf(code[-r]))'
                 = IF r > 0 THEN IdOf(root[r]) ELSE IdOf(code[-r])
    <2>1. CASE r > 0
      <3>1. r \in 1..NRoots
        BY <1>1, <2>1
      <3> QED BY <1>2, <2>1, <3>1
    <2>2. CASE ~(r > 0)
      <3>1. -r \in 1..NCode
        BY <1>1, <2>2
      <3>2. IdOf(code[-r])' = IdOf(code[-r])
        BY <1>3, <3>1
      <3> QED BY <2>2, <3>2
    <2> QED BY <2>1, <2>2
  <1> QED BY <1>4 DEF StoreRef

(* A step of the collector: what it leaves of roots, handle and request. *)
LEMMA CollectorStep ==
    ASSUME IInv, IInv', StoreInv, IdsOK', FwdIds', SameObjects(obj, obj'),
           \A r \in 0..NRoots : IdIn(obj', root'[r]) = IdIn(obj, root[r]),
           \A r \in 0..NRoots : root[r] = 0 => root'[r] = 0,
           \A c \in 1..NCode : IdIn(obj', code'[c]) = IdIn(obj, code[c]),
           ret' \in {ret, "rebump"} \/ root[0] = 0, root[0] # 0 => pc' # "mutator",
           req' = req, InAlloc' => InAlloc
    PROVE  StoreInv' /\ UNCHANGED <<StoreRef, StoreField>>
  <1>1. NRoots \in Nat /\ 0 \in 0..NRoots /\ \A r \in 1..NRoots : r \in 0..NRoots
    BY HeapAssumption
  <1>2. StoreRef' = StoreRef
    BY <1>1, RefsSame
  <1>3. KlassOK'
    <2> SUFFICES ASSUME root'[0] # 0
                 PROVE  /\ pc' # "mutator" /\ ret' # "mutator"
                        /\ \E r \in 1..NRoots : IdIn(obj', root'[r]) = IdIn(obj', root'[0])
      BY DEF KlassOK, IdIn
    <2>1. root[0] # 0
      BY <1>1
    <2>2. KlassOK
      BY DEF StoreInv
    <2> QED BY <1>1, <2>1, <2>2 DEF KlassOK
  <1>4. ReqOK'
    BY DEF StoreInv, ReqOK
  <1>5. StoreInv'
    BY <1>3, <1>4 DEF StoreInv
  <1> QED BY <1>2, <1>5, Invisible

(* A visit follows the identity of what it visits. *)
LEMMA VisitStore ==
    ASSUME IInv, IInv', StoreInv, pc \in Phases, NEW v \in DOMAIN obj \cup {0}, NEW next,
           next = pc, ScavengeOop(v, next), NEW m, m = Moved(v), NEW o2, o2 = ObjAfter(v),
           obj' = o2 \/ SlotFollows(v, m, o2, obj'),
           \A r \in 0..NRoots : root'[r] = root[r] \/ (root[r] = v /\ root'[r] = m),
           \A c \in 1..NCode : code'[c] = code[c] \/ (code[c] = v /\ code'[c] = m),
           UNCHANGED <<ret, req>>
    PROVE  StoreInv' /\ UNCHANGED <<StoreRef, StoreField>>
  <1>1. IdsOK' /\ FwdIds' /\ CopyLooks(v, m, obj') /\ SameObjects(obj, obj')
    BY VisitIds
  <1>2. pc' = pc
    BY DEF ScavengeOop, IInv, NoDoubleVisit
  <1>3. /\ \A r \in 0..NRoots : root[r] \in DOMAIN obj \cup {0}
        /\ \A c \in 1..NCode : code[c] \in DOMAIN obj \cup {0}
    BY DEF IInv, RefsValid, Roots
  <1>4. IdIn(obj', m) = IdIn(obj, v) /\ \A u \in DOMAIN obj \cup {0} : IdIn(obj', u) = IdIn(obj, u)
    BY <1>1 DEF CopyLooks, Kept, IdIn
  <1>5. /\ \A r \in 0..NRoots : IdIn(obj', root'[r]) = IdIn(obj, root[r])
        /\ \A c \in 1..NCode : IdIn(obj', code'[c]) = IdIn(obj, code[c])
    BY <1>3, <1>4
  <1>6. v = 0 => m = 0
    <2>1. 0 \notin DOMAIN fwd
      BY DEF IInv, TypeOK, Addr
    <2> QED BY <2>1 DEF Moved, Copies, NeedsCopy, IsNew
  <1>7. pc # "mutator"
    BY DEF Phases
  <1>8. InAlloc' => InAlloc
    BY <1>2 DEF InAlloc
  <1> QED BY <1>1, <1>2, <1>5, <1>6, <1>7, <1>8, CollectorStep

LEMMA ScanStore ==
    ASSUME IInv, IInv', StoreInv,
           ScanRoot \/ ScanCode \/ ScanObjectSlot \/ \E a \in DOMAIN obj : ScanCardSlot(a)
    PROVE  StoreInv' /\ UNCHANGED <<StoreRef, StoreField>>
  <1>0. TypeOK
    BY DEF IInv
  <1>1. CASE ScanRoot
    <2>1. PICK v, m, o2 : v = root[cur.i] /\ m = Moved(v) /\ o2 = ObjAfter(v)
      OBVIOUS
    <2>2. /\ obj' = o2 /\ ScavengeOop(v, "roots") /\ cur.i <= NRoots /\ pc = "roots"
          /\ root' = [root EXCEPT ![cur.i] = m] /\ UNCHANGED <<code, ret, req>>
      BY <1>1, <2>1 DEF ScanRoot, scanFrame
    <2>3. cur.i \in 0..NRoots /\ root \in [0..NRoots -> Val]
      BY <1>0, <2>2, HeapAssumption DEF TypeOK
    <2>4. v \in DOMAIN obj \cup {0}
      BY <2>1, <2>3, StackFacts
    <2>5. \A r \in 0..NRoots : root'[r] = root[r] \/ (root[r] = v /\ root'[r] = m)
      BY <2>1, <2>2, <2>3
    <2>6. pc \in Phases
      BY <2>2 DEF Phases
    <2> QED BY <2>1, <2>2, <2>4, <2>5, <2>6, VisitStore
  <1>2. CASE ScanCode
    <2>1. PICK v, m, o2 : v = code[cur.i] /\ m = Moved(v) /\ o2 = ObjAfter(v)
      OBVIOUS
    <2>2. /\ obj' = o2 /\ ScavengeOop(v, "code") /\ cur.i <= NCode /\ pc = "code"
          /\ code' = [code EXCEPT ![cur.i] = m] /\ UNCHANGED <<root, ret, req>>
      BY <1>2, <2>1 DEF ScanCode, scanFrame
    <2>3. cur.i \in Nat /\ cur.i >= 1 /\ code \in [1..NCode -> Val] /\ pc \in Phases
      BY <1>0, <2>2 DEF TypeOK, IInv, PhaseInv, FrontsOK, Phases
    <2>4. cur.i \in 1..NCode
      BY <2>2, <2>3, HeapAssumption
    <2>5. v \in DOMAIN obj \cup {0}
      BY <2>1, <2>4, StackFacts
    <2>6. \A c \in 1..NCode : code'[c] = code[c] \/ (code[c] = v /\ code'[c] = m)
      BY <2>1, <2>2, <2>3, <2>4
    <2> QED BY <2>1, <2>2, <2>3, <2>5, <2>6, VisitStore
  <1>3. CASE ScanObjectSlot
    <2>1. PICK a, i, v, m, o2 : /\ a = cur.w /\ i = cur.i /\ v = obj[a].f[i] /\ m = Moved(v)
                                /\ o2 = ObjAfter(v)
      OBVIOUS
    <2>2. /\ pc = "cheney" /\ a # 0 /\ i \in Slots(a) /\ ScavengeOop(v, "cheney")
          /\ obj' = [o2 EXCEPT ![a].f[i] = m] /\ UNCHANGED <<root, code, ret, req>>
      BY <1>3, <2>1 DEF ScanObjectSlot, scanFrame
    <2>3. a \in DOMAIN obj /\ pc \in Phases
      BY <2>1, <2>2 DEF IInv, PhaseInv, FrontsOK, Phases
    <2>4. SlotFollows(v, m, o2, obj')
      BY <2>1, <2>2, <2>3 DEF SlotFollows, Put
    <2>5. v \in DOMAIN obj \cup {0}
      BY <2>1, <2>2, <2>3 DEF IInv, RefsValid
    <2> QED BY <2>1, <2>2, <2>3, <2>4, <2>5, VisitStore
  <1>4. CASE \E a \in DOMAIN obj : ScanCardSlot(a)
    <2>1. PICK a \in DOMAIN obj : ScanCardSlot(a)
      BY <1>4
    <2>2. PICK i, v, m, o2 : /\ i = cur.w - a /\ v = obj[a].f[i] /\ m = Moved(v)
                             /\ o2 = ObjAfter(v)
      OBVIOUS
    <2>3. /\ pc = "cards" /\ i \in Slots(a) /\ ScavengeOop(v, "cards")
          /\ obj' = [o2 EXCEPT ![a].f[i] = m] /\ UNCHANGED <<root, code, ret, req>>
      BY <2>1, <2>2 DEF ScanCardSlot, SlotAt, scanFrame, CardInRange
    <2>4. SlotFollows(v, m, o2, obj')
      BY <2>1, <2>2, <2>3 DEF SlotFollows, Put
    <2>5. v \in DOMAIN obj \cup {0} /\ pc \in Phases
      BY <2>1, <2>2, <2>3 DEF IInv, RefsValid, Phases
    <2> QED BY <2>2, <2>3, <2>4, <2>5, VisitStore
  <1> QED BY <1>1, <1>2, <1>3, <1>4

(* The flip drops only what was forwarded or is not referred to. *)
LEMMA FinishStore ==
    ASSUME IInv, IInv', StoreInv, FinishScavenge
    PROVE  StoreInv' /\ UNCHANGED <<StoreRef, StoreField>>
  <1>1. PICK o, p : o = obj /\ p = obj'
    OBVIOUS
  <1>2. /\ p = [a \in {b \in DOMAIN o : ~Vacated(b)} |-> o[a]] /\ fwd' = <<>> /\ pc' = ret
        /\ pc = "cheney" /\ UNCHANGED <<ret, root, code, req>>
    BY <1>1 DEF FinishScavenge
  <1>3. /\ TypeOK /\ FwdOK /\ RefsValid' /\ IdsOK /\ KlassOK
    BY <1>2 DEF IInv, StoreInv, PhaseInv, Phases
  <1>4. /\ DOMAIN p \subseteq DOMAIN o /\ \A a \in DOMAIN p : p[a] = o[a] /\ a \notin DOMAIN fwd
    BY <1>1, <1>2, <1>3 DEF FwdOK
  <1>5. \A u \in DOMAIN p \cup {0} : IdIn(p, u) = IdIn(o, u)
    BY <1>4 DEF IdIn
  <1>6. /\ \A a \in DOMAIN p : \A i \in 1..Len(p[a].f) : p[a].f[i] \in DOMAIN p \cup {0}
        /\ \A r \in 0..NRoots : root'[r] \in DOMAIN p \cup {0}
        /\ \A c \in 1..NCode : code'[c] \in DOMAIN p \cup {0}
    BY <1>1, <1>3 DEF RefsValid, Roots, Slots
  <1>7. ASSUME NEW a \in DOMAIN p PROVE Shape(p, a) = Shape(o, a)
    <2>1. p[a] = o[a]
      BY <1>4
    <2>2. \A i \in 1..Len(o[a].f) : IdIn(p, p[a].f[i]) = IdIn(o, o[a].f[i])
      BY <1>5, <1>6, <2>1
    <2> QED BY <2>1, <2>2, ShapeSame
  <1>8. SameObjects(o, p)
    BY <1>4, <1>7 DEF SameObjects
  <1>9. DOMAIN fwd' = {}
    BY <1>2
  <1>10. FwdIds'
    BY <1>9 DEF FwdIds
  <1>11. IdsOK'
    <2>1. \A a, b \in DOMAIN p : p[a].id = p[b].id => Shape(p, a) = Shape(p, b) /\ a = b
      BY <1>1, <1>3, <1>4, <1>7 DEF IdsOK
    <2> QED BY <1>1, <2>1 DEF IdsOK, Shape, IdIn
  <1>12. /\ \A r \in 0..NRoots : IdIn(obj', root'[r]) = IdIn(obj, root[r])
         /\ \A c \in 1..NCode : IdIn(obj', code'[c]) = IdIn(obj, code[c])
    BY <1>1, <1>2, <1>5, <1>6
  <1>13. root[0] # 0 => pc' # "mutator"
    BY <1>2, <1>3 DEF KlassOK
  <1>14. InAlloc' => InAlloc
    BY <1>2 DEF InAlloc, Stages, Phases, AfterBump, AfterOld
  <1> QED BY <1>1, <1>2, <1>8, <1>10, <1>11, <1>12, <1>13, <1>14, CollectorStep

(* A compaction moves every object the program can see, and only these. *)
LEMMA GcStore ==
    ASSUME IInv, IInv', StoreInv, FullGc, pc \notin Phases \cup {"stalled"},
           UNCHANGED <<ret, req>>, InAlloc' => InAlloc, root[0] # 0 => pc' # "mutator"
    PROVE  StoreInv' /\ UNCHANGED <<StoreRef, StoreField>>
  <1>1. PICK live, nw, o, p : live = Reach /\ nw = Forwarding(live) /\ o = obj /\ p = obj'
    OBVIOUS
  <1>2. /\ live \subseteq DOMAIN o
        /\ \A a \in live : nw[a] \in Nat \ {0}
        /\ Slid(o, live, nw, p)
        /\ \A a \in live : \A i \in Slots(a) : o[a].f[i] \in live \cup {0}
        /\ \A r \in 0..NRoots : root[r] \in live \cup {0} /\ root'[r] = nw[root[r]]
        /\ \A c \in 1..NCode : code[c] \in live \cup {0} /\ code'[c] = nw[code[c]]
    BY <1>1, GcSlides
  <1>3. TypeOK /\ AreFunctions /\ Tiled(Extent(obj), top) /\ IdsOK /\ Quiet
    BY DEF IInv, StoreInv
  <1>4. nw[0] = 0
    BY <1>1, <1>2, <1>3, SlideCompacts
  <1>5. DOMAIN fwd = {} /\ fwd' = fwd
    BY <1>3 DEF Quiet, FullGc
  <1>6. /\ DOMAIN p = {nw[a] : a \in live} /\ \A a \in live : nw[a] \in DOMAIN p
        /\ \A a \in live : p[nw[a]].id = o[a].id /\ Len(p[nw[a]].f) = Len(o[a].f)
        /\ \A a \in live : \A i \in 1..Len(o[a].f) : p[nw[a]].f[i] = nw[o[a].f[i]]
    BY <1>2 DEF Slid
  <1>7. \A a \in live : a # 0 /\ a \in DOMAIN o
    BY <1>1, <1>2, <1>3 DEF TypeOK, Addr
  <1>8. \A u \in live \cup {0} : IdIn(p, nw[u]) = IdIn(o, u)
    BY <1>2, <1>4, <1>6, <1>7 DEF IdIn
  <1>9. ASSUME NEW a \in live PROVE Shape(p, nw[a]) = Shape(o, a)
    <2>1. \A i \in 1..Len(o[a].f) : o[a].f[i] \in live \cup {0}
      BY <1>1, <1>2 DEF Slots
    <2>2. \A i \in 1..Len(o[a].f) : IdIn(p, p[nw[a]].f[i]) = IdIn(o, o[a].f[i])
      BY <1>6, <1>8, <2>1
    <2> QED BY <1>6, <2>2, ShapeSame
  <1>10. SameObjects(o, p)
    <2> SUFFICES ASSUME NEW b \in DOMAIN p
                 PROVE  \E a \in DOMAIN o : p[b].id = o[a].id /\ Shape(p, b) = Shape(o, a)
      BY DEF SameObjects
    <2>1. PICK a \in live : b = nw[a]
      BY <1>6
    <2> QED BY <1>6, <1>7, <1>9, <2>1
  <1>11. ASSUME NEW a \in DOMAIN p, NEW b \in DOMAIN p, p[a].id = p[b].id PROVE a = b
    <2>1. PICK c \in live, d \in live : a = nw[c] /\ b = nw[d]
      BY <1>6
    <2>2. o[c].id = o[d].id
      BY <1>6, <1>11, <2>1
    <2>3. c = d
      BY <1>1, <1>3, <1>5, <1>7, <2>2 DEF IdsOK
    <2> QED BY <2>1, <2>3
  <1>12. IdsOK'
    <2>1. \A a, b \in DOMAIN obj' : obj'[a].id = obj'[b].id => a = b
      BY <1>1, <1>11
    <2> QED BY <2>1 DEF IdsOK, Shape, IdIn
  <1>13. FwdIds'
    BY <1>5 DEF FwdIds
  <1>14. /\ \A r \in 0..NRoots : IdIn(obj', root'[r]) = IdIn(obj, root[r])
         /\ \A c \in 1..NCode : IdIn(obj', code'[c]) = IdIn(obj, code[c])
         /\ \A r \in 0..NRoots : root[r] = 0 => root'[r] = 0
    BY <1>1, <1>2, <1>4, <1>8
  <1> QED BY <1>1, <1>10, <1>12, <1>13, <1>14, CollectorStep

(* A step that leaves objects and roots alone. *)
LEMMA QuietStore ==
    ASSUME IInv, IInv', StoreInv, UNCHANGED <<obj, fwd, root, code, req>>,
           ret' \in {ret, "rebump"} \/ root[0] = 0, root[0] # 0 => pc' # "mutator",
           InAlloc' => InAlloc
    PROVE  StoreInv' /\ UNCHANGED <<StoreRef, StoreField>>
  <1>1. IdsOK' /\ FwdIds'
    BY DEF StoreInv, IdsOK, FwdIds, Shape, IdIn
  <1>2. SameObjects(obj, obj')
    BY DEF SameObjects
  <1>3. /\ \A r \in 0..NRoots : IdIn(obj', root'[r]) = IdIn(obj, root[r])
        /\ \A c \in 1..NCode : IdIn(obj', code'[c]) = IdIn(obj, code[c])
        /\ \A r \in 0..NRoots : root[r] = 0 => root'[r] = 0
    OBVIOUS
  <1> QED BY <1>1, <1>2, <1>3, CollectorStep

-----------------------------------------------------------------------------
(***************************************************************************)
(* The program                                                             *)
(***************************************************************************)

(* What the program holds, in the heap and in the store. *)
LEMMA FieldFacts ==
    ASSUME IInv, StoreInv
    PROVE  /\ 0 \notin DOMAIN StoreField
           /\ DOMAIN StoreField = {obj[a].id : a \in Reach}
           /\ \A a \in Reach : /\ a \in DOMAIN obj /\ a # 0
                              /\ obj[a].id \in DOMAIN StoreField
                              /\ StoreField[obj[a].id] = Shape(obj, a)
  <1>1. TypeOK /\ Marked /\ IdsOK
    BY MarkedNow DEF IInv, StoreInv
  <1>2. DOMAIN StoreField = {obj[a].id : a \in Reach}
    BY DEF StoreField
  <1>3. 0 \notin DOMAIN StoreField
    BY <1>1, <1>2 DEF Marked, TypeOK, Object
  <1>4. ASSUME NEW a \in Reach
        PROVE  /\ a \in DOMAIN obj /\ a # 0 /\ obj[a].id \in DOMAIN StoreField
               /\ StoreField[obj[a].id] = Shape(obj, a)
    <2>1. a \in DOMAIN obj /\ a # 0
      BY <1>1 DEF Marked, TypeOK, Addr
    <2>2. obj[a].id \in DOMAIN StoreField
      BY <1>2
    <2>3. PICK b : b = CHOOSE c \in Reach : obj[c].id = obj[a].id
      OBVIOUS
    <2>4. b \in Reach /\ obj[b].id = obj[a].id
      BY <2>3
    <2>5. StoreField[obj[a].id] = Shape(obj, b)
      BY <2>2, <2>3 DEF StoreField, Shape, Slots, IdOf, IdIn
    <2> QED BY <1>1, <2>1, <2>2, <2>4, <2>5 DEF IdsOK, Marked
  <1> QED BY <1>2, <1>3, <1>4

LEMMA HeldFacts ==
    ASSUME IInv, StoreInv, NEW v \in Stack \cup {0}
    PROVE  /\ v \in Reach \cup {0} /\ v \in DOMAIN obj \cup {0}
           /\ IdIn(obj, v) \in Abstract!Held \cup {0}
           /\ v # 0 => v \in Reach /\ IdIn(obj, v) \in Abstract!Held /\ IdIn(obj, v) = obj[v].id
  <1>1. TypeOK /\ Marked /\ RefsValid /\ NRoots \in Nat /\ NCode \in Nat
    BY MarkedNow, HeapAssumption DEF IInv
  <1>2. CASE v = 0
    BY <1>2 DEF IdIn
  <1>3. CASE v # 0
    <2>1. PICK r \in 1..NRoots : v = root[r]
      BY <1>3 DEF Stack
    <2>2. r \in 0..NRoots
      BY <1>1
    <2>3. v \in DOMAIN obj /\ v \in Reach
      BY <1>1, <1>3, <2>1, <2>2 DEF RefsValid, Roots, Marked
    <2>4. IdIn(obj, v) = obj[v].id /\ obj[v].id # 0
      BY <1>1, <1>3, <2>3 DEF IdIn, TypeOK, Object
    <2>5. StoreRef[r] = IdIn(obj, v)
      BY <1>1, <2>1 DEF StoreRef, IdIn, IdOf
    <2>6. IdIn(obj, v) \in Abstract!Held
      BY <2>4, <2>5 DEF Abstract!Held
    <2> QED BY <2>3, <2>4, <2>6
  <1> QED BY <1>2, <1>3

(* The store after a step, seen through S: everything that can be reached. *)
LEMMA StoreStep ==
    ASSUME IInv', StoreInv', NEW S, Roots' \cap DOMAIN obj' \subseteq S,
           \A a \in S : Refs(a)' \cap DOMAIN obj' \subseteq S,
           NEW g, 0 \notin DOMAIN g,
           \A a \in S : obj'[a].id \in DOMAIN g /\ g[obj'[a].id] = Shape(obj', a)
    PROVE  StoreField' = Abstract!Visible(StoreRef', g)
  <1>1. RefsClosed(S)'
    BY DEF RefsClosed
  <1>2. Reach' \subseteq S
    BY <1>1, MarkedNext DEF Marked
  <1>3. Shows(g)'
    BY <1>2 DEF Shows, Shape, IdIn
  <1> QED BY <1>3, StoreNext DEF StoreIsVisible

(* A root takes a value from what can be reached. *)
LEMMA RootStep ==
    ASSUME IInv, IInv', StoreInv, StoreInv', obj' = obj, Roots' \subseteq Reach \cup {0}
    PROVE  StoreField' = Abstract!Visible(StoreRef', StoreField)
  <1>1. PICK S, g : S = Reach /\ g = StoreField
    OBVIOUS
  <1>2. TypeOK /\ Marked
    BY MarkedNow DEF IInv
  <1>3. Roots' \cap DOMAIN obj' \subseteq S
    BY <1>1, <1>2 DEF TypeOK, Addr
  <1>4. \A a \in S : Refs(a)' \cap DOMAIN obj' \subseteq S
    BY <1>1, <1>2 DEF Marked, RefsClosed, Refs, Slots
  <1>5. /\ 0 \notin DOMAIN g
        /\ \A a \in S : obj'[a].id \in DOMAIN g /\ g[obj'[a].id] = Shape(obj', a)
    BY <1>1, FieldFacts
  <1>6. StoreField' = Abstract!Visible(StoreRef', g)
    BY <1>3, <1>4, <1>5, StoreStep
  <1> QED BY <1>1, <1>6

LEMMA RefWritten ==
    ASSUME NEW q \in (1..NRoots) \cup {-c : c \in 1..NCode}, NEW x,
           \A r \in 1..NRoots : IdIn(obj', root'[r]) = IF r = q THEN x ELSE IdIn(obj, root[r]),
           \A c \in 1..NCode : IdIn(obj', code'[c]) = IF -c = q THEN x ELSE IdIn(obj, code[c])
    PROVE  StoreRef' = [StoreRef EXCEPT ![q] = x]
  <1>1. NRoots \in Nat /\ NCode \in Nat
    BY HeapAssumption
  <1>2. PICK D, s, t : D = (1..NRoots) \cup {-c : c \in 1..NCode} /\ s = StoreRef /\ t = StoreRef'
    OBVIOUS
  <1>3. s = [r \in D |-> s[r]] /\ t = [r \in D |-> t[r]]
    BY <1>2 DEF StoreRef
  <1>4. ASSUME NEW r \in 1..NRoots PROVE t[r] = IF r = q THEN x ELSE s[r]
    <2>1. t[r] = IdOf(root[r])' /\ s[r] = IdOf(root[r])
      BY <1>1, <1>2 DEF StoreRef
    <2>2. IdOf(root[r])' = IdIn(obj', root'[r]) /\ IdOf(root[r]) = IdIn(obj, root[r])
      BY DEF IdIn, IdOf
    <2> QED BY <2>1, <2>2
  <1>5. ASSUME NEW c \in 1..NCode PROVE t[-c] = IF -c = q THEN x ELSE s[-c]
    <2>1. -(-c) = c /\ ~(-c > 0) /\ -c \in D
      BY <1>1, <1>2
    <2>2. PICK d : d = -c
      OBVIOUS
    <2>3. t[d] = IdOf(code[-d])' /\ s[d] = IdOf(code[-d])
      BY <1>2, <2>1, <2>2 DEF StoreRef
    <2>4. IdOf(code[c])' = IdIn(obj', code'[c]) /\ IdOf(code[c]) = IdIn(obj, code[c])
      BY DEF IdIn, IdOf
    <2> QED BY <2>1, <2>2, <2>3, <2>4
  <1>6. \A r \in D : t[r] = IF r = q THEN x ELSE s[r]
    BY <1>2, <1>4, <1>5
  <1>7. t = [s EXCEPT ![q] = x]
    BY <1>3, <1>6
  <1> QED BY <1>2, <1>7

LEMMA MutatorKeeps ==
    ASSUME StoreInv, pc = "mutator", pc' = "mutator", root'[0] = root[0], UNCHANGED <<obj, fwd>>
    PROVE  StoreInv'
  <1>1. IdsOK' /\ FwdIds'
    BY DEF StoreInv, IdsOK, FwdIds, Shape, IdIn
  <1>2. KlassOK'
    BY DEF StoreInv, KlassOK
  <1>3. ReqOK'
    BY DEF ReqOK, InAlloc, Stages, Phases, AfterBump, AfterOld
  <1> QED BY <1>1, <1>2, <1>3 DEF StoreInv

(* A stack slot takes a value the program can reach. *)
LEMMA StackStep ==
    ASSUME IInv, IInv', StoreInv, pc = "mutator", NEW r \in 1..NRoots, NEW v,
           v \in Reach \cup {0}, root' = [root EXCEPT ![r] = v],
           UNCHANGED <<obj, fwd, code, pc>>
    PROVE  StoreInv' /\ Abstract!SetRoot(r, IdIn(obj, v))
  <1>1. TypeOK /\ Marked /\ RefsValid /\ NRoots \in Nat
    BY MarkedNow, HeapAssumption DEF IInv
  <1>2. /\ root \in [0..NRoots -> Val] /\ 0 \in 0..NRoots /\ r \in 0..NRoots /\ r # 0
        /\ \A q \in 1..NRoots : q \in 0..NRoots
    BY <1>1 DEF TypeOK
  <1>3. \A q \in 0..NRoots : root'[q] = IF q = r THEN v ELSE root[q]
    BY <1>2
  <1>4. StoreInv'
    BY <1>2, <1>3, MutatorKeeps
  <1>5. StoreRef' = [StoreRef EXCEPT ![r] = IdIn(obj, v)]
    <2>1. \A q \in 1..NRoots : IdIn(obj', root'[q]) = IF q = r THEN IdIn(obj, v) ELSE IdIn(obj, root[q])
      BY <1>2, <1>3
    <2>2. \A c \in 1..NCode : -c # r
      BY <1>1, HeapAssumption
    <2>3. PICK x : x = IdIn(obj, v)
      OBVIOUS
    <2> QED BY <2>1, <2>2, <2>3, RefWritten
  <1>6. Roots' \subseteq Reach \cup {0}
    <2>1. \A u \in Roots : u \in Reach \cup {0}
      BY <1>1 DEF RefsValid, Marked
    <2> QED BY <1>3, <2>1 DEF Roots
  <1>7. StoreField' = Abstract!Visible(StoreRef', StoreField)
    BY <1>4, <1>6, RootStep
  <1> QED BY <1>4, <1>5, <1>7 DEF Abstract!SetRoot, Abstract!Become

LEMMA MoveStore ==
    ASSUME IInv, IInv', StoreInv, NEW r \in 1..NRoots, NEW v \in Stack \cup {0}, Move(r, v)
    PROVE  StoreInv' /\ Abstract!Next
  <1>1. StoreInv' /\ Abstract!SetRoot(r, IdIn(obj, v))
    BY HeldFacts, StackStep DEF Move, heapVars
  <1>2. IdIn(obj, v) \in Abstract!Held \cup {0}
    BY HeldFacts
  <1> QED BY <1>1, <1>2 DEF Abstract!Next

LEMMA LoadStore ==
    ASSUME IInv, IInv', StoreInv, NEW r \in 1..NRoots, NEW a \in Stack \ {0}, NEW i \in Slots(a),
           Load(r, a, i)
    PROVE  StoreInv' /\ Abstract!Next
  <1>1. a \in Stack \cup {0} /\ a # 0
    OBVIOUS
  <1>2. a \in Reach /\ IdIn(obj, a) \in Abstract!Held /\ IdIn(obj, a) = obj[a].id
    BY <1>1, HeldFacts
  <1>3. StoreField[obj[a].id] = Shape(obj, a)
    BY <1>2, FieldFacts
  <1>4. i \in DOMAIN Shape(obj, a) /\ Shape(obj, a)[i] = IdIn(obj, obj[a].f[i])
    BY DEF Shape, Slots
  <1>5. obj[a].f[i] \in Reach \cup {0}
    <2>1. obj[a].f[i] \in DOMAIN obj \cup {0} /\ (obj[a].f[i] # 0 => obj[a].f[i] \in Refs(a))
      BY <1>2, MarkedNow DEF IInv, RefsValid, Refs, Marked
    <2> QED BY <1>2, <2>1, MarkedNow DEF Marked, RefsClosed
  <1>6. PICK v, x : v = obj[a].f[i] /\ x = obj[a].id
    OBVIOUS
  <1>7. StoreInv' /\ Abstract!SetRoot(r, IdIn(obj, v))
    BY <1>5, <1>6, StackStep DEF Load, heapVars
  <1>8. x \in Abstract!Held /\ i \in DOMAIN StoreField[x] /\ StoreField[x][i] = IdIn(obj, v)
    BY <1>2, <1>3, <1>4, <1>6
  <1>9. Abstract!SetRoot(r, StoreField[x][i])
    BY <1>7, <1>8
  <1> QED BY <1>7, <1>8, <1>9 DEF Abstract!Next

LEMMA EmbedStore ==
    ASSUME IInv, IInv', StoreInv, NEW c \in 1..NCode, NEW v \in Stack \cup {0}, Embed(c, v)
    PROVE  StoreInv' /\ Abstract!Next
  <1>1. TypeOK /\ Marked /\ RefsValid /\ NRoots \in Nat /\ NCode \in Nat
    BY MarkedNow, HeapAssumption DEF IInv
  <1>2. /\ pc = "mutator" /\ code' = [code EXCEPT ![c] = v] /\ UNCHANGED <<obj, fwd, root, pc>>
    BY DEF Embed, heapVars
  <1>3. \A d \in 1..NCode : code'[d] = IF d = c THEN v ELSE code[d]
    BY <1>1, <1>2 DEF TypeOK
  <1>4. StoreInv'
    BY <1>2, MutatorKeeps
  <1>5. PICK q, x : q = -c /\ x = IdIn(obj, v)
    OBVIOUS
  <1>6. q \in (1..NRoots) \cup {-d : d \in 1..NCode}
    BY <1>5
  <1>7. StoreRef' = [StoreRef EXCEPT ![q] = x]
    <2>1. \A r \in 1..NRoots : r # q
      BY <1>1, <1>5
    <2>2. \A d \in 1..NCode : (-d = q) <=> (d = c)
      BY <1>1, <1>5
    <2>3. \A r \in 1..NRoots : IdIn(obj', root'[r]) = IF r = q THEN x ELSE IdIn(obj, root[r])
      BY <1>2, <2>1
    <2>4. \A d \in 1..NCode : IdIn(obj', code'[d]) = IF -d = q THEN x ELSE IdIn(obj, code[d])
      BY <1>2, <1>3, <1>5, <2>2
    <2> QED BY <1>6, <2>3, <2>4, RefWritten
  <1>8. v \in Reach \cup {0} /\ x \in Abstract!Held \cup {0}
    BY <1>5, HeldFacts
  <1>9. Roots' \subseteq Reach \cup {0}
    <2>1. \A u \in Roots : u \in Reach \cup {0}
      BY <1>1 DEF RefsValid, Marked
    <2> QED BY <1>2, <1>3, <1>8, <2>1 DEF Roots
  <1>10. StoreField' = Abstract!Visible(StoreRef', StoreField)
    BY <1>2, <1>4, <1>9, RootStep
  <1>11. Abstract!SetRoot(q, x)
    BY <1>7, <1>10 DEF Abstract!SetRoot, Abstract!Become
  <1> QED BY <1>4, <1>6, <1>8, <1>11 DEF Abstract!Next

LEMMA StoreStore ==
    ASSUME IInv, IInv', StoreInv, NEW a \in Stack \ {0}, NEW v \in Stack \cup {0},
           NEW i \in Slots(a), Store(a, i, v) \/ RuntimeStore(a, i, v)
    PROVE  StoreInv' /\ Abstract!Next
  <1>1. PICK o, p, S, fd, x, w : /\ o = obj /\ p = obj' /\ S = Reach /\ fd = StoreField
                                 /\ x = obj[a].id /\ w = IdIn(obj, v)
    OBVIOUS
  <1>2. /\ pc = "mutator" /\ i # 1 /\ obj' = [obj EXCEPT ![a].f[i] = v]
        /\ UNCHANGED <<fwd, root, code, pc, req>>
    BY DEF Store, RuntimeStore
  <1>3. TypeOK /\ AreFunctions /\ RefsValid /\ Marked /\ Quiet /\ IdsOK /\ KlassOK
    BY <1>2, MarkedNow DEF IInv, StoreInv, Phases
  <1>4. Objects(o) /\ a \in DOMAIN o /\ v \in Val /\ i \in 1..Len(o[a].f) /\ p = Put(o, a, i, v)
    BY <1>1, <1>2, <1>3, ObjIsObjects, StackFacts DEF Slots, Put
  <1>5. Wrote(o, p, a, i, v)
    BY <1>4, SlotWritten
  <1>6. /\ DOMAIN p = DOMAIN o
        /\ \A b \in DOMAIN o : p[b].id = o[b].id /\ Len(p[b].f) = Len(o[b].f)
        /\ \A b \in DOMAIN o : \A j \in 1..Len(o[b].f) :
              p[b].f[j] = IF b = a /\ j = i THEN v ELSE o[b].f[j]
    BY <1>5 DEF Wrote
  <1>7. \A u : IdIn(p, u) = IdIn(o, u)
    BY <1>6 DEF IdIn
  <1>8. \A b, c \in DOMAIN o : o[b].id = o[c].id => b = c
    BY <1>1, <1>3 DEF IdsOK, Quiet
  <1>9. StoreInv'
    <2>1. \A b, c \in DOMAIN p : p[b].id = p[c].id => b = c
      BY <1>6, <1>8
    <2>2. IdsOK'
      BY <1>1, <2>1 DEF IdsOK, Shape, IdIn
    <2>3. FwdIds'
      BY <1>2, <1>3 DEF FwdIds, Quiet
    <2>4. KlassOK'
      BY <1>2, <1>3 DEF KlassOK
    <2>5. ReqOK'
      BY <1>2 DEF ReqOK, InAlloc, Stages, Phases, AfterBump, AfterOld
    <2> QED BY <2>2, <2>3, <2>4, <2>5 DEF StoreInv
  <1>10. /\ a \in S /\ x \in Abstract!Held /\ w \in Abstract!Held \cup {0} /\ v \in S \cup {0}
    BY <1>1, HeldFacts
  <1>11. /\ 0 \notin DOMAIN fd /\ x \in DOMAIN fd /\ S \subseteq DOMAIN o
         /\ \A b \in S : o[b].id \in DOMAIN fd /\ fd[o[b].id] = Shape(o, b)
    BY <1>1, <1>10, FieldFacts
  <1>12. i \in DOMAIN fd[x] \ {1} /\ fd[x] = Shape(o, a) /\ x = o[a].id
    BY <1>1, <1>2, <1>4, <1>10, <1>11 DEF Shape
  <1>13. PICK g : g = [fd EXCEPT ![x][i] = w]
    OBVIOUS
  <1>14. DOMAIN g = DOMAIN fd /\ g[x] = [fd[x] EXCEPT ![i] = w] /\ \A y \in DOMAIN fd : y # x => g[y] = fd[y]
    BY <1>11, <1>13
  <1>15. ASSUME NEW b \in S PROVE p[b].id \in DOMAIN g /\ g[p[b].id] = Shape(p, b)
    <2>1. b \in DOMAIN o /\ p[b].id = o[b].id /\ o[b].id \in DOMAIN g
      BY <1>6, <1>11, <1>14
    <2>2. CASE b = a
      <3>1. Shape(p, a) = [Shape(o, a) EXCEPT ![i] = w]
        <4>1. \A j \in 1..Len(o[a].f) : IdIn(p, p[a].f[j]) = IF j = i THEN w ELSE IdIn(o, o[a].f[j])
          BY <1>1, <1>4, <1>6, <1>7
        <4>2. Shape(p, a) = [j \in 1..Len(o[a].f) |-> IF j = i THEN w ELSE IdIn(o, o[a].f[j])]
          BY <1>4, <1>6, <4>1 DEF Shape
        <4> QED BY <4>2 DEF Shape
      <3> QED BY <1>12, <1>14, <2>1, <2>2, <3>1
    <2>3. CASE b # a
      <3>1. o[b].id # x
        BY <1>4, <1>8, <1>12, <2>1, <2>3
      <3>2. Shape(p, b) = Shape(o, b)
        <4>1. \A j \in 1..Len(o[b].f) : IdIn(p, p[b].f[j]) = IdIn(o, o[b].f[j])
          BY <1>6, <1>7, <2>1, <2>3
        <4> QED BY <1>6, <2>1, <4>1, ShapeSame
      <3> QED BY <1>11, <1>14, <2>1, <3>1, <3>2
    <2> QED BY <2>2, <2>3
  <1>16. \A b \in S : Refs(b)' \cap DOMAIN obj' \subseteq S
    <2> SUFFICES ASSUME NEW b \in S, NEW j \in 1..Len(p[b].f), p[b].f[j] # 0, p[b].f[j] \in DOMAIN p
                 PROVE  p[b].f[j] \in S
      BY <1>1 DEF Refs, Slots
    <2>1. b \in DOMAIN o /\ j \in 1..Len(o[b].f)
      BY <1>6, <1>11
    <2>2. CASE p[b].f[j] = v
      BY <1>10, <2>2
    <2>3. CASE p[b].f[j] # v
      <3>1. p[b].f[j] = o[b].f[j] /\ p[b].f[j] \in DOMAIN o
        BY <1>6, <2>1, <2>3
      <3>2. p[b].f[j] \in Refs(b)
        BY <1>1, <2>1, <3>1 DEF Refs, Slots
      <3> QED BY <1>1, <1>3, <3>1, <3>2 DEF Marked, RefsClosed
    <2> QED BY <2>2, <2>3
  <1>17. Roots' \cap DOMAIN obj' \subseteq S
    BY <1>1, <1>2, <1>3, <1>6 DEF Roots, Marked
  <1>18. StoreRef' = StoreRef
    BY <1>1, <1>2, <1>7, RefsSame
  <1>19. StoreField' = Abstract!Visible(StoreRef', g)
    <2>1. \A b \in S : obj'[b].id \in DOMAIN g /\ g[obj'[b].id] = Shape(obj', b)
      BY <1>1, <1>15
    <2> QED BY <1>9, <1>11, <1>14, <1>16, <1>17, <2>1, StoreStep
  <1>20. Abstract!Store(x, i, w)
    BY <1>1, <1>13, <1>18, <1>19 DEF Abstract!Store, Abstract!Become
  <1>21. i \in DOMAIN StoreField[x] \ {1}
    BY <1>1, <1>12
  <1> QED BY <1>9, <1>10, <1>20, <1>21 DEF Abstract!Next

(* The allocation begins: the handle takes what a stack slot holds. *)
LEMMA AllocStore ==
    ASSUME IInv, IInv', StoreInv, NEW n \in SlotCounts, NEW r \in 1..NRoots,
           NEW k \in Stack \cup {0}, Alloc(n, r, k)
    PROVE  StoreInv' /\ UNCHANGED <<StoreRef, StoreField>>
  <1>1. TypeOK /\ NRoots \in Nat
    BY HeapAssumption DEF IInv
  <1>2. /\ root' = [root EXCEPT ![0] = k] /\ req' = [n |-> n, dst |-> r] /\ ret' = "bump"
        /\ pc' \in {"ensure", "bump"} /\ UNCHANGED <<obj, fwd, code>>
    BY DEF Alloc, heapVars
  <1>3. root'[0] = k /\ \A q \in 1..NRoots : root'[q] = root[q]
    BY <1>1, <1>2 DEF TypeOK
  <1>4. IdsOK' /\ FwdIds'
    BY <1>2 DEF StoreInv, IdsOK, FwdIds, Shape, IdIn
  <1>5. KlassOK'
    <2>1. k # 0 => \E q \in 1..NRoots : root'[q] = k
      BY <1>3 DEF Stack
    <2> QED BY <1>2, <1>3, <2>1 DEF KlassOK
  <1>6. ReqOK'
    BY <1>2 DEF ReqOK
  <1>7. StoreInv'
    BY <1>4, <1>5, <1>6 DEF StoreInv
  <1>8. StoreRef' = StoreRef
    BY <1>2, <1>3, RefsSame
  <1>9. SameObjects(obj, obj')
    BY <1>2 DEF SameObjects
  <1> QED BY <1>7, <1>8, <1>9, Invisible

(* The identity of the new object is in the range the store draws from. *)
LEMMA NewIdFits == ASSUME IInv PROVE NewId \in 1..End.old /\ NewId \notin UsedIds
  <1>1. TypeOK /\ AreFunctions
    BY DEF IInv
  <1>2. PICK D, N, E, m : D = DOMAIN obj /\ N = Cardinality(D) /\ E = End.old /\ m = E - 1
    OBVIOUS
  <1>3. IsFiniteSet(D)
    BY <1>1, <1>2, ObjIsObjects
  <1>4. E \in Nat \ {0} /\ m \in Int /\ 1 \in Int /\ m \in Nat
    BY <1>2, Layout
  <1>5. D \in SUBSET (1..m) /\ IsFiniteSet(1..m)
    BY <1>1, <1>2, <1>4, FS_Interval DEF TypeOK, Addr
  <1>6. N <= Cardinality(1..m)
    BY <1>2, <1>5, FS_Subset
  <1>7. Cardinality(1..m) = m
    <2>1. Cardinality(1..m) = IF 1 > m THEN 0 ELSE m - 1 + 1
      BY <1>4, FS_Interval
    <2> QED BY <1>4, <2>1
  <1>8. N \in Nat
    BY <1>2, <1>3, FS_CardinalityType
  <1>9. NewId \in Nat \ {0} /\ NewId <= N + 1 /\ NewId \notin UsedIds
    BY <1>2, <1>3, NewIdTyped
  <1>10. NewId <= E
    BY <1>2, <1>4, <1>6, <1>7, <1>8, <1>9
  <1> QED BY <1>2, <1>4, <1>9, <1>10

(* The allocation ends: the program sees one new object. *)
LEMMA PlaceStore ==
    ASSUME IInv, IInv', StoreInv, NEW s \in {"eden", "old"},
           pc \in DOMAIN AfterBump \cup DOMAIN AfterOld, InitObjectAt(top[s], s),
           top[s] + req.n + 1 <= End[s], UNCHANGED <<fwd, code>>
    PROVE  StoreInv' /\ Abstract!Next
  <1>1. /\ pc \in Stages \ {"scavenge"} /\ pc \notin Phases \cup {"stalled"}
    BY DEF Stages, Phases, AfterBump, AfterOld
  <1>2. /\ TypeOK /\ AreFunctions /\ Tiled(Extent(obj), top) /\ RefsValid /\ Quiet /\ IdsOK
        /\ KlassOK /\ Marked
    BY <1>1, MarkedNow DEF IInv, StoreInv
  <1>3. PICK n, d, k, kk, x, a, y, o, p, S, fd :
            /\ n = req.n /\ d = req.dst /\ k = root[0] /\ kk = IdIn(obj, k) /\ x = Fresh(n, k)
            /\ a = top[s] /\ y = NewId /\ o = obj /\ p = obj' /\ S = Reach /\ fd = StoreField
    OBVIOUS
  <1>4. n \in SlotCounts /\ d \in 1..NRoots /\ n \in Nat
    BY <1>1, <1>3, HeapAssumption DEF StoreInv, ReqOK, InAlloc
  <1>5. NRoots \in Nat /\ NCode \in Nat /\ 0 \in 0..NRoots /\ d # 0 /\ \A r \in 1..NRoots : r \in 0..NRoots
    BY <1>4, HeapAssumption
  <1>6. k \in DOMAIN o \cup {0} /\ k \in Val /\ k \in S \cup {0}
    BY <1>2, <1>3, <1>5, StackFacts DEF TypeOK, Marked, Roots
  <1>7. x \in Object /\ Len(x.f) = n /\ x.id = y /\ \A i \in 1..n : x.f[i] = IF i = 1 THEN k ELSE 0
    <2>1. x \in Object /\ Len(x.f) = n
      BY <1>2, <1>3, <1>4, <1>6, FreshTyped
    <2> QED BY <1>3, <2>1 DEF Fresh
  <1>8. /\ p = Added(o, a, x) /\ root' = [root EXCEPT ![0] = 0, ![d] = a] /\ pc' = "mutator"
    BY <1>3 DEF InitObjectAt, Added, Fresh
  <1>9. /\ a \notin DOMAIN o /\ DOMAIN p = DOMAIN o \cup {a} /\ p[a] = x /\ a # 0
        /\ \A b \in DOMAIN o : p[b] = o[b]
    <2>1. PICK tp, m, tp2 : tp = top /\ m = n + 1 /\ tp2 = Bumped(tp, s, m)
      OBVIOUS
    <2>2. Objects(o) /\ Tiled(Extent(o), tp) /\ s \in Spaces /\ a = tp[s] /\ m = Len(x.f) + 1
      BY <1>2, <1>3, <1>7, <2>1, ObjIsObjects DEF Spaces
    <2>3. tp[s] + m <= End[s]
      <3>1. tp[s] \in Nat
        BY <1>2, <2>1, <2>2, SpaceFacts
      <3> QED BY <1>3, <1>4, <2>1, <3>1
    <2>4. Grew(o, p, a, x) /\ a \in Addr
      BY <1>7, <1>8, <2>1, <2>2, <2>3, ObjectAdded
    <2> QED BY <2>4 DEF Grew, Addr
  <1>10. y \in 1..End.old /\ y # 0 /\ \A b \in DOMAIN o : o[b].id # y
    BY <1>3, NewIdFits DEF UsedIds
  <1>11. IdIn(p, a) = y /\ \A u \in DOMAIN o \cup {0} : IdIn(p, u) = IdIn(o, u)
    BY <1>7, <1>9 DEF IdIn
  <1>12. ASSUME NEW b \in DOMAIN o PROVE Shape(p, b) = Shape(o, b)
    <2>1. \A i \in 1..Len(o[b].f) : o[b].f[i] \in DOMAIN o \cup {0}
      BY <1>2, <1>3 DEF RefsValid, Slots
    <2>2. \A i \in 1..Len(o[b].f) : IdIn(p, p[b].f[i]) = IdIn(o, o[b].f[i])
      BY <1>9, <1>11, <2>1
    <2> QED BY <1>9, <2>2, ShapeSame
  <1>13. Shape(p, a) = [i \in 1..n |-> IF i = 1 THEN kk ELSE 0]
    <2>1. IdIn(p, k) = kk /\ IdIn(p, 0) = 0
      BY <1>3, <1>6, <1>11 DEF IdIn
    <2>2. \A i \in 1..n : IdIn(p, p[a].f[i]) = IF i = 1 THEN kk ELSE 0
      BY <1>7, <1>9, <2>1
    <2> QED BY <1>7, <1>9, <2>2 DEF Shape
  <1>14. \A b, c \in DOMAIN p : p[b].id = p[c].id => b = c
    <2>1. \A b, c \in DOMAIN o : o[b].id = o[c].id => b = c
      BY <1>2, <1>3 DEF IdsOK, Quiet
    <2> QED BY <1>7, <1>9, <1>10, <2>1
  <1>15. root'[0] = 0 /\ \A r \in 1..NRoots : root'[r] = IF r = d THEN a ELSE root[r]
    <2>1. root \in [0..NRoots -> Val]
      BY <1>2 DEF TypeOK
    <2> QED BY <1>4, <1>5, <1>8, <2>1
  <1>16. StoreInv'
    <2>1. IdsOK'
      BY <1>3, <1>14 DEF IdsOK, Shape, IdIn
    <2>2. FwdIds'
      BY <1>2 DEF FwdIds, Quiet
    <2>3. KlassOK'
      BY <1>15 DEF KlassOK
    <2>4. ReqOK'
      BY <1>8 DEF ReqOK, InAlloc, Stages, Phases, AfterBump, AfterOld
    <2> QED BY <2>1, <2>2, <2>3, <2>4 DEF StoreInv
  <1>17. kk \in Abstract!Held \cup {0}
    <2>1. CASE k = 0
      BY <1>3, <2>1 DEF IdIn
    <2>2. CASE k # 0
      <3>1. PICK r \in 1..NRoots : IdIn(obj, root[r]) = kk
        BY <1>2, <1>3, <2>2 DEF KlassOK
      <3>2. root[r] \in Stack \cup {0}
        BY DEF Stack
      <3> QED BY <3>1, <3>2, HeldFacts
    <2> QED BY <2>1, <2>2
  <1>18. /\ 0 \notin DOMAIN fd /\ y \notin DOMAIN fd /\ S \subseteq DOMAIN o
         /\ \A b \in S : o[b].id \in DOMAIN fd /\ fd[o[b].id] = Shape(o, b)
    <2>1. DOMAIN fd = {o[b].id : b \in S} /\ S \subseteq DOMAIN o /\ 0 \notin DOMAIN fd
      BY <1>3, FieldFacts
    <2>2. y \notin DOMAIN fd
      BY <1>10, <2>1
    <2> QED BY <1>3, <2>1, <2>2, FieldFacts
  <1>19. PICK g, T : /\ g = [z \in DOMAIN fd \cup {y} |->
                               IF z = y THEN [i \in 1..n |-> IF i = 1 THEN kk ELSE 0] ELSE fd[z]]
                     /\ T = S \cup {a}
    OBVIOUS
  <1>20. ASSUME NEW b \in T PROVE p[b].id \in DOMAIN g /\ g[p[b].id] = Shape(p, b)
    <2>1. CASE b = a
      BY <1>7, <1>9, <1>13, <1>19, <2>1
    <2>2. CASE b \in S
      <3>1. b \in DOMAIN o /\ p[b].id = o[b].id /\ o[b].id # y /\ o[b].id \in DOMAIN fd
        BY <1>9, <1>10, <1>18, <2>2
      <3>2. g[p[b].id] = Shape(o, b)
        BY <1>18, <1>19, <2>2, <3>1
      <3> QED BY <1>12, <1>19, <3>1, <3>2
    <2> QED BY <1>19, <2>1, <2>2
  <1>21. \A b \in T : Refs(b)' \cap DOMAIN obj' \subseteq T
    <2> SUFFICES ASSUME NEW b \in T, NEW j \in 1..Len(p[b].f), p[b].f[j] # 0 PROVE p[b].f[j] \in T
      BY <1>3 DEF Refs, Slots
    <2>1. CASE b = a
      BY <1>6, <1>7, <1>9, <1>19, <2>1
    <2>2. CASE b \in S
      <3>1. b \in DOMAIN o /\ p[b] = o[b] /\ j \in Slots(b)
        BY <1>3, <1>9, <1>18, <2>2 DEF Slots
      <3>2. p[b].f[j] \in Refs(b) /\ p[b].f[j] \in DOMAIN o
        BY <1>2, <1>3, <3>1 DEF Refs, RefsValid
      <3> QED BY <1>2, <1>3, <1>19, <2>2, <3>2 DEF Marked, RefsClosed
    <2> QED BY <1>19, <2>1, <2>2
  <1>22. Roots' \cap DOMAIN obj' \subseteq T
    <2>1. \A r \in 0..NRoots : root[r] \in S \cup {0}
      BY <1>2, <1>3 DEF RefsValid, Roots, Marked
    <2>2. \A c \in 1..NCode : code'[c] \in S \cup {0}
      BY <1>2, <1>3 DEF RefsValid, Roots, Marked
    <2>3. \A r \in 0..NRoots : root'[r] \in T \cup {0}
      <3>1. \A r \in 0..NRoots : r = 0 \/ r \in 1..NRoots
        BY <1>5
      <3> QED BY <1>15, <1>19, <2>1, <3>1
    <2>4. 0 \notin DOMAIN obj'
      BY <1>2, <1>3, <1>9 DEF TypeOK, Addr
    <2> QED BY <1>19, <2>2, <2>3, <2>4 DEF Roots
  <1>23. StoreRef' = [StoreRef EXCEPT ![d] = y]
    <2>1. \A r \in 1..NRoots : root[r] \in DOMAIN o \cup {0}
      BY <1>3, <1>5, StackFacts
    <2>2. \A c \in 1..NCode : code[c] \in DOMAIN o \cup {0} /\ -c # d
      BY <1>3, <1>4, <1>5, StackFacts
    <2>3. \A r \in 1..NRoots : IdIn(obj', root'[r]) = IF r = d THEN y ELSE IdIn(obj, root[r])
      BY <1>3, <1>11, <1>15, <2>1
    <2>4. \A c \in 1..NCode : IdIn(obj', code'[c]) = IF -c = d THEN y ELSE IdIn(obj, code[c])
      BY <1>3, <1>11, <2>2
    <2>5. d \in (1..NRoots) \cup {-c : c \in 1..NCode}
      BY <1>4
    <2> QED BY <2>3, <2>4, <2>5, RefWritten
  <1>24. StoreField' = Abstract!Visible(StoreRef', g)
    <2>1. \A b \in T : obj'[b].id \in DOMAIN g /\ g[obj'[b].id] = Shape(obj', b)
      BY <1>3, <1>20
    <2>2. 0 \notin DOMAIN g
      BY <1>10, <1>18, <1>19
    <2> QED BY <1>16, <1>21, <1>22, <2>1, <2>2, StoreStep
  <1>25. Abstract!New(d, y, n, kk)
    BY <1>3, <1>18, <1>19, <1>23, <1>24 DEF Abstract!New, Abstract!Become
  <1> QED BY <1>4, <1>10, <1>16, <1>17, <1>25 DEF Abstract!Next

-----------------------------------------------------------------------------
(***************************************************************************)
(* Every step                                                              *)
(***************************************************************************)

Unseen == UNCHANGED <<StoreRef, StoreField>>

LEMMA MutateStore ==
    ASSUME IInv, IInv', StoreInv, Mutate PROVE StoreInv' /\ (Abstract!Next \/ Unseen)
  <1>1. CASE \E r \in 1..NRoots, v \in Stack \cup {0} : Move(r, v)
    BY <1>1, MoveStore
  <1>2. CASE \E r \in 1..NRoots, a \in Stack \ {0} : \E i \in Slots(a) : Load(r, a, i)
    BY <1>2, LoadStore
  <1>3. CASE \E c \in 1..NCode, v \in Stack \cup {0} : Embed(c, v)
    BY <1>3, EmbedStore
  <1>4. CASE \E a \in Stack \ {0}, v \in Stack \cup {0} : \E i \in Slots(a) :
                 Store(a, i, v) \/ RuntimeStore(a, i, v)
    BY <1>4, StoreStore
  <1>5. CASE \E n \in SlotCounts, r \in 1..NRoots, k \in Stack \cup {0} : Alloc(n, r, k)
    BY <1>5, AllocStore DEF Unseen
  <1>6. CASE PrimGcScavenge
    <2>1. /\ pc = "mutator" /\ pc' = "scavenge" /\ ret' = "mutator"
          /\ UNCHANGED <<obj, fwd, root, code, req>>
      BY <1>6 DEF PrimGcScavenge, heapVars
    <2>2. root[0] = 0
      BY <2>1 DEF StoreInv, KlassOK
    <2>3. ~InAlloc'
      BY <2>1 DEF InAlloc
    <2> QED BY <2>1, <2>2, <2>3, QuietStore DEF Unseen
  <1>7. CASE PrimGcFull
    <2>1. pc = "mutator" /\ pc' = pc /\ FullGc /\ UNCHANGED <<ret, req>>
      BY <1>7 DEF PrimGcFull
    <2>2. root[0] = 0
      BY <2>1 DEF StoreInv, KlassOK
    <2>3. InAlloc' => InAlloc
      BY <2>1 DEF InAlloc
    <2>4. pc \notin Phases \cup {"stalled"}
      BY <2>1 DEF Phases
    <2> QED BY <2>1, <2>2, <2>3, <2>4, GcStore DEF Unseen
  <1> QED BY <1>1, <1>2, <1>3, <1>4, <1>5, <1>6, <1>7 DEF Mutate

LEMMA CascadeStore ==
    ASSUME IInv, IInv', StoreInv, Cascade PROVE StoreInv' /\ (Abstract!Next \/ Unseen)
  <1>1. CASE TryBumpEden
    <2>1. CASE BumpFits
      <3>1. /\ pc \in DOMAIN AfterBump /\ InitObjectAt(top["eden"], "eden") /\ UNCHANGED <<fwd, code>>
            /\ top["eden"] + req.n + 1 <= End["eden"]
        BY <1>1, <2>1 DEF TryBumpEden, BumpFits
      <3> QED BY <3>1, PlaceStore
    <2>2. CASE ~BumpFits
      <3>1. /\ pc \in DOMAIN AfterBump /\ pc' = AfterBump[pc] /\ ret' = "rebump"
            /\ UNCHANGED <<obj, fwd, root, code, req>>
        BY <1>1, <2>2 DEF TryBumpEden, heapVars
      <3>2. InAlloc /\ pc' # "mutator"
        BY <3>1 DEF InAlloc, AfterBump, Stages
      <3> QED BY <3>1, <3>2, QuietStore DEF Unseen
    <2> QED BY <2>1, <2>2
  <1>2. CASE TryOldAlloc
    <2>1. CASE OldFits(req.n + 1)
      <3>1. /\ pc \in DOMAIN AfterOld /\ InitObjectAt(top["old"], "old") /\ UNCHANGED <<fwd, code>>
            /\ top["old"] + (req.n + 1) <= committed
        BY <1>2, <2>1 DEF TryOldAlloc, OldFits
      <3>2. /\ top["old"] \in Nat /\ req.n \in Nat /\ committed \in Nat /\ End["old"] \in Nat
            /\ committed <= End["old"]
        BY SpaceFacts, ReqFacts DEF IInv
      <3>3. top["old"] + req.n + 1 <= End["old"]
        BY <3>1, <3>2
      <3> QED BY <3>1, <3>3, PlaceStore
    <2>2. CASE ~OldFits(req.n + 1)
      <3>1. /\ pc \in DOMAIN AfterOld /\ pc' = AfterOld[pc] /\ ret' = ret
            /\ UNCHANGED <<obj, fwd, root, code, req>>
        BY <1>2, <2>2 DEF TryOldAlloc, heapVars, gcVars
      <3>2. InAlloc /\ pc' # "mutator"
        BY <3>1 DEF InAlloc, AfterOld, Stages
      <3> QED BY <3>1, <3>2, QuietStore DEF Unseen
    <2> QED BY <2>1, <2>2
  <1>3. CASE GrowOld
    <2>1. /\ pc \in {"grow", "fullgrow"} /\ ret' = ret /\ UNCHANGED <<obj, fwd, root, code, req>>
      BY <1>3 DEF GrowOld, gcVars
    <2>2. pc' # "mutator"
      <3>1. Grown > committed \/ Grown = committed
        <4>1. committed \in Nat /\ Grown \in Nat /\ committed <= Grown
          BY SpaceFacts, Growth DEF IInv
        <4> QED BY <4>1
      <3> QED BY <1>3, <3>1 DEF GrowOld
    <2>3. InAlloc
      BY <2>1 DEF InAlloc, Stages
    <2> QED BY <2>1, <2>2, <2>3, QuietStore DEF Unseen
  <1>4. CASE LastResort
    <2>1. pc = "full" /\ pc' = "fullbump" /\ FullGc /\ UNCHANGED <<ret, req>>
      BY <1>4 DEF LastResort
    <2>2. InAlloc /\ pc \notin Phases \cup {"stalled"}
      BY <2>1 DEF InAlloc, Stages, Phases
    <2> QED BY <2>1, <2>2, GcStore DEF Unseen
  <1>5. CASE EnsurePromotionGuarantee
    <2>1. pc = "ensure" /\ pc' \in {"scavenge", "guarantee"} /\ UNCHANGED <<ret, req>>
      BY <1>5 DEF EnsurePromotionGuarantee
    <2>2. InAlloc /\ pc \notin Phases \cup {"stalled"} /\ pc' # "mutator"
      BY <2>1 DEF InAlloc, Stages, Phases
    <2>3. CASE FullGc
      BY <2>1, <2>2, <2>3, GcStore DEF Unseen
    <2>4. CASE UNCHANGED <<heapVars, root, code>>
      BY <2>1, <2>2, <2>4, QuietStore DEF Unseen, heapVars
    <2> QED BY <1>5, <2>3, <2>4 DEF EnsurePromotionGuarantee
  <1>6. CASE GrowForGuarantee
    <2>1. /\ pc = "guarantee" /\ pc' \in {pc, "scavenge"} /\ ret' = ret
          /\ UNCHANGED <<obj, fwd, root, code, req>>
      BY <1>6 DEF GrowForGuarantee
    <2>2. InAlloc
      BY <2>1 DEF InAlloc, Stages
    <2> QED BY <2>1, <2>2, QuietStore DEF Unseen
  <1> QED BY <1>1, <1>2, <1>3, <1>4, <1>5, <1>6 DEF Cascade

LEMMA ScavengeStore ==
    ASSUME IInv, IInv', StoreInv, Scavenge PROVE StoreInv' /\ (Abstract!Next \/ Unseen)
  <1>1. CASE StartScavenge \/ RootsDone \/ CardsDone \/ CodeDone \/ SkipCleanCard \/ SkipMarkWord
             \/ FinishCard \/ PickObject \/ ObjectDone
    <2>1. /\ pc \in Phases \cup {"scavenge"} /\ pc' \in Phases \cup {"stalled"} /\ ret' = ret
          /\ UNCHANGED <<obj, fwd, root, code, req>>
      BY <1>1 DEF StartScavenge, RootsDone, CardsDone, CodeDone, SkipCleanCard, SkipMarkWord,
                  FinishCard, PickObject, ObjectDone, CardInRange, scanFrame, Phases
    <2>2. pc' # "mutator" /\ (InAlloc' => InAlloc)
      BY <2>1 DEF InAlloc, Phases, Stages, AfterBump, AfterOld
    <2> QED BY <2>1, <2>2, QuietStore DEF Unseen
  <1>2. CASE ScanRoot \/ ScanCode \/ ScanObjectSlot \/ \E a \in DOMAIN obj : ScanCardSlot(a)
    BY <1>2, ScanStore DEF Unseen
  <1>3. CASE FinishScavenge
    BY <1>3, FinishStore DEF Unseen
  <1> QED BY <1>1, <1>2, <1>3 DEF Scavenge

LEMMA NextStore ==
    ASSUME IInv, IInv', StoreInv, [Next]_vars PROVE StoreInv' /\ (Abstract!Next \/ Unseen)
  <1>1. CASE UNCHANGED vars
    <2>1. UNCHANGED <<obj, fwd, root, code, req, pc, ret>>
      BY <1>1 DEF vars, heapVars, gcVars
    <2>2. (InAlloc' => InAlloc) /\ (root[0] # 0 => pc' # "mutator")
      BY <2>1 DEF InAlloc, StoreInv, KlassOK
    <2> QED BY <2>1, <2>2, QuietStore DEF Unseen
  <1> QED BY <1>1, MutateStore, CascadeStore, ScavengeStore DEF Next

(* The heap implements the object store: through every allocation,         *)
(* scavenge, promotion and compaction the program sees the graph it built, *)
(* and each operation acts on that graph as on memory that nothing moves.  *)
THEOREM CollectionsAreInvisible == Spec => ImplementsStore
  <1>1. Init => IInv /\ StoreInv /\ Abstract!Init
    BY InitIInv, InitStore
  <1>2. IInv /\ StoreInv /\ [Next]_vars => IInv' /\ StoreInv' /\ [Abstract!Next]_<<StoreRef, StoreField>>
    BY NextIInv, NextStore DEF Unseen
  <1> QED BY <1>1, <1>2, PTL DEF Spec, ImplementsStore, Abstract!Spec, Abstract!svars
=============================================================================
