-------------------------------- MODULE Heap --------------------------------
(***************************************************************************)
(* The generational heap of one VM: the bump-allocated eden, the two       *)
(* survivor spaces, the old generation with its card table, the mutator's  *)
(* write barrier, the allocation cascade and the copying scavenge.         *)
(*                                                                         *)
(* An address is a word address.  An object with n reference slots         *)
(* occupies n + 1 words: its mark word, at the object's address, then the  *)
(* klass field (slot 1) and the body.  Value 0 stands for every value that *)
(* is not a heap reference (SmallIntegers and the permanent singletons).   *)
(* A scavenge runs as single calls of scavenge_oop, in the code's order;   *)
(* the full collection is one step here.                                   *)
(***************************************************************************)
EXTENDS Integers, Sequences, FiniteSets

CONSTANTS
    EdenWords, SurvivorWords,   \* sizes of eden and of each survivor space
    OldWords,                   \* reserved words of the old generation
    OldInitial,                 \* words committed at genesis
    GrowSegment,                \* OLD_GROWTH_SEGMENT
    CardWords,                  \* words per card
    MaxChainSkip,               \* MAX_CHAIN_SKIP of the offset table
    SlotCounts,                 \* slot counts an allocation may ask for
    AgeMax,                     \* MARK_AGE_MAX: largest age, and "never tenure"
    NRoots, NCode,              \* process-stack slots, code-side root slots
    GcStress,                   \* MACVM_GC_STRESS=1
    GcPrimitives                \* the program may call gcScavenge and gcFull

ASSUME HeapAssumption ==
    /\ EdenWords \in Nat /\ SurvivorWords \in Nat
    /\ OldWords \in Nat /\ OldInitial \in 0..OldWords
    /\ GrowSegment \in Nat \ {0} /\ CardWords \in Nat \ {0}
    /\ MaxChainSkip \in Nat \ {0}
    /\ SlotCounts \subseteq Nat \ {0}
    /\ AgeMax \in Nat \ {0}
    /\ NRoots \in Nat /\ NCode \in Nat
    /\ GcStress \in BOOLEAN /\ GcPrimitives \in BOOLEAN

VARIABLES
    obj,        \* header address -> [id, age, f]: every object in the heap
    fwd,        \* header address -> forwardee, while a scavenge runs
    top,        \* bump pointers of the four spaces
    from,       \* which survivor space is `from`
    committed,  \* end of the committed prefix of the old generation
    dirty,      \* the dirty cards
    offsets,    \* the offset table: card -> entry
    root,       \* 0: the allocator's klass handle; 1..NRoots: process stack
    code,       \* oops held by compiled frames and code pools
    threshold, ageTable,
    met,        \* promotion_guarantee_met
    pc,         \* which step of which operation runs next
    req,        \* the pending allocation: [n, dst]; n = 0 when there is none
    ret,        \* where the running scavenge returns to
    worst,      \* ensure_promotion_guarantee's worst_case
    oldTop0,    \* old_top_before
    cur,        \* scan position: [i, w, new, to, old]
    stall       \* pending_stall

heapVars == <<obj, fwd, top, from, committed, dirty, offsets>>
gcVars == <<threshold, ageTable, met, ret, worst, oldTop0, cur, stall>>
vars == <<heapVars, gcVars, root, code, pc, req>>

-----------------------------------------------------------------------------
(* Spaces and cards. *)

Spaces == {"eden", "s0", "s1", "old"}
Survivors == {"s0", "s1"}

Start == [eden |-> 1,
          s0   |-> 1 + EdenWords,
          s1   |-> 1 + EdenWords + SurvivorWords,
          old  |-> 1 + EdenWords + 2 * SurvivorWords]

End == [eden |-> Start.s0, s0 |-> Start.s1, s1 |-> Start.old,
        old |-> Start.old + OldWords]

to == IF from = "s0" THEN "s1" ELSE "s0"

IsOld(a) == a >= Start.old
IsNew(v) == v # 0 /\ v < Start.old

Addr == 1 .. End.old - 1
Val == Addr \cup {0}

CardOf(a) == (a - Start.old) \div CardWords
CardBase(c) == Start.old + c * CardWords
Cards == {CardOf(a) : a \in Start.old .. End.old - 1}

(* record_multistores: every card that overlaps [s, e). *)
CardsOf(s, e) == IF s >= e THEN {} ELSE CardOf(s) .. CardOf(e - 1)

Slots(a) == 1 .. Len(obj[a].f)
Size(a) == Len(obj[a].f) + 1
In(a, space) == Start[space] <= a /\ a < top[space]
OldFree == committed - top.old

-----------------------------------------------------------------------------
(* The object-start offset table: the entry of a card leads a scan to the   *)
(* header of the object that covers the card's base.  Up to MAX_DIRECT it   *)
(* is the distance in words; above, MAX_DIRECT plus a number of cards to    *)
(* skip back, where the next entry is consulted. *)

MaxDirect == CardWords

ChainEntry(c0, c) ==
    MaxDirect + (IF c - (c0 + 1) < MaxChainSkip THEN c - (c0 + 1) ELSE MaxChainSkip)

(* Mutant: the card holding the header is claimed wherever the header is. *)
record_object_any_base(table, a, words) ==
    LET c0 == CardOf(a)
    IN  [c \in Cards |->
           IF c \notin c0 .. CardOf(a + words - 1) THEN table[c]
           ELSE IF CardBase(c) <= a THEN 0
           ELSE IF CardBase(c) - a <= MaxDirect THEN CardBase(c) - a
           ELSE ChainEntry(c0, c)]

record_object(table, a, words) ==
    LET c0 == CardOf(a)
    IN  [c \in Cards |->
           IF c \notin c0 .. CardOf(a + words - 1) \/ CardBase(c) < a THEN table[c]
           ELSE IF CardBase(c) - a <= MaxDirect THEN CardBase(c) - a
           ELSE ChainEntry(c0, c)]

clear_through(table, oldTop) ==
    [c \in Cards |-> IF CardBase(c) < oldTop THEN 0 ELSE table[c]]

(* The walk of a compacted space calls record_object on every object.  The  *)
(* objects do not overlap, so each entry is written by the object over the  *)
(* base of its card, or by none.                                            *)
record_objects(table, words) ==
    LET over(c) == {a \in DOMAIN words : a <= CardBase(c) /\ CardBase(c) < a + words[a]}
    IN  [c \in Cards |->
           IF over(c) = {} THEN table[c]
           ELSE LET a == CHOOSE b \in over(c) : TRUE
                IN  record_object(table, a, words[a])[c]]

(* The header the chain from card c ends at. *)
resolve(c) ==
    LET chain[i \in Cards] ==
            IF offsets[i] <= MaxDirect THEN CardBase(i) - offsets[i]
            ELSE chain[i - (offsets[i] - MaxDirect)]
    IN  chain[c]

-----------------------------------------------------------------------------
(* Reachability: what a full collection marks, and what a program sees. *)

Refs(a) == {obj[a].f[i] : i \in Slots(a)} \ {0}
Roots == {root[r] : r \in 0..NRoots} \cup {code[c] : c \in 1..NCode}

(* The objects reachable from the roots: no path is longer than the number *)
(* of objects.                                                             *)
Reach ==
    LET N == Cardinality(DOMAIN obj)
        step[n \in 0..N] ==
            IF n = 0 THEN Roots \cap DOMAIN obj
            ELSE step[n-1] \cup ((UNION {Refs(a) : a \in step[n-1]}) \cap DOMAIN obj)
    IN  step[N]

-----------------------------------------------------------------------------
EmptyAges == [a \in 0..AgeMax |-> 0]
NoReq == [n |-> 0, dst |-> 0]
NoCur == [i |-> 0, w |-> 0, new |-> FALSE, to |-> 0, old |-> 0]

Init ==
    /\ obj = <<>> /\ fwd = <<>>
    /\ top = Start /\ from = "s0"
    /\ committed = Start.old + OldInitial
    /\ dirty = {} /\ offsets = [c \in Cards |-> 0]
    /\ root = [r \in 0..NRoots |-> 0]
    /\ code = [c \in 1..NCode |-> 0]
    /\ threshold = AgeMax /\ ageTable = EmptyAges
    /\ met = TRUE
    /\ pc = "mutator" /\ req = NoReq /\ ret = "mutator"
    /\ worst = 0 /\ oldTop0 = Start.old /\ cur = NoCur /\ stall = FALSE

-----------------------------------------------------------------------------
(* The mutator.  It reaches objects only through its stack, and it never   *)
(* rewrites a klass field. *)

Stack == {root[r] : r \in 1..NRoots}

(* A stack slot receives a copy of another one, or stops holding a ref. *)
Move(r, v) ==
    /\ pc = "mutator"
    /\ v \in Stack \cup {0}
    /\ root' = [root EXCEPT ![r] = v]
    /\ UNCHANGED <<heapVars, gcVars, code, pc, req>>

Load(r, a, i) ==
    /\ pc = "mutator"
    /\ a \in Stack \ {0} /\ i \in Slots(a)
    /\ root' = [root EXCEPT ![r] = obj[a].f[i]]
    /\ UNCHANGED <<heapVars, gcVars, code, pc, req>>

(* An oop enters a code pool or a compiled frame's spill slot, or leaves. *)
Embed(c, v) ==
    /\ pc = "mutator"
    /\ v \in Stack \cup {0}
    /\ code' = [code EXCEPT ![c] = v]
    /\ UNCHANGED <<heapVars, gcVars, root, pc, req>>

(* The cards memory::store::store dirties for slot i of a receiving v. *)
StoreBarrier(a, i, v) == IF IsOld(a) /\ IsNew(v) THEN {CardOf(a + i)} ELSE {}

Store(a, i, v) ==
    /\ pc = "mutator"
    /\ a \in Stack \ {0} /\ i \in Slots(a) \ {1} /\ v \in Stack \cup {0}
    /\ obj' = [obj EXCEPT ![a].f[i] = v]
    /\ dirty' = dirty \cup StoreBarrier(a, i, v)
    /\ UNCHANGED <<fwd, top, from, committed, offsets, gcVars, root, code, pc, req>>

(* A runtime writer: a raw slot write followed by post_write_barrier. *)
PostWriteBarrier(a) == IF IsOld(a) THEN CardsOf(a, a + Size(a)) ELSE {}

RuntimeStore(a, i, v) ==
    /\ pc = "mutator"
    /\ a \in Stack \ {0} /\ i \in Slots(a) \ {1} /\ v \in Stack \cup {0}
    /\ obj' = [obj EXCEPT ![a].f[i] = v]
    /\ dirty' = dirty \cup PostWriteBarrier(a)
    /\ UNCHANGED <<fwd, top, from, committed, offsets, gcVars, root, code, pc, req>>

-----------------------------------------------------------------------------
(* The full collection, in one step: every space keeps exactly its reachable *)
(* objects, slid in address order to the space's own bottom; every card of   *)
(* the live old range is dirty afterwards. *)

SpaceOf(a) == CHOOSE s \in Spaces : In(a, s)

LiveWords(live, s) ==
    {w \in Start[s] .. top[s] - 1 :
        \E a \in live : In(a, s) /\ a <= w /\ w < a + Size(a)}

(* Mutant: the compaction pointer already counts a's first word. *)
ForwardOffByOne(live, a) ==
    IF a = 0 THEN 0
    ELSE Start[SpaceOf(a)] + Cardinality({w \in LiveWords(live, SpaceOf(a)) : w <= a})

(* forwarding_compute: the compaction pointer when the walk meets a. *)
Forward(live, a) ==
    IF a = 0 THEN 0
    ELSE Start[SpaceOf(a)] + Cardinality({w \in LiveWords(live, SpaceOf(a)) : w < a})

CompactTop(live, s) == Start[s] + Cardinality(LiveWords(live, s))

Forwarding(live) == [a \in live \cup {0} |-> Forward(live, a)]

(* Every survivor at its new address, its references forwarded. *)
Compacted(live, new) ==
    [b \in {new[a] : a \in live} |->
        LET a == CHOOSE x \in live : new[x] = b
        IN  [obj[a] EXCEPT !.f = [i \in Slots(a) |-> new[@[i]]]]]

FullGc ==
    LET live == Reach
        new == Forwarding(live)
    IN  /\ obj' = Compacted(live, new)
        /\ root' = [r \in 0..NRoots |-> new[root[r]]]
        /\ code' = [c \in 1..NCode |-> new[code[c]]]
        /\ top' = [s \in Spaces |-> CompactTop(live, s)]
        /\ dirty' = dirty \cup CardsOf(Start.old, CompactTop(live, "old"))
        /\ offsets' = record_objects(clear_through(offsets, top.old),
                          [b \in {x \in DOMAIN obj' : IsOld(x)} |-> Len(obj'[b].f) + 1])
        /\ ageTable' = EmptyAges
        /\ UNCHANGED <<fwd, from>>

-----------------------------------------------------------------------------
(* The allocation cascade, alloc_words: each stage either places the object *)
(* or passes to the next.  pc names the stage. *)

Alloc(n, dst, klass) ==
    /\ pc = "mutator"
    /\ klass \in Stack \cup {0}
    /\ root' = [root EXCEPT ![0] = klass]
    /\ req' = [n |-> n, dst |-> dst]
    /\ pc' = IF GcStress THEN "ensure" ELSE "bump"
    /\ ret' = "bump"
    /\ UNCHANGED <<heapVars, threshold, ageTable, met, worst, oldTop0, cur,
                   stall, code>>

UsedIds == {obj[a].id : a \in DOMAIN obj}
NewId == CHOOSE x \in 1 .. Cardinality(DOMAIN obj) + 1 :
            x \notin UsedIds /\ 1 .. x - 1 \subseteq UsedIds

(* init_object_at, and the end of alloc_words: the klass handle is popped *)
(* and the caller receives the new object. *)
InitObjectAt(a, space) ==
    /\ obj' = [b \in DOMAIN obj \cup {a} |->
                 IF b = a
                 THEN [id |-> NewId, age |-> 0,
                       f |-> [i \in 1..req.n |-> IF i = 1 THEN root[0] ELSE 0]]
                 ELSE obj[b]]
    /\ top' = [top EXCEPT ![space] = a + req.n + 1]
    /\ root' = [root EXCEPT ![0] = 0, ![req.dst] = a]
    /\ req' = NoReq
    /\ pc' = "mutator"

BumpFits == top.eden + req.n + 1 <= End.eden

AfterBump == [bump |-> "ensure", rebump |-> "old", fullbump |-> "fullold"]

TryBumpEden ==
    /\ pc \in DOMAIN AfterBump
    /\ \/ /\ BumpFits
          /\ InitObjectAt(top.eden, "eden")
          /\ UNCHANGED <<fwd, from, committed, dirty, offsets, gcVars, code>>
       \/ /\ ~BumpFits
          /\ pc' = AfterBump[pc]
          /\ ret' = "rebump"
          /\ UNCHANGED <<heapVars, threshold, ageTable, met, worst, oldTop0, cur,
                         stall, root, code, req>>

(* Mutant: off by one at the end of the committed prefix. *)
OldFitsOffByOne(words) == top.old + words <= committed + 1

OldFits(words) == top.old + words <= committed

AfterOld == [old |-> "grow", grownold |-> "full",
             fullold |-> "fullgrow", fullgrownold |-> "stalled"]

TryOldAlloc ==
    /\ pc \in DOMAIN AfterOld
    /\ \/ /\ OldFits(req.n + 1)
          /\ InitObjectAt(top.old, "old")
          /\ dirty' = dirty \cup CardsOf(top.old, top.old + req.n + 1)
          /\ offsets' = record_object(offsets, top.old, req.n + 1)
          /\ UNCHANGED <<fwd, from, committed, gcVars, code>>
       \/ /\ ~OldFits(req.n + 1)
          /\ pc' = AfterOld[pc]
          /\ UNCHANGED <<heapVars, gcVars, root, code, req>>

Grown == IF committed + GrowSegment > End.old THEN End.old
                                              ELSE committed + GrowSegment

GrowOld ==
    /\ pc \in {"grow", "fullgrow"}
    /\ committed' = Grown
    /\ pc' = CASE pc = "grow" /\ Grown > committed -> "grownold"
               [] pc = "grow" /\ Grown = committed -> "full"
               [] pc = "fullgrow" /\ Grown > committed -> "fullgrownold"
               [] pc = "fullgrow" /\ Grown = committed -> "stalled"
    /\ UNCHANGED <<obj, fwd, top, from, dirty, offsets, gcVars, root, code, req>>

LastResort ==
    /\ pc = "full"
    /\ FullGc
    /\ pc' = "fullbump"
    /\ UNCHANGED <<committed, threshold, met, ret, worst, oldTop0, cur, stall, req>>

(* Mutant: the survivors of `from` are not counted. *)
WorstCaseEdenOnly == top.eden - Start.eden

(* ensure_promotion_guarantee: room in the old generation for every word of *)
(* eden and from, by a full collection first and by growth after it. *)
WorstCase == (top.eden - Start.eden) + (top[from] - Start[from])

EnsurePromotionGuarantee ==
    /\ pc = "ensure"
    /\ worst' = WorstCase
    /\ \/ /\ OldFree >= WorstCase
          /\ met' = TRUE
          /\ pc' = "scavenge"
          /\ UNCHANGED <<heapVars, ageTable, root, code>>
       \/ /\ OldFree < WorstCase
          /\ FullGc
          /\ pc' = "guarantee"
          /\ UNCHANGED <<committed, met>>
    /\ UNCHANGED <<threshold, ret, oldTop0, cur, stall, req>>

(* Mutant: the growth loop does not stop when the reservation is used up. *)
GrowForGuaranteeForever ==
    /\ pc = "guarantee"
    /\ \/ OldFree < worst /\ committed' = Grown /\ UNCHANGED <<met, pc>>
       \/ OldFree >= worst /\ met' = TRUE /\ pc' = "scavenge" /\ UNCHANGED committed
    /\ UNCHANGED <<obj, fwd, top, from, dirty, offsets, threshold, ageTable, ret,
                   worst, oldTop0, cur, stall, root, code, req>>

GrowForGuarantee ==
    /\ pc = "guarantee"
    /\ \/ /\ OldFree < worst /\ Grown > committed
          /\ committed' = Grown
          /\ UNCHANGED <<met, pc>>
       \/ /\ OldFree >= worst \/ Grown = committed
          /\ met' = (OldFree >= worst)
          /\ pc' = "scavenge"
          /\ UNCHANGED committed
    /\ UNCHANGED <<obj, fwd, top, from, dirty, offsets, threshold, ageTable, ret,
                   worst, oldTop0, cur, stall, root, code, req>>

(* Smalltalk gcScavenge and Smalltalk gcFull. *)
PrimGcScavenge ==
    /\ GcPrimitives /\ pc = "mutator"
    /\ pc' = "scavenge" /\ ret' = "mutator"
    /\ UNCHANGED <<heapVars, threshold, ageTable, met, worst, oldTop0, cur,
                   stall, root, code, req>>

PrimGcFull ==
    /\ GcPrimitives /\ pc = "mutator"
    /\ FullGc
    /\ UNCHANGED <<committed, threshold, met, ret, worst, oldTop0, cur, stall,
                   pc, req>>

-----------------------------------------------------------------------------
(* scavenge_oop, applied to value v. *)

NeedsCopy(v) == IsNew(v) /\ ~In(v, to) /\ v \notin DOMAIN fwd

(* The space the copy goes to: by age or on survivor overflow to the old   *)
(* generation, else to `to`; "none" when the old generation has no room.   *)
Target(v) ==
    IF obj[v].age + 1 < threshold /\ top[to] + Size(v) <= End[to] THEN to
    ELSE IF OldFits(Size(v)) THEN "old" ELSE "none"

Copies(v) == NeedsCopy(v) /\ Target(v) # "none"

Moved(v) == IF Copies(v) THEN top[Target(v)]
            ELSE IF v \in DOMAIN fwd THEN fwd[v] ELSE v

NewAge(v) == IF obj[v].age + 1 > AgeMax THEN AgeMax ELSE obj[v].age + 1

CopyOf(v) == IF Target(v) = "old" THEN obj[v] ELSE [obj[v] EXCEPT !.age = NewAge(v)]

ObjAfter(v) ==
    IF Copies(v)
    THEN [a \in DOMAIN obj \cup {Moved(v)} |-> IF a = Moved(v) THEN CopyOf(v) ELSE obj[a]]
    ELSE obj

(* The cards a copy dirties: all of a promoted object's, whether it was     *)
(* promoted by age or by overflow. *)
PromotionCards(v) ==
    IF Target(v) = "old" THEN CardsOf(top.old, top.old + Size(v)) ELSE {}

(* Everything scavenge_oop changes except obj and the scanned location;     *)
(* `next` is where the scan continues. *)
ScavengeOop(v, next) ==
    /\ IF Copies(v)
       THEN /\ fwd' = [a \in DOMAIN fwd \cup {v} |-> IF a = v THEN Moved(v) ELSE fwd[a]]
            /\ top' = [top EXCEPT ![Target(v)] = @ + Size(v)]
            /\ dirty' = dirty \cup PromotionCards(v)
            /\ offsets' = IF Target(v) = "old" THEN record_object(offsets, top.old, Size(v))
                          ELSE offsets
            /\ ageTable' = IF Target(v) = "old" THEN ageTable
                           ELSE [ageTable EXCEPT ![NewAge(v)] = @ + Size(v)]
       ELSE UNCHANGED <<fwd, top, dirty, offsets, ageTable>>
    /\ stall' = (stall \/ (NeedsCopy(v) /\ Target(v) = "none"))
    /\ pc' = IF In(v, to) THEN "panic" ELSE next

-----------------------------------------------------------------------------
(* The scavenge: roots, dirty cards, code roots, Cheney scan, swap. *)

scanFrame == <<from, committed, threshold, met, ret, worst, req>>

(* Mutant: the allocator's klass stays a bare local, not a handle. *)
StartScavengeNoHandle ==
    /\ pc = "scavenge"
    /\ ageTable' = EmptyAges
    /\ oldTop0' = top.old
    /\ top' = [top EXCEPT ![to] = Start[to]]
    /\ cur' = [NoCur EXCEPT !.i = 1]
    /\ pc' = "roots"
    /\ UNCHANGED <<obj, fwd, dirty, offsets, stall, root, code, scanFrame>>

StartScavenge ==
    /\ pc = "scavenge"
    /\ ageTable' = EmptyAges
    /\ oldTop0' = top.old
    /\ top' = [top EXCEPT ![to] = Start[to]]
    /\ cur' = NoCur
    /\ pc' = "roots"
    /\ UNCHANGED <<obj, fwd, dirty, offsets, stall, root, code, scanFrame>>

ScanRoot ==
    /\ pc = "roots" /\ cur.i <= NRoots
    /\ root' = [root EXCEPT ![cur.i] = Moved(root[cur.i])]
    /\ obj' = ObjAfter(root[cur.i])
    /\ ScavengeOop(root[cur.i], "roots")
    /\ cur' = [cur EXCEPT !.i = @ + 1]
    /\ UNCHANGED <<oldTop0, code, scanFrame>>

CardCursor(c) == [NoCur EXCEPT !.i = c, !.w = CardBase(c)]

RootsDone ==
    /\ pc = "roots" /\ cur.i > NRoots
    /\ pc' = "cards" /\ cur' = CardCursor(0)
    /\ UNCHANGED <<obj, fwd, top, dirty, offsets, ageTable, oldTop0, stall, root, code,
                   scanFrame>>

(* dirty_card_scan.  cur.i is the card, cur.w the next word of its window,  *)
(* cur.new is still_points_new. *)
CardInRange == pc = "cards" /\ CardBase(cur.i) < oldTop0
CardEnd == CardBase(cur.i + 1)
(* Mutant: the scan of a boundary card runs into this cycle's promotions. *)
WindowEndUnclipped == IF CardEnd <= top.old THEN CardEnd ELSE top.old

WindowEnd == IF CardEnd <= oldTop0 THEN CardEnd ELSE oldTop0

SkipCleanCard ==
    /\ CardInRange /\ cur.i \notin dirty
    /\ cur' = CardCursor(cur.i + 1)
    /\ UNCHANGED <<obj, fwd, top, dirty, offsets, ageTable, oldTop0, stall, root, code,
                   pc, scanFrame>>

SlotAt(a, w) == IsOld(a) /\ w - a \in Slots(a)

ScanCardSlot(a) ==
    /\ CardInRange /\ cur.i \in dirty /\ cur.w < WindowEnd
    /\ SlotAt(a, cur.w)
    /\ LET v == obj[a].f[cur.w - a]
       IN  /\ obj' = [ObjAfter(v) EXCEPT ![a].f[cur.w - a] = Moved(v)]
           /\ ScavengeOop(v, "cards")
           /\ cur' = [cur EXCEPT !.w = @ + 1, !.new = @ \/ IsNew(Moved(v))]
    /\ UNCHANGED <<oldTop0, root, code, scanFrame>>

SkipMarkWord ==
    /\ CardInRange /\ cur.i \in dirty /\ cur.w < WindowEnd
    /\ \A a \in DOMAIN obj : ~SlotAt(a, cur.w)
    /\ cur' = [cur EXCEPT !.w = @ + 1]
    /\ UNCHANGED <<obj, fwd, top, dirty, offsets, ageTable, oldTop0, stall, root, code,
                   pc, scanFrame>>

(* Mutant: the boundary card is cleaned like any other. *)
MayCleanAnyCard == ~cur.new

(* Only a card wholly below old_top_before may be cleaned. *)
MayClean == ~cur.new /\ CardEnd <= oldTop0

FinishCard ==
    /\ CardInRange /\ cur.i \in dirty /\ cur.w >= WindowEnd
    /\ dirty' = IF MayClean THEN dirty \ {cur.i} ELSE dirty
    /\ cur' = CardCursor(cur.i + 1)
    /\ UNCHANGED <<obj, fwd, top, offsets, ageTable, oldTop0, stall, root, code, pc,
                   scanFrame>>

CardsDone ==
    /\ pc = "cards" /\ CardBase(cur.i) >= oldTop0
    /\ pc' = "code" /\ cur' = [NoCur EXCEPT !.i = 1]
    /\ UNCHANGED <<obj, fwd, top, dirty, offsets, ageTable, oldTop0, stall, root, code,
                   scanFrame>>

ScanCode ==
    /\ pc = "code" /\ cur.i <= NCode
    /\ code' = [code EXCEPT ![cur.i] = Moved(code[cur.i])]
    /\ obj' = ObjAfter(code[cur.i])
    /\ ScavengeOop(code[cur.i], "code")
    /\ cur' = [cur EXCEPT !.i = @ + 1]
    /\ UNCHANGED <<oldTop0, root, scanFrame>>

(* A stall recorded anywhere in the root scan ends the process here. *)
CodeDone ==
    /\ pc = "code" /\ cur.i > NCode
    /\ pc' = IF stall THEN "stalled" ELSE "cheney"
    /\ cur' = [NoCur EXCEPT !.to = Start[to], !.old = oldTop0]
    /\ UNCHANGED <<obj, fwd, top, dirty, offsets, ageTable, oldTop0, stall, root, code,
                   scanFrame>>

(* The Cheney loop.  cur.w is the object being scanned (0 between objects), *)
(* cur.i its next slot; cur.to and cur.old are to_scan and old_scan. *)
PickObject ==
    /\ pc = "cheney" /\ cur.w = 0
    /\ \/ /\ cur.to < top[to]
          /\ cur' = [cur EXCEPT !.w = cur.to, !.i = 1, !.to = @ + Size(@)]
       \/ /\ cur.to >= top[to] /\ cur.old < top.old
          /\ cur' = [cur EXCEPT !.w = cur.old, !.i = 1, !.old = @ + Size(@)]
    /\ UNCHANGED <<obj, fwd, top, dirty, offsets, ageTable, oldTop0, stall, root, code,
                   pc, scanFrame>>

ScanObjectSlot ==
    /\ pc = "cheney" /\ cur.w # 0 /\ cur.i \in Slots(cur.w)
    /\ LET v == obj[cur.w].f[cur.i]
       IN  /\ obj' = [ObjAfter(v) EXCEPT ![cur.w].f[cur.i] = Moved(v)]
           /\ ScavengeOop(v, "cheney")
    /\ cur' = [cur EXCEPT !.i = @ + 1]
    /\ UNCHANGED <<oldTop0, root, code, scanFrame>>

ObjectDone ==
    /\ pc = "cheney" /\ cur.w # 0 /\ cur.i \notin Slots(cur.w)
    /\ pc' = IF stall THEN "stalled" ELSE "cheney"
    /\ cur' = [cur EXCEPT !.w = 0]
    /\ UNCHANGED <<obj, fwd, top, dirty, offsets, ageTable, oldTop0, stall, root, code,
                   scanFrame>>

(* AgeTable::compute_threshold. *)
ComputeThreshold ==
    LET cumulative[a \in 0..AgeMax] ==
            ageTable[a] + (IF a = 0 THEN 0 ELSE cumulative[a - 1])
        over == {a \in 0..AgeMax : cumulative[a] > SurvivorWords \div 2}
    IN  IF over = {} THEN AgeMax
        ELSE CHOOSE a \in over : \A b \in over : a <= b

Vacated(a) == In(a, "eden") \/ In(a, from)

FinishScavenge ==
    /\ pc = "cheney" /\ cur.w = 0 /\ cur.to >= top[to] /\ cur.old >= top.old
    /\ obj' = [a \in {b \in DOMAIN obj : ~Vacated(b)} |-> obj[a]]
    /\ fwd' = <<>>
    /\ from' = to
    /\ top' = [top EXCEPT !.eden = Start.eden, ![from] = Start[from]]
    /\ threshold' = ComputeThreshold
    /\ pc' = ret
    /\ cur' = NoCur /\ worst' = 0 /\ oldTop0' = Start.old
    /\ UNCHANGED <<committed, dirty, offsets, ageTable, met, ret, stall, root, code, req>>

-----------------------------------------------------------------------------
Mutate ==
    \/ \E r \in 1..NRoots, v \in Stack \cup {0} : Move(r, v)
    \/ \E r \in 1..NRoots, a \in Stack \ {0} : \E i \in Slots(a) : Load(r, a, i)
    \/ \E c \in 1..NCode, v \in Stack \cup {0} : Embed(c, v)
    \/ \E a \in Stack \ {0}, v \in Stack \cup {0} : \E i \in Slots(a) :
           Store(a, i, v) \/ RuntimeStore(a, i, v)
    \/ \E n \in SlotCounts, r \in 1..NRoots, k \in Stack \cup {0} : Alloc(n, r, k)
    \/ PrimGcScavenge \/ PrimGcFull

Cascade ==
    \/ TryBumpEden \/ TryOldAlloc \/ GrowOld \/ LastResort
    \/ EnsurePromotionGuarantee \/ GrowForGuarantee

Scavenge ==
    \/ StartScavenge \/ ScanRoot \/ RootsDone
    \/ SkipCleanCard \/ SkipMarkWord \/ FinishCard \/ CardsDone
    \/ \E a \in DOMAIN obj : ScanCardSlot(a)
    \/ ScanCode \/ CodeDone
    \/ PickObject \/ ScanObjectSlot \/ ObjectDone \/ FinishScavenge

Next == Mutate \/ Cascade \/ Scavenge

Spec == Init /\ [][Next]_vars

(* The collector and the allocator run to completion on the VM's thread. *)
FairSpec == Spec /\ WF_vars(Cascade) /\ WF_vars(Scavenge)
-----------------------------------------------------------------------------
(* Properties. *)

Idle == {"mutator", "stalled", "panic"}
Stages == DOMAIN AfterBump \cup DOMAIN AfterOld
            \cup {"ensure", "guarantee", "grow", "fullgrow", "full", "scavenge"}
Phases == {"roots", "cards", "code", "cheney"}

Object == [id : Nat \ {0}, age : 0..AgeMax, f : Seq(Val)]

(* The types of the state. *)
TypeOK ==
    /\ DOMAIN obj \subseteq Addr
    /\ \A a \in DOMAIN obj : obj[a] \in Object
    /\ DOMAIN fwd \subseteq DOMAIN obj /\ \A a \in DOMAIN fwd : fwd[a] \in Addr
    /\ top \in [Spaces -> Nat] /\ \A s \in Spaces : Start[s] <= top[s] /\ top[s] <= End[s]
    /\ from \in Survivors
    /\ committed \in Start.old .. End.old /\ top.old <= committed
    /\ dirty \subseteq Cards
    /\ offsets \in [Cards -> 0 .. MaxDirect + MaxChainSkip]
    /\ root \in [0..NRoots -> Val] /\ code \in [1..NCode -> Val]
    /\ threshold \in 0..AgeMax /\ ageTable \in [0..AgeMax -> Nat]
    /\ met \in BOOLEAN /\ stall \in BOOLEAN
    /\ pc \in Idle \cup Stages \cup Phases
    /\ ret \in {"mutator", "bump", "rebump"}
    /\ req \in [n : SlotCounts \cup {0}, dst : 0..NRoots]
    /\ worst \in Nat /\ oldTop0 \in Start.old .. End.old
    /\ cur \in [i : Nat, w : Nat, new : BOOLEAN, to : Nat, old : Nat]

(* Every reference from the old to the new generation lies on a dirty card, *)
(* at every step of mutator and collector: what scavenge relies on when it  *)
(* skips the clean cards, and what the store barriers, the promotion path   *)
(* and the boundary-card rule of dirty_card_scan must keep true together.   *)
RememberedSet ==
    \A a \in DOMAIN obj : IsOld(a) =>
        \A i \in Slots(a) : IsNew(obj[a].f[i]) => CardOf(a + i) \in dirty

(* No reference in a root, a code pool or any object of the heap, dead ones *)
(* included, ever names anything but the header of an object: nothing is    *)
(* left pointing into the eden and the from-space a scavenge vacates, or at *)
(* an address a compaction moved away from.                                 *)
RefsValid ==
    /\ \A a \in DOMAIN obj : \A i \in Slots(a) : obj[a].f[i] \in DOMAIN obj \cup {0}
    /\ Roots \subseteq DOMAIN obj \cup {0}

(* A space can be walked from its bottom to its top object by object: every *)
(* word below the bump pointer belongs to exactly one object.               *)
Parsable ==
    \A s \in Spaces : \A w \in Start[s] .. top[s] - 1 :
        Cardinality({a \in DOMAIN obj : a <= w /\ w < a + Size(a)}) = 1

(* The offset table leads from every card below the top of the old          *)
(* generation to the header of the object covering the card's base, after   *)
(* any mix of direct allocations, promotions and compactions: what          *)
(* dirty_card_scan starts its walk of a dirty card from.                    *)
OffsetsResolve ==
    \A c \in Cards : CardBase(c) < top.old =>
        \E a \in DOMAIN obj :
            /\ a <= CardBase(c) /\ CardBase(c) < a + Size(a)
            /\ resolve(c) = a

(* scavenge_oop is never handed a to-space address (its panic): no location *)
(* is visited twice in one scavenge, whichever of the root scan, the card   *)
(* windows, the code roots and the two Cheney fronts reach it.              *)
NoDoubleVisit == pc # "panic"

(* After the cascade reported the promotion guarantee as met, no promotion  *)
(* fails for lack of room, in any order of ages and overflows.              *)
GuaranteeHolds == stall /\ ret # "mutator" => ~met

(* A stall of a promotion is possible only where the guarantee could not be *)
(* met, whoever asked for the scavenge: what record_stall asserts.          *)
StallOnlyUnmet == stall => ~met

(* A collection or an allocation always ends, in the program or in a stall. *)
CollectionEnds == pc \notin Idle ~> pc \in {"mutator", "stalled"}
=============================================================================
