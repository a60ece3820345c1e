--------------------------- MODULE DispatchProofs ---------------------------
(***************************************************************************)
(* The caches of the interpreter's sends answer what the dictionaries say, *)
(* for any classes, sites and redefinitions.                               *)
(***************************************************************************)
EXTENDS Dispatch, LookupProofs

-----------------------------------------------------------------------------
(***************************************************************************)
(* The pairs reverify_poly keeps                                           *)
(***************************************************************************)

(* The pairs kept of the first i, and the loop that computes them. *)
KeptStep(f, g, i) ==
    IF i = 0 THEN <<>>
    ELSE IF f[i].m = None THEN g[i - 1]
    ELSE Append(g[i - 1], f[i])

KeptLoop(f, n, g) == g = [i \in 0..n |-> KeptStep(f, g, i)]

(* The loop is defined for every number of pairs: the least number for     *)
(* which it were not would extend the loop of its predecessor.             *)
LEMMA KeptLoopExists ==
    ASSUME NEW f, NEW n \in Nat PROVE \E g : KeptLoop(f, n, g)
  <1> DEFINE T == {k \in Nat : ~\E g : KeptLoop(f, k, g)}
  <1> SUFFICES ASSUME T # {} PROVE FALSE
    OBVIOUS
  <1>1. PICK k \in T : \A y \in T : k <= y
    BY LeastNat
  <1>2. CASE k = 0
    <2> DEFINE g == [i \in 0..0 |-> <<>>]
    <2>1. KeptLoop(f, 0, g)
      BY DEF KeptLoop, KeptStep
    <2> QED BY <1>2, <2>1
  <1>3. CASE k # 0
    <2>1. k \in Nat /\ k - 1 \in Nat /\ k - 1 \notin T
      BY <1>1, <1>3
    <2>2. PICK g : KeptLoop(f, k - 1, g)
      BY <2>1
    <2> DEFINE h == [i \in 0..k |-> IF i = k THEN KeptStep(f, g, k) ELSE g[i]]
    <2>3. ASSUME NEW i \in 0..k PROVE h[i] = KeptStep(f, h, i)
      <3>1. CASE i = k
        BY <1>3, <2>1, <3>1 DEF KeptStep
      <3>2. CASE i # k
        <4>1. i \in 0..k - 1 /\ h[i] = g[i] /\ (i # 0 => h[i - 1] = g[i - 1])
          BY <2>1, <3>2
        <4>2. g[i] = KeptStep(f, g, i)
          BY <2>2, <4>1 DEF KeptLoop
        <4> QED BY <4>1, <4>2 DEF KeptStep
      <3> QED BY <3>1, <3>2
    <2>4. KeptLoop(f, k, h)
      <3>1. [i \in 0..k |-> h[i]] = [i \in 0..k |-> KeptStep(f, h, i)]
        BY <2>3
      <3>2. h = [i \in 0..k |-> h[i]]
        OBVIOUS
      <3> QED BY <3>1, <3>2 DEF KeptLoop
    <2> QED BY <2>4
  <1> QED BY <1>2, <1>3

(* After i rounds the loop has kept at most i pairs, each one of those it  *)
(* was given and each resolved.                                            *)
LEMMA KeptLoopInvariant ==
    ASSUME NEW S, NEW f \in Seq(S), NEW g, KeptLoop(f, Len(f), g)
    PROVE  \A i \in 0..Len(f) :
             /\ g[i] \in Seq(S) /\ Len(g[i]) <= i
             /\ \A j \in 1..Len(g[i]) :
                   \E h \in 1..Len(f) : g[i][j] = f[h] /\ f[h].m # None
  <1> DEFINE P(i) == /\ g[i] \in Seq(S) /\ Len(g[i]) <= i
                     /\ \A j \in 1..Len(g[i]) :
                           \E h \in 1..Len(f) : g[i][j] = f[h] /\ f[h].m # None
             T == {i \in 0..Len(f) : ~P(i)}
  <1>0. Len(f) \in Nat /\ \A i \in 1..Len(f) : f[i] \in S
    BY LenProperties
  <1>1. \A i \in 0..Len(f) : g[i] = KeptStep(f, g, i)
    BY DEF KeptLoop
  <1> SUFFICES ASSUME T # {} PROVE FALSE
    OBVIOUS
  <1>2. PICK i \in T : \A y \in T : i <= y
    <2>1. T \subseteq Nat
      BY <1>0
    <2> HIDE DEF T
    <2> QED BY <2>1, LeastNat
  <1>3. CASE i = 0
    <2>1. g[i] = <<>>
      BY <1>0, <1>1, <1>3 DEF KeptStep
    <2>2. P(i)
      BY <1>3, <2>1, EmptySeq
    <2> QED BY <1>2, <2>2
  <1>4. CASE i # 0
    <2>1. i \in 1..Len(f) /\ i - 1 \in 0..Len(f) /\ i - 1 \notin T
      BY <1>0, <1>2, <1>4
    <2>2. P(i - 1)
      BY <2>1
    <2>3. CASE f[i].m = None
      <3>1. g[i] = g[i - 1]
        BY <1>1, <2>1, <2>3 DEF KeptStep
      <3>2. P(i)
        <4>1. Len(g[i - 1]) \in Nat
          BY <2>2, LenProperties
        <4>2. Len(g[i]) <= i
          BY <2>1, <2>2, <3>1, <4>1
        <4> QED BY <2>2, <3>1, <4>2
      <3> QED BY <1>2, <3>2
    <2>4. CASE f[i].m # None
      <3> DEFINE p == g[i - 1]
      <3>1. g[i] = Append(p, f[i])
        <4>1. g[i] = KeptStep(f, g, i)
          BY <1>1, <2>1
        <4>2. KeptStep(f, g, i) = Append(p, f[i])
          BY <1>4, <2>4, Zenon DEF KeptStep
        <4> QED BY <4>1, <4>2
      <3>2. p \in Seq(S) /\ Len(p) \in Nat /\ Len(p) <= i - 1 /\ f[i] \in S
        BY <1>0, <2>1, <2>2, LenProperties
      <3>3. /\ g[i] \in Seq(S) /\ Len(g[i]) = Len(p) + 1
            /\ \A j \in 1..Len(p) : g[i][j] = p[j]
            /\ g[i][Len(p) + 1] = f[i]
        BY <3>1, <3>2, AppendProperties
      <3> HIDE DEF p
      <3>4. ASSUME NEW j \in 1..Len(g[i])
            PROVE  \E h \in 1..Len(f) : g[i][j] = f[h] /\ f[h].m # None
        <4>1. CASE j \in 1..Len(p)
          <5>1. PICK h \in 1..Len(f) : p[j] = f[h] /\ f[h].m # None
            BY <2>2, <4>1, Zenon DEF p
          <5>2. g[i][j] = f[h]
            BY <3>3, <4>1, <5>1
          <5> QED BY <5>1, <5>2, Zenon
        <4>2. CASE j = Len(p) + 1
          BY <2>1, <2>4, <3>3, <4>2
        <4> QED BY <3>2, <3>3, <4>1, <4>2
      <3>5. P(i)
        BY <2>1, <3>2, <3>3, <3>4
      <3> QED BY <1>2, <3>5
    <2> QED BY <2>3, <2>4
  <1> QED BY <1>3, <1>4

(* What reverify_poly keeps are pairs it was given, no more of them, and   *)
(* each resolved.                                                          *)
LEMMA KeptPairs ==
    ASSUME NEW S, NEW f \in Seq(S)
    PROVE  /\ Kept(f) \in Seq(S) /\ Len(Kept(f)) <= Len(f)
           /\ \A j \in 1..Len(Kept(f)) :
                 \E h \in 1..Len(f) : Kept(f)[j] = f[h] /\ f[h].m # None
  <1>1. Len(f) \in Nat
    BY LenProperties
  <1> DEFINE g == CHOOSE g : KeptLoop(f, Len(f), g)
  <1>2. KeptLoop(f, Len(f), g)
    BY <1>1, KeptLoopExists
  <1>3. Kept(f) = g[Len(f)]
    BY DEF Kept, KeptLoop, KeptStep
  <1> HIDE DEF g
  <1> QED BY <1>1, <1>2, <1>3, KeptLoopInvariant

-----------------------------------------------------------------------------
(***************************************************************************)
(* The inductive invariant                                                 *)
(***************************************************************************)

PairRec == [k : Klasses, m : Methods \cup {None}]
MonoRec == [kind : {"mono"}, k : Klasses, m : Methods \cup {None},
            compiled : BOOLEAN, epoch : Nat]
PolyRec == [kind : {"poly"}, ps : Seq(PairRec), epoch : Nat]

(* All pairs but the first are what dispatch gives. *)
PairsCurrent(ps, s) == \A j \in 2..Len(ps) : ps[j].m = Truth(ps[j].k, s)

(* What a site that sends s may hold: nothing stamped in the future, and   *)
(* nothing stamped now that dispatch would contradict.                     *)
GoodMono(c, s) ==
    /\ c \in MonoRec /\ c.epoch <= epoch
    /\ (c.epoch = epoch /\ ~c.compiled) => c.m = Truth(c.k, s)
GoodPoly(c, s) ==
    /\ c \in PolyRec /\ c.epoch <= epoch /\ Len(c.ps) \in 1..PolyMax
    /\ c.epoch = epoch => PairsCurrent(c.ps, s)
GoodIc(c, s) == c = EmptyIc \/ c = MegaIc \/ GoodMono(c, s) \/ GoodPoly(c, s)

CacheTyped == cache \in [Keys -> Methods \cup {None}]
IcsGood == ic = [i \in Sites |-> ic[i]] /\ \A i \in Sites : GoodIc(ic[i], Selector[i])

IInv == LookupTypeOK /\ CacheTyped /\ CacheCurrent /\ IcsGood

(* Probing first changes nothing: a hit is what the walk would find. *)
LEMMA ProbeIsWalk ==
    ASSUME IInv, NEW k \in Klasses, NEW s \in Selectors
    PROVE  /\ lookup(k, s) = Truth(k, s)
           /\ lookup(k, s) \in Methods \cup {None}
  BY WalkTyped DEF IInv, CacheCurrent, lookup, Truth

(* What a send leaves in the lookup cache is current. *)
LEMMA CacheAfterCurrent ==
    ASSUME IInv, NEW K, NEW s \in Selectors, cache' = CacheAfter(K, s),
           UNCHANGED <<dict, epoch>>
    PROVE  LookupTypeOK' /\ CacheTyped' /\ CacheCurrent'
  <1>1. LookupTypeOK'
    BY DEF IInv, LookupTypeOK
  <1>2. ASSUME NEW key \in Keys PROVE cache'[key] \in {lookup(key[1], s), cache[key]}
    BY DEF CacheAfter
  <1>3. CacheTyped'
    <2>1. \A key \in Keys : lookup(key[1], s) \in Methods \cup {None}
      BY ProbeIsWalk DEF Keys
    <2> QED BY <2>1 DEF IInv, CacheTyped, CacheAfter
  <1>4. ASSUME NEW k \in Klasses, NEW r \in Selectors, cache'[<<k, r>>] # None
        PROVE  cache'[<<k, r>>] = Truth(k, r)
    <2>1. <<k, r>> \in Keys /\ <<k, r>>[1] = k /\ <<k, r>>[2] = r
      BY DEF Keys
    <2>2. CASE k \in K /\ r = s
      BY <2>1, <2>2, ProbeIsWalk DEF CacheAfter
    <2>3. CASE ~(k \in K /\ r = s)
      BY <1>4, <2>1, <2>3 DEF CacheAfter, IInv, CacheCurrent
    <2> QED BY <2>2, <2>3
  <1>5. ASSUME NEW k \in Klasses, NEW r \in Selectors PROVE Truth(k, r)' = Truth(k, r)
    BY DEF Truth, lookup_uncached, MethodIn
  <1> QED BY <1>1, <1>3, <1>4, <1>5 DEF CacheCurrent

-----------------------------------------------------------------------------
(***************************************************************************)
(* What ic_transition writes                                               *)
(***************************************************************************)

(* A mono entry filled from a lookup is good. *)
LEMMA FillEmptyGood ==
    ASSUME IInv, NEW k \in Klasses, NEW s \in Selectors
    PROVE  GoodIc(FillEmpty(k, lookup(k, s)), s)
  <1> DEFINE m == lookup(k, s)
  <1>1. m = Truth(k, s) /\ m \in Methods \cup {None}
    BY ProbeIsWalk
  <1>2. epoch \in Nat
    BY LookupAssumption DEF IInv, LookupTypeOK
  <1> HIDE DEF m
  <1>3. GoodMono(MonoIc(k, m), s)
    BY <1>1, <1>2 DEF GoodMono, MonoIc, MonoRec
  <1> QED BY <1>3 DEF FillEmpty, GoodIc, m

(* Stamping current pairs makes a good poly entry. *)
LEMMA PolyIcGood ==
    ASSUME IInv, NEW s \in Selectors, NEW ps \in Seq(PairRec),
           Len(ps) \in 1..PolyMax, PairsCurrent(ps, s)
    PROVE  GoodIc(PolyIc(ps), s)
  <1>1. epoch \in Nat
    BY LookupAssumption DEF IInv, LookupTypeOK
  <1>2. PolyIc(ps) \in PolyRec /\ PolyIc(ps).ps = ps /\ PolyIc(ps).epoch = epoch
    BY <1>1 DEF PolyIc, PolyRec
  <1> QED BY <1>1, <1>2 DEF GoodIc, GoodPoly

(* Rows 5 and 6: the second pair is current, whatever the first one is. *)
LEMMA DemoteGood ==
    ASSUME IInv, NEW k \in Klasses, NEW s \in Selectors, NEW c, GoodMono(c, s)
    PROVE  GoodIc(Demote(c, k, s, lookup(k, s)), s)
  <1> DEFINE m == lookup(k, s)
             m0 == IF c.compiled THEN lookup(c.k, s) ELSE c.m
             ps == <<Pair(c.k, m0), Pair(k, m)>>
  <1>1. m = Truth(k, s) /\ m \in Methods \cup {None}
    BY ProbeIsWalk
  <1>2. c.k \in Klasses /\ m0 \in Methods \cup {None}
    <2>1. c.k \in Klasses /\ c.m \in Methods \cup {None}
      BY DEF GoodMono, MonoRec
    <2> QED BY <2>1, ProbeIsWalk
  <1> HIDE DEF m, m0
  <1>3. Pair(c.k, m0) \in PairRec /\ Pair(k, m) \in PairRec
    BY <1>1, <1>2 DEF Pair, PairRec
  <1>4. ps \in Seq(PairRec) /\ Len(ps) = 2 /\ ps[2] = Pair(k, m)
    BY <1>3
  <1>5. PairsCurrent(ps, s)
    BY <1>1, <1>4 DEF PairsCurrent, Pair
  <1>6. Len(ps) \in 1..PolyMax
    BY <1>4, DispatchAssumption
  <1> HIDE DEF ps
  <1>7. GoodIc(PolyIc(ps), s)
    BY <1>4, <1>5, <1>6, PolyIcGood
  <1> QED BY <1>7 DEF Demote, GoodIc, m, m0, ps

(* Row 8: the pairs of a stale entry are resolved again, all of them; the  *)
(* pairs of a current one are taken as they are.                           *)
LEMMA CurrentPairsGood ==
    ASSUME IInv, NEW s \in Selectors, NEW c, GoodPoly(c, s)
    PROVE  /\ CurrentPairs(c, s) \in Seq(PairRec)
           /\ Len(CurrentPairs(c, s)) <= PolyMax
           /\ PairsCurrent(CurrentPairs(c, s), s)
  <1>1. /\ c.ps \in Seq(PairRec) /\ Len(c.ps) \in Nat /\ DOMAIN c.ps = 1..Len(c.ps)
        /\ Len(c.ps) <= PolyMax /\ \A j \in 1..Len(c.ps) : c.ps[j].k \in Klasses
    <2>1. c.ps \in Seq(PairRec) /\ Len(c.ps) <= PolyMax
      BY DispatchAssumption DEF GoodPoly, PolyRec
    <2>2. /\ Len(c.ps) \in Nat /\ DOMAIN c.ps = 1..Len(c.ps)
          /\ \A j \in 1..Len(c.ps) : c.ps[j] \in PairRec
      BY <2>1, LenProperties
    <2> QED BY <2>1, <2>2 DEF PairRec
  <1>2. CASE c.epoch = epoch
    BY <1>1, <1>2 DEF CurrentPairs, GoodPoly
  <1>3. CASE c.epoch # epoch
    <2> DEFINE n == Len(c.ps)
               fresh == [j \in DOMAIN c.ps |-> Pair(c.ps[j].k, lookup(c.ps[j].k, s))]
    <2>1. ASSUME NEW j \in 1..n
          PROVE  fresh[j] \in PairRec /\ fresh[j].m = Truth(fresh[j].k, s)
      <3>1. fresh[j] = Pair(c.ps[j].k, lookup(c.ps[j].k, s)) /\ c.ps[j].k \in Klasses
        BY <1>1
      <3> QED BY <3>1, ProbeIsWalk DEF Pair, PairRec
    <2>2. fresh \in Seq(PairRec) /\ Len(fresh) = n
      <3>1. fresh \in [1..n -> PairRec]
        BY <1>1, <2>1
      <3>2. fresh \in Seq(PairRec)
        BY <1>1, <3>1, SeqDef
      <3>3. DOMAIN fresh = 1..n /\ DOMAIN fresh = 1..Len(fresh) /\ Len(fresh) \in Nat
        BY <1>1, <3>2, LenProperties
      <3> QED BY <1>1, <3>2, <3>3
    <2> HIDE DEF fresh
    <2>3. CurrentPairs(c, s) = Kept(fresh)
      BY <1>3 DEF CurrentPairs, reverify_poly, fresh
    <2>4. /\ Kept(fresh) \in Seq(PairRec) /\ Len(Kept(fresh)) <= n
          /\ \A j \in 1..Len(Kept(fresh)) : \E h \in 1..n : Kept(fresh)[j] = fresh[h]
      BY <2>2, KeptPairs
    <2>5. Len(Kept(fresh)) \in Nat
      BY <2>4, LenProperties
    <2>6. PairsCurrent(Kept(fresh), s)
      BY <2>1, <2>4, <2>5 DEF PairsCurrent
    <2> QED BY <1>1, <2>3, <2>4, <2>5, <2>6, DispatchAssumption
  <1> QED BY <1>2, <1>3

(* Rows 7 to 11: a pair is added while there is room. *)
LEMMA PolyNextGood ==
    ASSUME IInv, NEW k \in Klasses, NEW s \in Selectors, NEW ps \in Seq(PairRec),
           Len(ps) <= PolyMax, PairsCurrent(ps, s)
    PROVE  GoodIc(PolyNext(ps, k, lookup(k, s)), s)
  <1> DEFINE m == lookup(k, s)
             more == Append(ps, Pair(k, m))
  <1>1. m = Truth(k, s) /\ m \in Methods \cup {None}
    BY ProbeIsWalk
  <1>2. Len(ps) \in Nat /\ (ps # <<>> => Len(ps) \in 1..PolyMax)
    BY DispatchAssumption, LenProperties, EmptySeq
  <1>3. CASE ps = <<>>
    BY <1>3, FillEmptyGood DEF PolyNext
  <1>4. CASE ps # <<>> /\ (HasPair(ps, k) \/ m = None)
    BY <1>2, <1>4, PolyIcGood DEF PolyNext
  <1>5. CASE ps # <<>> /\ ~(HasPair(ps, k) \/ m = None) /\ Len(ps) < PolyMax
    <2> HIDE DEF m
    <2>1. Pair(k, m) \in PairRec /\ Pair(k, m).m = Truth(Pair(k, m).k, s)
      BY <1>1 DEF Pair, PairRec
    <2>2. /\ more \in Seq(PairRec) /\ Len(more) = Len(ps) + 1
          /\ \A j \in 1..Len(ps) : more[j] = ps[j]
          /\ more[Len(ps) + 1] = Pair(k, m)
      BY <2>1, AppendProperties
    <2> HIDE DEF more
    <2>3. PairsCurrent(more, s)
      <3> SUFFICES ASSUME NEW j \in 2..Len(more) PROVE more[j].m = Truth(more[j].k, s)
        BY DEF PairsCurrent
      <3>1. CASE j = Len(ps) + 1
        BY <2>1, <2>2, <3>1
      <3>2. CASE j # Len(ps) + 1
        BY <1>2, <2>2, <3>2 DEF PairsCurrent
      <3> QED BY <3>1, <3>2
    <2>4. GoodIc(PolyIc(more), s)
      BY <1>2, <1>5, <2>2, <2>3, DispatchAssumption, PolyIcGood
    <2>5. PolyNext(ps, k, m) = PolyIc(more)
      BY <1>5 DEF PolyNext, more
    <2> QED BY <2>4, <2>5 DEF m
  <1>6. CASE ps # <<>> /\ ~(HasPair(ps, k) \/ m = None) /\ ~(Len(ps) < PolyMax)
    BY <1>6 DEF PolyNext, GoodIc
  <1> QED BY <1>3, <1>4, <1>5, <1>6

(* ic_transition leaves a good entry behind, whatever it found. *)
LEMMA TransitionGood ==
    ASSUME IInv, NEW k \in Klasses, NEW s \in Selectors, NEW c, GoodIc(c, s)
    PROVE  GoodIc(ic_transition(c, k, s), s)
  <1>1. CASE c = EmptyIc
    <2>1. c.kind = "empty"
      BY <1>1 DEF EmptyIc
    <2> QED BY <2>1, FillEmptyGood DEF ic_transition
  <1>2. CASE c = MegaIc
    <2>1. c.kind = "mega"
      BY <1>2 DEF MegaIc
    <2> QED BY <1>2, <2>1 DEF ic_transition, GoodIc
  <1>3. CASE GoodMono(c, s)
    <2>1. c.kind = "mono"
      BY <1>3 DEF GoodMono, MonoRec
    <2>2. CASE c.k = k
      BY <2>1, <2>2, FillEmptyGood DEF ic_transition
    <2>3. CASE c.k # k
      BY <1>3, <2>1, <2>3, DemoteGood DEF ic_transition
    <2> QED BY <2>2, <2>3
  <1>4. CASE GoodPoly(c, s)
    <2>1. c.kind = "poly"
      BY <1>4 DEF GoodPoly, PolyRec
    <2>2. GoodIc(PolyNext(CurrentPairs(c, s), k, lookup(k, s)), s)
      BY <1>4, CurrentPairsGood, PolyNextGood
    <2> QED BY <2>1, <2>2 DEF ic_transition
  <1> QED BY <1>1, <1>2, <1>3, <1>4 DEF GoodIc

(* So does the trigger's write after it. *)
LEMMA SeededGood ==
    ASSUME IInv, NEW k \in Klasses, NEW s \in Selectors, NEW c, NEW x, GoodIc(c, s)
    PROVE  GoodIc(Seeded(c, k, x), s)
  <1>1. epoch \in Nat
    BY LookupAssumption DEF IInv, LookupTypeOK
  <1>2. GoodMono(MonoCompiledIc(k), s)
    BY <1>1 DEF GoodMono, MonoCompiledIc, MonoRec
  <1> QED BY <1>2 DEF Seeded, GoodIc

-----------------------------------------------------------------------------
(***************************************************************************)
(* The theorems                                                            *)
(***************************************************************************)

(* The image starts with empty caches. *)
LEMMA InitIInv == Init => IInv
  <1> SUFFICES ASSUME Init PROVE IInv
    OBVIOUS
  <1>1. LookupTypeOK
    BY LookupAssumption DEF Init, LookupInit, LookupTypeOK
  <1>2. CacheTyped /\ CacheCurrent
    BY DEF Init, CacheTyped, CacheCurrent, Keys
  <1>3. IcsGood
    BY DEF Init, IcsGood, GoodIc
  <1> QED BY <1>1, <1>2, <1>3 DEF IInv

(* While nothing is redefined, good entries stay good. *)
LEMMA GoodStays ==
    ASSUME UNCHANGED <<dict, epoch>>, NEW c, NEW s, GoodIc(c, s)
    PROVE  GoodIc(c, s)'
  BY DEF GoodIc, GoodMono, GoodPoly, PairsCurrent, Truth, lookup_uncached, MethodIn

(* A send writes at most one site, and what it writes is good. *)
LEMMA SiteWritten ==
    ASSUME IInv, UNCHANGED <<dict, epoch>>, NEW i \in Sites, NEW c,
           SetIc(i, c), GoodIc(c, Selector[i])
    PROVE  IcsGood'
  <1>1. ic' = [ic EXCEPT ![i] = c]
    BY DEF SetIc
  <1>2. ic = [j \in Sites |-> ic[j]] /\ \A j \in Sites : GoodIc(ic[j], Selector[j])
    BY DEF IInv, IcsGood
  <1>3. /\ ic' = [j \in Sites |-> ic'[j]]
        /\ \A j \in Sites : ic'[j] = IF j = i THEN c ELSE ic[j]
    BY <1>1, <1>2
  <1>4. \A j \in Sites : GoodIc(ic'[j], Selector[j])
    BY <1>2, <1>3
  <1>5. ASSUME NEW j \in Sites, NEW d, d = ic'[j] PROVE GoodIc(d, Selector[j])'
    BY <1>4, <1>5, GoodStays
  <1> QED BY <1>3, <1>5 DEF IcsGood

(* The three paths of a send keep the invariant. *)
LEMMA SendKeeps ==
    ASSUME IInv, NEW i \in Sites, NEW k \in Klasses,
           SendFast(i, k) \/ SendBailout(i, k) \/ SendSlow(i, k)
    PROVE  IInv'
  <1> DEFINE s == Selector[i]
             e == ic[i]
  <1>1. s \in Selectors /\ GoodIc(e, s)
    BY DispatchAssumption DEF IInv, IcsGood
  <1>2. CASE SendFast(i, k)
    <2>1. /\ SetIc(i, Seeded(e, k, e.m)) /\ UNCHANGED <<dict, epoch>>
          /\ cache' = CacheAfter({k}, s)
      BY <1>2 DEF SendFast
    <2> HIDE DEF s, e
    <2>2. GoodIc(Seeded(e, k, e.m), s)
      BY <1>1, SeededGood
    <2>3. IcsGood'
      BY <2>1, <2>2, SiteWritten DEF s
    <2> QED BY <1>1, <2>1, <2>3, CacheAfterCurrent DEF IInv
  <1>3. CASE SendBailout(i, k)
    <2>1. cache' = CacheAfter({k}, s) /\ UNCHANGED <<dict, epoch, ic>>
      BY <1>3 DEF SendBailout
    <2> HIDE DEF s, e
    <2>2. IcsGood'
      BY <2>1, GoodStays DEF IInv, IcsGood
    <2> QED BY <1>1, <2>1, <2>2, CacheAfterCurrent DEF IInv
  <1>4. CASE SendSlow(i, k)
    <2> DEFINE x == TransitionMethod(e, k, s)
               d == ic_transition(e, k, s)
    <2>1. PICK trigger \in BOOLEAN :
            /\ SetIc(i, IF trigger THEN Seeded(d, k, x) ELSE d)
            /\ cache' = CacheAfter(TransitionLookups(e, k) \cup (IF trigger THEN {k} ELSE {}), s)
      BY <1>4 DEF SendSlow
    <2>2. UNCHANGED <<dict, epoch>>
      BY <1>4 DEF SendSlow
    <2> HIDE DEF s, e, x
    <2>3. GoodIc(d, s)
      BY <1>1, TransitionGood
    <2> HIDE DEF d
    <2>4. GoodIc(IF trigger THEN Seeded(d, k, x) ELSE d, s)
      BY <1>1, <2>3, SeededGood
    <2>5. IcsGood'
      BY <2>1, <2>2, <2>4, SiteWritten DEF s
    <2> QED BY <1>1, <2>1, <2>2, <2>5, CacheAfterCurrent DEF IInv
  <1> QED BY <1>2, <1>3, <1>4

(* A redefinition flushes the lookup cache and makes every stamp an old    *)
(* one.                                                                    *)
LEMMA InstallKeeps ==
    ASSUME IInv, NEW k \in Klasses, NEW s \in Selectors, install_method(k, s)
    PROVE  IInv'
  <1>1. /\ dict[k][s] < MaxVersion /\ epoch < MaxInstalls
        /\ dict' = [dict EXCEPT ![k][s] = @ + 1] /\ epoch' = epoch + 1
        /\ cache' = flush(cache) /\ ic' = ic
    BY DEF install_method, DefineMethod
  <1>2. LookupTypeOK'
    BY <1>1, LookupAssumption DEF IInv, LookupTypeOK
  <1>3. cache' = [key \in Keys |-> None]
    BY <1>1 DEF flush, IInv, CacheTyped
  <1>4. CacheTyped' /\ CacheCurrent'
    BY <1>3 DEF CacheTyped, CacheCurrent, Keys
  <1>5. epoch \in Nat
    BY LookupAssumption DEF IInv, LookupTypeOK
  <1>6. ASSUME NEW i \in Sites, NEW c, c = ic[i] PROVE GoodIc(c, Selector[i])'
    <2>1. GoodIc(c, Selector[i])
      BY <1>6 DEF IInv, IcsGood
    <2>2. CASE GoodMono(c, Selector[i])
      <3>1. c \in MonoRec /\ c.epoch \in Nat /\ c.epoch <= epoch
        BY <2>2 DEF GoodMono, MonoRec
      <3>2. c.epoch <= epoch' /\ c.epoch # epoch'
        BY <1>1, <1>5, <3>1
      <3> QED BY <3>1, <3>2 DEF GoodIc, GoodMono
    <2>3. CASE GoodPoly(c, Selector[i])
      <3>1. c \in PolyRec /\ c.epoch \in Nat /\ c.epoch <= epoch /\ Len(c.ps) \in 1..PolyMax
        BY <2>3 DEF GoodPoly, PolyRec
      <3>2. c.epoch <= epoch' /\ c.epoch # epoch'
        BY <1>1, <1>5, <3>1
      <3> QED BY <3>1, <3>2 DEF GoodIc, GoodPoly
    <2> QED BY <2>1, <2>2, <2>3 DEF GoodIc
  <1>7. IcsGood'
    BY <1>1, <1>6 DEF IInv, IcsGood
  <1> QED BY <1>2, <1>4, <1>7 DEF IInv

(* A collection empties the lookup cache, whatever it held. *)
LEMMA CollectKeeps == ASSUME IInv, Collect PROVE IInv'
  <1>1. cache' = [key \in Keys |-> None] /\ UNCHANGED <<dict, epoch, ic>>
    BY DEF Collect, flush, Readdressed
  <1>2. LookupTypeOK' /\ CacheTyped' /\ CacheCurrent'
    BY <1>1 DEF IInv, LookupTypeOK, CacheTyped, CacheCurrent, Keys
  <1>3. IcsGood'
    BY <1>1, GoodStays DEF IInv, IcsGood
  <1> QED BY <1>2, <1>3 DEF IInv

(* The inductive invariant holds in every reachable state of dispatch. *)
THEOREM Invariance == Spec => []IInv
  <1>1. IInv /\ [Next]_vars => IInv'
    <2> SUFFICES ASSUME IInv, [Next]_vars PROVE IInv'
      OBVIOUS
    <2>1. CASE UNCHANGED vars
      <3>1. LookupTypeOK' /\ CacheTyped' /\ IcsGood'
        BY <2>1, GoodStays DEF vars, IInv, LookupTypeOK, CacheTyped, IcsGood
      <3>2. CacheCurrent'
        BY <2>1 DEF vars, IInv, CacheCurrent, Truth, lookup_uncached, MethodIn
      <3> QED BY <3>1, <3>2 DEF IInv
    <2> QED BY <2>1, SendKeeps, InstallKeeps, CollectKeeps DEF Next
  <1> QED BY <1>1, InitIInv, PTL DEF Spec

(* A polymorphic cache never holds more than PolyMax pairs or none, and    *)
(* nothing is ever stamped with an epoch to come.                          *)
THEOREM DispatchTypeOK == Spec => []TypeOK
  <1>1. IInv => TypeOK
    <2> SUFFICES ASSUME IInv PROVE TypeOK
      OBVIOUS
    <2>1. ASSUME NEW i \in Sites
          PROVE  \/ ic[i] \in {EmptyIc, MegaIc}
                 \/ /\ ic[i].kind \in {"mono", "poly"} /\ ic[i].epoch \in 0..epoch
                    /\ ic[i].kind = "poly" => Len(ic[i].ps) \in 1..PolyMax
      <3>1. epoch \in Nat
        BY LookupAssumption DEF IInv, LookupTypeOK
      <3>2. ASSUME GoodMono(ic[i], Selector[i])
            PROVE  ic[i].kind = "mono" /\ ic[i].epoch \in 0..epoch
        BY <3>1, <3>2 DEF GoodMono, MonoRec
      <3>3. ASSUME GoodPoly(ic[i], Selector[i])
            PROVE  ic[i].kind = "poly" /\ ic[i].epoch \in 0..epoch /\ Len(ic[i].ps) \in 1..PolyMax
        BY <3>1, <3>3 DEF GoodPoly, PolyRec
      <3>4. GoodIc(ic[i], Selector[i])
        BY DEF IInv, IcsGood
      <3> QED BY <3>2, <3>3, <3>4 DEF GoodIc
    <2> QED BY <2>1 DEF IInv, CacheTyped, TypeOK
  <1> QED BY <1>1, Invariance, PTL

(* A hit in the lookup cache is what the walk of the superclass chain      *)
(* would find now, across redefinitions and moves of the classes.          *)
THEOREM LookupCacheCurrent == Spec => []CacheCurrent
  <1>1. IInv => CacheCurrent
    BY DEF IInv
  <1> QED BY <1>1, Invariance, PTL

(* What a site stamped with the current epoch holds is what dispatch       *)
(* gives: its mono target and all its pairs but the first.                 *)
THEOREM StampsAreCurrent == Spec => []StampedCasesCurrent
  <1>1. IInv => StampedCasesCurrent
    <2> SUFFICES ASSUME IInv, NEW i \in Sites
                 PROVE  LET e == ic[i]
                            s == Selector[i]
                        IN  /\ (e.kind = "mono" /\ e.epoch = epoch /\ ~e.compiled)
                                 => e.m = Truth(e.k, s)
                            /\ (e.kind = "poly" /\ e.epoch = epoch) =>
                                 \A j \in 2..Len(e.ps) : e.ps[j].m = Truth(e.ps[j].k, s)
      BY DEF StampedCasesCurrent
    <2>1. GoodIc(ic[i], Selector[i])
      BY DEF IInv, IcsGood
    <2>2. ic[i] \in {EmptyIc, MegaIc} => ic[i].kind \in {"empty", "mega"}
      BY DEF EmptyIc, MegaIc
    <2>3. GoodMono(ic[i], Selector[i]) => ic[i].kind = "mono"
      BY DEF GoodMono, MonoRec
    <2>4. GoodPoly(ic[i], Selector[i]) => ic[i].kind = "poly"
      BY DEF GoodPoly, PolyRec
    <2>5. CASE ic[i].kind = "mono"
      BY <2>1, <2>2, <2>4, <2>5 DEF GoodIc, GoodMono
    <2>6. CASE ic[i].kind = "poly"
      BY <2>1, <2>2, <2>3, <2>6 DEF GoodIc, GoodPoly, PairsCurrent
    <2> QED BY <2>5, <2>6
  <1> QED BY <1>1, Invariance, PTL
=============================================================================
