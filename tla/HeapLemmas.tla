----------------------------- MODULE HeapLemmas -----------------------------
(***************************************************************************)
(* Facts about the operators of Heap, for any sizes of spaces and cards:   *)
(* the arithmetic of cards, the layout of the spaces, tilings of a space   *)
(* by objects, reachability, and what a compaction does to a tiling.       *)
(***************************************************************************)
EXTENDS Heap, FiniteSetTheorems, WellFoundedInduction, TLAPS

-----------------------------------------------------------------------------
(***************************************************************************)
(* Numbers                                                                 *)
(***************************************************************************)

LEMMA LeastNat ==
    ASSUME NEW T, T \subseteq Nat, T # {}
    PROVE  \E x \in T : \A y \in T : x <= y
  <1>1. PICK x \in T : \A y \in T : ~(<<y, x>> \in OpToRel(<, Nat))
    BY NatLessThanWellFounded, WFMin
  <1>2. \A y \in T : x <= y
    <2> SUFFICES ASSUME NEW y \in T PROVE x <= y
      OBVIOUS
    <2>1. <<y, x>> \in Nat \X Nat /\ <<y, x>>[1] = y /\ <<y, x>>[2] = x
      OBVIOUS
    <2>2. ~(y < x)
      BY <1>1, <2>1 DEF OpToRel
    <2> QED BY <2>2
  <1> QED BY <1>2

(* Dually, a bounded set of numbers has a greatest element. *)
LEMMA GreatestNat ==
    ASSUME NEW T, T \subseteq Nat, T # {}, NEW b \in Nat, \A y \in T : y <= b
    PROVE  \E x \in T : \A y \in T : y <= x
  <1> DEFINE U == {n \in Nat : \A y \in T : y <= n}
  <1>1. PICK n \in U : \A m \in U : n <= m
    <2>1. U \subseteq Nat /\ b \in U
      OBVIOUS
    <2> HIDE DEF U
    <2> QED BY <2>1, LeastNat
  <1>2. n \in T
    <2> SUFFICES ASSUME n \notin T PROVE FALSE
      OBVIOUS
    <2>1. \A y \in T : y <= n - 1 /\ y \in Nat
      BY <1>1
    <2>2. PICK y \in T : TRUE
      OBVIOUS
    <2>3. n - 1 \in Nat
      BY <1>1, <2>1, <2>2
    <2>4. n - 1 \in U
      BY <2>1, <2>3
    <2> QED BY <1>1, <2>4
  <1> QED BY <1>1, <1>2

(* Division by a positive number. *)
LEMMA Quotient ==
    ASSUME NEW x \in Nat, NEW k \in Nat \ {0}
    PROVE  /\ x \div k \in Nat
           /\ (x \div k) * k <= x /\ x < (x \div k) * k + k
  OBVIOUS

LEMMA Products ==
    ASSUME NEW c \in Int, NEW d \in Int, NEW k \in Nat \ {0}
    PROVE  /\ c * k \in Int /\ (c + 1) * k = c * k + k
           /\ c < d => c * k + k <= d * k
           /\ c >= 0 => c * k >= 0
  <1>1. c * k \in Int /\ (c + 1) * k = c * k + k
    OBVIOUS
  <1>2. c < d => c * k + k <= d * k
    <2> SUFFICES ASSUME c < d PROVE (c + 1) * k <= d * k
      BY <1>1
    <2>1. d - (c + 1) \in Nat /\ (d - (c + 1)) * k \in Nat
      OBVIOUS
    <2> QED BY <2>1
  <1> QED BY <1>1, <1>2

-----------------------------------------------------------------------------
(***************************************************************************)
(* Spaces and cards                                                        *)
(***************************************************************************)

(* The four spaces follow one another. *)
LEMMA Layout ==
    /\ Start \in [Spaces -> Nat \ {0}] /\ End \in [Spaces -> Nat \ {0}]
    /\ \A s \in Spaces : Start[s] <= End[s] /\ End[s] <= End.old
    /\ \A s \in Spaces \ {"old"} : End[s] <= Start.old
    /\ \A s, t \in Spaces : s # t => End[s] <= Start[t] \/ End[t] <= Start[s]
    /\ Start.old \in Nat \ {0} /\ End.old \in Nat \ {0}
    /\ Survivors \subseteq Spaces \ {"old", "eden"}
  <1>1. /\ EdenWords \in Nat /\ SurvivorWords \in Nat /\ OldWords \in Nat
    BY HeapAssumption
  <1>2. /\ Start.eden = 1 /\ Start.s0 = 1 + EdenWords
        /\ Start.s1 = 1 + EdenWords + SurvivorWords
        /\ Start.old = 1 + EdenWords + 2 * SurvivorWords
        /\ End.eden = Start.s0 /\ End.s0 = Start.s1 /\ End.s1 = Start.old
        /\ End.old = Start.old + OldWords
    BY DEF Start, End
  <1>3. /\ Start \in [Spaces -> Nat \ {0}] /\ End \in [Spaces -> Nat \ {0}]
    BY <1>1 DEF Start, End, Spaces
  <1>4. \A s \in Spaces : s = "eden" \/ s = "s0" \/ s = "s1" \/ s = "old"
    BY DEF Spaces
  <1>5. \A s \in Spaces : Start[s] <= End[s] /\ End[s] <= End.old
    BY <1>1, <1>2, <1>4
  <1>6. \A s \in Spaces \ {"old"} : End[s] <= Start.old
    BY <1>1, <1>2, <1>4
  <1>7. \A s, t \in Spaces : s # t => End[s] <= Start[t] \/ End[t] <= Start[s]
    BY <1>1, <1>2, <1>4
  <1>8. Start.old \in Nat \ {0} /\ End.old \in Nat \ {0}
    BY <1>1, <1>2
  <1>9. Survivors \subseteq Spaces \ {"old", "eden"}
    BY DEF Survivors, Spaces
  <1> QED BY <1>3, <1>5, <1>6, <1>7, <1>8, <1>9

(* A card is a window of CardWords words of the old generation. *)
LEMMA CardWindow ==
    ASSUME NEW w \in Int, w >= Start.old
    PROVE  /\ CardOf(w) \in Nat /\ CardBase(CardOf(w)) \in Nat
           /\ CardBase(CardOf(w)) <= w /\ w < CardBase(CardOf(w) + 1)
  <1>1. w - Start.old \in Nat /\ CardWords \in Nat \ {0} /\ Start.old \in Nat
    BY Layout, HeapAssumption
  <1> DEFINE x == w - Start.old
             q == x \div CardWords
  <1>2. q \in Nat /\ q * CardWords <= x /\ x < q * CardWords + CardWords
    BY <1>1, Quotient
  <1>3. (q + 1) * CardWords = q * CardWords + CardWords /\ q * CardWords \in Int
        /\ q * CardWords >= 0
    BY <1>1, <1>2, Products
  <1>4. CardOf(w) = q
    BY DEF CardOf
  <1> HIDE DEF q
  <1> QED BY <1>1, <1>2, <1>3, <1>4 DEF CardBase

LEMMA CardBases ==
    ASSUME NEW c \in Int, NEW d \in Int
    PROVE  /\ CardBase(c) \in Int /\ CardBase(c + 1) = CardBase(c) + CardWords
           /\ c < d => CardBase(c + 1) <= CardBase(d)
           /\ c >= 0 => CardBase(c) >= Start.old
  <1>1. CardWords \in Nat \ {0} /\ Start.old \in Nat
    BY Layout, HeapAssumption
  <1>2. /\ c * CardWords \in Int /\ (c + 1) * CardWords = c * CardWords + CardWords
        /\ c < d => c * CardWords + CardWords <= d * CardWords
        /\ c >= 0 => c * CardWords >= 0
        /\ d * CardWords \in Int
    BY <1>1, Products
  <1> QED BY <1>1, <1>2 DEF CardBase

(* The card of a word is the one whose window it is in. *)
LEMMA CardUnique ==
    ASSUME NEW w \in Int, w >= Start.old, NEW c \in Int
    PROVE  /\ CardBase(c) <= w <=> c <= CardOf(w)
           /\ CardBase(c + 1) <= w <=> c < CardOf(w)
           /\ CardBase(c) <= w /\ w < CardBase(c + 1) <=> c = CardOf(w)
  <1> DEFINE d == CardOf(w)
  <1>0. PICK e : e = d
    OBVIOUS
  <1>1. e \in Nat /\ CardBase(e) \in Nat /\ CardBase(e) <= w /\ w < CardBase(e + 1)
    BY <1>0, CardWindow
  <1>2. /\ CardBase(c) \in Int /\ CardBase(c + 1) \in Int /\ CardBase(e + 1) \in Int
        /\ c < e => CardBase(c + 1) <= CardBase(e)
        /\ e < c => CardBase(e + 1) <= CardBase(c)
        /\ CardBase(c) < CardBase(c + 1)
    <2>0. e \in Int
      BY <1>1
    <2>1. /\ CardBase(c) \in Int /\ CardBase(c + 1) = CardBase(c) + CardWords
          /\ c < e => CardBase(c + 1) <= CardBase(e)
          /\ c >= 0 => CardBase(c) >= Start.old
      BY <2>0, CardBases
    <2>2. /\ CardBase(e) \in Int /\ CardBase(e + 1) = CardBase(e) + CardWords
          /\ e < c => CardBase(e + 1) <= CardBase(c)
      BY <1>1, CardBases
    <2>3. CardWords \in Nat \ {0}
      BY HeapAssumption
    <2> QED BY <2>1, <2>2, <2>3
  <1>3. CASE c < e
    BY <1>0, <1>1, <1>2, <1>3
  <1>4. CASE c = e
    BY <1>0, <1>1, <1>2, <1>4
  <1>5. CASE e < c
    BY <1>0, <1>1, <1>2, <1>5
  <1> QED BY <1>1, <1>3, <1>4, <1>5

LEMMA CardMonotonic ==
    ASSUME NEW v \in Int, NEW w \in Int, Start.old <= v, v <= w
    PROVE  CardOf(v) <= CardOf(w)
  <1>1. PICK c : c = CardOf(v)
    OBVIOUS
  <1>2. c \in Nat /\ CardBase(c) <= v /\ CardBase(c) \in Nat
    BY <1>1, CardWindow
  <1>3. CardBase(c) <= w /\ w >= Start.old
    BY <1>2, Layout
  <1>4. c <= CardOf(w)
    BY <1>2, <1>3, CardUnique
  <1> QED BY <1>1, <1>4

(* The card of a word that exists is a card. *)
LEMMA WordCards ==
    ASSUME NEW w \in Int, Start.old <= w, w < End.old PROVE CardOf(w) \in Cards
  BY Layout DEF Cards

(* What record_multistores dirties are cards, the card of every word of    *)
(* the range among them.                                                   *)
LEMMA RangeCards ==
    ASSUME NEW s \in Int, NEW e \in Int, Start.old <= s, e <= End.old
    PROVE  /\ CardsOf(s, e) \subseteq Cards
           /\ \A w \in s..e - 1 : CardOf(w) \in CardsOf(s, e)
           /\ \A c \in CardsOf(s, e) : c >= CardOf(s) /\ c \in Int
  <1>1. CASE s >= e
    BY <1>1, Layout DEF CardsOf
  <1>2. CASE s < e
    <2>1. CardsOf(s, e) = CardOf(s)..CardOf(e - 1)
      BY <1>2, Layout DEF CardsOf
    <2>2. PICK lo, hi : lo = CardOf(s) /\ hi = CardOf(e - 1)
      OBVIOUS
    <2>3. lo \in Nat /\ hi \in Nat
      BY <1>2, <2>2, CardWindow, Layout
    <2>4. ASSUME NEW c \in lo..hi PROVE c \in Cards
      <3>1. e - 1 \in Int /\ e - 1 >= Start.old /\ c \in Int /\ c >= 0 /\ c <= hi
        BY <1>2, <2>3, Layout
      <3>2. CardBase(c) <= e - 1 /\ CardBase(c) >= Start.old /\ CardBase(c) \in Int
        BY <2>2, <3>1, CardUnique, CardBases
      <3>3. CardOf(CardBase(c)) = c
        <4>1. CardBase(c) < CardBase(c + 1)
          BY <3>1, CardBases, HeapAssumption
        <4>2. PICK b : b = CardBase(c)
          OBVIOUS
        <4>3. b \in Int /\ b >= Start.old /\ CardBase(c) <= b /\ b < CardBase(c + 1)
          BY <3>2, <4>1, <4>2
        <4>4. c = CardOf(b)
          BY <3>1, <4>3, CardUnique
        <4> QED BY <4>2, <4>4
      <3>4. CardBase(c) < End.old
        BY <3>2, Layout
      <3> QED BY <3>2, <3>3, <3>4, WordCards
    <2>5. ASSUME NEW w \in s..e - 1 PROVE CardOf(w) \in lo..hi
      <3>1. w \in Int /\ Start.old <= w /\ s <= w /\ w <= e - 1
        BY Layout
      <3>2. CardOf(s) <= CardOf(w) /\ CardOf(w) <= CardOf(e - 1) /\ CardOf(w) \in Nat
        BY <3>1, CardMonotonic, CardWindow
      <3> QED BY <2>2, <2>3, <3>2
    <2> QED BY <2>1, <2>2, <2>3, <2>4, <2>5
  <1> QED BY <1>1, <1>2, Layout

-----------------------------------------------------------------------------
(***************************************************************************)
(* Tilings: sz gives the number of words of every object, tp the bump      *)
(* pointers.                                                               *)
(***************************************************************************)

Extent(o) == [a \in DOMAIN o |-> Len(o[a].f) + 1]

TilingTyped(sz, tp) ==
    /\ sz \in [DOMAIN sz -> Nat \ {0}] /\ tp \in [Spaces -> Nat]
    /\ \A s \in Spaces : Start[s] <= tp[s] /\ tp[s] <= End[s]

(* Every object lies in one space, below its bump pointer. *)
Placed(sz, tp) ==
    \A a \in DOMAIN sz : \E s \in Spaces : Start[s] <= a /\ a + sz[a] <= tp[s] /\ a \in Nat

(* No word below a bump pointer is outside of all objects. *)
Covered(sz, tp) ==
    \A s \in Spaces : \A w \in Start[s]..tp[s] - 1 :
        \E a \in DOMAIN sz : a <= w /\ w < a + sz[a]

Apart(sz) == \A a, b \in DOMAIN sz : a < b => a + sz[a] <= b

Tiled(sz, tp) == TilingTyped(sz, tp) /\ Placed(sz, tp) /\ Covered(sz, tp) /\ Apart(sz)

LEMMA SpaceBounds ==
    ASSUME NEW sz, NEW tp, Tiled(sz, tp), NEW s \in Spaces
    PROVE  /\ tp[s] \in Nat /\ Start[s] \in Nat \ {0} /\ End[s] \in Nat \ {0}
           /\ Start[s] <= tp[s] /\ tp[s] <= End[s]
           /\ End[s] <= End.old /\ End.old \in Nat
  <1>1. Start[s] \in Nat \ {0} /\ End[s] \in Nat \ {0} /\ End[s] <= End.old /\ End.old \in Nat
    BY Layout
  <1> QED BY <1>1 DEF Tiled, TilingTyped

(* Where an object of a tiling can be. *)
LEMMA TilePlace ==
    ASSUME NEW sz, NEW tp, Tiled(sz, tp), NEW a \in DOMAIN sz
    PROVE  /\ a \in Addr /\ a \in Nat \ {0} /\ sz[a] \in Nat \ {0}
           /\ \E s \in Spaces : Start[s] <= a /\ a < tp[s] /\ a + sz[a] <= tp[s]
           /\ \A s \in Spaces : Start[s] <= a /\ a < tp[s] => a + sz[a] <= tp[s]
           /\ \A s, t \in Spaces : Start[s] <= a /\ a < tp[s] /\ Start[t] <= a /\ a < tp[t]
                                   => s = t
  <1>1. PICK s \in Spaces : Start[s] <= a /\ a + sz[a] <= tp[s] /\ a \in Nat
    BY DEF Tiled, Placed
  <1>2. sz[a] \in Nat \ {0}
    BY DEF Tiled, TilingTyped
  <1>3. /\ Start[s] \in Nat \ {0} /\ tp[s] \in Nat /\ tp[s] <= End[s] /\ End[s] \in Nat
        /\ End[s] <= End.old /\ End.old \in Nat
    BY Layout DEF Tiled, TilingTyped
  <1>4. a < tp[s]
    BY <1>1, <1>2, <1>3
  <1>5. a \in Addr /\ a \in Nat \ {0}
    BY <1>1, <1>3, <1>4 DEF Addr
  <1>6. ASSUME NEW t \in Spaces, Start[t] <= a, a < tp[t], NEW u \in Spaces,
               Start[u] <= a, a < tp[u]
        PROVE  t = u
    <2>1. /\ tp[t] \in Nat /\ tp[t] <= End[t] /\ End[t] \in Nat /\ Start[t] \in Nat
          /\ tp[u] \in Nat /\ tp[u] <= End[u] /\ End[u] \in Nat /\ Start[u] \in Nat
      BY Layout DEF Tiled, TilingTyped
    <2>2. t # u => End[t] <= Start[u] \/ End[u] <= Start[t]
      BY Layout
    <2> QED BY <1>1, <1>6, <2>1, <2>2
  <1>7. ASSUME NEW t \in Spaces, Start[t] <= a, a < tp[t] PROVE a + sz[a] <= tp[t]
    <2>1. s = t
      BY <1>1, <1>4, <1>6, <1>7
    <2> QED BY <1>1, <2>1
  <1> QED BY <1>1, <1>2, <1>4, <1>5, <1>6, <1>7

(* Bumping a pointer over a new object extends the tiling. *)
Bumped(tp, s, n) == [tp EXCEPT ![s] = tp[s] + n]
Joined(sz, a, n) == [b \in DOMAIN sz \cup {a} |-> IF b = a THEN n ELSE sz[b]]

LEMMA BumpTiled ==
    ASSUME NEW sz, NEW tp, Tiled(sz, tp), NEW s \in Spaces, NEW n \in Nat \ {0},
           tp[s] + n <= End[s], NEW sz2, NEW tp2,
           sz2 = Joined(sz, tp[s], n), tp2 = Bumped(tp, s, n)
    PROVE  tp[s] \notin DOMAIN sz /\ Tiled(sz2, tp2)
  <1>1. PICK a : a = tp[s]
    OBVIOUS
  <1>2. /\ a \in Nat /\ Start[s] \in Nat \ {0} /\ Start[s] <= a /\ End[s] \in Nat
        /\ a + n \in Nat /\ a + n <= End[s]
    BY <1>1, SpaceBounds
  <1>3. /\ DOMAIN sz2 = DOMAIN sz \cup {a} /\ sz2[a] = n
        /\ \A b \in DOMAIN sz : b # a => sz2[b] = sz[b]
    BY <1>1 DEF Joined
  <1>4. /\ tp2[s] = a + n /\ \A t \in Spaces : t # s => tp2[t] = tp[t]
        /\ tp2 \in [Spaces -> Nat]
    BY <1>1, <1>2 DEF Tiled, TilingTyped, Bumped
  <1>5. ASSUME NEW b \in DOMAIN sz
        PROVE  b \in Nat /\ sz[b] \in Nat \ {0} /\ (b + sz[b] <= a \/ a + n <= b) /\ b # a
    <2>1. PICK t \in Spaces : Start[t] <= b /\ b < tp[t] /\ b + sz[b] <= tp[t]
      BY <1>5, TilePlace
    <2>2. b \in Nat /\ sz[b] \in Nat \ {0}
      BY <1>5, TilePlace
    <2>3. /\ tp[t] \in Nat /\ tp[t] <= End[t] /\ End[t] \in Nat /\ Start[t] \in Nat
          /\ t # s => End[s] <= Start[t] \/ End[t] <= Start[s]
      BY Layout DEF Tiled, TilingTyped
    <2>4. CASE t = s
      BY <1>1, <1>2, <2>1, <2>2, <2>3, <2>4
    <2>5. CASE t # s
      BY <1>1, <1>2, <2>1, <2>2, <2>3, <2>5
    <2> QED BY <2>4, <2>5
  <1>6. a \notin DOMAIN sz
    BY <1>5
  <1>7. TilingTyped(sz2, tp2)
    <2>0. sz2 = [b \in DOMAIN sz2 |-> sz2[b]]
      BY <1>3 DEF Joined
    <2>1. sz2 \in [DOMAIN sz2 -> Nat \ {0}]
      BY <1>3, <1>5, <2>0
    <2>2. ASSUME NEW t \in Spaces PROVE Start[t] <= tp2[t] /\ tp2[t] <= End[t]
      <3>1. CASE t = s
        BY <1>2, <1>4, <3>1
      <3>2. CASE t # s
        BY <1>4, <3>2 DEF Tiled, TilingTyped
      <3> QED BY <3>1, <3>2
    <2> QED BY <1>4, <2>1, <2>2 DEF TilingTyped
  <1>8. Placed(sz2, tp2)
    <2>1. ASSUME NEW b \in DOMAIN sz
          PROVE  \E t \in Spaces : Start[t] <= b /\ b + sz2[b] <= tp2[t] /\ b \in Nat
      <3>1. PICK t \in Spaces : Start[t] <= b /\ b + sz[b] <= tp[t] /\ b \in Nat
        BY DEF Tiled, Placed
      <3>2. sz2[b] = sz[b] /\ sz[b] \in Nat /\ tp[t] \in Nat
        BY <1>3, <1>5 DEF Tiled, TilingTyped
      <3>3. tp[t] <= tp2[t] /\ tp2[t] \in Nat
        BY <1>1, <1>2, <1>4, <3>2
      <3> QED BY <3>1, <3>2, <3>3
    <2>2. Start[s] <= a /\ a + sz2[a] <= tp2[s] /\ a \in Nat
      BY <1>2, <1>3, <1>4
    <2> QED BY <1>3, <2>1, <2>2 DEF Placed
  <1>9. Covered(sz2, tp2)
    <2> SUFFICES ASSUME NEW t \in Spaces, NEW w \in Start[t]..tp2[t] - 1
                 PROVE  \E b \in DOMAIN sz2 : b <= w /\ w < b + sz2[b]
      BY DEF Covered
    <2>1. w \in Int /\ tp[t] \in Nat /\ Start[t] \in Nat
      BY <1>4, SpaceBounds
    <2>2. CASE w < tp[t]
      <3>1. w \in Start[t]..tp[t] - 1
        BY <2>1, <2>2, <1>4
      <3>2. PICK b \in DOMAIN sz : b <= w /\ w < b + sz[b]
        BY <3>1 DEF Tiled, Covered
      <3>3. sz2[b] = sz[b] /\ b \in DOMAIN sz2
        BY <1>3, <1>5
      <3> QED BY <3>2, <3>3
    <2>3. CASE ~(w < tp[t])
      <3>1. t = s
        BY <1>4, <2>1, <2>3
      <3>2. a <= w /\ w < a + n
        BY <1>1, <1>2, <1>4, <2>1, <2>3, <3>1
      <3>3. a \in DOMAIN sz2 /\ sz2[a] = n
        BY <1>3
      <3>4. a <= w /\ w < a + sz2[a]
        BY <3>2, <3>3
      <3> QED BY <3>3, <3>4
    <2> QED BY <2>2, <2>3
  <1>10. Apart(sz2)
    <2> SUFFICES ASSUME NEW b \in DOMAIN sz2, NEW c \in DOMAIN sz2, b < c
                 PROVE  b + sz2[b] <= c
      BY DEF Apart
    <2>1. CASE b = a /\ c = a
      BY <1>2, <2>1
    <2>2. CASE b = a /\ c # a
      <3>1. c \in DOMAIN sz /\ sz2[b] = n
        BY <1>3, <2>2
      <3>2. c \in Nat /\ sz[c] \in Nat \ {0} /\ (c + sz[c] <= a \/ a + n <= c)
        BY <1>5, <3>1
      <3> QED BY <1>2, <2>2, <3>1, <3>2
    <2>3. CASE b # a /\ c = a
      <3>1. b \in DOMAIN sz /\ sz2[b] = sz[b]
        BY <1>3, <2>3
      <3>2. b \in Nat /\ sz[b] \in Nat \ {0} /\ (b + sz[b] <= a \/ a + n <= b)
        BY <1>5, <3>1
      <3> QED BY <1>2, <2>3, <3>1, <3>2
    <2>4. CASE b # a /\ c # a
      <3>1. b \in DOMAIN sz /\ c \in DOMAIN sz /\ sz2[b] = sz[b]
        BY <1>3, <2>4
      <3> QED BY <3>1 DEF Tiled, Apart
    <2> QED BY <2>1, <2>2, <2>3, <2>4
  <1> QED BY <1>1, <1>6, <1>7, <1>8, <1>9, <1>10 DEF Tiled

(* In a tiling every word below a bump pointer is in exactly one object. *)
LEMMA TiledWords ==
    ASSUME NEW sz, NEW tp, Tiled(sz, tp), NEW s \in Spaces, NEW w \in Start[s]..tp[s] - 1
    PROVE  Cardinality({a \in DOMAIN sz : a <= w /\ w < a + sz[a]}) = 1
  <1>1. PICK a \in DOMAIN sz : a <= w /\ w < a + sz[a]
    BY DEF Tiled, Covered
  <1>2. w \in Int
    BY Layout DEF Tiled, TilingTyped
  <1>3. ASSUME NEW b \in DOMAIN sz, b <= w, w < b + sz[b] PROVE b = a
    <2>1. a \in Nat /\ b \in Nat /\ sz[a] \in Nat /\ sz[b] \in Nat
      BY <1>1, TilePlace
    <2>2. (a < b => a + sz[a] <= b) /\ (b < a => b + sz[b] <= a)
      BY DEF Tiled, Apart
    <2> QED BY <1>1, <1>2, <1>3, <2>1, <2>2
  <1>4. {b \in DOMAIN sz : b <= w /\ w < b + sz[b]} = {a}
    BY <1>1, <1>3
  <1> QED BY <1>4, FS_Singleton

-----------------------------------------------------------------------------
(***************************************************************************)
(* Reachability                                                            *)
(***************************************************************************)

ReachStep(g, n) ==
    IF n = 0 THEN Roots \cap DOMAIN obj
    ELSE g[n-1] \cup ((UNION {Refs(a) : a \in g[n-1]}) \cap DOMAIN obj)

ReachLoop(n, g) == g = [i \in 0..n |-> ReachStep(g, i)]

(* The loop is defined for every number of rounds: the least number for    *)
(* which it were not would extend the loop of its predecessor.             *)
LEMMA ReachLoopExists ==
    ASSUME NEW n \in Nat PROVE \E g : ReachLoop(n, g)
  <1> DEFINE T == {k \in Nat : ~\E g : ReachLoop(k, g)}
  <1> SUFFICES ASSUME T # {} PROVE FALSE
    OBVIOUS
  <1>1. PICK k \in T : \A y \in T : k <= y
    BY LeastNat
  <1>2. CASE k = 0
    <2> DEFINE g == [i \in 0..0 |-> Roots \cap DOMAIN obj]
    <2>1. ReachLoop(0, g)
      BY DEF ReachLoop, ReachStep
    <2> QED BY <1>2, <2>1
  <1>3. CASE k # 0
    <2>1. k \in Nat /\ k - 1 \in Nat /\ k - 1 \notin T
      BY <1>1, <1>3
    <2>2. PICK g : ReachLoop(k - 1, g)
      BY <2>1
    <2> DEFINE h == [i \in 0..k |-> IF i = k THEN ReachStep(g, k) ELSE g[i]]
    <2>3. ASSUME NEW i \in 0..k PROVE h[i] = ReachStep(h, i)
      <3>1. CASE i = k
        BY <1>3, <2>1, <3>1 DEF ReachStep
      <3>2. CASE i # k
        <4>1. i \in 0..k - 1 /\ h[i] = g[i] /\ (i # 0 => h[i - 1] = g[i - 1])
          BY <2>1, <3>2
        <4>2. g[i] = ReachStep(g, i)
          BY <2>2, <4>1 DEF ReachLoop
        <4> QED BY <4>1, <4>2 DEF ReachStep
      <3> QED BY <3>1, <3>2
    <2>4. ReachLoop(k, h)
      <3>1. [i \in 0..k |-> h[i]] = [i \in 0..k |-> ReachStep(h, i)]
        BY <2>3
      <3>2. h = [i \in 0..k |-> h[i]]
        OBVIOUS
      <3> QED BY <3>1, <3>2 DEF ReachLoop
    <2> QED BY <2>4
  <1> QED BY <1>2, <1>3

(* Nothing leads out of S but to something that is no object. *)
RefsClosed(S) == \A a \in S : Refs(a) \cap DOMAIN obj \subseteq S

(* What is marked are objects, the roots among them, and everything they   *)
(* refer to: a round that does not reach anything new has reached all, and *)
(* there are no more rounds with something new than there are objects.     *)
LEMMA ReachClosed ==
    ASSUME IsFiniteSet(DOMAIN obj)
    PROVE  /\ Reach \subseteq DOMAIN obj
           /\ Roots \cap DOMAIN obj \subseteq Reach
           /\ RefsClosed(Reach)
  <1>1. PICK D, N : D = DOMAIN obj /\ N = Cardinality(D) /\ N \in Nat /\ IsFiniteSet(D)
    BY FS_CardinalityType
  <1>2. PICK g : ReachLoop(N, g) /\ Reach = g[N]
    <2>1. Reach = (CHOOSE g : ReachLoop(N, g))[N]
      BY <1>1 DEF Reach, ReachLoop, ReachStep
    <2>2. \E g : ReachLoop(N, g)
      BY <1>1, ReachLoopExists
    <2> QED BY <2>1, <2>2
  <1>3. \A i \in 0..N : g[i] = ReachStep(g, i)
    BY <1>2 DEF ReachLoop
  <1> DEFINE P(i) == /\ g[i] \subseteq D /\ Roots \cap D \subseteq g[i]
                     /\ RefsClosed(g[i]) \/ Cardinality(g[i]) >= i
             T == {i \in 0..N : ~P(i)}
  <1>4. \A i \in 0..N : P(i)
    <2> SUFFICES ASSUME T # {} PROVE FALSE
      OBVIOUS
    <2>1. PICK i \in T : \A y \in T : i <= y
      <3>1. T \subseteq Nat
        BY <1>1
      <3> HIDE DEF T
      <3> QED BY <3>1, LeastNat
    <2>2. CASE i = 0
      <3>1. g[i] = Roots \cap D
        BY <1>1, <1>3, <2>1, <2>2 DEF ReachStep
      <3>2. Cardinality(g[i]) >= 0
        BY <1>1, <3>1, FS_CardinalityType, FS_Subset
      <3> QED BY <2>1, <2>2, <3>1, <3>2
    <2>3. CASE i # 0
      <3>1. i \in Nat /\ i \in 0..N /\ i - 1 \in 0..N /\ i - 1 \notin T
        BY <1>1, <2>1, <2>3
      <3>2. P(i - 1)
        BY <3>1
      <3>3. PICK p, q : p = g[i - 1] /\ q = g[i]
        OBVIOUS
      <3>4. q = p \cup ((UNION {Refs(a) : a \in p}) \cap D)
        BY <1>1, <1>3, <2>3, <3>1, <3>3 DEF ReachStep
      <3>5. p \subseteq D /\ Roots \cap D \subseteq p /\ (RefsClosed(p) \/ Cardinality(p) >= i - 1)
        BY <3>2, <3>3
      <3> HIDE DEF P, T
      <3>0. /\ \A x : x \in q <=> x \in p \/ \E a \in p : x \in Refs(a) /\ x \in D
            /\ RefsClosed(p) <=> \A a \in p : \A x : x \in Refs(a) /\ x \in D => x \in p
        <4>1. PICK u : u = UNION {Refs(a) : a \in p}
          OBVIOUS
        <4>3. ASSUME NEW x PROVE x \in u <=> \E a \in p : x \in Refs(a)
          BY <4>1, Zenon
        <4>4. q = p \cup (u \cap D)
          BY <3>4, <4>1, Zenon
        <4>2. RefsClosed(p) <=> \A a \in p : \A x : x \in Refs(a) /\ x \in D => x \in p
          BY <1>1, Zenon DEF RefsClosed
        <4> QED BY <4>2, <4>3, <4>4
      <3>6. p \subseteq q /\ q \subseteq D
        BY <3>0, <3>5
      <3>7. RefsClosed(p) => q = p
        BY <3>0
      <3>8. ~RefsClosed(p) => q # p
        BY <3>0
      <3>9. CASE RefsClosed(p)
        <4>1. P(i)
          BY <3>3, <3>5, <3>6, <3>7, <3>9 DEF P
        <4> QED BY <2>1, <4>1 DEF T
      <3>10. CASE ~RefsClosed(p)
        <4>1. IsFiniteSet(q) /\ IsFiniteSet(p)
          BY <1>1, <3>5, <3>6, FS_Subset
        <4>2. Cardinality(p) <= Cardinality(q) /\ Cardinality(p) # Cardinality(q)
          BY <3>6, <3>8, <3>10, <4>1, FS_Subset
        <4>3. Cardinality(p) \in Nat /\ Cardinality(q) \in Nat
          BY <4>1, FS_CardinalityType
        <4>4. Cardinality(q) >= i
          BY <3>1, <3>5, <3>10, <4>2, <4>3
        <4>5. P(i)
          BY <3>3, <3>5, <3>6, <4>4 DEF P
        <4> QED BY <2>1, <4>5 DEF T
      <3> QED BY <3>9, <3>10
    <2> QED BY <2>2, <2>3
  <1>5. P(N)
    BY <1>1, <1>4
  <1>6. ASSUME Cardinality(g[N]) >= N PROVE RefsClosed(g[N])
    <2>1. PICK q : q = g[N]
      OBVIOUS
    <2>2. q \subseteq D /\ Cardinality(q) >= N
      BY <1>5, <1>6, <2>1
    <2>3. Cardinality(q) <= N /\ IsFiniteSet(q) /\ (N = Cardinality(q) => D = q)
      BY <1>1, <2>2, FS_Subset
    <2>4. Cardinality(q) \in Nat
      BY <2>3, FS_CardinalityType
    <2>5. q = D
      BY <1>1, <2>2, <2>3, <2>4
    <2> QED BY <1>1, <2>1, <2>5 DEF RefsClosed
  <1> QED BY <1>1, <1>2, <1>5, <1>6

(* Nothing else is marked: the first round that left a set with the roots  *)
(* in it and closed under references would start from inside it.           *)
LEMMA ReachLeast ==
    ASSUME IsFiniteSet(DOMAIN obj), NEW S, Roots \cap DOMAIN obj \subseteq S, RefsClosed(S)
    PROVE  Reach \subseteq S
  <1>1. PICK D, N : D = DOMAIN obj /\ N = Cardinality(D) /\ N \in Nat
    BY FS_CardinalityType
  <1>2. PICK g : ReachLoop(N, g) /\ Reach = g[N]
    <2>1. Reach = (CHOOSE g : ReachLoop(N, g))[N]
      BY <1>1 DEF Reach, ReachLoop, ReachStep
    <2>2. \E g : ReachLoop(N, g)
      BY <1>1, ReachLoopExists
    <2> QED BY <2>1, <2>2
  <1>3. \A i \in 0..N : g[i] = ReachStep(g, i)
    BY <1>2 DEF ReachLoop
  <1> DEFINE T == {i \in 0..N : ~(g[i] \subseteq S)}
  <1>4. T = {}
    <2> SUFFICES ASSUME T # {} PROVE FALSE
      OBVIOUS
    <2>1. PICK i \in T : \A y \in T : i <= y
      <3>1. T \subseteq Nat
        BY <1>1
      <3> HIDE DEF T
      <3> QED BY <3>1, LeastNat
    <2>2. CASE i = 0
      BY <1>1, <1>3, <2>1, <2>2 DEF ReachStep
    <2>3. CASE i # 0
      <3>1. i \in 0..N /\ i - 1 \in 0..N /\ i - 1 \notin T
        BY <1>1, <2>1, <2>3
      <3>2. PICK p, q : p = g[i - 1] /\ q = g[i]
        OBVIOUS
      <3>3. p \subseteq S /\ q = p \cup ((UNION {Refs(a) : a \in p}) \cap D)
        BY <1>1, <1>3, <2>3, <3>1, <3>2 DEF ReachStep
      <3>4. ASSUME NEW x \in (UNION {Refs(a) : a \in p}) \cap D PROVE x \in S
        <4>1. PICK a \in p : x \in Refs(a) /\ x \in DOMAIN obj
          BY <1>1, <3>4, Zenon
        <4> QED BY <3>3, <4>1 DEF RefsClosed
      <3>5. q \subseteq S
        BY <3>3, <3>4, Zenon
      <3> QED BY <2>1, <3>2, <3>5
    <2> QED BY <2>2, <2>3
  <1> QED BY <1>1, <1>2, <1>4

-----------------------------------------------------------------------------
(***************************************************************************)
(* Compaction: an object moves down over the words that do not survive.    *)
(***************************************************************************)

Below(W, x) == {w \in W : w < x}

LEMMA BelowFinite ==
    ASSUME NEW W, IsFiniteSet(W), NEW x
    PROVE  /\ IsFiniteSet(Below(W, x)) /\ Cardinality(Below(W, x)) \in Nat
           /\ Cardinality(Below(W, x)) <= Cardinality(W) /\ Cardinality(W) \in Nat
  <1>1. Below(W, x) \in SUBSET W
    BY DEF Below
  <1> QED BY <1>1, FS_Subset, FS_CardinalityType

(* Counting up to y what was counted up to x, and a run of words between. *)
LEMMA CountRun ==
    ASSUME NEW W, W \subseteq Nat, IsFiniteSet(W), NEW x \in Nat, NEW y \in Nat, x <= y,
           x..y - 1 \subseteq W
    PROVE  Cardinality(Below(W, y)) = Cardinality(Below(W, x)) + (y - x)
  <1>1. PICK A, B : A = Below(W, x) /\ B = x..y - 1
    OBVIOUS
  <1>2. IsFiniteSet(A) /\ Cardinality(A) \in Nat
    BY <1>1, BelowFinite
  <1>3. IsFiniteSet(B) /\ Cardinality(B) = y - x
    <2>1. IsFiniteSet(x..y - 1) /\ Cardinality(x..y - 1) = IF x > y - 1 THEN 0 ELSE (y - 1) - x + 1
      BY FS_Interval
    <2> QED BY <1>1, <2>1
  <1>4. A \cap B = {}
    BY <1>1 DEF Below
  <1>5. Below(W, y) = A \cup B
    <2>1. ASSUME NEW w \in W PROVE w \in Nat /\ (w < y <=> w < x \/ w \in x..y - 1)
      OBVIOUS
    <2> QED BY <1>1, <2>1 DEF Below
  <1>6. Cardinality(A \cup B) = Cardinality(A) + Cardinality(B) - Cardinality(A \cap B)
    BY <1>2, <1>3, FS_Union
  <1>7. Cardinality(A \cap B) = 0
    BY <1>4, FS_EmptySet
  <1> QED BY <1>1, <1>2, <1>3, <1>5, <1>6, <1>7

LEMMA CountGrows ==
    ASSUME NEW W, W \subseteq Nat, IsFiniteSet(W), NEW x \in Nat, NEW y \in Nat, x <= y
    PROVE  Cardinality(Below(W, x)) <= Cardinality(Below(W, y))
  <1>1. Below(W, x) \in SUBSET Below(W, y)
    <2>1. ASSUME NEW w \in W, w < x PROVE w < y
      BY <2>1
    <2> QED BY <2>1 DEF Below
  <1>2. IsFiniteSet(Below(W, y))
    BY BelowFinite
  <1> QED BY <1>1, <1>2, FS_Subset

(* Every count below the number of words is the rank of a word. *)
LEMMA RankExists ==
    ASSUME NEW W, W \subseteq Nat, IsFiniteSet(W), NEW b \in Nat, \A w \in W : w <= b,
           NEW k \in Nat, k < Cardinality(W)
    PROVE  \E w \in W : Cardinality(Below(W, w)) = k
  <1> DEFINE T == {w \in W : Cardinality(Below(W, w)) <= k}
  <1>0. Cardinality(W) \in Nat /\ \A x : Cardinality(Below(W, x)) \in Nat
    BY BelowFinite
  <1>1. T # {}
    <2>1. W # {}
      BY FS_EmptySet
    <2>2. PICK w \in W : \A y \in W : w <= y
      BY <2>1, LeastNat
    <2>3. Below(W, w) = {}
      <3>1. ASSUME NEW y \in W PROVE ~(y < w)
        BY <2>2
      <3> QED BY <3>1 DEF Below
    <2>4. Cardinality(Below(W, w)) = 0
      BY <2>3, FS_EmptySet
    <2>5. w \in T
      BY <2>4
    <2> QED BY <2>5
  <1>2. PICK w \in T : \A y \in T : y <= w
    <2>1. T \subseteq Nat /\ \A y \in T : y <= b
      OBVIOUS
    <2> HIDE DEF T
    <2> QED BY <1>1, <2>1, GreatestNat
  <1>3. PICK c : c = Cardinality(Below(W, w))
    OBVIOUS
  <1>4. c \in Nat /\ c <= k /\ w \in W /\ w \in Nat
    BY <1>0, <1>2, <1>3
  <1>5. ASSUME c < k PROVE FALSE
    <2> DEFINE U == {v \in W : w < v}
    <2>1. /\ IsFiniteSet(Below(W, w) \cup {w})
          /\ Cardinality(Below(W, w) \cup {w}) = c + 1
      <3>1. IsFiniteSet(Below(W, w)) /\ w \notin Below(W, w)
        BY <1>4, BelowFinite DEF Below
      <3> QED BY <1>3, <3>1, FS_AddElement
    <2>2. CASE U = {}
      <3>1. W = Below(W, w) \cup {w}
        <4>1. ASSUME NEW y \in W PROVE y < w \/ y = w
          BY <1>4, <2>2
        <4> QED BY <1>4, <4>1 DEF Below
      <3>2. Cardinality(W) = c + 1
        BY <2>1, <3>1
      <3> QED BY <1>0, <1>4, <1>5, <3>2
    <2>3. CASE U # {}
      <3>1. PICK v \in U : \A y \in U : v <= y
        <4>1. U \subseteq Nat
          OBVIOUS
        <4> HIDE DEF U
        <4> QED BY <2>3, <4>1, LeastNat
      <3>2. Below(W, v) = Below(W, w) \cup {w}
        <4>1. ASSUME NEW y \in W PROVE y < v <=> y < w \/ y = w
          <5>1. y \in Nat /\ v \in Nat /\ w < v /\ (w < y => v <= y)
            BY <3>1
          <5> QED BY <1>4, <5>1
        <4> QED BY <1>4, <4>1 DEF Below
      <3>3. Cardinality(Below(W, v)) = c + 1
        BY <2>1, <3>2
      <3>4. v \in T /\ w < v /\ v \in Nat
        BY <1>4, <1>5, <3>1, <3>3
      <3> QED BY <1>2, <1>4, <3>4
    <2> QED BY <2>2, <2>3
  <1> QED BY <1>3, <1>4, <1>5

(* The words of space s that survive. *)
Surviving(sz, tp, live, s) ==
    {w \in Start[s]..tp[s] - 1 :
        \E a \in live : Start[s] <= a /\ a < tp[s] /\ a <= w /\ w < a + sz[a]}

Here(tp, live, s) == {a \in live : Start[s] <= a /\ a < tp[s]}

(* Where the survivors of space s go. *)
CompactAt(sz, tp, live, s) ==
    [a \in Here(tp, live, s) |-> Start[s] + Cardinality(Below(Surviving(sz, tp, live, s), a))]

(* The objects of one space are moved without gap or overlap. *)
LEMMA CompactSpace ==
    ASSUME NEW sz, NEW tp, Tiled(sz, tp), NEW live, live \subseteq DOMAIN sz,
           NEW s \in Spaces, NEW W, W = Surviving(sz, tp, live, s),
           NEW here, here = Here(tp, live, s), NEW at, at = CompactAt(sz, tp, live, s)
    PROVE  /\ Cardinality(W) \in Nat /\ Start[s] + Cardinality(W) <= tp[s]
           /\ \A a \in here : /\ at[a] \in Nat /\ Start[s] <= at[a]
                              /\ at[a] + sz[a] <= Start[s] + Cardinality(W)
           /\ \A a, b \in here : a < b => at[a] + sz[a] <= at[b]
           /\ \A w \in Start[s]..Start[s] + Cardinality(W) - 1 :
                 \E a \in here : at[a] <= w /\ w < at[a] + sz[a]
  <1>1. PICK lo, hi : lo = Start[s] /\ hi = tp[s] /\ lo \in Nat \ {0} /\ hi \in Nat /\ lo <= hi
    BY SpaceBounds
  <1>2. \A w : w \in W <=> w \in lo..hi - 1 /\ \E a \in here : a <= w /\ w < a + sz[a]
    BY <1>1 DEF Surviving, Here
  <1>3. ASSUME NEW a \in here
        PROVE  /\ a \in Nat /\ sz[a] \in Nat \ {0} /\ lo <= a /\ a + sz[a] <= hi
               /\ a \in DOMAIN sz
    <2>1. a \in DOMAIN sz /\ Start[s] <= a /\ a < tp[s]
      BY <1>3 DEF Here
    <2> QED BY <1>1, <2>1, TilePlace
  <1>4. W \subseteq Nat /\ IsFiniteSet(W) /\ Cardinality(W) \in Nat /\ lo + Cardinality(W) <= hi
        /\ \A w \in W : w <= hi
    <2>1. W \in SUBSET (lo..hi - 1)
      BY <1>2
    <2>2. IsFiniteSet(lo..hi - 1) /\ Cardinality(lo..hi - 1) = hi - lo
      <3>1. /\ IsFiniteSet(lo..hi - 1)
            /\ Cardinality(lo..hi - 1) = IF lo > hi - 1 THEN 0 ELSE (hi - 1) - lo + 1
        <4>1. lo \in Int /\ hi - 1 \in Int
          BY <1>1
        <4> QED BY <4>1, FS_Interval
      <3> QED BY <1>1, <3>1
    <2>3. IsFiniteSet(W) /\ Cardinality(W) <= hi - lo
      <3>1. PICK R : R = lo..hi - 1
        OBVIOUS
      <3>2. IsFiniteSet(W) /\ Cardinality(W) <= Cardinality(R)
        BY <2>1, <2>2, <3>1, FS_Subset
      <3> QED BY <2>2, <3>1, <3>2
    <2>4. Cardinality(W) \in Nat
      BY <2>3, FS_CardinalityType
    <2> QED BY <1>1, <2>1, <2>3, <2>4
  <1>5. ASSUME NEW a \in here
        PROVE  /\ a..a + sz[a] - 1 \subseteq W
               /\ Cardinality(Below(W, a + sz[a])) = Cardinality(Below(W, a)) + sz[a]
               /\ \A x \in a..a + sz[a] - 1 :
                     Cardinality(Below(W, x)) = Cardinality(Below(W, a)) + (x - a)
    <2>1. a \in Nat /\ sz[a] \in Nat \ {0} /\ lo <= a /\ a + sz[a] <= hi
      BY <1>3
    <2>2. a..a + sz[a] - 1 \subseteq W
      <3>1. ASSUME NEW x \in a..a + sz[a] - 1 PROVE x \in W
        <4>1. x \in lo..hi - 1 /\ a <= x /\ x < a + sz[a]
          BY <1>1, <2>1
        <4> QED BY <1>2, <4>1
      <3> QED BY <3>1
    <2>3. ASSUME NEW x \in Nat, a <= x, x <= a + sz[a]
          PROVE  Cardinality(Below(W, x)) = Cardinality(Below(W, a)) + (x - a)
      <3>1. a..x - 1 \subseteq W
        <4>1. ASSUME NEW y \in a..x - 1 PROVE y \in a..a + sz[a] - 1
          BY <2>1, <2>3
        <4> QED BY <2>2, <4>1
      <3> QED BY <1>4, <2>1, <2>3, <3>1, CountRun
    <2>4. Cardinality(Below(W, a + sz[a])) = Cardinality(Below(W, a)) + sz[a]
      <3>1. PICK e : e = a + sz[a]
        OBVIOUS
      <3>2. e \in Nat /\ a <= e /\ e <= a + sz[a]
        BY <2>1, <3>1
      <3>3. Cardinality(Below(W, e)) = Cardinality(Below(W, a)) + (e - a)
        BY <2>3, <3>2
      <3>4. e - a = sz[a]
        BY <2>1, <3>1
      <3>5. Cardinality(Below(W, e)) = Cardinality(Below(W, a)) + sz[a]
        BY <3>3, <3>4
      <3> QED BY <3>1, <3>5, Zenon
    <2>5. ASSUME NEW x \in a..a + sz[a] - 1
          PROVE  Cardinality(Below(W, x)) = Cardinality(Below(W, a)) + (x - a)
      <3>1. x \in Nat /\ a <= x /\ x <= a + sz[a]
        BY <2>1
      <3> QED BY <2>3, <3>1
    <2> QED BY <2>2, <2>4, <2>5
  <1>6. \A x : Cardinality(Below(W, x)) \in Nat /\ Cardinality(Below(W, x)) <= Cardinality(W)
    BY <1>4, BelowFinite
  <1>7. ASSUME NEW a \in here
        PROVE  /\ at[a] = lo + Cardinality(Below(W, a))
               /\ at[a] \in Nat /\ lo <= at[a] /\ at[a] + sz[a] <= lo + Cardinality(W)
    <2>1. at[a] = lo + Cardinality(Below(W, a))
      BY <1>1 DEF CompactAt
    <2>2. PICK c, d : c = Cardinality(Below(W, a)) /\ d = Cardinality(Below(W, a + sz[a]))
      OBVIOUS
    <2>3. c \in Nat /\ d \in Nat /\ d <= Cardinality(W) /\ d = c + sz[a] /\ sz[a] \in Nat
      BY <1>3, <1>5, <1>6, <2>2
    <2> QED BY <1>1, <1>4, <2>1, <2>2, <2>3
  <1>8. ASSUME NEW a \in here, NEW b \in here, a < b PROVE at[a] + sz[a] <= at[b]
    <2>1. a \in Nat /\ b \in Nat /\ sz[a] \in Nat /\ a + sz[a] <= b
      BY <1>3, <1>8 DEF Tiled, Apart
    <2>2. Cardinality(Below(W, a + sz[a])) <= Cardinality(Below(W, b))
      BY <1>4, <2>1, CountGrows
    <2>3. PICK c, d, e : /\ c = Cardinality(Below(W, a)) /\ d = Cardinality(Below(W, a + sz[a]))
                         /\ e = Cardinality(Below(W, b))
      OBVIOUS
    <2>4. c \in Nat /\ d \in Nat /\ e \in Nat /\ d <= e /\ d = c + sz[a]
      BY <1>5, <1>6, <2>2, <2>3
    <2> QED BY <1>1, <1>7, <2>1, <2>3, <2>4
  <1>9. ASSUME NEW w \in lo..lo + Cardinality(W) - 1
        PROVE  \E a \in here : at[a] <= w /\ w < at[a] + sz[a]
    <2>1. w \in Nat /\ w - lo \in Nat /\ w - lo < Cardinality(W)
      BY <1>1, <1>4
    <2>2. PICK x \in W : Cardinality(Below(W, x)) = w - lo
      BY <1>1, <1>4, <2>1, RankExists
    <2>3. PICK a \in here : a <= x /\ x < a + sz[a]
      BY <1>2
    <2>4. x \in Nat /\ a \in Nat /\ sz[a] \in Nat
      BY <1>3, <1>4
    <2>5. x \in a..a + sz[a] - 1
      BY <2>3, <2>4
    <2>6. PICK c : c = Cardinality(Below(W, a))
      OBVIOUS
    <2>7. c \in Nat /\ w - lo = c + (x - a)
      BY <1>5, <1>6, <2>2, <2>5, <2>6
    <2>8. at[a] = lo + c
      BY <1>7, <2>6
    <2>9. at[a] <= w /\ w < at[a] + sz[a]
      BY <1>1, <2>1, <2>3, <2>4, <2>7, <2>8
    <2> QED BY <2>9
  <1> QED BY <1>1, <1>4, <1>7, <1>8, <1>9

(* All spaces are compacted: nw is where the survivors go. *)
Compacts(sz, tp, live, nw, tp2) ==
    /\ \A s \in Spaces : \A a \in live : Start[s] <= a /\ a < tp[s] =>
          nw[a] = Start[s] + Cardinality(Below(Surviving(sz, tp, live, s), a))
    /\ tp2 = [s \in Spaces |-> Start[s] + Cardinality(Surviving(sz, tp, live, s))]

LEMMA CompactMoves ==
    ASSUME NEW sz, NEW tp, Tiled(sz, tp), NEW live, live \subseteq DOMAIN sz,
           NEW nw, NEW tp2, Compacts(sz, tp, live, nw, tp2)
    PROVE  /\ tp2 \in [Spaces -> Nat]
           /\ \A s \in Spaces : Start[s] <= tp2[s] /\ tp2[s] <= tp[s]
           /\ \A s \in Spaces : \A a \in live : Start[s] <= a /\ a < tp[s] =>
                 nw[a] \in Nat /\ Start[s] <= nw[a] /\ nw[a] + sz[a] <= tp2[s]
           /\ \A a, b \in live : a < b /\ ~(nw[a] + sz[a] <= nw[b]) => nw[b] + sz[b] <= nw[a]
           /\ \A s \in Spaces : \A w \in Start[s]..tp2[s] - 1 :
                 \E a \in live : nw[a] <= w /\ w < nw[a] + sz[a]
  <1>1. ASSUME NEW s \in Spaces
        PROVE  /\ tp2[s] = Start[s] + Cardinality(Surviving(sz, tp, live, s)) /\ Cardinality(Surviving(sz, tp, live, s)) \in Nat
               /\ Start[s] \in Nat \ {0} /\ tp2[s] <= tp[s]
               /\ \A a \in Here(tp, live, s) : /\ nw[a] \in Nat /\ Start[s] <= nw[a]
                                     /\ nw[a] + sz[a] <= tp2[s]
               /\ \A a, b \in Here(tp, live, s) : a < b => nw[a] + sz[a] <= nw[b]
               /\ \A w \in Start[s]..tp2[s] - 1 :
                     \E a \in Here(tp, live, s) : nw[a] <= w /\ w < nw[a] + sz[a]
    <2>1. PICK V, h, f : V = Surviving(sz, tp, live, s) /\ h = Here(tp, live, s) /\ f = CompactAt(sz, tp, live, s)
      OBVIOUS
    <2>2. \A a \in h : f[a] = nw[a]
      BY <2>1 DEF Compacts, Here, CompactAt
    <2>6. tp2[s] = Start[s] + Cardinality(V) /\ Start[s] \in Nat \ {0}
      BY <2>1, SpaceBounds DEF Compacts
    <2>7. /\ Cardinality(V) \in Nat /\ Start[s] + Cardinality(V) <= tp[s]
          /\ \A a \in h : /\ f[a] \in Nat /\ Start[s] <= f[a]
                          /\ f[a] + sz[a] <= Start[s] + Cardinality(V)
          /\ \A a, b \in h : a < b => f[a] + sz[a] <= f[b]
          /\ \A w \in Start[s]..Start[s] + Cardinality(V) - 1 :
                \E a \in h : f[a] <= w /\ w < f[a] + sz[a]
      BY <2>1, ZenonT(40), CompactSpace
    <2>8. \A a \in h : nw[a] \in Nat /\ Start[s] <= nw[a] /\ nw[a] + sz[a] <= tp2[s]
      BY <2>2, <2>6, <2>7
    <2>9. \A a, b \in h : a < b => nw[a] + sz[a] <= nw[b]
      BY <2>2, <2>7
    <2>10. \A w \in Start[s]..tp2[s] - 1 : \E a \in h : nw[a] <= w /\ w < nw[a] + sz[a]
      BY <2>2, <2>6, <2>7
    <2> QED BY <2>1, <2>6, <2>7, <2>8, <2>9, <2>10
  <1>2. ASSUME NEW s \in Spaces
        PROVE  tp2[s] \in Nat /\ Start[s] <= tp2[s] /\ tp2[s] <= tp[s]
    BY <1>1
  <1>3. tp2 \in [Spaces -> Nat]
    BY <1>2 DEF Compacts
  <1>4. ASSUME NEW a \in live PROVE \E s \in Spaces : a \in Here(tp, live, s) /\ a \in DOMAIN sz
    <2>1. a \in DOMAIN sz
      OBVIOUS
    <2>2. PICK s \in Spaces : Start[s] <= a /\ a < tp[s]
      BY <2>1, TilePlace
    <2> QED BY <2>1, <2>2 DEF Here
  <1>5. ASSUME NEW a \in live, NEW b \in live, a < b, ~(nw[a] + sz[a] <= nw[b])
        PROVE  nw[b] + sz[b] <= nw[a]
    <2>1. PICK s \in Spaces : a \in Here(tp, live, s) /\ a \in DOMAIN sz
      BY <1>4
    <2>2. PICK t \in Spaces : b \in Here(tp, live, t) /\ b \in DOMAIN sz
      BY <1>4
    <2>3. s # t
      BY <1>1, <1>5, <2>1, <2>2
    <2>4. /\ nw[a] \in Nat /\ Start[s] <= nw[a] /\ nw[a] + sz[a] <= tp2[s]
          /\ nw[b] \in Nat /\ Start[t] <= nw[b] /\ nw[b] + sz[b] <= tp2[t]
      BY <1>1, <2>1, <2>2
    <2>5. sz[a] \in Nat /\ sz[b] \in Nat
      BY <2>1, <2>2, TilePlace
    <2>6. /\ tp2[s] \in Nat /\ tp2[t] \in Nat /\ tp2[s] <= tp[s] /\ tp2[t] <= tp[t]
      BY <1>2
    <2>7. /\ tp[s] \in Nat /\ tp[s] <= End[s] /\ End[s] \in Nat /\ Start[s] \in Nat
          /\ tp[t] \in Nat /\ tp[t] <= End[t] /\ End[t] \in Nat /\ Start[t] \in Nat
      BY SpaceBounds
    <2>8. End[s] <= Start[t] \/ End[t] <= Start[s]
      BY <2>3, Layout
    <2> QED BY <1>5, <2>4, <2>5, <2>6, <2>7, <2>8
  <1>6. ASSUME NEW s \in Spaces, NEW a \in live, Start[s] <= a, a < tp[s]
        PROVE  nw[a] \in Nat /\ Start[s] <= nw[a] /\ nw[a] + sz[a] <= tp2[s]
    BY <1>1, <1>6 DEF Here
  <1>7. ASSUME NEW s \in Spaces, NEW w \in Start[s]..tp2[s] - 1
        PROVE  \E a \in live : nw[a] <= w /\ w < nw[a] + sz[a]
    BY <1>1, <1>7 DEF Here
  <1> QED BY <1>2, <1>3, <1>5, <1>6, <1>7

(* Two survivors do not go to the same place. *)
LEMMA CompactInjective ==
    ASSUME NEW sz, NEW tp, Tiled(sz, tp), NEW live, live \subseteq DOMAIN sz,
           NEW nw, NEW tp2, Compacts(sz, tp, live, nw, tp2),
           NEW a \in live, NEW b \in live, nw[a] = nw[b]
    PROVE  a = b
  <1>1. ASSUME NEW x \in live
        PROVE  x \in Nat /\ sz[x] \in Nat \ {0} /\ nw[x] \in Nat
    <2>1. x \in DOMAIN sz
      OBVIOUS
    <2>2. PICK s \in Spaces : Start[s] <= x /\ x < tp[s]
      BY <2>1, TilePlace
    <2>3. nw[x] \in Nat
      BY <2>2, CompactMoves
    <2> QED BY <2>1, <2>3, TilePlace
  <1>2. /\ a < b /\ ~(nw[a] + sz[a] <= nw[b]) => nw[b] + sz[b] <= nw[a]
        /\ b < a /\ ~(nw[b] + sz[b] <= nw[a]) => nw[a] + sz[a] <= nw[b]
    BY CompactMoves
  <1>3. /\ a \in Nat /\ b \in Nat /\ sz[a] \in Nat \ {0} /\ sz[b] \in Nat \ {0}
        /\ nw[a] \in Nat /\ nw[b] \in Nat
    BY <1>1
  <1> QED BY <1>2, <1>3

(* The survivors of a tiling tile the compacted spaces. *)
LEMMA CompactTiled ==
    ASSUME NEW sz, NEW tp, Tiled(sz, tp), NEW live, live \subseteq DOMAIN sz,
           NEW nw, NEW tp2, Compacts(sz, tp, live, nw, tp2),
           NEW sz2, sz2 = [b \in DOMAIN sz2 |-> sz2[b]], DOMAIN sz2 = {nw[a] : a \in live},
           \A a \in live : sz2[nw[a]] = sz[a]
    PROVE  Tiled(sz2, tp2)
  <1>1. /\ tp2 \in [Spaces -> Nat]
        /\ \A s \in Spaces : Start[s] <= tp2[s] /\ tp2[s] <= tp[s]
        /\ \A s \in Spaces : \A a \in live : Start[s] <= a /\ a < tp[s] =>
                 nw[a] \in Nat /\ Start[s] <= nw[a] /\ nw[a] + sz[a] <= tp2[s]
        /\ \A a, b \in live : a < b /\ ~(nw[a] + sz[a] <= nw[b]) => nw[b] + sz[b] <= nw[a]
        /\ \A s \in Spaces : \A w \in Start[s]..tp2[s] - 1 :
                 \E a \in live : nw[a] <= w /\ w < nw[a] + sz[a]
    BY CompactMoves
  <1>2. ASSUME NEW b \in DOMAIN sz2
        PROVE  \E a \in live : b = nw[a] /\ sz2[b] = sz[a] /\ a \in DOMAIN sz
    <2>1. PICK a \in live : b = nw[a]
      BY <1>2
    <2> QED BY <2>1
  <1>3. ASSUME NEW a \in live
        PROVE  /\ a \in Nat /\ sz[a] \in Nat \ {0} /\ nw[a] \in Nat
               /\ \E s \in Spaces : Start[s] <= nw[a] /\ nw[a] + sz[a] <= tp2[s]
    <2>1. a \in DOMAIN sz
      OBVIOUS
    <2>2. PICK s \in Spaces : Start[s] <= a /\ a < tp[s]
      BY <2>1, TilePlace
    <2>3. nw[a] \in Nat /\ Start[s] <= nw[a] /\ nw[a] + sz[a] <= tp2[s]
      BY <1>1, <2>2
    <2> QED BY <2>1, <2>3, TilePlace
  <1>4. TilingTyped(sz2, tp2)
    <2>1. sz2 \in [DOMAIN sz2 -> Nat \ {0}]
      <3>1. ASSUME NEW b \in DOMAIN sz2 PROVE sz2[b] \in Nat \ {0}
        BY <1>2, <1>3
      <3> QED BY <3>1
    <2>2. ASSUME NEW s \in Spaces PROVE Start[s] <= tp2[s] /\ tp2[s] <= End[s]
      <3>1. Start[s] <= tp2[s] /\ tp2[s] <= tp[s] /\ tp2[s] \in Nat
        BY <1>1
      <3>2. tp[s] \in Nat /\ tp[s] <= End[s] /\ End[s] \in Nat
        BY SpaceBounds
      <3> QED BY <3>1, <3>2
    <2> QED BY <1>1, <2>1, <2>2 DEF TilingTyped
  <1>5. Placed(sz2, tp2)
    <2> SUFFICES ASSUME NEW b \in DOMAIN sz2
                 PROVE  \E s \in Spaces : Start[s] <= b /\ b + sz2[b] <= tp2[s] /\ b \in Nat
      BY DEF Placed
    <2>1. PICK a \in live : b = nw[a] /\ sz2[b] = sz[a]
      BY <1>2
    <2> QED BY <1>3, <2>1
  <1>6. Covered(sz2, tp2)
    <2> SUFFICES ASSUME NEW s \in Spaces, NEW w \in Start[s]..tp2[s] - 1
                 PROVE  \E b \in DOMAIN sz2 : b <= w /\ w < b + sz2[b]
      BY DEF Covered
    <2>1. PICK a \in live : nw[a] <= w /\ w < nw[a] + sz[a]
      BY <1>1
    <2>2. nw[a] \in DOMAIN sz2 /\ sz2[nw[a]] = sz[a]
      OBVIOUS
    <2> QED BY <2>1, <2>2
  <1>7. Apart(sz2)
    <2> SUFFICES ASSUME NEW c \in DOMAIN sz2, NEW d \in DOMAIN sz2, c < d
                 PROVE  c + sz2[c] <= d
      BY DEF Apart
    <2>1. PICK a \in live : c = nw[a] /\ sz2[c] = sz[a]
      BY <1>2
    <2>2. PICK b \in live : d = nw[b] /\ sz2[d] = sz[b]
      BY <1>2
    <2>3. /\ a \in Nat /\ b \in Nat /\ sz[a] \in Nat \ {0} /\ sz[b] \in Nat \ {0}
          /\ nw[a] \in Nat /\ nw[b] \in Nat
      BY <1>3
    <2>4. /\ a < b /\ ~(nw[a] + sz[a] <= nw[b]) => nw[b] + sz[b] <= nw[a]
          /\ b < a /\ ~(nw[b] + sz[b] <= nw[a]) => nw[a] + sz[a] <= nw[b]
      BY <1>1
    <2> QED BY <2>1, <2>2, <2>3, <2>4
  <1> QED BY <1>4, <1>5, <1>6, <1>7 DEF Tiled

-----------------------------------------------------------------------------
(***************************************************************************)
(* The offset table stays a table                                          *)
(***************************************************************************)

OffsetTable == [Cards -> 0 .. MaxDirect + MaxChainSkip]

LEMMA RecordTyped ==
    ASSUME NEW table \in OffsetTable, NEW a \in Int, a >= Start.old, NEW words
    PROVE  record_object(table, a, words) \in OffsetTable
  <1>1. MaxDirect \in Nat \ {0} /\ MaxChainSkip \in Nat \ {0} /\ CardWords = MaxDirect
    BY HeapAssumption DEF MaxDirect
  <1>2. PICK c0 : c0 = CardOf(a)
    OBVIOUS
  <1>3. c0 \in Nat /\ CardBase(c0) \in Nat /\ CardBase(c0) <= a
    BY <1>2, CardWindow
  <1>4. ASSUME NEW c \in Cards, c \in c0..CardOf(a + words - 1), ~(CardBase(c) < a),
               ~(CardBase(c) - a <= MaxDirect)
        PROVE  ChainEntry(c0, c) \in 0..MaxDirect + MaxChainSkip
    <2>1. c \in Nat /\ CardBase(c) \in Int
      <3>1. PICK w \in Start.old..End.old - 1 : c = CardOf(w)
        BY DEF Cards
      <3>2. w \in Int /\ w >= Start.old
        BY Layout
      <3>3. c \in Nat
        BY <3>1, <3>2, CardWindow
      <3> QED BY <3>3, CardBases
    <2>2. c # c0
      BY <1>1, <1>3, <1>4, <2>1
    <2>3. ~(c < c0)
      <3>1. c < c0 => CardBase(c + 1) <= CardBase(c0) /\ CardBase(c + 1) = CardBase(c) + CardWords
        BY <1>3, <2>1, CardBases
      <3> QED BY <1>1, <1>3, <1>4, <2>1, <3>1
    <2>4. c - (c0 + 1) \in Nat
      BY <1>3, <2>1, <2>2, <2>3
    <2> QED BY <1>1, <2>4 DEF ChainEntry
  <1>5. ASSUME NEW c \in Cards, ~(CardBase(c) < a), CardBase(c) - a <= MaxDirect
        PROVE  CardBase(c) - a \in 0..MaxDirect + MaxChainSkip
    <2>1. CardBase(c) \in Int
      <3>1. PICK w \in Start.old..End.old - 1 : c = CardOf(w)
        BY DEF Cards
      <3>2. w \in Int /\ w >= Start.old
        BY Layout
      <3>3. c \in Nat
        BY <3>1, <3>2, CardWindow
      <3> QED BY <3>3, CardBases
    <2> QED BY <1>1, <1>5, <2>1
  <1>6. \A c \in Cards : table[c] \in 0..MaxDirect + MaxChainSkip
    BY DEF OffsetTable
  <1> QED BY <1>2, <1>4, <1>5, <1>6 DEF record_object, OffsetTable

LEMMA ClearTyped ==
    ASSUME NEW table \in OffsetTable, NEW t
    PROVE  clear_through(table, t) \in OffsetTable
  <1>1. 0 \in 0..MaxDirect + MaxChainSkip
    BY HeapAssumption DEF MaxDirect
  <1> QED BY <1>1 DEF clear_through, OffsetTable

LEMMA RecordsTyped ==
    ASSUME NEW table \in OffsetTable, NEW words,
           \A a \in DOMAIN words : a \in Int /\ a >= Start.old
    PROVE  record_objects(table, words) \in OffsetTable
  <1> DEFINE over(c) == {a \in DOMAIN words : a <= CardBase(c) /\ CardBase(c) < a + words[a]}
             entry(c) == IF over(c) = {} THEN table[c]
                         ELSE LET a == CHOOSE b \in over(c) : TRUE
                              IN  record_object(table, a, words[a])[c]
  <1>1. ASSUME NEW c \in Cards PROVE entry(c) \in 0..MaxDirect + MaxChainSkip
    <2>1. CASE over(c) = {}
      BY <2>1 DEF OffsetTable
    <2>2. CASE over(c) # {}
      <3>1. PICK a : a = CHOOSE b \in over(c) : TRUE
        OBVIOUS
      <3>2. a \in over(c)
        BY <2>2, <3>1
      <3>3. a \in Int /\ a >= Start.old
        BY <3>2
      <3>4. record_object(table, a, words[a]) \in OffsetTable
        BY <3>3, RecordTyped
      <3>5. entry(c) = record_object(table, a, words[a])[c]
        BY <2>2, <3>1
      <3> QED BY <3>4, <3>5 DEF OffsetTable
    <2> QED BY <2>1, <2>2
  <1>2. record_objects(table, words) = [c \in Cards |-> entry(c)]
    BY DEF record_objects
  <1> HIDE DEF entry
  <1> QED BY <1>1, <1>2 DEF OffsetTable

-----------------------------------------------------------------------------
(***************************************************************************)
(* Where the chains of the offset table lead                               *)
(***************************************************************************)

(* The object at a, of n words, lies over the base of card c. *)
Over(a, n, c) == a <= CardBase(c) /\ CardBase(c) < a + n

(* The entry of card c leads to a, or back to a card whose base is in the  *)
(* same object.                                                            *)
EntryOK(table, c, a) ==
    IF table[c] <= MaxDirect THEN CardBase(c) - table[c] = a
    ELSE LET d == c - (table[c] - MaxDirect)
         IN  d \in Cards /\ d < c /\ a <= CardBase(d)

(* Every entry below the bump pointer leads to its object; none above it   *)
(* has been written.                                                       *)
EntriesOK(sz, oldTop, table) ==
    /\ \A c \in Cards : \A a \in DOMAIN sz : Over(a, sz[a], c) => EntryOK(table, c, a)
    /\ \A c \in Cards : oldTop <= CardBase(c) => table[c] = 0

LEMMA CardFacts ==
    ASSUME NEW c \in Cards
    PROVE  /\ c \in Nat /\ CardBase(c) \in Nat /\ CardBase(c) >= Start.old
           /\ CardBase(c) < End.old
           /\ \A d \in Nat : d <= c => d \in Cards /\ CardBase(d) <= CardBase(c)
  <1>1. PICK w \in Start.old..End.old - 1 : c = CardOf(w)
    BY DEF Cards
  <1>2. w \in Int /\ w >= Start.old /\ w < End.old /\ End.old \in Nat /\ Start.old \in Nat
    BY Layout
  <1>3. c \in Nat /\ CardBase(c) \in Nat /\ CardBase(c) <= w
    BY <1>1, <1>2, CardWindow
  <1>4. CardBase(c) >= Start.old
    BY <1>3, CardBases
  <1>5. ASSUME NEW d \in Nat, d <= c PROVE d \in Cards /\ CardBase(d) <= CardBase(c)
    <2>1. /\ CardBase(d) \in Int /\ CardBase(d + 1) = CardBase(d) + CardWords
          /\ d < c => CardBase(d + 1) <= CardBase(c)
          /\ CardBase(d) >= Start.old
      <3>1. c \in Int /\ d \in Int /\ d >= 0
        BY <1>3
      <3> QED BY <3>1, CardBases
    <2>2. CardWords \in Nat \ {0}
      BY HeapAssumption
    <2>3. CardBase(d) <= CardBase(c) /\ CardBase(d) < CardBase(d + 1)
      <3>1. CASE d = c
        BY <1>3, <2>1, <2>2, <3>1
      <3>2. CASE d < c
        BY <1>3, <2>1, <2>2, <3>2
      <3> QED BY <1>3, <1>5, <3>1, <3>2
    <2>4. PICK b : b = CardBase(d)
      OBVIOUS
    <2>5. b \in Int /\ b >= Start.old /\ CardBase(d) <= b /\ b < CardBase(d + 1)
      BY <2>1, <2>3, <2>4
    <2>6. d = CardOf(b)
      BY <2>5, CardUnique
    <2>7. b < End.old
      BY <1>2, <1>3, <2>3, <2>4, <2>5
    <2>8. CardOf(b) \in Cards
      BY <2>5, <2>7, WordCards
    <2> QED BY <2>3, <2>6, <2>8
  <1>6. CardBase(c) < End.old
    BY <1>2, <1>3
  <1> QED BY <1>3, <1>4, <1>5, <1>6

(* What record_object writes leads to the object it records, and it writes *)
(* the entries of no other cards than those whose bases the object covers. *)
LEMMA RecordLeads ==
    ASSUME NEW table, NEW a \in Int, a >= Start.old, NEW n \in Nat \ {0}, NEW c \in Cards,
           NEW t2, t2 = record_object(table, a, n)
    PROVE  /\ Over(a, n, c) => EntryOK(t2, c, a)
           /\ ~Over(a, n, c) => t2[c] = table[c]
  <1>1. /\ MaxDirect \in Nat \ {0} /\ MaxChainSkip \in Nat \ {0} /\ CardWords = MaxDirect
        /\ Start.old \in Nat
    BY HeapAssumption, Layout DEF MaxDirect
  <1>2. PICK c0, c1, b, w : c0 = CardOf(a) /\ c1 = CardOf(a + n - 1) /\ b = CardBase(c) /\ w = a + n - 1
    OBVIOUS
  <1>3. /\ c \in Nat /\ b \in Nat /\ b >= Start.old
        /\ \A d \in Nat : d <= c => d \in Cards /\ CardBase(d) <= b
    BY <1>2, CardFacts
  <1>4. w \in Int /\ w >= Start.old /\ a <= w /\ w + 1 = a + n
    BY <1>1, <1>2
  <1>5. c0 \in Nat /\ c1 \in Nat /\ CardBase(c0) \in Nat /\ CardBase(c0) <= a
    BY <1>2, <1>4, CardWindow
  <1>6. b <= w <=> c <= c1
    BY <1>2, <1>3, <1>4, CardUnique
  <1>7. b >= a => c0 <= c
    <2>1. CASE c < c0
      <3>1. CardBase(c + 1) <= CardBase(c0) /\ CardBase(c + 1) = b + CardWords
        BY <1>2, <1>3, <1>5, <2>1, CardBases
      <3> QED BY <1>1, <1>3, <1>5, <3>1
    <2>2. CASE ~(c < c0)
      BY <1>3, <1>5, <2>2
    <2> QED BY <2>1, <2>2
  <1>8. Over(a, n, c) <=> c \in c0..c1 /\ ~(b < a)
    BY <1>2, <1>3, <1>4, <1>5, <1>6, <1>7 DEF Over
  <1>9. t2[c] = IF c \notin c0..c1 \/ b < a THEN table[c]
                ELSE IF b - a <= MaxDirect THEN b - a ELSE ChainEntry(c0, c)
    BY <1>2 DEF record_object
  <1>10. ASSUME Over(a, n, c) PROVE EntryOK(t2, c, a)
    <2>1. CASE b - a <= MaxDirect
      <3>1. t2[c] = b - a
        BY <1>8, <1>9, <1>10, <2>1
      <3>2. b - (b - a) = a
        BY <1>3
      <3> QED BY <1>2, <2>1, <3>1, <3>2 DEF EntryOK
    <2>2. CASE ~(b - a <= MaxDirect)
      <3>1. t2[c] = ChainEntry(c0, c)
        BY <1>8, <1>9, <1>10, <2>2
      <3>2. CardBase(c0 + 1) = CardBase(c0) + CardWords /\ a < CardBase(c0 + 1)
        <4>1. c0 \in Int
          BY <1>5
        <4>2. CardBase(c0 + 1) = CardBase(c0) + CardWords
          BY <4>1, CardBases
        <4>3. a < CardBase(c0 + 1)
          BY <1>2, CardWindow
        <4> QED BY <4>2, <4>3
      <3>3. c0 + 1 < c
        <4>1. CASE c <= c0 + 1
          <5>1. c = c0 \/ c = c0 + 1
            BY <1>3, <1>5, <1>8, <1>10, <4>1
          <5>2. CASE c = c0
            BY <1>1, <1>2, <1>3, <1>5, <2>2, <5>2
          <5>3. CASE c = c0 + 1
            BY <1>1, <1>2, <1>3, <1>5, <2>2, <3>2, <5>3
          <5> QED BY <5>1, <5>2, <5>3
        <4>2. CASE ~(c <= c0 + 1)
          BY <1>3, <1>5, <4>2
        <4> QED BY <4>1, <4>2
      <3>4. PICK k : k = t2[c] - MaxDirect
        OBVIOUS
      <3>5. k \in Nat \ {0} /\ k <= c - (c0 + 1) /\ t2[c] = MaxDirect + k
        <4>1. PICK x : x = c - (c0 + 1)
          OBVIOUS
        <4>2. x \in Nat \ {0}
          BY <1>3, <1>5, <3>3, <4>1
        <4>3. t2[c] = MaxDirect + (IF x < MaxChainSkip THEN x ELSE MaxChainSkip)
          BY <3>1, <4>1 DEF ChainEntry
        <4>4. PICK y : y = IF x < MaxChainSkip THEN x ELSE MaxChainSkip
          OBVIOUS
        <4>5. y \in Nat \ {0} /\ y <= x
          BY <1>1, <4>2, <4>4
        <4>6. t2[c] = MaxDirect + y
          BY <4>3, <4>4
        <4>7. k = y
          BY <1>1, <3>4, <4>5, <4>6
        <4> QED BY <4>1, <4>5, <4>6, <4>7
      <3>6. PICK d : d = c - k
        OBVIOUS
      <3>7. d \in Nat /\ d < c /\ c0 + 1 <= d
        BY <1>3, <1>5, <3>5, <3>6
      <3>8. d \in Cards
        BY <1>3, <3>7
      <3>9. a <= CardBase(d)
        <4>1. /\ CardBase(d) \in Nat /\ CardBase(c0 + 1) <= CardBase(d)
          BY <1>5, <3>7, <3>8, CardFacts
        <4> QED BY <1>5, <3>2, <4>1, <1>1
      <3>10. ~(t2[c] <= MaxDirect)
        BY <1>1, <3>5
      <3> QED BY <3>4, <3>6, <3>7, <3>8, <3>9, <3>10 DEF EntryOK
    <2> QED BY <2>1, <2>2
  <1>11. ASSUME ~Over(a, n, c) PROVE t2[c] = table[c]
    BY <1>8, <1>9, <1>11
  <1> QED BY <1>10, <1>11

(* The entry of an object depends on nothing but the table at its card. *)
LEMMA EntrySame ==
    ASSUME NEW table, NEW t2, NEW c, NEW a, t2[c] = table[c], EntryOK(table, c, a)
    PROVE  EntryOK(t2, c, a)
  BY DEF EntryOK

(* A card base is under at most one object. *)
LEMMA OverOne ==
    ASSUME NEW sz, NEW tp, Tiled(sz, tp), NEW a \in DOMAIN sz, NEW b \in DOMAIN sz,
           NEW c \in Cards, Over(a, sz[a], c), Over(b, sz[b], c)
    PROVE  a = b
  <1>1. /\ a \in Nat /\ b \in Nat /\ sz[a] \in Nat /\ sz[b] \in Nat /\ CardBase(c) \in Nat
    BY TilePlace, CardFacts
  <1>2. /\ a < b => a + sz[a] <= b
        /\ b < a => b + sz[b] <= a
    BY DEF Tiled, Apart
  <1> QED BY <1>1, <1>2 DEF Over

(* An object over a card base is in the old generation, below its bump     *)
(* pointer.                                                                *)
LEMMA OverOld ==
    ASSUME NEW sz, NEW tp, Tiled(sz, tp), NEW a \in DOMAIN sz, NEW c \in Cards,
           Over(a, sz[a], c)
    PROVE  a >= Start.old /\ a \in Nat /\ CardBase(c) < tp.old
  <1>1. PICK s \in Spaces : Start[s] <= a /\ a + sz[a] <= tp[s]
    BY TilePlace
  <1>2. a \in Nat /\ sz[a] \in Nat \ {0}
    BY TilePlace
  <1>3. CardBase(c) \in Nat /\ CardBase(c) >= Start.old /\ Start.old \in Nat
    BY CardFacts, Layout
  <1>4. tp[s] \in Nat /\ tp[s] <= End[s] /\ End[s] \in Nat
    BY SpaceBounds
  <1>5. s # "old" => End[s] <= Start.old
    BY Layout
  <1>6. s = "old"
    BY <1>1, <1>2, <1>3, <1>4, <1>5 DEF Over
  <1> QED BY <1>1, <1>2, <1>3, <1>4, <1>6 DEF Over

(* The entries survive what leaves the old objects in place... *)
LEMMA EntriesKept ==
    ASSUME NEW sz, NEW tp, Tiled(sz, tp), NEW table, EntriesOK(sz, tp.old, table),
           NEW sz2, NEW tp2, Tiled(sz2, tp2), tp.old <= tp2.old,
           \A a \in DOMAIN sz2 : a >= Start.old => a \in DOMAIN sz /\ sz2[a] = sz[a]
    PROVE  EntriesOK(sz2, tp2.old, table)
  <1>1. ASSUME NEW c \in Cards, NEW a \in DOMAIN sz2, Over(a, sz2[a], c)
        PROVE  EntryOK(table, c, a)
    <2>1. a >= Start.old
      BY <1>1, OverOld
    <2>2. a \in DOMAIN sz /\ Over(a, sz[a], c)
      BY <1>1, <2>1
    <2> QED BY <2>2 DEF EntriesOK
  <1>2. ASSUME NEW c \in Cards, tp2.old <= CardBase(c) PROVE table[c] = 0
    <2>1. "old" \in Spaces
      BY DEF Spaces
    <2>2. tp.old \in Nat /\ tp2.old \in Nat /\ CardBase(c) \in Nat
      BY <2>1, SpaceBounds, CardFacts
    <2>3. tp.old <= CardBase(c)
      BY <1>2, <2>2
    <2> QED BY <2>3 DEF EntriesOK
  <1> QED BY <1>1, <1>2 DEF EntriesOK

(* ... and the recording of one more. *)
LEMMA EntriesRecorded ==
    ASSUME NEW sz, NEW tp, Tiled(sz, tp), NEW table, EntriesOK(sz, tp.old, table),
           NEW sz2, NEW tp2, Tiled(sz2, tp2), tp.old <= tp2.old,
           NEW x \in DOMAIN sz2, x >= Start.old, NEW n, n = sz2[x],
           \A a \in DOMAIN sz2 \ {x} : a >= Start.old => a \in DOMAIN sz /\ sz2[a] = sz[a],
           NEW t2, t2 = record_object(table, x, n)
    PROVE  EntriesOK(sz2, tp2.old, t2)
  <1>0. x \in Int /\ n \in Nat \ {0}
    BY TilePlace
  <1>1. ASSUME NEW c \in Cards
        PROVE  /\ Over(x, n, c) => EntryOK(t2, c, x)
               /\ ~Over(x, n, c) => t2[c] = table[c]
    BY <1>0, RecordLeads
  <1>2. ASSUME NEW c \in Cards, NEW a \in DOMAIN sz2, Over(a, sz2[a], c)
        PROVE  EntryOK(t2, c, a)
    <2>1. CASE a = x
      BY <1>1, <1>2, <2>1
    <2>2. CASE a # x
      <3>1. ~Over(x, n, c)
        BY <1>2, <2>2, OverOne
      <3>2. a >= Start.old
        BY <1>2, OverOld
      <3>3. a \in DOMAIN sz /\ Over(a, sz[a], c)
        BY <1>2, <2>2, <3>2
      <3>4. EntryOK(table, c, a) /\ t2[c] = table[c]
        BY <1>1, <3>1, <3>3 DEF EntriesOK
      <3> QED BY <3>4, EntrySame
    <2> QED BY <2>1, <2>2
  <1>3. ASSUME NEW c \in Cards, tp2.old <= CardBase(c) PROVE t2[c] = 0
    <2>1. "old" \in Spaces
      BY DEF Spaces
    <2>2. tp.old \in Nat /\ tp2.old \in Nat /\ CardBase(c) \in Nat
      BY <2>1, SpaceBounds, CardFacts
    <2>3. tp.old <= CardBase(c) /\ ~(CardBase(c) < tp2.old)
      BY <1>3, <2>2
    <2>4. ~Over(x, n, c)
      BY <2>3, OverOld
    <2> QED BY <1>1, <2>3, <2>4 DEF EntriesOK
  <1> QED BY <1>2, <1>3 DEF EntriesOK

(* A compaction builds the entries anew, from an empty table. *)
LEMMA EntriesRebuilt ==
    ASSUME NEW table, NEW t, \A c \in Cards : t <= CardBase(c) => table[c] = 0, t \in Nat,
           NEW sz2, NEW tp2, Tiled(sz2, tp2),
           NEW words, words = [b \in {x \in DOMAIN sz2 : x >= Start.old} |-> sz2[b]],
           NEW t2, t2 = record_objects(clear_through(table, t), words)
    PROVE  EntriesOK(sz2, tp2.old, t2)
  <1>1. PICK t1 : t1 = clear_through(table, t)
    OBVIOUS
  <1>2. ASSUME NEW c \in Cards PROVE t1[c] = 0
    <2>1. CardBase(c) \in Nat
      BY CardFacts
    <2>2. t1[c] = IF CardBase(c) < t THEN 0 ELSE table[c]
      BY <1>1 DEF clear_through
    <2> QED BY <2>1, <2>2
  <1>3. /\ DOMAIN words = {x \in DOMAIN sz2 : x >= Start.old}
        /\ \A a \in DOMAIN words : words[a] = sz2[a]
    OBVIOUS
  <1> DEFINE over(c) == {a \in DOMAIN words : a <= CardBase(c) /\ CardBase(c) < a + words[a]}
  <1>4. \A c \in Cards : t2[c] = IF over(c) = {} THEN t1[c]
                                 ELSE LET a == CHOOSE b \in over(c) : TRUE
                                      IN  record_object(t1, a, words[a])[c]
    BY <1>1 DEF record_objects
  <1>5. ASSUME NEW c \in Cards, NEW a \in over(c)
        PROVE  a \in DOMAIN sz2 /\ a >= Start.old /\ Over(a, sz2[a], c) /\ words[a] = sz2[a]
    BY <1>3 DEF Over
  <1>6. ASSUME NEW c \in Cards, NEW a \in DOMAIN sz2, Over(a, sz2[a], c)
        PROVE  EntryOK(t2, c, a)
    <2>1. a >= Start.old /\ a \in Nat
      BY <1>6, OverOld
    <2>2. a \in over(c)
      BY <1>3, <1>6, <2>1 DEF Over
    <2>3. PICK b : b = CHOOSE x \in over(c) : TRUE
      OBVIOUS
    <2>4. b \in over(c)
      BY <2>2, <2>3
    <2>5. b \in DOMAIN sz2 /\ Over(b, sz2[b], c)
      BY <1>5, <2>4
    <2>6. a = b
      BY <1>6, <2>5, OverOne
    <2>7. PICK n, t3 : n = sz2[a] /\ t3 = record_object(t1, a, n)
      OBVIOUS
    <2>8. t2[c] = t3[c]
      <3>1. over(c) # {} /\ words[a] = n
        BY <1>3, <2>1, <2>2, <2>7
      <3>2. t2[c] = record_object(t1, b, words[b])[c]
        BY <1>4, <2>3, <3>1
      <3> QED BY <2>6, <2>7, <3>1, <3>2
    <2>9. n \in Nat \ {0} /\ a \in Int
      BY <1>6, <2>1, <2>7, TilePlace
    <2>10. EntryOK(t3, c, a)
      BY <1>6, <2>1, <2>7, <2>9, RecordLeads
    <2> QED BY <2>8, <2>10, EntrySame
  <1>7. ASSUME NEW c \in Cards, tp2.old <= CardBase(c) PROVE t2[c] = 0
    <2>1. "old" \in Spaces
      BY DEF Spaces
    <2>2. tp2.old \in Nat /\ CardBase(c) \in Nat
      BY <2>1, SpaceBounds, CardFacts
    <2>3. ~(CardBase(c) < tp2.old)
      BY <1>7, <2>2
    <2>4. over(c) = {}
      BY <1>5, <2>3, OverOld
    <2> QED BY <1>2, <1>4, <2>4
  <1> QED BY <1>6, <1>7 DEF EntriesOK

(* Following the chain. *)
ResolveStep(g, i) ==
    IF offsets[i] <= MaxDirect THEN CardBase(i) - offsets[i]
    ELSE g[i - (offsets[i] - MaxDirect)]

ResolveLoop(g) == g = [i \in Cards |-> ResolveStep(g, i)]

(* The object over the base of card i, or the base itself when there is    *)
(* none: where the chains should lead.                                     *)
Leads(sz, oldTop, i) ==
    IF CardBase(i) < oldTop THEN CHOOSE a \in DOMAIN sz : Over(a, sz[a], i) ELSE CardBase(i)

LEMMA LeadsTo ==
    ASSUME NEW sz, NEW tp, Tiled(sz, tp), NEW c \in Cards, NEW a \in DOMAIN sz,
           Over(a, sz[a], c)
    PROVE  Leads(sz, tp.old, c) = a
  <1>1. CardBase(c) < tp.old
    BY OverOld
  <1>2. PICK b : b = CHOOSE x \in DOMAIN sz : Over(x, sz[x], c)
    OBVIOUS
  <1>3. b \in DOMAIN sz /\ Over(b, sz[b], c)
    BY <1>2
  <1>4. a = b
    BY <1>3, OverOne
  <1> QED BY <1>1, <1>2, <1>4 DEF Leads

(* A card below the bump pointer has an object over its base, ... *)
LEMMA CardCovered ==
    ASSUME NEW sz, NEW tp, Tiled(sz, tp), NEW c \in Cards, CardBase(c) < tp.old
    PROVE  \E a \in DOMAIN sz : Over(a, sz[a], c)
  <1>1. "old" \in Spaces
    BY DEF Spaces
  <1>2. tp.old \in Nat /\ CardBase(c) \in Nat /\ CardBase(c) >= Start.old /\ Start.old \in Nat
    BY <1>1, SpaceBounds, CardFacts
  <1>3. CardBase(c) \in Start.old..tp.old - 1
    BY <1>2
  <1> QED BY <1>1, <1>3 DEF Tiled, Covered, Over

(* ... and a chained entry leads back within that object. *)
LEMMA ChainStays ==
    ASSUME NEW sz, NEW tp, Tiled(sz, tp), NEW table, EntriesOK(sz, tp.old, table),
           NEW c \in Cards, NEW a \in DOMAIN sz, Over(a, sz[a], c), ~(table[c] <= MaxDirect),
           NEW d, d = c - (table[c] - MaxDirect)
    PROVE  d \in Cards /\ d < c /\ Over(a, sz[a], d)
  <1>1. d \in Cards /\ d < c /\ a <= CardBase(d)
    BY DEF EntriesOK, EntryOK
  <1>2. d \in Nat /\ CardBase(d) \in Nat /\ c \in Nat /\ CardBase(c) \in Nat
    BY <1>1, CardFacts
  <1>3. CardBase(d) <= CardBase(c)
    BY <1>1, <1>2, CardFacts
  <1>4. a \in Nat /\ sz[a] \in Nat
    BY TilePlace
  <1> QED BY <1>1, <1>2, <1>3, <1>4 DEF Over

(* The function that gives every card its object follows the chains, so    *)
(* that there is one; and every one that does leads to the object, as the  *)
(* least card for which it did not would be chained to a lesser one.       *)
LEMMA ResolveLeads ==
    ASSUME NEW sz, NEW tp, Tiled(sz, tp), EntriesOK(sz, tp.old, offsets),
           NEW c \in Cards, NEW a \in DOMAIN sz, Over(a, sz[a], c)
    PROVE  resolve(c) = a
  <1>1. \E g : ResolveLoop(g)
    <2> DEFINE g == [i \in Cards |-> Leads(sz, tp.old, i)]
    <2>1. ASSUME NEW i \in Cards PROVE g[i] = ResolveStep(g, i)
      <3>1. CASE CardBase(i) < tp.old
        <4>1. PICK b \in DOMAIN sz : Over(b, sz[b], i)
          BY <3>1, CardCovered
        <4>2. g[i] = b
          BY <4>1, LeadsTo
        <4>3. EntryOK(offsets, i, b)
          BY <4>1 DEF EntriesOK
        <4>4. CASE offsets[i] <= MaxDirect
          BY <4>2, <4>3, <4>4 DEF EntryOK, ResolveStep
        <4>5. CASE ~(offsets[i] <= MaxDirect)
          <5>1. PICK d : d = i - (offsets[i] - MaxDirect)
            OBVIOUS
          <5>2. d \in Cards /\ Over(b, sz[b], d)
            BY <4>1, <4>5, <5>1, ChainStays
          <5>3. g[d] = b
            BY <5>2, LeadsTo
          <5> QED BY <4>2, <4>5, <5>1, <5>3 DEF ResolveStep
        <4> QED BY <4>4, <4>5
      <3>2. CASE ~(CardBase(i) < tp.old)
        <4>1. "old" \in Spaces
          BY DEF Spaces
        <4>2. tp.old \in Nat /\ CardBase(i) \in Nat /\ MaxDirect \in Nat
          BY <4>1, SpaceBounds, CardFacts, HeapAssumption DEF MaxDirect
        <4>3. offsets[i] = 0
          <5>1. tp.old <= CardBase(i)
            BY <3>2, <4>2
          <5> QED BY <5>1 DEF EntriesOK
        <4>4. g[i] = CardBase(i)
          BY <3>2 DEF Leads
        <4>5. offsets[i] <= MaxDirect /\ CardBase(i) - offsets[i] = CardBase(i)
          BY <4>2, <4>3
        <4> QED BY <4>4, <4>5 DEF ResolveStep
      <3> QED BY <3>1, <3>2
    <2>2. g = [i \in Cards |-> g[i]]
      OBVIOUS
    <2>3. [i \in Cards |-> g[i]] = [i \in Cards |-> ResolveStep(g, i)]
      BY <2>1
    <2>4. ResolveLoop(g)
      BY <2>2, <2>3 DEF ResolveLoop
    <2> QED BY <2>4
  <1>2. PICK h : h = CHOOSE g : ResolveLoop(g)
    OBVIOUS
  <1>3. ResolveLoop(h)
    BY <1>1, <1>2
  <1>4. resolve(c) = h[c]
    BY <1>2 DEF resolve, ResolveLoop, ResolveStep
  <1>5. \A i \in Cards : h[i] = ResolveStep(h, i)
    BY <1>3 DEF ResolveLoop
  <1> DEFINE Bad == {i \in Cards : Over(a, sz[a], i) /\ h[i] # a}
  <1>6. Bad = {}
    <2> SUFFICES ASSUME Bad # {} PROVE FALSE
      OBVIOUS
    <2>1. Bad \subseteq Nat
      BY CardFacts
    <2>2. PICK i \in Bad : \A j \in Bad : i <= j
      BY <2>1, LeastNat
    <2>3. i \in Cards /\ Over(a, sz[a], i) /\ h[i] # a /\ i \in Nat
      BY <2>1, <2>2
    <2>4. CASE offsets[i] <= MaxDirect
      BY <1>5, <2>3, <2>4 DEF EntriesOK, EntryOK, ResolveStep
    <2>5. CASE ~(offsets[i] <= MaxDirect)
      <3>1. PICK d : d = i - (offsets[i] - MaxDirect)
        OBVIOUS
      <3>2. d \in Cards /\ d < i /\ Over(a, sz[a], d)
        BY <2>3, <2>5, <3>1, ChainStays
      <3>3. h[i] = h[d]
        BY <1>5, <2>3, <2>5, <3>1 DEF ResolveStep
      <3>4. d \in Bad /\ d \in Nat
        BY <2>3, <3>2, <3>3, CardFacts
      <3> QED BY <2>2, <2>3, <3>2, <3>4
    <2> QED BY <2>4, <2>5
  <1> QED BY <1>4, <1>6

=============================================================================
