---------------------------- MODULE LookupProofs ----------------------------
(***************************************************************************)
(* What the walk of the superclass chain answers, for any class hierarchy, *)
(* and which of its answers a redefinition can change.                     *)
(***************************************************************************)
EXTENDS Lookup, SequenceTheorems, WellFoundedInduction, TLAPS

(***************************************************************************)
(* Least elements: what stands in for induction over the naturals          *)
(***************************************************************************)

(* A set of naturals that is not empty has a least element. *)
LEMMA LeastNat ==
    ASSUME NEW T, T \subseteq Nat, T # {}
    PROVE  \E x \in T : \A y \in T : x <= y
  <1>1. PICK x \in T : \A y \in T : ~(<<y, x>> \in OpToRel(<, Nat))
    BY NatLessThanWellFounded, WFMin
  <1>2. \A y \in T : x <= y
    <2> SUFFICES ASSUME NEW y \in T PROVE x <= y
      OBVIOUS
    <2>1. <<y, x>> \in Nat \X Nat /\ <<y, x>>[1] = y /\ <<y, x>>[2] = x
      OBVIOUS
    <2>2. ~(y < x)
      BY <1>1, <2>1 DEF OpToRel
    <2> QED BY <2>2
  <1> QED BY <1>2

-----------------------------------------------------------------------------
(***************************************************************************)
(* The walk                                                                *)
(***************************************************************************)

(* The walk of the superclass chain answers a method or none. *)
LEMMA WalkTyped ==
    ASSUME LookupTypeOK, NEW k \in Klasses, NEW s \in Selectors
    PROVE  lookup_uncached(k, s) \in Methods \cup {None}
  <1> DEFINE defs == {i \in DOMAIN Chain[k] : dict[Chain[k][i]][s] > 0}
             i == CHOOSE i \in defs : \A j \in defs : i <= j
  <1>1. Chain[k] \in Seq(Klasses)
    BY LookupAssumption
  <1>2. DOMAIN Chain[k] \subseteq Nat /\ \A j \in DOMAIN Chain[k] : Chain[k][j] \in Klasses
    BY <1>1, LenProperties
  <1>3. CASE defs = {}
    BY <1>3 DEF lookup_uncached
  <1>4. CASE defs # {}
    <2>1. i \in defs
      <3>1. defs \subseteq Nat
        BY <1>2
      <3> HIDE DEF defs
      <3> QED BY <1>4, <3>1, LeastNat
    <2>2. Chain[k][i] \in Klasses /\ dict[Chain[k][i]][s] \in 1..MaxVersion
      <3>1. i \in DOMAIN Chain[k] /\ dict[Chain[k][i]][s] > 0
        BY <2>1
      <3> HIDE DEF i
      <3>2. Chain[k][i] \in Klasses
        BY <1>2, <3>1
      <3>3. dict[Chain[k][i]][s] \in 0..MaxVersion
        BY <3>2 DEF LookupTypeOK
      <3>4. \A v \in 0..MaxVersion : v > 0 => v \in 1..MaxVersion
        BY LookupAssumption
      <3> QED BY <3>1, <3>2, <3>3, <3>4
    <2>3. MethodIn(Chain[k][i], s) \in Methods
      BY <2>2 DEF MethodIn, Methods
    <2>4. lookup_uncached(k, s) = MethodIn(Chain[k][i], s)
      BY <1>4 DEF lookup_uncached
    <2> QED BY <2>3, <2>4
  <1> QED BY <1>3, <1>4

(* No method is the absence of one. *)
LEMMA NoneIsNoMethod == None \notin Methods
  <1> SUFFICES ASSUME None \in Methods PROVE FALSE
    OBVIOUS
  <1>1. PICK k \in Klasses, s \in Selectors, v \in 1..MaxVersion : None = <<k, s, v>>
    BY DEF Methods
  <1>2. Len(None) = 0 /\ Len(<<k, s, v>>) = 3
    BY DEF None
  <1> QED BY <1>1, <1>2

(* What the walk finds is a method of the selector it looked for. *)
LEMMA WalkSelector ==
    ASSUME NEW k, NEW s, Truth(k, s) # None
    PROVE  Truth(k, s)[2] = s
  BY DEF Truth, lookup_uncached, MethodIn

(* A redefinition of s in k changes no answer for another selector, or for *)
(* a klass that is not below k.                                            *)
LEMMA RedefinitionScope ==
    ASSUME LookupTypeOK, NEW k \in Klasses, NEW s \in Selectors, DefineMethod(k, s),
           NEW j \in Klasses, NEW r \in Selectors, r # s \/ k \notin ToSet(Chain[j])
    PROVE  Truth(j, r)' = Truth(j, r)
  <1>1. dict' = [dict EXCEPT ![k][s] = @ + 1]
    BY DEF DefineMethod
  <1>2. Chain[j] \in Seq(Klasses)
    BY LookupAssumption
  <1>3. \A i \in DOMAIN Chain[j] : Chain[j][i] \in Klasses /\ (r = s => Chain[j][i] # k)
    BY <1>2, LenProperties DEF ToSet
  <1>4. \A x \in Klasses : (r = s => x # k) => dict'[x][r] = dict[x][r]
    BY <1>1 DEF LookupTypeOK
  <1>5. \A i \in DOMAIN Chain[j] : dict'[Chain[j][i]][r] = dict[Chain[j][i]][r]
    BY <1>3, <1>4
  <1> DEFINE defs == {i \in DOMAIN Chain[j] : dict[Chain[j][i]][r] > 0}
             least == CHOOSE i \in defs : \A h \in defs : i <= h
  <1>6. defs' = defs
    BY <1>5
  <1>7. CASE defs = {}
    BY <1>6, <1>7 DEF Truth, lookup_uncached
  <1>8. CASE defs # {}
    <2>1. least \in defs
      <3>1. defs \subseteq Nat
        BY <1>2, LenProperties
      <3> HIDE DEF defs
      <3> QED BY <1>8, <3>1, LeastNat
    <2>2. least \in DOMAIN Chain[j]
      BY <2>1
    <2>3. Truth(j, r) = MethodIn(Chain[j][least], r)
      BY <1>8 DEF Truth, lookup_uncached
    <2>4. Truth(j, r)' = MethodIn(Chain[j][least], r)'
      BY <1>6, <1>8 DEF Truth, lookup_uncached
    <2> HIDE DEF least
    <2>5. least' = least
      BY <1>6 DEF least
    <2> QED BY <1>5, <2>2, <2>3, <2>4, <2>5 DEF MethodIn
  <1> QED BY <1>7, <1>8
=============================================================================
