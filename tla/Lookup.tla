------------------------------- MODULE Lookup -------------------------------
(***************************************************************************)
(* Method dictionaries and the walk of the superclass chain                *)
(* (src/runtime/lookup.rs), shared by the interpreter's dispatch and by    *)
(* compiled code.                                                          *)
(*                                                                         *)
(* A method is <<holder, selector, version>>; redefining it gives a new    *)
(* version, a new object with inline caches of its own.                    *)
(*                                                                         *)
(* Tables keyed by a klass's address are functions of the klass that is at *)
(* the address now; a collection that moves the klasses permutes them.     *)
(***************************************************************************)
EXTENDS Naturals, Sequences, SequencesExt, FiniteSets

CONSTANTS
    Klasses,
    Chain,          \* klass -> the klass and its superclasses, nearest first
    Selectors,
    Programs,       \* the sets of <<klass, selector>> that may have methods at first
    Definable,      \* bound: the ones that get methods later
    Moves,          \* bound: how a collection may permute the klasses' addresses
    MaxVersion,     \* bound: versions of one method
    MaxInstalls     \* bound: redefinitions of a behaviour

None == <<>>
Keys == Klasses \X Selectors
Methods == Klasses \X Selectors \X (1..MaxVersion)

ASSUME LookupAssumption ==
    /\ IsFiniteSet(Klasses) /\ Definable \subseteq Keys
    /\ Programs \subseteq SUBSET Keys
    /\ Chain \in [Klasses -> Seq(Klasses)]
    /\ \A k \in Klasses : Chain[k] # <<>> /\ Chain[k][1] = k
    /\ Moves \subseteq [Klasses -> Klasses]
    /\ \A p \in Moves : \A j, k \in Klasses : p[j] = p[k] => j = k
    /\ MaxVersion \in Nat \ {0} /\ MaxInstalls \in Nat

VARIABLES
    dict,       \* klass -> selector -> version installed there, or 0
    epoch       \* VmState::ic_epoch: redefinitions so far

MethodIn(k, s) == <<k, s, dict[k][s]>>

(* The walk of the superclass chain: the nearest definition. *)
lookup_uncached(k, s) ==
    LET defs == {i \in DOMAIN Chain[k] : dict[Chain[k][i]][s] > 0}
    IN  IF defs = {} THEN None
        ELSE LET i == CHOOSE i \in defs : \A j \in defs : i <= j
             IN  MethodIn(Chain[k][i], s)

(* What dispatch is meant to run. *)
Truth(k, s) == lookup_uncached(k, s)

(* The dictionary half of install_method: a new version, a new epoch. *)
DefineMethod(k, s) ==
    /\ <<k, s>> \in Definable /\ dict[k][s] < MaxVersion /\ epoch < MaxInstalls
    /\ dict' = [dict EXCEPT ![k][s] = @ + 1]
    /\ epoch' = epoch + 1

LookupInit ==
    /\ \E P \in Programs :
          dict = [k \in Klasses |-> [s \in Selectors |-> IF <<k, s>> \in P THEN 1 ELSE 0]]
    /\ epoch = 0

LookupTypeOK ==
    /\ dict \in [Klasses -> [Selectors -> 0..MaxVersion]]
    /\ epoch \in 0..MaxInstalls

(* A table keyed by addresses after klass k moved to where p[k] was. *)
Readdressed(t, p) == [key \in Keys |-> t[<<p[key[1]], key[2]>>]]
=============================================================================
