------------------------------ MODULE Dispatch ------------------------------
(***************************************************************************)
(* Message sends of the interpreter: the global lookup cache of            *)
(* src/runtime/lookup.rs and the inline caches of src/interpreter/ic.rs,   *)
(* one per send site.                                                      *)
(*                                                                         *)
(* Whether a send's target is compiled code, and whether that code is      *)
(* still there when the cache is hit, is CodeLife's matter and a choice    *)
(* here.  Sends to super are not modelled.  The lookup cache's hash        *)
(* buckets are left out: a collision only displaces an entry, and the next *)
(* probe for it walks the dictionaries again.                              *)
(***************************************************************************)
EXTENDS Lookup

CONSTANTS
    Sites,          \* the send sites of the methods that run
    Selector,       \* site -> the selector it sends
    PolyMax         \* IC_POLY_MAX_PAIRS

ASSUME DispatchAssumption ==
    /\ Selector \in [Sites -> Selectors]
    /\ PolyMax \in Nat /\ PolyMax >= 2

VARIABLES
    cache,      \* LookupCache: <<klass, selector>> -> method or None
    ic          \* site -> its inline cache

vars == <<dict, epoch, cache, ic>>

-----------------------------------------------------------------------------
(***************************************************************************)
(* The lookup cache                                                        *)
(***************************************************************************)

(* Probe, then walk.  No negative caching. *)
lookup(k, s) ==
    IF cache[<<k, s>>] # None THEN cache[<<k, s>>] ELSE lookup_uncached(k, s)

(* The cache after the klasses K have been looked up for s. *)
CacheAfter(K, s) ==
    [key \in Keys |-> IF key[1] \in K /\ key[2] = s THEN lookup(key[1], s) ELSE cache[key]]

(* Mutant: the flush is forgotten. *)
flush_nothing(c) == c

flush(c) == [key \in DOMAIN c |-> None]

-----------------------------------------------------------------------------
(***************************************************************************)
(* Inline caches                                                           *)
(***************************************************************************)

(* A mono entry's target is a method, or the id of compiled code. *)
EmptyIc == [kind |-> "empty"]
MonoIc(k, m) == [kind |-> "mono", k |-> k, m |-> m, compiled |-> FALSE, epoch |-> epoch]
MonoCompiledIc(k) == [kind |-> "mono", k |-> k, m |-> None, compiled |-> TRUE, epoch |-> epoch]
PolyIc(ps) == [kind |-> "poly", ps |-> ps, epoch |-> epoch]
MegaIc == [kind |-> "mega"]
Pair(k, m) == [k |-> k, m |-> m]

PairsFor(ps, k) == {i \in DOMAIN ps : ps[i].k = k}
HasPair(ps, k) == PairsFor(ps, k) # {}
PairMethod(ps, k) == ps[CHOOSE i \in PairsFor(ps, k) : TRUE].m

(* The pairs that resolved, compacted left. *)
Kept(fresh) ==
    LET kept[i \in 0..Len(fresh)] ==
            IF i = 0 THEN <<>>
            ELSE IF fresh[i].m = None THEN kept[i - 1]
            ELSE Append(kept[i - 1], fresh[i])
    IN  kept[Len(fresh)]

(* Every pair resolved again; those that no longer resolve are dropped. *)
reverify_poly(ps, s) ==
    Kept([i \in DOMAIN ps |-> Pair(ps[i].k, lookup(ps[i].k, s))])

(* Mutant: the pairs are taken as they are, and stamped again. *)
UnverifiedPairs(c, s) == c.ps

CurrentPairs(c, s) == IF c.epoch # epoch THEN reverify_poly(c.ps, s) ELSE c.ps

(* Rows 1 and 2 of the transition table. *)
FillEmpty(k, m) == IF m = None THEN EmptyIc ELSE MonoIc(k, m)

(* Rows 5 and 6: a second klass.  The first pair keeps the method the mono *)
(* entry held; only a compiled id is resolved again.                       *)
Demote(c, k, s, m) ==
    LET m0 == IF c.compiled THEN lookup(c.k, s) ELSE c.m
    IN  IF m = None THEN c ELSE PolyIc(<<Pair(c.k, m0), Pair(k, m)>>)

(* Mutant: a pair too many. *)
PolyNextOffByOne(ps, k, m) ==
    IF ps = <<>> THEN FillEmpty(k, m)
    ELSE IF HasPair(ps, k) \/ m = None THEN PolyIc(ps)
    ELSE IF Len(ps) <= PolyMax THEN PolyIc(Append(ps, Pair(k, m)))
    ELSE MegaIc

(* Rows 7 to 11. *)
PolyNext(ps, k, m) ==
    IF ps = <<>> THEN FillEmpty(k, m)
    ELSE IF HasPair(ps, k) \/ m = None THEN PolyIc(ps)
    ELSE IF Len(ps) < PolyMax THEN PolyIc(Append(ps, Pair(k, m)))
    ELSE MegaIc

(* The cache of a site after ic_transition for a receiver of klass k. *)
ic_transition(c, k, s) ==
    LET m == lookup(k, s) IN
    CASE c.kind = "empty" -> FillEmpty(k, m)
      [] c.kind = "mono" /\ c.k = k -> FillEmpty(k, m)
      [] c.kind = "mono" /\ c.k # k -> Demote(c, k, s, m)
      [] c.kind = "poly" -> PolyNext(CurrentPairs(c, s), k, m)
      [] c.kind = "mega" -> c

(* The method ic_transition hands back to be activated, or None: DNU. *)
TransitionMethod(c, k, s) ==
    IF c.kind = "poly" /\ HasPair(CurrentPairs(c, s), k)
    THEN PairMethod(CurrentPairs(c, s), k)
    ELSE lookup(k, s)

(* The klasses ic_transition looks up. *)
TransitionLookups(c, k) ==
    (IF c.kind = "poly" /\ HasPair(c.ps, k) THEN {} ELSE {k})
    \cup (IF c.kind = "mono" /\ c.k # k /\ c.compiled THEN {c.k} ELSE {})
    \cup (IF c.kind = "poly" /\ c.epoch # epoch THEN {c.ps[i].k : i \in DOMAIN c.ps} ELSE {})

(* The fast path: mono guard and current epoch. *)
FastHit(c, k) == c.kind = "mono" /\ c.k = k /\ c.epoch = epoch

-----------------------------------------------------------------------------

(* The compiler's reading of a site: the (klass, method) cases it may      *)
(* inline.  A method of the current epoch is trusted as it stands; a case  *)
(* that no longer resolves is dropped.                                     *)
CaseMethod(m, k, s, fresh) == IF fresh /\ m # None THEN m ELSE Truth(k, s)

Cases(c, s) ==
    CASE c.kind = "mono" -> {Pair(c.k, CaseMethod(c.m, c.k, s, c.epoch = epoch))}
      [] c.kind = "poly" ->
            {Pair(c.ps[i].k, CaseMethod(c.ps[i].m, c.ps[i].k, s, c.epoch = epoch)) :
                i \in DOMAIN c.ps}
      [] OTHER -> {}

read_send_site(c, s) == {p \in Cases(c, s) : p.m # None}

-----------------------------------------------------------------------------
(***************************************************************************)
(* Steps                                                                   *)
(***************************************************************************)

SetIc(i, c) == ic' = [ic EXCEPT ![i] = c]

(* The IC write of activate_method when its trigger has compiled code for  *)
(* the target x: dispatch must agree with x, and no klass history is lost. *)
Seeded(c, k, x) ==
    IF lookup(k, x[2]) = x /\ (c.kind = "empty" \/ (c.kind = "mono" /\ c.k = k))
    THEN MonoCompiledIc(k) ELSE c

(* send_generic's fast path on a method target: activate_method may look   *)
(* the method up and leave compiled code in the cache.                     *)
SendFast(i, k) ==
    /\ FastHit(ic[i], k) /\ ~ic[i].compiled
    /\ SetIc(i, Seeded(ic[i], k, ic[i].m))
    /\ cache' = CacheAfter({k}, Selector[i])
    /\ UNCHANGED <<dict, epoch>>

(* A hit on compiled code that refuses the receiver: the method is looked  *)
(* up and interpreted, the inline cache is not written.                    *)
SendBailout(i, k) ==
    /\ FastHit(ic[i], k) /\ ic[i].compiled
    /\ cache' = CacheAfter({k}, Selector[i])
    /\ UNCHANGED <<dict, epoch, ic>>

(* send_generic's slow path.  A compiled target of a current entry gets    *)
(* here when its id no longer names what it named.                         *)
SendSlow(i, k) ==
    LET e == ic[i]
        s == Selector[i]
        x == TransitionMethod(e, k, s)
        d == ic_transition(e, k, s)
    IN  /\ FastHit(e, k) => e.compiled
        /\ \E trigger \in IF x = None THEN {FALSE} ELSE BOOLEAN :
              /\ SetIc(i, IF trigger THEN Seeded(d, k, x) ELSE d)
              /\ cache' = CacheAfter(TransitionLookups(e, k) \cup (IF trigger THEN {k} ELSE {}), s)
        /\ UNCHANGED <<dict, epoch>>

(* install_method: the lookup cache is flushed, the epoch moves. *)
install_method(k, s) ==
    /\ DefineMethod(k, s)
    /\ cache' = flush(cache)
    /\ UNCHANGED ic

(* A collection moves the klasses; gc_epilogue flushes what is keyed by    *)
(* their addresses, inline caches are traced.                              *)
Collect ==
    /\ \E p \in Moves : cache' = flush(Readdressed(cache, p))
    /\ UNCHANGED <<dict, epoch, ic>>

Init ==
    /\ LookupInit
    /\ cache = [key \in Keys |-> None]
    /\ ic = [i \in Sites |-> EmptyIc]

Next ==
    \/ \E i \in Sites, k \in Klasses : SendFast(i, k) \/ SendBailout(i, k) \/ SendSlow(i, k)
    \/ \E k \in Klasses, s \in Selectors : install_method(k, s)
    \/ Collect

Spec == Init /\ [][Next]_vars

-----------------------------------------------------------------------------
(***************************************************************************)
(* Properties                                                              *)
(***************************************************************************)

(* The types of the state: a polymorphic cache holds one to PolyMax pairs. *)
TypeOK ==
    /\ LookupTypeOK
    /\ cache \in [Keys -> Methods \cup {None}]
    /\ \A i \in Sites :
          \/ ic[i] \in {EmptyIc, MegaIc}
          \/ /\ ic[i].kind \in {"mono", "poly"} /\ ic[i].epoch \in 0..epoch
             /\ ic[i].kind = "poly" => Len(ic[i].ps) \in 1..PolyMax

(***************************************************************************)
(* The lookup cache never answers with anything but what the dictionaries  *)
(* give for the klass now at that address (lookup.rs probe, flushed by     *)
(* install_method and by gc_epilogue).                                     *)
(***************************************************************************)
CacheCurrent ==
    \A k \in Klasses, s \in Selectors :
        cache[<<k, s>>] # None => cache[<<k, s>>] = Truth(k, s)

(***************************************************************************)
(* What an inline cache of the current epoch holds is what dispatch gives: *)
(* a mono target, and the pairs of a poly one, each of which was resolved  *)
(* or verified at the stamped epoch (ic.rs rows 1 to 4 and 7 to 11).  The  *)
(* first pair, which rows 5 and 6 copy, is left to the next property.      *)
(***************************************************************************)
StampedCasesCurrent ==
    \A i \in Sites :
        LET e == ic[i]
            s == Selector[i]
        IN  /\ (e.kind = "mono" /\ e.epoch = epoch /\ ~e.compiled) => e.m = Truth(e.k, s)
            /\ (e.kind = "poly" /\ e.epoch = epoch) =>
                  \A j \in 2..Len(e.ps) : e.ps[j].m = Truth(e.ps[j].k, s)

(***************************************************************************)
(* The feedback the compiler inlines from is current: "a still-current     *)
(* epoch proves no binding has changed since this target was resolved and  *)
(* stamped" (feedback.rs resolve_target).                                  *)
(***************************************************************************)
FeedbackCurrent ==
    \A i \in Sites :
        \A case \in read_send_site(ic[i], Selector[i]) :
            case.m = Truth(case.k, Selector[i])
=============================================================================
