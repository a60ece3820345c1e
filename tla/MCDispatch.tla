---------------------------- MODULE MCDispatch ----------------------------
(***************************************************************************)
(* Three klasses, two of them subclasses of the first: with two pairs to a *)
(* polymorphic cache, a site can become megamorphic.                       *)
(***************************************************************************)
EXTENDS Dispatch

CONSTANTS a, b, c, f

MCKlasses == {a, b, c}
MCChain == [k \in MCKlasses |-> IF k = a THEN <<a>> ELSE <<k, a>>]
MCMoves == {[k \in MCKlasses |-> k], [k \in MCKlasses |-> CASE k = a -> b [] k = b -> c [] k = c -> a]}
MCSelectors == {f}
MCSelector == [i \in Sites |-> f]
MCDefinable == MCKlasses \X MCSelectors
MCPrograms == SUBSET MCDefinable
=============================================================================
