---------------------------- MODULE MCCodeLife ----------------------------
(***************************************************************************)
(* Klass a and its subclasses b and c.  One program has methods named f,   *)
(* which send g, and leaves named g, which b may override; the other has a *)
(* method h of b that sends h, so that code is retired under an activation *)
(* of its own.                                                             *)
(***************************************************************************)
EXTENDS CodeLife

CONSTANTS a, b, c, f, g, h

MCKlasses == {a, b, c}
MCChain == [k \in MCKlasses |-> IF k = a THEN <<a>> ELSE <<k, a>>]
MCMoves == {[k \in MCKlasses |-> CASE k = a -> b [] k = b -> c [] k = c -> a]}
MCSelectors == {f, g, h}
MCCallee == [s \in MCSelectors |-> CASE s = f -> g [] s = g -> None [] s = h -> h]
MCPrograms == {{<<a, f>>, <<a, g>>}, {<<b, h>>}}
MCDefinable == {<<a, g>>, <<b, g>>, <<b, h>>}
=============================================================================
