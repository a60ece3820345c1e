----------------------------- MODULE ObjectStore -----------------------------
(***************************************************************************)
(* What the heap promises a program: a store of objects with identities,   *)
(* seen only through the references the program holds.  An object that is  *)
(* no longer reachable is gone; collections are invisible.                 *)
(***************************************************************************)
EXTENDS Naturals

CONSTANTS
    Stack,      \* names of the process-stack slots
    Pool,       \* names of the code-side root slots
    Ids,        \* object identities
    SlotCounts  \* slot counts an allocation may ask for

VARIABLES
    ref,        \* root name -> object identity, or 0
    field       \* object identity -> its slots: exactly the reachable objects

svars == <<ref, field>>

Held == {ref[r] : r \in Stack} \ {0}

(* Nothing of store g is reached from roots p but through S. *)
Closed(p, g, S) ==
    /\ \A r \in DOMAIN p : p[r] \in DOMAIN g => p[r] \in S
    /\ \A x \in S : \A i \in DOMAIN g[x] : g[x][i] \in DOMAIN g => g[x][i] \in S

(* The part of store g that can be reached from roots p. *)
Visible(p, g) ==
    [x \in {y \in DOMAIN g : \A S \in SUBSET DOMAIN g : Closed(p, g, S) => y \in S} |-> g[x]]

Init ==
    /\ ref = [r \in Stack \cup Pool |-> 0]
    /\ field = <<>>

Become(p, g) == ref' = p /\ field' = Visible(p, g)

(* A root takes a value the program holds, or a slot of an object it holds. *)
SetRoot(r, v) == Become([ref EXCEPT ![r] = v], field)

Store(x, i, v) == Become(ref, [field EXCEPT ![x][i] = v])

New(r, x, n, k) ==
    /\ x \notin DOMAIN field
    /\ Become([ref EXCEPT ![r] = x],
              [y \in DOMAIN field \cup {x} |->
                 IF y = x THEN [i \in 1..n |-> IF i = 1 THEN k ELSE 0] ELSE field[y]])

Next ==
    \/ \E r \in Stack \cup Pool, v \in Held \cup {0} : SetRoot(r, v)
    \/ \E r \in Stack, x \in Held : \E i \in DOMAIN field[x] : SetRoot(r, field[x][i])
    \/ \E x \in Held, v \in Held \cup {0} : \E i \in DOMAIN field[x] \ {1} : Store(x, i, v)
    \/ \E r \in Stack, n \in SlotCounts, k \in Held \cup {0} :
         \E x \in Ids : New(r, x, n, k)

Spec == Init /\ [][Next]_svars
=============================================================================
