------------------------------ MODULE HeapStore ------------------------------
(***************************************************************************)
(* How the heap represents the object store: a reference stands for the    *)
(* identity of the object it names, and the store holds what is reachable. *)
(***************************************************************************)
EXTENDS Heap

(* The identity a reference names; -1 for a dangling one. *)
IdOf(v) == IF v = 0 THEN 0 ELSE IF v \in DOMAIN obj THEN obj[v].id ELSE -1

StoreRef == [r \in (1..NRoots) \cup {-c : c \in 1..NCode} |->
               IF r > 0 THEN IdOf(root[r]) ELSE IdOf(code[-r])]

StoreField ==
    [x \in {obj[a].id : a \in Reach} |->
        LET a == CHOOSE b \in Reach : obj[b].id = x
        IN  [i \in Slots(a) |-> IdOf(obj[a].f[i])]]

Abstract == INSTANCE ObjectStore
    WITH Stack <- 1..NRoots, Pool <- {-c : c \in 1..NCode}, Ids <- 1..End.old,
         ref <- StoreRef, field <- StoreField

(* The heap implements the object store: allocation, stores and loads act on *)
(* the object graph as the program sees it, and every step of a scavenge, a  *)
(* full collection or the allocation cascade leaves that graph as it was.    *)
ImplementsStore == Abstract!Spec
=============================================================================
