------------------------------- MODULE MCHeap -------------------------------
(* Instances of Heap for TLC. *)
EXTENDS HeapStore

CONSTANT MaxOps     \* bound on the operations the program performs

VARIABLE ops        \* operations performed so far

MCInit == Init /\ ops = 0

MCMutate == ops < MaxOps /\ ops' = ops + 1 /\ Mutate

MCNext == MCMutate \/ ((Cascade \/ Scavenge) /\ UNCHANGED ops)

MCSpec == MCInit /\ [][MCNext]_<<vars, ops>>

MCFairSpec == MCSpec /\ WF_vars(Cascade) /\ WF_vars(Scavenge)
=============================================================================
