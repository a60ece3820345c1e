--------------------------- MODULE MCSupervision ---------------------------
(***************************************************************************)
(* Supervision on a two-level tree: a root over a worker and a             *)
(* sub-supervisor of one, with bounds on the embedder's calls, on crashes  *)
(* and on the clock.                                                       *)
(***************************************************************************)
EXTENDS Supervision

CONSTANTS a, b, root, sub,   \* model values
          MaxCalls, MaxCrashes, MaxNow

VARIABLES calls, crashes

mcVars == <<vars, calls, crashes>>

MCChildren == [s \in Sups |-> IF s = root THEN <<a, sub>> ELSE <<b>>]
MCStrategy == [s \in Sups |-> IF s = root THEN "oneForAll" ELSE "restForOne"]
MCFlat == [s \in Sups |-> "oneForOne"]
MCMaxRestarts == [s \in Sups |-> 1]
MCFlatChildren == [s \in Sups |-> <<a, b>>]

MCInit == Init /\ calls = 0 /\ crashes = 0

MCNext ==
    \/ (ThreadStep \/ Died \/ Carry) /\ UNCHANGED <<calls, crashes>>
    \/ Tick /\ now < MaxNow /\ UNCHANGED <<calls, crashes>>
    \/ Crash /\ crashes < MaxCrashes /\ crashes' = crashes + 1 /\ UNCHANGED calls
    \/ Client /\ calls < MaxCalls /\ calls' = calls + 1 /\ UNCHANGED crashes

MCSpec == MCInit /\ [][MCNext]_mcVars
MCFairSpec == MCSpec /\ Fairness
============================================================================
