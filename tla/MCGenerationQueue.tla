-------------------------- MODULE MCGenerationQueue --------------------------
(* Two scenarios side by side: a chain of API turns under user stops, and  *)
(* a runtime turn with another turn, where histories may fail as well.     *)
(* A behaviour is one of one of these.                                     *)
EXTENDS GenerationQueue

VARIABLE part

Mixed == INSTANCE GenerationQueue WITH
    CliGens <- {1}, MayFailHistory <- TRUE

MCInit == Init /\ part \in {"chain", "mixed"}

MCNext ==
    \/ part = "chain" /\ Next /\ UNCHANGED part
    \/ part = "mixed" /\ Mixed!Next /\ count' <= 2 /\ UNCHANGED part

MCSpec == MCInit /\ [][MCNext]_<<part, vars>>
=============================================================================
