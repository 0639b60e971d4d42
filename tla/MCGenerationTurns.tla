------------------------- MODULE MCGenerationTurns --------------------------
(* Two scenarios side by side: runtime turns with exact cancellations, and *)
(* a process that shuts down, which claims what is unfinished by itself.   *)
(* A behaviour is one of one of these.                                     *)
EXTENDS GenerationQueue

VARIABLE part

WithShutdown == INSTANCE GenerationQueue WITH
    CliGens <- {1}, StopOps <- {}, SlowTurns <- FALSE, SlowRuntime <- FALSE,
    MayShutDown <- TRUE

MCInit == Init /\ part \in {"turns", "shutdown"}

MCNext ==
    \/ part = "turns" /\ Next /\ UNCHANGED part
    \/ part = "shutdown" /\ WithShutdown!Next /\ UNCHANGED part

MCSpec == MCInit /\ [][MCNext]_<<part, vars>>
=============================================================================
