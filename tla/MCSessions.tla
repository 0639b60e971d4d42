----------------------------- MODULE MCSessions -----------------------------
EXTENDS AgentSessions, TLC

(* Processes are interchangeable.                                          *)
Symmetry == Permutations(Procs)
=============================================================================
