----------------------------- MODULE MCDelivery -----------------------------
(* Two ways of delivery side by side: mail to an actor, and the events of  *)
(* a message to the tabs that watch it.  A behaviour is one of one of      *)
(* these.                                                                  *)
EXTENDS TetherDelivery, MessageStreams, TLC

VARIABLE part

MCInit == Init /\ StreamInit /\ part \in {"mail", "tabs"}

MCNext ==
    \/ part = "mail" /\ Next /\ UNCHANGED <<part, streamVars>>
    \/ part = "tabs" /\ StreamNext /\ UNCHANGED <<part, vars>>

MCSpec == MCInit /\ [][MCNext]_<<part, vars, streamVars>>

(* The messages are interchangeable where none is refused, and so are the  *)
(* tabs.                                                                   *)
Symmetry == Permutations(Msgs) \cup Permutations(Tabs)
=============================================================================
