-------------------------- MODULE MCScheduleFires ---------------------------
(***************************************************************************)
(* ScheduleFires for TLC.                                                  *)
(***************************************************************************)
EXTENDS ScheduleFires
=============================================================================
