---------------------------- MODULE MCSolverAgent ----------------------------
(* A solver for TLC; the configurations name its intents. *)
EXTENDS SolverAgent, TLC
=============================================================================
