------------------------------ MODULE MCTasks -------------------------------
(* Instances of Tasks for TLC; the values of the constants are in the
   configurations. *)
EXTENDS Tasks
=============================================================================
