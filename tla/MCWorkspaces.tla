---------------------------- MODULE MCWorkspaces ----------------------------
(* Instances of Workspaces for TLC; the values of the constants are in the
   configurations.  Tasks are alike. *)
EXTENDS Workspaces, TLC

Alike == Permutations(Tasks)
=============================================================================
