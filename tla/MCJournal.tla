----------------------------- MODULE MCJournal ------------------------------
(* Journal with two processes for TLC. *)
EXTENDS Journal, TLC

Symmetric == Permutations(Procs)
=============================================================================
