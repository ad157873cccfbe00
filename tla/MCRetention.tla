---------------------------- MODULE MCRetention -----------------------------
(* Retention with two processes for TLC. *)
EXTENDS Retention, TLC

Symmetric == Permutations(Procs)
=============================================================================
