----------------------------- MODULE MCWebChat ------------------------------
(* Small instances of WebChat for TLC. *)
EXTENDS WebChat, TLC

Symmetry == Permutations(Task)
=============================================================================
