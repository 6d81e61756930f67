------------------------- MODULE MCCacheMaintenance -------------------------
(* Constants for model checking CacheMaintenance. *)
EXTENDS CacheMaintenance, TLC

Symmetry == Permutations(Cmds)
=============================================================================
