------------------------- MODULE MCRecordProjection -------------------------
(* Constants for model checking RecordProjection. *)
EXTENDS RecordProjection, TLC

Symmetry == Permutations(Calls)
=============================================================================
