---------------------------- MODULE MCJobRegistry ----------------------------
(* Constants for model checking JobRegistry. *)
EXTENDS JobRegistry, TLC

=============================================================================
