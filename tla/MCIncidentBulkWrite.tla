------------------------- MODULE MCIncidentBulkWrite -------------------------
(* Constants for model checking IncidentBulkWrite. *)
EXTENDS IncidentBulkWrite, TLC

MCHashes == [patch: Patches, vers: [Targets -> Version]]
CallSymmetry == Permutations(Calls)
MCSymmetry == Permutations(Calls) \cup Permutations(Plans)
=============================================================================
