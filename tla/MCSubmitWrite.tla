---------------------------- MODULE MCSubmitWrite ----------------------------
(* Constants for model checking SubmitWrite. *)
EXTENDS SubmitWrite, TLC

CONSTANTS p1, p2, k1, k2

MCOwnKey == (p1 :> k1) @@ (p2 :> k2)

\* A plan is exchanged together with its own key.
PlanSwap == (p1 :> p2) @@ (p2 :> p1) @@ (k1 :> k2) @@ (k2 :> k1)
Symmetry == Permutations(Calls) \cup {s @@ PlanSwap : s \in Permutations(Calls)}
=============================================================================
