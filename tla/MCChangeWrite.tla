---------------------------- MODULE MCChangeWrite ----------------------------
(* Constants for model checking ChangeWrite. *)
EXTENDS ChangeWrite, TLC

CONSTANTS p1, p2, k1, k2, c1, c2, c3

\* p1 is given k1 and p2 is given k2 by the server.
MCOwnKey == (p1 :> k1) @@ (p2 :> k2)
\* A client may send the key of another plan.
MCSharedKey == (p1 :> {k1, k2}) @@ (p2 :> {k2})

MCOnePlanKey == (p1 :> k1)
MCOnePlanKeys == (p1 :> {k1})

Symmetry == Permutations(Calls) \cup Permutations(Hashes)
=============================================================================
