---------------------------- MODULE MCStoryWrite ----------------------------
(* Constants for model checking StoryWrite. *)
EXTENDS StoryWrite, TLC

\* Operations that differ only where the lookup does not look.
MCSameSig == [h \in Hashes |-> "sig"]
\* Patient clients that send three attempts one after the other, and two calls
\* that may overlap.
MCLoads == {[atOnce |-> 1, late |-> FALSE, calls |-> 3, plans |-> 1, now |-> 1],
            [atOnce |-> 2, late |-> TRUE, calls |-> 2, plans |-> 2, now |-> 1]}
MCSymmetry == Permutations(Calls) \cup Permutations(Plans) \cup Permutations(Hashes)
=============================================================================
