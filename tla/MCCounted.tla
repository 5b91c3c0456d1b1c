----------------------------- MODULE MCCounted -----------------------------
(* MSQueueCounted for TLC.                                                 *)
EXTENDS MSQueueCounted, TLC

Symmetry == Permutations(Thread) \cup Permutations(Node \ {Fake})
              \cup Permutations(Value)

\* Deleted memory reads as a node's next that is null, the contents a late
\* link waits for, or as one that leads back to a node.
MCResidue == {Pointer(Null, 0), Pointer(Fake, 1)}
=============================================================================
