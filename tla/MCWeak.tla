------------------------------- MODULE MCWeak -------------------------------
(* MSQueueWeak for TLC.                                                    *)
EXTENDS MSQueueWeak, TLC

Symmetry == Permutations(Thread) \cup Permutations(Node \ {Fake})
              \cup Permutations(Value)
=============================================================================
