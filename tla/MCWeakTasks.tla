---------------------------- MODULE MCWeakTasks ----------------------------
(* WeakTasks for TLC: every task numbers its values.                       *)
EXTENDS WeakTasks, TLC

MCValue == Thread \X (1..Items)
Symmetry == Permutations(Thread) \cup Permutations(Node \ {Fake})
=============================================================================
