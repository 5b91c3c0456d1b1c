---------------------------- MODULE MCHazardStale ----------------------------
(* MSQueueHazard for TLC, with an allocator that leaves memory alone.      *)
EXTENDS MSQueueHazard

\* Memory reads as null at first and then as what was last stored there.
KeptMemory == \A n \in heap' \ heap : next'[n] = next[n]

MCSpec == Init /\ [][Next /\ KeptMemory]_vars
=============================================================================
