---------------------------- MODULE MCWorkloads ----------------------------
(***************************************************************************)
(* Workloads and MSQueueCounted without reuse for TLC: the queue under the *)
(* two programs, and under threads that call what they like.               *)
(***************************************************************************)
EXTENDS Workloads, TLC

MCThread == 0..2
MCValue == 0..(Elements - 1)
MCNoValue == -1
Symmetry == Permutations(Node \ {Fake})

\* Threads 0 and 1 call enqueue and dequeue in any order.
MCInit == \/ WorkInit
          \/ /\ Init
             /\ program = "any calls"
             /\ sent = [t \in Thread |-> 0]
             /\ output = [t \in Thread |-> <<>>]

AnyNext == /\ program = "any calls"
           /\ \E t \in {0, 1} :
                \/ \E v \in {0, 1} : EnqueueCall(t, v)
                \/ DequeueCall(t) \/ EnqueueStep(t) \/ DequeueStep(t)
           /\ UNCHANGED work

\* The threads have been joined.
Joined == program # "any calls" /\ AllDone /\ UNCHANGED workVars

MCNext == \/ program # "any calls" /\ WorkNext
          \/ AnyNext
          \/ Joined

MCSpec == MCInit /\ [][MCNext]_workVars
=============================================================================
