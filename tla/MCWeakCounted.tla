---------------------------- MODULE MCWeakCounted ----------------------------
(***************************************************************************)
(* The queue with relaxed, acquire and release atomics for TLC, under      *)
(* three clients: the test programs; threads that call what they like,     *)
(* dequeued nodes being deleted; and such threads with CDSChecker's        *)
(* compare_exchange_weak (its impatomic.h), which fails for a reason.      *)
(***************************************************************************)
EXTENDS WeakTasks, MSQueueWeakCounted, FiniteSets, TLC

VARIABLE client

mcVars == <<countedVars, sent, received, client>>

MCValue == Thread \X (1..Items)
Symmetry == Permutations(Thread)

\* Nodes are interchangeable: the first free one is handed out.
MCNode == 0..4
InOrder == \A m, n \in Node : m < n /\ Allocated(n)' => Allocated(m)'

MCInit == /\ TaskInit /\ heap = {Fake}
          /\ client \in {"tests", "any", "any under CDSChecker"}

FailsForAReason(t) ==
  (pc[t] \in {"e_help", "d_help", "e_swing"} /\ memory' = memory /\ pc'[t] # pc[t])
    => memory[tail][view'[t][tail]].val # cur_tail[t]

CheckerSwaps == client # "any" => \A t \in Thread : FailsForAReason(t)

\* The queue of the tests deletes nothing.
TestsNext == /\ client = "tests"
             /\ TaskNext
             /\ heap' = {n \in Node : Allocated(n)'}
             /\ UNCHANGED client

\* A thread that calls what it likes has one value to enqueue.
\* BOUND: it has three nodes; under CDSChecker four, and no call begins after
\* the one that takes the fourth.
NodesLeft == Cardinality({n \in Node : Allocated(n)})
               < IF client = "any" THEN 3 ELSE 4

AnyNext ==
  /\ client # "tests"
  /\ \E t \in Thread :
       \/ NodesLeft /\ CountedEnqueueCall(t, <<t, 1>>)
       \/ /\ pc[t] = "idle" => NodesLeft \/ client = "any"
          /\ CountedDequeueStep(t)
       \/ CountedEnqueueStep(t) \/ CountedDelete(t)
  /\ UNCHANGED <<sent, received, client>>

MCSpec == MCInit /\ [][(TestsNext \/ AnyNext) /\ CheckerSwaps /\ InOrder]_mcVars
=============================================================================
