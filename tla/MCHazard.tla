------------------------------ MODULE MCHazard ------------------------------
(***************************************************************************)
(* MSQueueHazard for TLC, under four clients:                              *)
(*   "any"      threads that call what they like;                          *)
(*   "enqueuer" the same, but that all threads but the first only enqueue; *)
(*   "stopped"  thread 0 alone, after the others have stopped anywhere;    *)
(*   "tests"    the sequential tests.                                      *)
(* All of them run on memory that new hands out cleared.                   *)
(***************************************************************************)
EXTENDS SequentialTests, HazardScan, TLC

CONSTANTS Pool,  \* BOUND: the nodes for "any", interchangeable
          Heap   \* BOUND: the nodes for the others, numbered

VARIABLE client

mcVars == <<testVars, client, standing>>

MCNode == {Fake} \cup Pool \cup Heap
MCValue == {0, 1, 2, 5, 7, 8}
MCNoValue == -1
Symmetry == Permutations(Pool)

MCInit == /\ ScanInit
          /\ \/ TestInit /\ client = "tests"
             \/ /\ calls = <<>> /\ model = <<>>
                /\ client \in {"any", "enqueuer", "stopped"}

\* Every thread enqueues a value of its own.
AnyNext ==
  /\ client = "any"
  /\ \E t \in Thread : \/ EnqueueCall(t, t) \/ DequeueCall(t)
                        \/ EnqueueStep(t) \/ DequeueStep(t) \/ ReclaimStep(t)
  /\ heap' \subseteq {Fake} \cup Pool
  /\ UNCHANGED <<calls, model, client>>

\* BOUND: new hands out the first free node.
FirstFit == /\ heap' \subseteq {Fake} \cup Heap
            /\ \A n \in heap' \ heap : 0..(n - 1) \subseteq heap

\* The threads but the first make one attempt to dequeue and stop in it, when
\* they find that head has moved or have published both hazard pointers.
OthersStop ==
  \A t \in Thread \ {0} :
    pc[t] # pc'[t] => pc[t] # "d_check" /\ ~(pc[t] = "d_safe" /\ pc'[t] = "d_head")

\* BOUND: with four nodes.
EnqueuerNext ==
  /\ client = "enqueuer"
  /\ \E t \in Thread :
       \/ EnqueueCall(t, t)
       \/ EnqueueStep(t)
       \/ t = 0 /\ (DequeueCall(t) \/ DequeueStep(t) \/ ReclaimStep(t))
  /\ heap' \subseteq 0..3 /\ FirstFit
  /\ UNCHANGED <<calls, model, client>>

StoppedNext ==
  /\ client = "stopped"
  /\ \/ Len(list) = 1 /\ EnqueueCall(0, 0)
     \/ \E t \in Thread : \/ DequeueCall(t) \/ EnqueueStep(t)
                           \/ DequeueStep(t) \/ ReclaimStep(t)
  /\ FirstFit /\ OthersStop
  /\ UNCHANGED <<calls, model, client>>

TestsNext == client = "tests" /\ TestNext /\ FirstFit /\ UNCHANGED client

\* A test has made its calls.
TestEnds == /\ client = "tests" /\ calls = <<>> /\ pc[0] = "idle"
            /\ UNCHANGED mcVars

MCNext == AnyNext \/ EnqueuerNext \/ StoppedNext \/ TestsNext \/ TestEnds

MCSpec == MCInit /\ [][MCNext /\ ClearMemory /\ StandingNext]_mcVars

\* The assertions are those of the tests, with ClearMemory.  They delete no
\* node; what matters is where the memory of the nodes comes from.
TestsPass == [][client = "tests" => Asserts]_mcVars

\* NoLeak, with ClearMemory, but for the sequential interface, which forgets
\* the nodes it retires.
ThreadsForgetNoNode == client # "tests" => NoLeak
=============================================================================
