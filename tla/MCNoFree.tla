------------------------------ MODULE MCNoFree ------------------------------
(***************************************************************************)
(* MSQueueNoFree and TestTasks for TLC: the queue under the test programs, *)
(* and under threads that call what they like.                             *)
(***************************************************************************)
EXTENDS TestTasks

MCThread == 1..3
MCProgram == {[threads |-> {1, 2}, items |-> 3], [threads |-> {1, 2, 3}, items |-> 1]}
MCValue == {1, 2} \X (1..3) \cup {<<3, 1>>}
MCFake == <<0, 0>>
MCNode == MCValue \cup {MCFake}

\* No program: threads 1 and 2 call enqueue and dequeue in any order.
AnyCalls == [threads |-> {}, items |-> 0]

MCInit == \/ TaskInit
          \/ /\ Init
             /\ program = AnyCalls
             /\ sent = [t \in Thread |-> 0]
             /\ received = [t \in Thread |-> <<>>]

AnyValue == {<<1, 1>>, <<1, 2>>}

AnyNext == /\ program = AnyCalls
           /\ \E t \in {1, 2} :
                \/ \E v \in AnyValue : EnqueueCall(t, v)
                \/ DequeueCall(t) \/ EnqueueStep(t) \/ DequeueStep(t)
           /\ UNCHANGED tasks

\* user_main has joined the threads.
Joined == program # AnyCalls /\ AllDone /\ UNCHANGED taskVars

MCNext == TaskNext \/ AnyNext \/ Joined

\* The fairness of TaskSpec
MCSpec == MCInit /\ [][MCNext]_taskVars /\ WF_taskVars(TaskNext)

\* BOUNDS.  Nodes are interchangeable and none comes back.  A task puts each
\* of its values into a node of that name.  Any calls have three nodes beside
\* the dummy, which they take in order, and two values, of which the first
\* node gets the first.
Bounded ==
  \A n \in heap' \ heap :
    IF program = AnyCalls
    THEN /\ n[1] = 1 /\ \A m \in Node \ heap' : m[1] = 1 => n[2] < m[2]
         /\ n = <<1, 1>> => value'[n] = n
    ELSE n = value'[n]
=============================================================================
