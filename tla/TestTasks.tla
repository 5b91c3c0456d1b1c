----------------------------- MODULE TestTasks -----------------------------
(***************************************************************************)
(* The test programs of CDSChecker/ms-queue running on the queue of        *)
(* MSQueueNoFree.  Every thread runs main_task: it enqueues Items values   *)
(* of its own, then dequeues Items times.  A dequeue that fails is tried   *)
(* again (test_blocking_dequeue.cpp); test_2threads.cpp and                *)
(* test_nthreads.cpp, with one item each, assert that none fails.          *)
(* user_main then joins the threads and compares what went in with what    *)
(* came out.                                                               *)
(***************************************************************************)
EXTENDS MSQueueNoFree, Sequences

CONSTANT Program   \* the programs: [threads, items], the N_ITEMS of each thread

ASSUME ProgramAssumption ==
  \A p \in Program : /\ p.threads \subseteq Thread
                     /\ p.items \in Nat \ {0}
                     /\ p.threads \X (1..p.items) \subseteq Value

VARIABLES program,   \* the program that runs
          sent,      \* sent[t]: how many values t has begun to enqueue
          received   \* received[t]: the values t has dequeued, in order

tasks == <<program, sent, received>>
taskVars == <<vars, tasks>>

Items == program.items

TaskInit == /\ Init
            /\ program \in Program
            /\ sent = [t \in Thread |-> 0]
            /\ received = [t \in Thread |-> <<>>]

Done(t) == pc[t] = "idle" /\ sent[t] = Items /\ Len(received[t]) = Items

\* queue->enqueue(offset + i)
TaskEnqueue(t) ==
  /\ sent[t] < Items
  /\ EnqueueCall(t, <<t, sent[t] + 1>>)
  /\ sent' = [sent EXCEPT ![t] = @ + 1]
  /\ UNCHANGED <<program, received>>

\* while (!success) success = queue->dequeue(&val)
TaskDequeue(t) ==
  /\ sent[t] = Items /\ Len(received[t]) < Items
  /\ DequeueCall(t)
  /\ UNCHANGED tasks

\* The task inside the queue's code, and what it does with the result.
TaskInQueue(t) ==
  /\ EnqueueStep(t) \/ DequeueStep(t)
  /\ received' = IF ret'[t] = "true"
                 THEN [received EXCEPT ![t] = Append(@, out'[t])] ELSE received
  /\ UNCHANGED <<program, sent>>

TaskStep(t) == TaskEnqueue(t) \/ TaskDequeue(t) \/ TaskInQueue(t)

TaskNext == \E t \in program.threads : TaskStep(t)

AllDone == \A t \in program.threads : Done(t)

\* Weak fairness of the whole program only: as long as some thread can step,
\* some thread does, but any one of them may be left out for ever.
TaskSpec == TaskInit /\ [][TaskNext]_taskVars /\ WF_taskVars(TaskNext)

-----------------------------------------------------------------------------
(* Properties                                                              *)

Received(t) == {received[t][i] : i \in DOMAIN received[t]}

\* sum(input) == sum(output) in each test, without the sums: after the join
\* every value enqueued has been dequeued exactly once.
JoinBalanced ==
  AllDone => /\ UNION {Received(t) : t \in program.threads}
                  = program.threads \X (1..Items)
             /\ \A t \in program.threads : Len(received[t]) = Items

\* test_2threads asserts that both dequeues succeed: a thread dequeues only
\* after its own enqueues, so the queue is never empty for it, although
\* what it gets may be any thread's value.
EveryDequeueSucceeds == \A t \in program.threads : ret[t] # "false"

\* Whoever consumes them, the values of one producer come out in the order
\* it put them in: no consumer sees two of them swapped.
ProducerOrder ==
  \A t \in Thread : \A i, j \in DOMAIN received[t] :
    i < j /\ received[t][i][1] = received[t][j][1] =>
      received[t][i][2] < received[t][j][2]

\* The queue is nonblocking, and every task joins: with no fairness between
\* the threads, one that is stopped anywhere in an operation cannot keep the
\* others looping.  test_blocking_dequeue.cpp:38 claims less: "We know it
\* will eventually return because there are as many enqueued items as
\* dequeued items".
Nonblocking == <>AllDone
=============================================================================
