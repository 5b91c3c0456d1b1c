----------------------------- MODULE WeakTasks -----------------------------
(***************************************************************************)
(* The test programs of ms-queue-weak-no-free on the queue of MSQueueWeak. *)
(* Every thread runs main_task: Items values of its own go in, then Items  *)
(* dequeues, a failed one being tried again (test_blocking_dequeue.cpp).   *)
(* test_2threads.cpp and test_nthreads.cpp are the case of one item, where *)
(* no dequeue may fail.                                                    *)
(***************************************************************************)
EXTENDS MSQueueWeak

CONSTANT Items   \* N_ITEMS: values enqueued, and dequeued, per thread

ASSUME TaskAssumption == /\ Items \in Nat \ {0}
                         /\ Thread \X (1..Items) \subseteq Value

VARIABLES sent,      \* sent[t]: how many values t has begun to enqueue
          received   \* received[t]: the values t has dequeued, in order

taskVars == <<vars, sent, received>>

TaskInit == /\ Init
            /\ sent = [t \in Thread |-> 0]
            /\ received = [t \in Thread |-> <<>>]

\* params->queue->enqueue(params->input[i])
TaskEnqueue(t) ==
  /\ sent[t] < Items
  /\ EnqueueCall(t, <<t, sent[t] + 1>>)
  /\ sent' = [sent EXCEPT ![t] = @ + 1]
  /\ UNCHANGED received

\* while (!success) success = queue->dequeue(&val)
TaskDequeue(t) ==
  /\ sent[t] = Items /\ Len(received[t]) < Items
  /\ DequeueCall(t)
  /\ UNCHANGED <<sent, received>>

TaskInQueue(t) ==
  /\ EnqueueStep(t) \/ DequeueStep(t)
  /\ received' = IF pc[t] = "d_return"
                 THEN [received EXCEPT ![t] = Append(@, out[t])] ELSE received
  /\ UNCHANGED sent

TaskNext ==
  \E t \in Thread : TaskEnqueue(t) \/ TaskDequeue(t) \/ TaskInQueue(t)

TaskSpec == TaskInit /\ [][TaskNext]_taskVars

-----------------------------------------------------------------------------
(* Properties                                                              *)

AllDone == \A t \in Thread : pc[t] = "idle" /\ Len(received[t]) = Items

\* in_sum == out_sum in each test, without the sums: no value is dequeued
\* twice, and after the join each has been dequeued.
JoinBalanced ==
  /\ \A t, u \in Thread :
       /\ IsInjective(received[t])
       /\ t # u => ToSet(received[t]) \cap ToSet(received[u]) = {}
  /\ AllDone => UNION {ToSet(received[t]) : t \in Thread} = Thread \X (1..Items)

\* test_2threads.cpp:63-66 asserts that both dequeues succeed: what a thread
\* knows once it has enqueued its share is enough to see that the queue is
\* not empty, however stale the rest of its view.
EveryDequeueSucceeds ==
  \A t \in Thread : sent[t] = Items => ret[t] # "false"

\* "Queue is not empty" (ms_queue_weak.h:82), for a thread that has enqueued
\* its share: where dequeue reads next->value, there is a next.  Of other
\* callers it does not hold, see NoNullDereference.
TaskFindsNext ==
  \A t \in Thread : sent[t] = Items /\ pc[t] = "d_value" => lnext[t] # Null
=============================================================================
