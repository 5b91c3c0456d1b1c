----------------------------- MODULE Workloads -----------------------------
(***************************************************************************)
(* What the repository runs its queues with: the parallel test             *)
(* src/ms_queue_strong/tests/test_par.cpp (those of the other variants     *)
(* have the same text) and src/benchmark.cpp, on the queue of              *)
(* MSQueueCounted.  Each of the threads 0, 1, ... enqueues its share of    *)
(* Elements numbers and then dequeues as many.  The test repeats a dequeue *)
(* while its val is still -1, whatever dequeue returned; the benchmark     *)
(* ignores what it gets.                                                   *)
(***************************************************************************)
EXTENDS MSQueueCounted, Integers, Sequences, FiniteSets

CONSTANT Elements  \* the parameter n: 10^6 for 5 threads in the test

ASSUME WorkloadAssumption ==
  /\ Cardinality(Thread) \in Nat \ {0} /\ Thread = 0..(Cardinality(Thread) - 1)
  /\ Elements \in Nat /\ Elements % Cardinality(Thread) = 0
  /\ Value = 0..(Elements - 1) /\ NoValue = -1
  /\ MaxCount > Elements   \* the bound of MSQueueCounted does not bite

VARIABLES program,   \* the program that runs, "test" or "benchmark"
          sent,      \* sent[t]: the numbers t has begun to enqueue
          output     \* output[t]: the values of val t has gone on with

work == <<program, sent, output>>
workVars == <<vars, work>>

\* n / n_threads, an integer division: n_elements, n_per_thread
n_elements == Elements \div Cardinality(Thread)

WorkInit == /\ Init
            /\ program \in {"test", "benchmark"}
            /\ sent = [t \in Thread |-> 0]
            /\ output = [t \in Thread |-> <<>>]

Done(t) == pc[t] = "idle" /\ Len(output[t]) = n_elements

\* queue.enqueue(offset + i); the benchmark's threads all enqueue 0, 1, ...
WorkEnqueue(t) ==
  /\ sent[t] < n_elements
  /\ EnqueueCall(t, (IF program = "test" THEN n_elements * t ELSE 0) + sent[t])
  /\ sent' = [sent EXCEPT ![t] = @ + 1]
  /\ UNCHANGED <<program, output>>

\* MUTANT of WorkDequeue: it no longer waits for the enqueues of its thread.
WorkDequeuesEarly(t) ==
  /\ Len(output[t]) < n_elements
  /\ DequeueCall(t)
  /\ UNCHANGED work

\* queue.dequeue(&val).  In the test val is -1 before every call; what it is
\* in the benchmark nobody looks at.
WorkDequeue(t) ==
  /\ sent[t] = n_elements /\ Len(output[t]) < n_elements
  /\ DequeueCall(t)
  /\ UNCHANGED work

\* A step of the queue's code; when dequeue returns, while (val == -1)
WorkInQueue(t) ==
  /\ EnqueueStep(t) \/ DequeueStep(t)
  /\ output' = IF pc'[t] = "idle" /\ ret'[t] # "void"
                    /\ (program = "test" => out'[t] # NoValue)
               THEN [output EXCEPT ![t] = Append(@, out'[t])] ELSE output
  /\ UNCHANGED <<program, sent>>

WorkNext == \E t \in Thread : WorkEnqueue(t) \/ WorkDequeue(t) \/ WorkInQueue(t)

WorkSpec == WorkInit /\ [][WorkNext]_workVars

-----------------------------------------------------------------------------
(* Properties                                                              *)

AllDone == \A t \in Thread : Done(t)

Taken(v) == {e \in Thread \X (1..n_elements) : output[e[1]][e[2]] = v}

\* test_par.cpp:64-68, after the join: the merged output is 0..n-1, each
\* number once.
TestPasses ==
  program = "test" /\ AllDone => \A v \in Value : Cardinality(Taken(v)) = 1

\* "Blocking dequeue" (28): the loop goes on until a dequeue has succeeded.
\* val alone tells it, but dequeue writes val before the compare-and-swap
\* that may fail, and an attempt that then finds the queue empty returns
\* false with somebody else's value in val.  It holds because no thread
\* dequeues more than it has enqueued before, unless ABA hides a node.
LoopEndsOnSuccess ==
  [][\A t \in Thread :
       program = "test" /\ output'[t] # output[t] => ret'[t] = "true"]_workVars

\* What makes the benchmark's times comparable: every one of its dequeues
\* does take a node out, and the queue is empty when the threads join.
BenchmarkDrains ==
  program = "benchmark" =>
    /\ \A t \in Thread : ret[t] # "false"
    /\ AllDone => next[head.ptr].ptr = Null
=============================================================================
