--------------------------- MODULE SequentialTests ---------------------------
(***************************************************************************)
(* The tests of src/ms_queue_strong_hazard/tests/test_seq.cpp: one thread, *)
(* the interface without thread ids.  Each test is a sequence of calls; an *)
(* enqueue is written as its value, a dequeue as NoValue.                  *)
(***************************************************************************)
EXTENDS MSQueueHazard

CONSTANT Items   \* 10^6 in the code: a bound for TLC

ASSUME TestAssumption == /\ Items \in Nat
                         /\ {5, 7, 8} \cup (0..(Items - 1)) \subseteq Value

VARIABLES calls,   \* the calls the test has still to make
          model    \* HISTORY: the values in the queue, by the test's own account

testVars == <<vars, calls, model>>

test_enqueue == <<5, 7, 8>>
test_FIFO_1 == <<5, 7, 8, NoValue, NoValue, NoValue>>
test_FIFO_2 == <<5, NoValue, 7, NoValue, 8, NoValue>>
test_FIFO_3 == <<5, NoValue, 7, NoValue, 8, NoValue, NoValue>>
test_FIFO_1M == [i \in 1..(2 * Items) |-> IF i <= Items THEN i - 1 ELSE NoValue]

\* Each test makes a queue of its own.
TestInit ==
  /\ Init
  /\ calls \in {test_enqueue, test_FIFO_1, test_FIFO_2, test_FIFO_3, test_FIFO_1M}
  /\ model = <<>>

TestCall ==
  /\ calls # <<>>
  /\ \/ /\ Head(calls) # NoValue /\ EnqueueCall(0, Head(calls))
        /\ model' = Append(model, Head(calls))
     \/ /\ Head(calls) = NoValue /\ SequentialDequeueCall
        /\ UNCHANGED model
  /\ calls' = Tail(calls)

TestInQueue ==
  /\ EnqueueStep(0) \/ DequeueStep(0) \/ ReclaimStep(0)
  /\ model' = IF ret'[0] = "true" THEN Tail(model) ELSE model
  /\ UNCHANGED calls

TestNext == TestCall \/ TestInQueue

TestSpec == TestInit /\ [][TestNext]_testVars

-----------------------------------------------------------------------------
(* Properties                                                              *)

\* "assert(val == i)" (98) and, in the tests that only print, 5, 7 and 8 in
\* this order; "assert(queue.dequeue(&val) == false)" (81) for the dequeue
\* too many and for no other.  head and tail, hazard pointers and the free
\* list carry over from call to call.
Asserts ==
  /\ ret'[0] = "true" /\ ret[0] # "true" => model # <<>> /\ out'[0] = Head(model)
  /\ ret'[0] = "false" => model = <<>>

AssertsHold == [][Asserts]_testVars
=============================================================================
