----------------------------- MODULE FifoQueue -----------------------------
(***************************************************************************)
(* What every queue of this repository promises: a linearizable FIFO       *)
(* queue.  A call and its return are separate steps, and between the two   *)
(* the operation takes effect in ONE step (its linearization point).       *)
(*                                                                         *)
(* A dequeue may return false only if the queue was empty at some moment   *)
(* between its call and its return.  The implementations decide that a     *)
(* moment later than it happened, after a check that may still send them   *)
(* back round their loop, so the moment is recorded (ObserveEmpty) and may *)
(* be forgotten again (Retry).                                             *)
(***************************************************************************)
EXTENDS Sequences

CONSTANTS Thread,   \* the threads that share the queue
          Value,    \* the values they enqueue
          NoValue   \* "no value": not a member of Value

VARIABLES queue,    \* the values in the queue, oldest first
          phase,    \* phase[t]: how far the outstanding call of t has come
          datum     \* datum[t]: the value t is enqueuing, or has dequeued

vars == <<queue, phase, datum>>

Phase == {"idle", "enq", "enqueued", "deq", "sawEmpty", "dequeued"}

TypeOK == /\ queue \in Seq(Value)
          /\ phase \in [Thread -> Phase]
          /\ datum \in [Thread -> Value \cup {NoValue}]

Init == /\ queue = <<>>
        /\ phase = [t \in Thread |-> "idle"]
        /\ datum = [t \in Thread |-> NoValue]

Step(t, from, to) == /\ phase[t] = from
                     /\ phase' = [phase EXCEPT ![t] = to]

CallEnqueue(t, v) == /\ Step(t, "idle", "enq")
                     /\ datum' = [datum EXCEPT ![t] = v]
                     /\ UNCHANGED queue

Enqueue(t) == /\ Step(t, "enq", "enqueued")
              /\ queue' = Append(queue, datum[t])
              /\ datum' = [datum EXCEPT ![t] = NoValue]

ReturnEnqueue(t) == /\ Step(t, "enqueued", "idle")
                    /\ UNCHANGED <<queue, datum>>

CallDequeue(t) == /\ Step(t, "idle", "deq")
                  /\ datum' = [datum EXCEPT ![t] = NoValue]
                  /\ UNCHANGED queue

Dequeue(t) == /\ Step(t, "deq", "dequeued")
              /\ queue # <<>>
              /\ queue' = Tail(queue)
              /\ datum' = [datum EXCEPT ![t] = Head(queue)]

ReturnDequeue(t) == /\ Step(t, "dequeued", "idle")
                    /\ UNCHANGED <<queue, datum>>

ObserveEmpty(t) == /\ Step(t, "deq", "sawEmpty")
                   /\ queue = <<>>
                   /\ UNCHANGED <<queue, datum>>

Retry(t) == /\ Step(t, "sawEmpty", "deq")
            /\ UNCHANGED <<queue, datum>>

ReturnEmpty(t) == /\ Step(t, "sawEmpty", "idle")
                  /\ UNCHANGED <<queue, datum>>

Next == \E t \in Thread :
          \/ \E v \in Value : CallEnqueue(t, v)
          \/ Enqueue(t) \/ ReturnEnqueue(t)
          \/ CallDequeue(t)
          \/ Dequeue(t) \/ ReturnDequeue(t)
          \/ ObserveEmpty(t) \/ Retry(t) \/ ReturnEmpty(t)

Spec == Init /\ [][Next]_vars
=============================================================================
