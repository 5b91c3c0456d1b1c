------------------------------ MODULE LooseFifo ------------------------------
(***************************************************************************)
(* What the queues for weak memory promise: FifoQueue, but a dequeue may   *)
(* return false although the queue is not empty.  Enqueues and dequeues    *)
(* that take something are atomic and in one order for all threads.        *)
(*                                                                         *)
(* Only how stale a false may be is bounded: by what the thread knows.     *)
(* Items are numbered in the order they went in, and went out.  known[t]   *)
(* is the last item whose enqueue t is ordered after; it never decreases,  *)
(* counts the items of t itself, and taking an item out leaves on the      *)
(* queue what the taker knew, for those who find that item gone.  false    *)
(* means: all the items that t knows of are gone, and whoever took the     *)
(* last of them knew no other.                                             *)
(***************************************************************************)
EXTENDS Naturals, Sequences

CONSTANTS Thread, Value, NoValue   \* as in FifoQueue

VARIABLES items,    \* all values ever enqueued, in order
          seen,     \* seen[k]: what the thread that took item k knew then
          known,    \* known[t]: the last item that t knows of
          phase, datum   \* as in FifoQueue

vars == <<items, seen, known, phase, datum>>

Init == /\ items = <<>> /\ seen = <<>>
        /\ known = [t \in Thread |-> 0]
        /\ phase = [t \in Thread |-> "idle"]
        /\ datum = [t \in Thread |-> NoValue]

taken == Len(seen)

Step(t, from, to) == /\ phase[t] = from
                     /\ phase' = [phase EXCEPT ![t] = to]

Learns(t) ==
  \E k \in known[t]..Len(items) : known' = [known EXCEPT ![t] = k]

\* What t reads may tell it of more items at any time.
Learn(t) == Learns(t) /\ UNCHANGED <<items, seen, phase, datum>>

CallEnqueue(t, v) == /\ Step(t, "idle", "enq")
                     /\ datum' = [datum EXCEPT ![t] = v]
                     /\ UNCHANGED <<items, seen, known>>

Enqueue(t) == /\ Step(t, "enq", "enqueued")
              /\ items' = Append(items, datum[t])
              /\ known' = [known EXCEPT ![t] = Len(items) + 1]
              /\ datum' = [datum EXCEPT ![t] = NoValue]
              /\ UNCHANGED seen

ReturnEnqueue(t) == /\ Step(t, "enqueued", "idle")
                    /\ Learns(t)
                    /\ UNCHANGED <<items, seen, datum>>

CallDequeue(t) == /\ Step(t, "idle", "deq")
                  /\ datum' = [datum EXCEPT ![t] = NoValue]
                  /\ UNCHANGED <<items, seen, known>>

\* t knows the item it takes, and what was known to who took the one before.
Dequeue(t) == /\ Step(t, "deq", "dequeued")
              /\ taken < known[t]
              /\ taken > 0 => seen[taken] <= known[t]
              /\ seen' = Append(seen, known[t])
              /\ datum' = [datum EXCEPT ![t] = items[taken + 1]]
              /\ UNCHANGED <<items, known>>

ReturnDequeue(t) == /\ Step(t, "dequeued", "idle")
                    /\ UNCHANGED <<items, seen, known, datum>>

FindEmpty(t) == /\ Step(t, "deq", "foundEmpty")
                /\ known[t] <= taken
                /\ known[t] > 0 => seen[known[t]] <= known[t]
                /\ UNCHANGED <<items, seen, known, datum>>

ReturnEmpty(t) == /\ Step(t, "foundEmpty", "idle")
                  /\ UNCHANGED <<items, seen, known, datum>>

Next == \E t \in Thread :
          \/ Learn(t)
          \/ \E v \in Value : CallEnqueue(t, v)
          \/ Enqueue(t) \/ ReturnEnqueue(t)
          \/ CallDequeue(t)
          \/ Dequeue(t) \/ ReturnDequeue(t)
          \/ FindEmpty(t) \/ ReturnEmpty(t)

Spec == Init /\ [][Next]_vars
=============================================================================
