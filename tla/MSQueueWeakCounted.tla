------------------------- MODULE MSQueueWeakCounted -------------------------
(***************************************************************************)
(* The queue of src/ms_queue_weak: the memory orders of MSQueueWeak, on    *)
(* counted pointers, and every dequeued node is deleted.  Addresses are    *)
(* not reused here (MSQueueCounted is about that), so that the pointers    *)
(* stored in a location are all different and the counts beside them       *)
(* change no comparison: they are left out.  Its atomics are the           *)
(* compiler's, whose weak compare-and-swap may fail spuriously.  The       *)
(* allocator leaves deleted memory alone, as in MSQueueCounted without     *)
(* Reuse.                                                                  *)
(***************************************************************************)
EXTENDS MSQueueWeak

VARIABLE heap   \* the nodes allocated and not deleted

countedVars == <<vars, heap>>

CountedInit == Init /\ heap = {Fake}

CountedEnqueueCall(t, v) == EnqueueCall(t, v) /\ heap' = heap \cup {node'[t]}

CountedEnqueueStep(t) == EnqueueStep(t) /\ UNCHANGED heap

\* dequeue up to the deletion
CountedDequeueStep(t) ==
  /\ pc[t] # "d_return"
  /\ DequeueCall(t) \/ DequeueStep(t)
  /\ UNCHANGED heap

\* MUTANT of CountedDelete: the new head is deleted, not the old one.
CountedDeletesNext(t) ==
  /\ pc[t] = "d_return"
  /\ DequeueReturn(t)
  /\ heap' = heap \ {lnext[t]}

\* delete cur_head.ptr; return true
CountedDelete(t) ==
  /\ pc[t] = "d_return"
  /\ DequeueReturn(t)
  /\ heap' = heap \ {cur_head[t]}

CountedNext ==
  \E t \in Thread :
    \/ \E v \in Value : CountedEnqueueCall(t, v)
    \/ CountedEnqueueStep(t) \/ CountedDequeueStep(t) \/ CountedDelete(t)

CountedSpec == CountedInit /\ [][CountedNext]_countedVars

-----------------------------------------------------------------------------
(* Properties                                                              *)

\* What delete may not touch, whatever order the threads see the stores in:
\* the nodes from the newest head on.  (An operation may still load an older
\* head, or an older tail, and reach a node that is deleted.)
ListIsAlive ==
  \A i \in DOMAIN list : i >= Rank(NewestVal(head)) => list[i] \in heap

\* "only the thread that succeeded CAS can free it": no node is deleted
\* twice, and tail never stays behind at a deleted node.
DeleteOnce ==
  \A t \in Thread : pc[t] = "d_return" =>
    /\ cur_head[t] \in heap
    /\ NewestVal(tail) # cur_head[t]
    /\ \A u \in Thread \ {t} : pc[u] = "d_return" => cur_head[u] # cur_head[t]
=============================================================================
