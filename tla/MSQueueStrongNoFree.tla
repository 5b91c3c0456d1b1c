------------------------ MODULE MSQueueStrongNoFree ------------------------
(***************************************************************************)
(* src/ms_queue_strong_nofree: the templated variant of MSQueueNoFree.     *)
(* Its code differs in two places, and the actions below replace those of  *)
(* MSQueueNoFree there:                                                    *)
(*   - Node(val) assigns value and leaves next uninitialised;              *)
(*   - dequeue loads its local next from head, not from cur_head->next.    *)
(***************************************************************************)
EXTENDS MSQueueNoFree

CONSTANT Garbage   \* what the next field of fresh memory may hold

\* Node(val)
NewNodeUninit(n, v) == /\ \E g \in Garbage : next' = [next EXCEPT ![n] = g]
                       /\ value' = [value EXCEPT ![n] = v]

\* Node<T>* node = new Node<T>(value)
EnqueueCallUninit(t, v) ==
  /\ Goto(t, "idle", "e_tail")
  /\ \E n \in Node \ heap :
       /\ heap' = heap \cup {n}
       /\ NewNodeUninit(n, v)
       /\ node' = [node EXCEPT ![t] = n]
  /\ ret' = [ret EXCEPT ![t] = "void"]
  /\ UNCHANGED <<head, tail, cur_head, cur_tail, lnext, out, history>>

\* Node<T>* next = this->head.load()
DequeueLoadHeadAsNext(t) ==
  /\ Goto(t, "d_next", "d_check")
  /\ lnext' = [lnext EXCEPT ![t] = head]
  /\ UNCHANGED <<shared, node, cur_head, cur_tail, caller, history>>

NoFreeStep(t) ==
  \/ DequeueCall(t) \/ \E v \in Value : EnqueueCallUninit(t, v)
  \/ EnqueueStep(t)
  \/ DequeueLoadHead(t) \/ DequeueLoadTail(t) \/ DequeueLoadHeadAsNext(t)
  \/ DequeueCheckHead(t) \/ DequeueEmpty(t) \/ DequeueHelpTail(t)
  \/ DequeueReadValue(t) \/ DequeueSwingHead(t) \/ DequeueSwingFails(t)
  \/ DequeueReturn(t)

NoFreeNext == \E t \in Thread : NoFreeStep(t)

NoFreeSpec == Init /\ [][NoFreeNext]_vars

-----------------------------------------------------------------------------
(* Properties                                                              *)

\* ms_queue_strong.h:80-81, "Try to update head to next node", "Dequeue
\* successful": a dequeue that returns true has moved head to the next node.
\* The code swings head to the head it loaded a second time.
SwingMovesHead ==
  [][\A t \in Thread : pc[t] = "d_swing" /\ pc'[t] = "d_return" =>
       head' = next[head]]_vars
=============================================================================
