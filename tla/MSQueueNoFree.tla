--------------------------- MODULE MSQueueNoFree ---------------------------
(***************************************************************************)
(* The Michael & Scott queue with sequentially consistent atomics, plain   *)
(* node pointers and no memory reclamation:                                *)
(*   CDSChecker/ms-queue/ms-queue-strong-no-free/ms_queue_strong.h, node.h *)
(*                                                                         *)
(* One action per access to shared memory: each atomic load and each       *)
(* compare-and-swap of the code is one step, and the local computation up  *)
(* to the next access is part of it.  pc[t] names the access thread t is   *)
(* about to make.  A failed compare-and-swap also overwrites its expected  *)
(* argument; the code never reads that variable again before assigning it, *)
(* so the overwrite is left out.                                           *)
(***************************************************************************)
EXTENDS Naturals

CONSTANTS Thread,   \* the threads that share the queue
          Node,     \* the memory new Node can hand out (a bound for TLC)
          Value,    \* the values enqueued
          Fake,     \* the dummy node the constructor allocates
          Null,     \* the null pointer
          NoValue   \* an uninitialised value, or the caller's own sentinel

ASSUME NodeAssumption == Fake \in Node /\ Null \notin Node
ASSUME ValueAssumption == NoValue \notin Value

VARIABLES
  head, tail,   \* the two atomics of class MSQueue
  next, value,  \* next[n], value[n]: the fields of node n
  heap,         \* the nodes allocated so far
  pc,           \* pc[t]: the access t makes next; "idle" between calls
  node,         \* enqueue's node: the one t is inserting
  cur_head, cur_tail, lnext, \* the locals cur_head, cur_tail and next of t
  out,          \* out[t]: the caller's *value
  ret,          \* ret[t]: what t's last call returned
  pos, linked   \* HISTORY: pos[n] is the rank of n in the order nodes were
                \* linked into the list (0: not linked), linked their number

shared == <<head, tail, next, value, heap>>
locals == <<node, cur_head, cur_tail, lnext>>
caller == <<out, ret>>
history == <<pos, linked>>
vars == <<shared, pc, locals, caller, history>>

EnqueuePC == {"e_tail", "e_next", "e_check", "e_link", "e_help", "e_swing"}
DequeuePC == {"d_head", "d_tail", "d_next", "d_check", "d_help", "d_value",
              "d_swing", "d_return"}

Goto(t, from, to) == /\ pc[t] = from
                     /\ pc' = [pc EXCEPT ![t] = to]

Init == /\ head = Fake /\ tail = Fake
        /\ next = [n \in Node |-> Null]
        /\ value = [n \in Node |-> NoValue]
        /\ heap = {Fake}
        /\ pc = [t \in Thread |-> "idle"]
        /\ node = [t \in Thread |-> Null]
        /\ cur_head = [t \in Thread |-> Null]
        /\ cur_tail = [t \in Thread |-> Null]
        /\ lnext = [t \in Thread |-> Null]
        /\ out = [t \in Thread |-> NoValue]
        /\ ret = [t \in Thread |-> "void"]
        /\ pos = [n \in Node |-> IF n = Fake THEN 1 ELSE 0]
        /\ linked = 1

-----------------------------------------------------------------------------
(* enqueue(value)                                                          *)

\* Node(val): NULL is stored to next, value is assigned.
NewNode(n, v) == /\ next' = [next EXCEPT ![n] = Null]
                 /\ value' = [value EXCEPT ![n] = v]

\* Node* node = new Node(value): no other thread can see the node yet.
EnqueueCall(t, v) ==
  /\ Goto(t, "idle", "e_tail")
  /\ \E n \in Node \ heap :
       /\ heap' = heap \cup {n}
       /\ NewNode(n, v)
       /\ node' = [node EXCEPT ![t] = n]
  /\ ret' = [ret EXCEPT ![t] = "void"]
  /\ UNCHANGED <<head, tail, cur_head, cur_tail, lnext, out, history>>

EnqueueLoadTail(t) ==
  /\ Goto(t, "e_tail", "e_next")
  /\ cur_tail' = [cur_tail EXCEPT ![t] = tail]
  /\ UNCHANGED <<shared, node, cur_head, lnext, caller, history>>

EnqueueLoadNext(t) ==
  /\ Goto(t, "e_next", "e_check")
  /\ lnext' = [lnext EXCEPT ![t] = next[cur_tail[t]]]
  /\ UNCHANGED <<shared, node, cur_head, cur_tail, caller, history>>

\* MUTANT of EnqueueCheckTail: a lagging tail is waited for, not helped.
EnqueueWaitsForTail(t) ==
  /\ \/ Goto(t, "e_check", "e_link") /\ tail = cur_tail[t] /\ lnext[t] = Null
     \/ Goto(t, "e_check", "e_tail") /\ (tail # cur_tail[t] \/ lnext[t] # Null)
  /\ UNCHANGED <<shared, locals, caller, history>>

\* if (tail.load() == cur_tail): link if next is NULL, else help the tail;
\* if the tail has moved, go round the loop again.
EnqueueCheckTail(t) ==
  /\ \/ Goto(t, "e_check", "e_link") /\ tail = cur_tail[t] /\ lnext[t] = Null
     \/ Goto(t, "e_check", "e_help") /\ tail = cur_tail[t] /\ lnext[t] # Null
     \/ Goto(t, "e_check", "e_tail") /\ tail # cur_tail[t]
  /\ UNCHANGED <<shared, locals, caller, history>>

\* MUTANT of EnqueueLink: next is stored, not compared and swapped.
EnqueueStores(t) ==
  /\ Goto(t, "e_link", "e_swing")
  /\ next' = [next EXCEPT ![cur_tail[t]] = node[t]]
  /\ pos' = [pos EXCEPT ![node[t]] = linked + 1]
  /\ linked' = linked + 1
  /\ UNCHANGED <<head, tail, value, heap, locals, caller>>

\* cur_tail->next.compare_exchange_strong(next, node), next being NULL here.
EnqueueLink(t) ==
  /\ Goto(t, "e_link", "e_swing")
  /\ next[cur_tail[t]] = lnext[t]
  /\ next' = [next EXCEPT ![cur_tail[t]] = node[t]]
  /\ pos' = [pos EXCEPT ![node[t]] = linked + 1]
  /\ linked' = linked + 1
  /\ UNCHANGED <<head, tail, value, heap, locals, caller>>

\* MUTANT of EnqueueLinkFails: enqueue returns instead of trying again.
EnqueueGivesUp(t) ==
  /\ Goto(t, "e_link", "idle")
  /\ next[cur_tail[t]] # lnext[t]
  /\ UNCHANGED <<shared, locals, caller, history>>

EnqueueLinkFails(t) ==
  /\ Goto(t, "e_link", "e_tail")
  /\ next[cur_tail[t]] # lnext[t]
  /\ UNCHANGED <<shared, locals, caller, history>>

\* MUTANT of CasTail: tail is stored, not compared and swapped.
StoreTail(t, n) == tail' = n

\* tail.compare_exchange_strong(cur_tail, n), its result ignored
CasTail(t, n) == tail' = IF tail = cur_tail[t] THEN n ELSE tail

\* MUTANT of EnqueueHelpTail: helps from wherever tail is by now.
EnqueueHelpsAgain(t) ==
  /\ Goto(t, "e_help", "e_tail")
  /\ tail' = next[tail]
  /\ UNCHANGED <<head, next, value, heap, locals, caller, history>>

EnqueueHelpTail(t) ==
  /\ Goto(t, "e_help", "e_tail")
  /\ CasTail(t, lnext[t])
  /\ UNCHANGED <<head, next, value, heap, locals, caller, history>>

\* The last access of enqueue; the call returns, its locals are gone.
EnqueueSwingTail(t) ==
  /\ Goto(t, "e_swing", "idle")
  /\ CasTail(t, node[t])
  /\ node' = [node EXCEPT ![t] = Null]
  /\ cur_tail' = [cur_tail EXCEPT ![t] = Null]
  /\ lnext' = [lnext EXCEPT ![t] = Null]
  /\ UNCHANGED <<head, next, value, heap, cur_head, caller, history>>

-----------------------------------------------------------------------------
(* dequeue(value)                                                          *)

\* The caller passes the address of a variable that holds its sentinel.
DequeueCall(t) ==
  /\ Goto(t, "idle", "d_head")
  /\ out' = [out EXCEPT ![t] = NoValue]
  /\ ret' = [ret EXCEPT ![t] = "void"]
  /\ UNCHANGED <<shared, locals, history>>

DequeueLoadHead(t) ==
  /\ Goto(t, "d_head", "d_tail")
  /\ cur_head' = [cur_head EXCEPT ![t] = head]
  /\ UNCHANGED <<shared, node, cur_tail, lnext, caller, history>>

DequeueLoadTail(t) ==
  /\ Goto(t, "d_tail", "d_next")
  /\ cur_tail' = [cur_tail EXCEPT ![t] = tail]
  /\ UNCHANGED <<shared, node, cur_head, lnext, caller, history>>

DequeueLoadNext(t) ==
  /\ Goto(t, "d_next", "d_check")
  /\ lnext' = [lnext EXCEPT ![t] = next[cur_head[t]]]
  /\ UNCHANGED <<shared, node, cur_head, cur_tail, caller, history>>

\* A call to dequeue returns r; its locals are gone.
DequeueReturns(t, r) ==
  /\ ret' = [ret EXCEPT ![t] = r]
  /\ cur_head' = [cur_head EXCEPT ![t] = Null]
  /\ cur_tail' = [cur_tail EXCEPT ![t] = Null]
  /\ lnext' = [lnext EXCEPT ![t] = Null]
  /\ UNCHANGED <<shared, node, out, history>>

\* MUTANT of DequeueCheckHead: only next tells empty from not empty, the
\* comparison of cur_head and cur_tail is gone.
DequeueTestsNextOnly(t) ==
  /\ \/ Goto(t, "d_check", "d_head") /\ head # cur_head[t]
     \/ /\ Goto(t, "d_check", "d_value") /\ head = cur_head[t]
        /\ lnext[t] # Null
  /\ UNCHANGED <<shared, locals, caller, history>>

\* MUTANT of DequeueCheckHead: next is not tested when head is tail.
DequeueSkipsTests(t) ==
  /\ \/ Goto(t, "d_check", "d_head") /\ head # cur_head[t]
     \/ Goto(t, "d_check", "d_value") /\ head = cur_head[t]
  /\ UNCHANGED <<shared, locals, caller, history>>

\* if (head.load() == cur_head), and the tests inside it up to the next
\* access to shared memory.
DequeueCheckHead(t) ==
  /\ \/ Goto(t, "d_check", "d_head") /\ head # cur_head[t]
     \/ /\ Goto(t, "d_check", "d_help") /\ head = cur_head[t]
        /\ cur_head[t] = cur_tail[t] /\ lnext[t] # Null
     \/ /\ Goto(t, "d_check", "d_value") /\ head = cur_head[t]
        /\ cur_head[t] # cur_tail[t]
  /\ UNCHANGED <<shared, locals, caller, history>>

\* MUTANT of DequeueEmpty: head being tail is taken for empty, though tail
\* may lag behind.
DequeueEmptyByTail(t) ==
  /\ Goto(t, "d_check", "idle")
  /\ head = cur_head[t] /\ cur_head[t] = cur_tail[t]
  /\ DequeueReturns(t, "false")

\* if (next == NULL) return false
DequeueEmpty(t) ==
  /\ Goto(t, "d_check", "idle")
  /\ head = cur_head[t]
  /\ cur_head[t] = cur_tail[t] /\ lnext[t] = Null
  /\ DequeueReturns(t, "false")

DequeueHelpTail(t) ==
  /\ Goto(t, "d_help", "d_head")
  /\ CasTail(t, lnext[t])
  /\ UNCHANGED <<head, next, value, heap, locals, caller, history>>

\* *value = next->value, before the compare-and-swap decides who gets it
DequeueReadValue(t) ==
  /\ Goto(t, "d_value", "d_swing")
  /\ out' = [out EXCEPT ![t] = value[lnext[t]]]
  /\ UNCHANGED <<shared, locals, ret, history>>

\* MUTANT of DequeueSwingHead: head is stored, not compared and swapped.
DequeueStoresHead(t) ==
  /\ Goto(t, "d_swing", "d_return")
  /\ head' = lnext[t]
  /\ UNCHANGED <<tail, next, value, heap, locals, caller, history>>

\* head.compare_exchange_strong(cur_head, next)
DequeueSwingHead(t) ==
  /\ Goto(t, "d_swing", "d_return")
  /\ head = cur_head[t]
  /\ head' = lnext[t]
  /\ UNCHANGED <<tail, next, value, heap, locals, caller, history>>

DequeueSwingFails(t) ==
  /\ Goto(t, "d_swing", "d_head")
  /\ head # cur_head[t]
  /\ UNCHANGED <<shared, locals, caller, history>>

DequeueReturn(t) ==
  /\ Goto(t, "d_return", "idle")
  /\ DequeueReturns(t, "true")

-----------------------------------------------------------------------------
EnqueueStep(t) ==
  \/ EnqueueLoadTail(t) \/ EnqueueLoadNext(t) \/ EnqueueCheckTail(t)
  \/ EnqueueLink(t) \/ EnqueueLinkFails(t)
  \/ EnqueueHelpTail(t) \/ EnqueueSwingTail(t)

DequeueStep(t) ==
  \/ DequeueLoadHead(t) \/ DequeueLoadTail(t) \/ DequeueLoadNext(t)
  \/ DequeueCheckHead(t) \/ DequeueEmpty(t) \/ DequeueHelpTail(t)
  \/ DequeueReadValue(t) \/ DequeueSwingHead(t) \/ DequeueSwingFails(t)
  \/ DequeueReturn(t)

Call(t) == DequeueCall(t) \/ \E v \in Value : EnqueueCall(t, v)

Next == \E t \in Thread : Call(t) \/ EnqueueStep(t) \/ DequeueStep(t)

Spec == Init /\ [][Next]_vars

-----------------------------------------------------------------------------
(* Properties                                                              *)

\* Every variable stays in its type.
TypeOK ==
  /\ head \in Node /\ tail \in Node
  /\ next \in [Node -> Node \cup {Null}]
  /\ value \in [Node -> Value \cup {NoValue}]
  /\ heap \subseteq Node
  /\ pc \in [Thread -> {"idle"} \cup EnqueuePC \cup DequeuePC]
  /\ node \in [Thread -> Node \cup {Null}]
  /\ cur_head \in [Thread -> Node \cup {Null}]
  /\ cur_tail \in [Thread -> Node \cup {Null}]
  /\ lnext \in [Thread -> Node \cup {Null}]
  /\ out \in [Thread -> Value \cup {NoValue}]
  /\ ret \in [Thread -> {"void", "true", "false"}]
  /\ pos \in [Node -> Nat] /\ linked \in Nat

\* dequeue dereferences next only after its tests on head and tail, never
\* after a test of next itself: the tests must rule NULL out on this branch,
\* whatever the other threads did between the three loads.
NoNullDereference ==
  \A t \in Thread :
    /\ pc[t] = "d_value" => lnext[t] # Null
    /\ pc[t] \in {"e_next", "e_link"} => cur_tail[t] # Null
    /\ pc[t] = "d_next" => cur_head[t] # Null

\* tail points at the last node or the last but one, and head never
\* overtakes it, however many enqueuers stop between their two
\* compare-and-swaps.
TailBounds == pos[head] <= pos[tail] /\ pos[tail] \in {linked - 1, linked}

\* head and tail only ever step to the next node of the list, and a link
\* once set is never changed: no node is skipped, dropped or inserted twice.
ListOnlyGrows ==
  [][/\ head' # head => head' = next[head]
     /\ tail' # tail => tail' = next[tail]
     /\ \A n \in Node : next[n] # Null => next'[n] = next[n]]_vars

-----------------------------------------------------------------------------
(* The inductive invariant                                                 *)

\* pc values at which the node of an enqueue is still private to it
Inserting == EnqueuePC \ {"e_swing"}

\* The list from the first dummy node on: every node linked so far has its
\* own rank, and a node's next has the rank after it.
ListInv ==
  /\ linked >= 1
  /\ \A n \in Node : pos[n] <= linked /\ (pos[n] > 0 => n \in heap)
  /\ \A m, n \in Node : pos[m] = pos[n] /\ pos[m] > 0 => m = n
  /\ \A i \in 1..linked : \E n \in Node : pos[n] = i
  /\ \A n \in Node : next[n] # Null <=> pos[n] >= 1 /\ pos[n] < linked
  /\ \A n \in Node : next[n] # Null => pos[next[n]] = pos[n] + 1
  /\ \A n \in Node : pos[n] > 1 => value[n] \in Value

EndsInv == 1 <= pos[head] /\ TailBounds

\* What an enqueue in progress knows.
EnqueueInv(t) ==
  /\ pc[t] \in Inserting =>
       /\ node[t] \in heap /\ pos[node[t]] = 0 /\ value[node[t]] \in Value
       /\ \A u \in Thread :
            pc[u] \in Inserting /\ node[u] = node[t] => u = t
  /\ pc[t] \in EnqueuePC \ {"e_tail"} =>
       /\ cur_tail[t] \in Node
       /\ 1 <= pos[cur_tail[t]] /\ pos[cur_tail[t]] <= pos[tail]
  /\ pc[t] \in EnqueuePC => ret[t] = "void"
  /\ pc[t] = "e_link" => lnext[t] = Null
  /\ pc[t] = "e_help" => lnext[t] # Null
  /\ pc[t] \in {"e_check", "e_help"} /\ lnext[t] # Null =>
       lnext[t] = next[cur_tail[t]]
  /\ pc[t] = "e_swing" =>
       node[t] \in Node /\ next[cur_tail[t]] = node[t]

\* What a dequeue in progress knows.
DequeueInv(t) ==
  /\ pc[t] \in DequeuePC \ {"d_head", "d_return"} =>
       /\ cur_head[t] \in Node
       /\ 1 <= pos[cur_head[t]] /\ pos[cur_head[t]] <= pos[head]
  /\ pc[t] \in DequeuePC \ {"d_head", "d_tail", "d_return"} =>
       /\ cur_tail[t] \in Node
       /\ pos[cur_head[t]] <= pos[cur_tail[t]]
       /\ pos[cur_tail[t]] <= pos[tail]
  /\ pc[t] = "d_check" /\ cur_head[t] # cur_tail[t] => lnext[t] # Null
  /\ pc[t] \in {"d_help", "d_value", "d_swing"} => lnext[t] # Null
  /\ pc[t] \in {"d_check", "d_help", "d_value", "d_swing"}
       /\ lnext[t] # Null => lnext[t] = next[cur_head[t]]
  /\ pc[t] = "d_help" => cur_tail[t] = cur_head[t]
  /\ pc[t] \in {"d_value", "d_swing"} => cur_tail[t] # cur_head[t]
  /\ pc[t] = "d_swing" /\ head = cur_head[t] => out[t] = value[lnext[t]]

IInv == /\ TypeOK /\ ListInv /\ EndsInv
        /\ \A t \in Thread : EnqueueInv(t) /\ DequeueInv(t)

-----------------------------------------------------------------------------
(* Refinement of FifoQueue.  The queue holds the values of the nodes after *)
(* head.  An enqueue takes effect when it links its node, a dequeue when   *)
(* it swings head; a dequeue that returns false saw the queue empty when   *)
(* it loaded NULL from the next of its cur_head.                           *)

At(i) == CHOOSE n \in Node : pos[n] = i

queueBar == [i \in 1..(linked - pos[head]) |-> value[At(pos[head] + i)]]

phaseBar ==
  [t \in Thread |->
     CASE pc[t] = "idle" -> "idle"
       [] pc[t] \in Inserting -> "enq"
       [] pc[t] = "e_swing" -> "enqueued"
       [] pc[t] = "d_check" /\ lnext[t] = Null -> "sawEmpty"
       [] pc[t] = "d_return" -> "dequeued"
       [] OTHER -> "deq"]

datumBar ==
  [t \in Thread |->
     IF pc[t] \in Inserting THEN value[node[t]]
     ELSE IF pc[t] = "d_return" \/ (pc[t] = "idle" /\ ret[t] = "true")
     THEN out[t] ELSE NoValue]

Queue == INSTANCE FifoQueue
           WITH queue <- queueBar, phase <- phaseBar, datum <- datumBar

\* Every behaviour of the code is one of a linearizable FIFO queue.
Linearizable == Queue!Spec
=============================================================================
