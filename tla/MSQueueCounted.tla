--------------------------- MODULE MSQueueCounted ---------------------------
(***************************************************************************)
(* The Michael & Scott queue of src/ms_queue_strong: sequentially          *)
(* consistent atomics on counted pointers <<ptr, count>>, and nodes that   *)
(* are deleted as soon as they are dequeued.                               *)
(*                                                                         *)
(* One action per access to shared memory, as in MSQueueNoFree.  Memory is *)
(* explicit: delete takes a node out of heap.  With Reuse the allocator    *)
(* makes use of what was deleted: it may hand the address out again, and   *)
(* until then the memory holds anything, as C++ has it.  Without Reuse it  *)
(* does neither, as if nothing were ever freed, but for value, where the   *)
(* first links of an allocator would go: that of a deleted node is         *)
(* anything in both.                                                       *)
(***************************************************************************)
EXTENDS Naturals

CONSTANTS Thread, Node, Value, Fake, Null, NoValue, \* as in MSQueueNoFree
          CountMod,  \* the values of a counter: 2^32 in the code
          Reuse,     \* whether the allocator uses deleted memory again
          Residue,   \* what next of a deleted node may then read as:
                     \* anything in the code, a few pointers for TLC
          MaxCount   \* a bound for TLC on how often tail moves

ASSUME NodeAssumption == Fake \in Node /\ Null \notin Node
ASSUME ValueAssumption == NoValue \notin Value
ASSUME CountAssumption ==
  CountMod \in Nat \ {0} /\ MaxCount \in Nat /\ Reuse \in BOOLEAN

VARIABLES
  head, tail,   \* the two atomic counted pointers of class MSQueueStrong
  next, value,  \* next[n], value[n]: the fields of node n
  heap,         \* the nodes allocated and not deleted
  used,         \* HISTORY: the nodes ever allocated
  pc,           \* pc[t]: the access t makes next; "idle" between calls
  node,         \* enqueue's node: the one t is inserting
  cur_head, cur_tail, lnext, \* the locals cur_head, cur_tail and next of t
  out, ret,     \* the caller's *value, and what t's last call returned
  pos, linked   \* HISTORY: the ranks of MSQueueNoFree

shared == <<head, tail, next, value, heap, used>>
locals == <<node, cur_head, cur_tail, lnext>>
caller == <<out, ret>>
history == <<pos, linked>>
vars == <<shared, pc, locals, caller, history>>

EnqueuePC == {"e_tail", "e_next", "e_check", "e_link", "e_help", "e_swing"}
DequeuePC == {"d_head", "d_tail", "d_next", "d_check", "d_help", "d_value",
              "d_swing", "d_return"}

PointerType == [ptr : Node \cup {Null}, count : 0..(CountMod - 1)]

ASSUME ResidueAssumption == Residue \subseteq PointerType

Pointer(n, c) == [ptr |-> n, count |-> c % CountMod]

Goto(t, from, to) == /\ pc[t] = from
                     /\ pc' = [pc EXCEPT ![t] = to]

Init == /\ head = Pointer(Fake, 0) /\ tail = Pointer(Fake, 0)
        /\ next = [n \in Node |-> Pointer(Null, 0)]
        /\ value = [n \in Node |-> NoValue]
        /\ heap = {Fake} /\ used = {Fake}
        /\ pc = [t \in Thread |-> "idle"]
        /\ node = [t \in Thread |-> Null]
        /\ cur_head = [t \in Thread |-> Pointer(Null, 0)]
        /\ cur_tail = [t \in Thread |-> Pointer(Null, 0)]
        /\ lnext = [t \in Thread |-> Pointer(Null, 0)]
        /\ out = [t \in Thread |-> NoValue]
        /\ ret = [t \in Thread |-> "void"]
        /\ pos = [n \in Node |-> IF n = Fake THEN 1 ELSE 0]
        /\ linked = 1

-----------------------------------------------------------------------------
(* What a load of n->next and n->value may give                            *)

NextAt(n) == IF n \in heap \/ ~Reuse THEN {next[n]} ELSE Residue

ValueAt(n) == IF n \in heap THEN {value[n]} ELSE Value \cup {NoValue}

-----------------------------------------------------------------------------
(* enqueue(value)                                                          *)

Fresh == Node \ (IF Reuse THEN heap ELSE used)

\* Node(val): the constructor also starts next's counter again.
NewNode(n, v) == /\ next' = [next EXCEPT ![n] = Pointer(Null, 0)]
                 /\ value' = [value EXCEPT ![n] = v]

\* new Node<T>(value)
EnqueueCall(t, v) ==
  /\ Goto(t, "idle", "e_tail")
  /\ tail.count < MaxCount
  /\ \E n \in Fresh :
       /\ heap' = heap \cup {n} /\ used' = used \cup {n}
       /\ NewNode(n, v)
       /\ node' = [node EXCEPT ![t] = n]
       /\ pos' = [pos EXCEPT ![n] = 0]
  /\ ret' = [ret EXCEPT ![t] = "void"]
  /\ UNCHANGED <<head, tail, cur_head, cur_tail, lnext, out, linked>>

EnqueueLoadTail(t) ==
  /\ Goto(t, "e_tail", "e_next")
  /\ cur_tail' = [cur_tail EXCEPT ![t] = tail]
  /\ UNCHANGED <<shared, node, cur_head, lnext, caller, history>>

EnqueueLoadNext(t) ==
  /\ Goto(t, "e_next", "e_check")
  /\ \E p \in NextAt(cur_tail[t].ptr) : lnext' = [lnext EXCEPT ![t] = p]
  /\ UNCHANGED <<shared, node, cur_head, cur_tail, caller, history>>

EnqueueCheckTail(t) ==
  /\ \/ /\ Goto(t, "e_check", "e_link")
        /\ tail = cur_tail[t] /\ lnext[t].ptr = Null
     \/ /\ Goto(t, "e_check", "e_help")
        /\ tail = cur_tail[t] /\ lnext[t].ptr # Null
     \/ Goto(t, "e_check", "e_tail") /\ tail # cur_tail[t]
  /\ UNCHANGED <<shared, locals, caller, history>>

\* MUTANT of EnqueueLink: next is stored, not compared and swapped.
EnqueueStores(t) ==
  /\ Goto(t, "e_link", "e_swing")
  /\ next' = [next EXCEPT ![cur_tail[t].ptr] =
                            Pointer(node[t], lnext[t].count + 1)]
  /\ pos' = [pos EXCEPT ![node[t]] = linked + 1]
  /\ linked' = linked + 1
  /\ UNCHANGED <<head, tail, value, heap, used, locals, caller>>

EnqueueLink(t) ==
  /\ Goto(t, "e_link", "e_swing")
  /\ lnext[t] \in NextAt(cur_tail[t].ptr)
  /\ next' = [next EXCEPT ![cur_tail[t].ptr] =
                            Pointer(node[t], lnext[t].count + 1)]
  /\ pos' = [pos EXCEPT ![node[t]] = linked + 1]
  /\ linked' = linked + 1
  /\ UNCHANGED <<head, tail, value, heap, used, locals, caller>>

EnqueueLinkFails(t) ==
  /\ Goto(t, "e_link", "e_tail")
  /\ NextAt(cur_tail[t].ptr) # {lnext[t]}
  /\ UNCHANGED <<shared, locals, caller, history>>

\* tail.compare_exchange_strong(cur_tail, Pointer(n, cur_tail.count + 1))
CasTail(t, n) ==
  tail' = IF tail = cur_tail[t] THEN Pointer(n, tail.count + 1) ELSE tail

\* MUTANT of EnqueueHelpTail: helps from wherever tail is by now.
EnqueueHelpsAgain(t) ==
  /\ Goto(t, "e_help", "e_tail")
  /\ tail' = Pointer(next[tail.ptr].ptr, tail.count + 1)
  /\ UNCHANGED <<head, next, value, heap, used, locals, caller, history>>

EnqueueHelpTail(t) ==
  /\ Goto(t, "e_help", "e_tail")
  /\ CasTail(t, lnext[t].ptr)
  /\ UNCHANGED <<head, next, value, heap, used, locals, caller, history>>

EnqueueSwingTail(t) ==
  /\ Goto(t, "e_swing", "idle")
  /\ CasTail(t, node[t])
  /\ node' = [node EXCEPT ![t] = Null]
  /\ cur_tail' = [cur_tail EXCEPT ![t] = Pointer(Null, 0)]
  /\ lnext' = [lnext EXCEPT ![t] = Pointer(Null, 0)]
  /\ UNCHANGED <<head, next, value, heap, used, cur_head, caller, history>>

-----------------------------------------------------------------------------
(* dequeue(value)                                                          *)

DequeueCall(t) ==
  /\ Goto(t, "idle", "d_head")
  /\ out' = [out EXCEPT ![t] = NoValue]
  /\ ret' = [ret EXCEPT ![t] = "void"]
  /\ UNCHANGED <<shared, locals, history>>

DequeueLoadHead(t) ==
  /\ Goto(t, "d_head", "d_tail")
  /\ cur_head' = [cur_head EXCEPT ![t] = head]
  /\ UNCHANGED <<shared, node, cur_tail, lnext, caller, history>>

DequeueLoadTail(t) ==
  /\ Goto(t, "d_tail", "d_next")
  /\ cur_tail' = [cur_tail EXCEPT ![t] = tail]
  /\ UNCHANGED <<shared, node, cur_head, lnext, caller, history>>

DequeueLoadNext(t) ==
  /\ Goto(t, "d_next", "d_check")
  /\ \E p \in NextAt(cur_head[t].ptr) : lnext' = [lnext EXCEPT ![t] = p]
  /\ UNCHANGED <<shared, node, cur_head, cur_tail, caller, history>>

DequeueReturns(t, r) ==
  /\ ret' = [ret EXCEPT ![t] = r]
  /\ cur_head' = [cur_head EXCEPT ![t] = Pointer(Null, 0)]
  /\ cur_tail' = [cur_tail EXCEPT ![t] = Pointer(Null, 0)]
  /\ lnext' = [lnext EXCEPT ![t] = Pointer(Null, 0)]
  /\ UNCHANGED <<head, tail, next, value, used, node, out, history>>

\* MUTANT of DequeueCheckHead: the comparison of cur_head and cur_tail is
\* gone.
DequeueTestsNextOnly(t) ==
  /\ \/ Goto(t, "d_check", "d_head") /\ head # cur_head[t]
     \/ /\ Goto(t, "d_check", "d_value") /\ head = cur_head[t]
        /\ lnext[t].ptr # Null
  /\ UNCHANGED <<shared, locals, caller, history>>

\* Only pointers are compared here: cur_head.ptr == cur_tail.ptr
DequeueCheckHead(t) ==
  /\ \/ Goto(t, "d_check", "d_head") /\ head # cur_head[t]
     \/ /\ Goto(t, "d_check", "d_help") /\ head = cur_head[t]
        /\ cur_head[t].ptr = cur_tail[t].ptr /\ lnext[t].ptr # Null
     \/ /\ Goto(t, "d_check", "d_value") /\ head = cur_head[t]
        /\ cur_head[t].ptr # cur_tail[t].ptr
  /\ UNCHANGED <<shared, locals, caller, history>>

\* MUTANT of DequeueEmpty: head being tail is taken for empty.
DequeueEmptyByTail(t) ==
  /\ Goto(t, "d_check", "idle")
  /\ head = cur_head[t] /\ cur_head[t].ptr = cur_tail[t].ptr
  /\ DequeueReturns(t, "false")
  /\ UNCHANGED heap

DequeueEmpty(t) ==
  /\ Goto(t, "d_check", "idle")
  /\ head = cur_head[t]
  /\ cur_head[t].ptr = cur_tail[t].ptr /\ lnext[t].ptr = Null
  /\ DequeueReturns(t, "false")
  /\ UNCHANGED heap

DequeueHelpTail(t) ==
  /\ Goto(t, "d_help", "d_head")
  /\ CasTail(t, lnext[t].ptr)
  /\ UNCHANGED <<head, next, value, heap, used, locals, caller, history>>

\* *value = next.ptr->value: anything, if that node is deleted by now
DequeueReadValue(t) ==
  /\ Goto(t, "d_value", "d_swing")
  /\ \E v \in ValueAt(lnext[t].ptr) : out' = [out EXCEPT ![t] = v]
  /\ UNCHANGED <<shared, locals, ret, history>>

\* MUTANT of DequeueSwingHead: the compare-and-swap leaves the counter out.
DequeueSwingsPointer(t) ==
  /\ Goto(t, "d_swing", "d_return")
  /\ head.ptr = cur_head[t].ptr
  /\ head' = Pointer(lnext[t].ptr, head.count + 1)
  /\ UNCHANGED <<tail, next, value, heap, used, locals, caller, history>>

\* MUTANT of DequeueSwingHead: head is stored, not compared and swapped.
DequeueStoresHead(t) ==
  /\ Goto(t, "d_swing", "d_return")
  /\ head' = Pointer(lnext[t].ptr, cur_head[t].count + 1)
  /\ UNCHANGED <<tail, next, value, heap, used, locals, caller, history>>

DequeueSwingHead(t) ==
  /\ Goto(t, "d_swing", "d_return")
  /\ head = cur_head[t]
  /\ head' = Pointer(lnext[t].ptr, head.count + 1)
  /\ UNCHANGED <<tail, next, value, heap, used, locals, caller, history>>

DequeueSwingFails(t) ==
  /\ Goto(t, "d_swing", "d_head")
  /\ head # cur_head[t]
  /\ UNCHANGED <<shared, locals, caller, history>>

\* delete cur_head.ptr; return true
DequeueReturn(t) ==
  /\ Goto(t, "d_return", "idle")
  /\ heap' = heap \ {cur_head[t].ptr}
  /\ DequeueReturns(t, "true")

-----------------------------------------------------------------------------
EnqueueStep(t) ==
  \/ EnqueueLoadTail(t) \/ EnqueueLoadNext(t) \/ EnqueueCheckTail(t)
  \/ EnqueueLink(t) \/ EnqueueLinkFails(t)
  \/ EnqueueHelpTail(t) \/ EnqueueSwingTail(t)

DequeueStep(t) ==
  \/ DequeueLoadHead(t) \/ DequeueLoadTail(t) \/ DequeueLoadNext(t)
  \/ DequeueCheckHead(t) \/ DequeueEmpty(t) \/ DequeueHelpTail(t)
  \/ DequeueReadValue(t) \/ DequeueSwingHead(t) \/ DequeueSwingFails(t)
  \/ DequeueReturn(t)

Call(t) == DequeueCall(t) \/ \E v \in Value : EnqueueCall(t, v)

Next == \E t \in Thread : Call(t) \/ EnqueueStep(t) \/ DequeueStep(t)

Spec == Init /\ [][Next]_vars

-----------------------------------------------------------------------------
(* Properties                                                              *)

\* Every variable stays in its type.
TypeOK ==
  /\ head \in PointerType /\ head.ptr \in Node
  /\ tail \in PointerType /\ tail.ptr \in Node
  /\ next \in [Node -> PointerType]
  /\ value \in [Node -> Value \cup {NoValue}]
  /\ heap \subseteq used /\ used \subseteq Node
  /\ pc \in [Thread -> {"idle"} \cup EnqueuePC \cup DequeuePC]
  /\ node \in [Thread -> Node \cup {Null}]
  /\ cur_head \in [Thread -> PointerType]
  /\ cur_tail \in [Thread -> PointerType]
  /\ lnext \in [Thread -> PointerType]
  /\ out \in [Thread -> Value \cup {NoValue}]
  /\ ret \in [Thread -> {"void", "true", "false"}]
  /\ pos \in [Node -> Nat] /\ linked \in Nat

\* What head and tail point to is never deleted, so a new operation always
\* starts on live nodes: tail must be past the dummy node before the dequeue
\* that deletes it can move head.
EndsAreAlive == head.ptr \in heap /\ tail.ptr \in heap

\* "only the thread that succeeded CAS can free it": no node is deleted
\* twice, although threads compare pointers to nodes long gone.
DeleteOnce ==
  \A t \in Thread : pc[t] = "d_return" =>
    /\ cur_head[t].ptr \in heap
    /\ \A u \in Thread :
         pc[u] = "d_return" /\ cur_head[u].ptr = cur_head[t].ptr => u = t

\* What the counter of head is for: whatever was deleted and reused since t
\* loaded head, a swing that succeeds moves it to the next node of the node
\* it deletes, and *value is the value of that node, live when read.
SwingIsCurrent ==
  [][\A t \in Thread : pc[t] = "d_swing" /\ pc'[t] = "d_return" =>
       /\ lnext[t].ptr = next[head.ptr].ptr
       /\ lnext[t].ptr \in heap
       /\ out[t] = value[lnext[t].ptr]]_vars

\* README.md:4: "ABA is solved by adding a reference counter to node
\* pointers".  Then a link is only ever added after the last node of the
\* list, however long ago t read that its next was NULL.
LinksAfterTheLast ==
  [][\A n \in Node : next[n].ptr = Null /\ next'[n].ptr # Null =>
       pos[n] = linked]_vars

\* ms_queue_strong.h:78: "Read value before CAS to prevent another dequeue
\* from freeing the same node".  Then the node is alive when it is read.
ReadsLiveNodes ==
  \A t \in Thread : pc[t] = "d_value" => lnext[t].ptr \in heap

-----------------------------------------------------------------------------
(* Without reuse the counters change nothing: the queue is linearizable    *)
(* under the mapping of MSQueueNoFree, every pointer without its counter.  *)

Ptrs(f) == [x \in DOMAIN f |-> f[x].ptr]

NoFree == INSTANCE MSQueueNoFree
            WITH head <- head.ptr, tail <- tail.ptr, next <- Ptrs(next),
                 heap <- used, cur_head <- Ptrs(cur_head),
                 cur_tail <- Ptrs(cur_tail), lnext <- Ptrs(lnext)

\* Deleting nodes at once does not hurt as long as the allocator leaves them
\* alone: every behaviour is one of a linearizable FIFO queue.
Linearizable == NoFree!Linearizable
=============================================================================
