---------------------------- MODULE MSQueueHazard ----------------------------
(***************************************************************************)
(* The Michael & Scott queue of src/ms_queue_strong_hazard: sequentially   *)
(* consistent atomics on plain pointers, and nodes reclaimed with hazard   *)
(* pointers.  A thread publishes the node it is about to use in its        *)
(* hazard record and checks that the node is still in place; a dequeued    *)
(* node goes to the thread's free_list, and once that is Threshold long    *)
(* scan deletes the nodes no record names.                                 *)
(*                                                                         *)
(* One action per access to shared memory, as in MSQueueNoFree; the loads  *)
(* of scan and its deletes are steps too.  What memory holds that is not   *)
(* allocated is undefined: a thread that reads a deleted node may read     *)
(* anything.  The same goes for the next of a new node, which no           *)
(* constructor of an enqueued node sets.  What works because the memory    *)
(* new hands out happens to read as null there, and what works whatever it *)
(* holds, is told apart by ClearMemory.                                    *)
(***************************************************************************)
EXTENDS Integers, Sequences, SequencesExt

CONSTANTS N,          \* threads, a template parameter in the code
          Node,       \* the memory new Node can hand out (a bound for TLC)
          Value, Fake, Null, NoValue,   \* as in MSQueueNoFree
          Producer,   \* the threads that call enqueue
          Threshold   \* length of free_list that starts a scan: 5 in the code

Thread == 0..(N - 1)

ASSUME ThreadAssumption == N \in Nat \ {0} /\ Threshold \in Nat \ {0}
                              /\ Producer \subseteq Thread
ASSUME NodeAssumption == Fake \in Node /\ Null \notin Node
ASSUME ValueAssumption == NoValue \notin Value

VARIABLES
  head, tail,   \* the two atomics of class MSQueue
  next, value,  \* next[n], value[n]: the fields of node n
  heap,         \* the nodes allocated and not deleted
  hp,           \* hp[t][k]: hazard pointer k of thread t
  pc,           \* pc[t]: the access t makes next; "idle" between calls
  node,         \* enqueue's node: the one t is inserting
  cur_head, cur_tail, lnext, \* the locals cur_head, cur_tail and next of t
  out, ret,     \* the caller's *value, and what t's last call returned
  free_list,    \* free_list[t]: the nodes t has retired
  slot,         \* slot[t]: the hazard pointer scan loads next, counting all
  ptr_list,     \* ptr_list[t]: what scan has found in them, as a set: the
                \* code sorts its vector and only searches it
  kept,         \* kept[t]: new_free_list of scan
  list          \* HISTORY: the nodes in the queue, the dummy first

shared == <<head, tail, next, value, heap, hp>>
locals == <<node, cur_head, cur_tail, lnext>>
caller == <<out, ret>>
scanning == <<free_list, slot, ptr_list, kept>>
vars == <<shared, pc, locals, caller, scanning, list>>

Goto(t, from, to) == /\ pc[t] = from
                     /\ pc' = [pc EXCEPT ![t] = to]

Init == /\ head = Fake /\ tail = Fake
        /\ next = [n \in Node |-> Null]
        /\ value = [n \in Node |-> NoValue]
        /\ heap = {Fake}
        /\ hp = [t \in Thread |-> [k \in 0..1 |-> Null]]
        /\ pc = [t \in Thread |-> "idle"]
        /\ node = [t \in Thread |-> Null]
        /\ cur_head = [t \in Thread |-> Null]
        /\ cur_tail = [t \in Thread |-> Null]
        /\ lnext = [t \in Thread |-> Null]
        /\ out = [t \in Thread |-> NoValue]
        /\ ret = [t \in Thread |-> "void"]
        /\ free_list = [t \in Thread |-> <<>>]
        /\ slot = [t \in Thread |-> 0]
        /\ ptr_list = [t \in Thread |-> {}]
        /\ kept = [t \in Thread |-> <<>>]
        /\ list = <<Fake>>

-----------------------------------------------------------------------------
(* What a load of n->next and n->value may give: memory that is not        *)
(* allocated holds anything.                                               *)

NextAt(n) == IF n \in heap THEN {next[n]} ELSE Node \cup {Null}

ValueAt(n) == IF n \in heap THEN {value[n]} ELSE Value \cup {NoValue}

-----------------------------------------------------------------------------
(* enqueue(value, tid)                                                     *)

\* Node(val): this constructor assigns value only, so that next is what the
\* memory holds.
NewNode(n, v) ==
  /\ \E old \in NextAt(n) : next' = [next EXCEPT ![n] = old]
  /\ value' = [value EXCEPT ![n] = v]

\* new Node<T>(value)
EnqueueCall(t, v) ==
  /\ Goto(t, "idle", "e_tail")
  /\ \E n \in Node \ heap :
       /\ heap' = heap \cup {n}
       /\ NewNode(n, v)
       /\ node' = [node EXCEPT ![t] = n]
  /\ ret' = [ret EXCEPT ![t] = "void"]
  /\ UNCHANGED <<head, tail, hp, cur_head, cur_tail, lnext, out, scanning,
                 list>>

EnqueueLoadTail(t) ==
  /\ Goto(t, "e_tail", "e_protect")
  /\ cur_tail' = [cur_tail EXCEPT ![t] = tail]
  /\ UNCHANGED <<shared, node, cur_head, lnext, caller, scanning, list>>

\* hazard.hp[tid][k].store(n)
Protect(t, k, n) ==
  /\ hp' = [hp EXCEPT ![t][k] = n]
  /\ UNCHANGED <<head, tail, next, value, heap, locals, caller, scanning,
                 list>>

EnqueueProtect(t) ==
  Goto(t, "e_protect", "e_safe") /\ Protect(t, 0, cur_tail[t])

\* MUTANT of EnqueueSafe: the hazard pointer is trusted without the check.
EnqueueTrusts(t) ==
  /\ Goto(t, "e_safe", "e_next")
  /\ UNCHANGED <<shared, locals, caller, scanning, list>>

\* if (tail.load() != cur_tail) continue
EnqueueSafe(t) ==
  /\ \/ Goto(t, "e_safe", "e_next") /\ tail = cur_tail[t]
     \/ Goto(t, "e_safe", "e_tail") /\ tail # cur_tail[t]
  /\ UNCHANGED <<shared, locals, caller, scanning, list>>

EnqueueLoadNext(t) ==
  /\ Goto(t, "e_next", "e_check")
  /\ \E n \in NextAt(cur_tail[t]) : lnext' = [lnext EXCEPT ![t] = n]
  /\ UNCHANGED <<shared, node, cur_head, cur_tail, caller, scanning, list>>

EnqueueCheckTail(t) ==
  /\ \/ Goto(t, "e_check", "e_link") /\ tail = cur_tail[t] /\ lnext[t] = Null
     \/ Goto(t, "e_check", "e_help") /\ tail = cur_tail[t] /\ lnext[t] # Null
     \/ Goto(t, "e_check", "e_tail") /\ tail # cur_tail[t]
  /\ UNCHANGED <<shared, locals, caller, scanning, list>>

\* MUTANT of EnqueueLink: next is stored, not compared and swapped.
EnqueueStores(t) ==
  /\ Goto(t, "e_link", "e_swing")
  /\ next' = [next EXCEPT ![cur_tail[t]] = node[t]]
  /\ list' = Append(list, node[t])
  /\ UNCHANGED <<head, tail, value, heap, hp, locals, caller, scanning>>

EnqueueLink(t) ==
  /\ Goto(t, "e_link", "e_swing")
  /\ lnext[t] \in NextAt(cur_tail[t])
  /\ next' = [next EXCEPT ![cur_tail[t]] = node[t]]
  /\ list' = Append(list, node[t])
  /\ UNCHANGED <<head, tail, value, heap, hp, locals, caller, scanning>>

EnqueueLinkFails(t) ==
  /\ Goto(t, "e_link", "e_tail")
  /\ NextAt(cur_tail[t]) # {lnext[t]}
  /\ UNCHANGED <<shared, locals, caller, scanning, list>>

CasTail(t, n) == tail' = IF tail = cur_tail[t] THEN n ELSE tail

EnqueueHelpTail(t) ==
  /\ Goto(t, "e_help", "e_tail")
  /\ CasTail(t, lnext[t])
  /\ UNCHANGED <<head, next, value, heap, hp, locals, caller, scanning, list>>

\* The call returns, its locals are gone; its hazard pointer stays.
EnqueueSwingTail(t) ==
  /\ Goto(t, "e_swing", "idle")
  /\ CasTail(t, node[t])
  /\ node' = [node EXCEPT ![t] = Null]
  /\ cur_tail' = [cur_tail EXCEPT ![t] = Null]
  /\ lnext' = [lnext EXCEPT ![t] = Null]
  /\ UNCHANGED <<head, next, value, heap, hp, cur_head, caller, scanning,
                 list>>

-----------------------------------------------------------------------------
(* dequeue(value, tid, free_list)                                          *)

\* dequeue(value, tid, free_list), the caller's vector holding retired
DequeueCallWith(t, retired) ==
  /\ Goto(t, "idle", "d_head")
  /\ out' = [out EXCEPT ![t] = NoValue]
  /\ ret' = [ret EXCEPT ![t] = "void"]
  /\ free_list' = [free_list EXCEPT ![t] = retired]
  /\ UNCHANGED <<shared, locals, slot, ptr_list, kept, list>>

\* A thread keeps one vector for all its calls.
DequeueCall(t) == DequeueCallWith(t, free_list[t])

\* dequeue(value): thread 0, and a vector that lives as long as the call;
\* what the last one held is lost.
SequentialDequeueCall == DequeueCallWith(0, <<>>)

DequeueLoadHead(t) ==
  /\ Goto(t, "d_head", "d_protect")
  /\ cur_head' = [cur_head EXCEPT ![t] = head]
  /\ UNCHANGED <<shared, node, cur_tail, lnext, caller, scanning, list>>

DequeueProtect(t) ==
  Goto(t, "d_protect", "d_safe") /\ Protect(t, 0, cur_head[t])

\* if (head.load() != cur_head) continue
DequeueSafe(t) ==
  /\ \/ Goto(t, "d_safe", "d_tail") /\ head = cur_head[t]
     \/ Goto(t, "d_safe", "d_head") /\ head # cur_head[t]
  /\ UNCHANGED <<shared, locals, caller, scanning, list>>

DequeueLoadTail(t) ==
  /\ Goto(t, "d_tail", "d_next")
  /\ cur_tail' = [cur_tail EXCEPT ![t] = tail]
  /\ UNCHANGED <<shared, node, cur_head, lnext, caller, scanning, list>>

DequeueLoadNext(t) ==
  /\ Goto(t, "d_next", "d_protect_next")
  /\ \E n \in NextAt(cur_head[t]) : lnext' = [lnext EXCEPT ![t] = n]
  /\ UNCHANGED <<shared, node, cur_head, cur_tail, caller, scanning, list>>

DequeueProtectNext(t) ==
  Goto(t, "d_protect_next", "d_check") /\ Protect(t, 1, lnext[t])

DequeueCheckHead(t) ==
  /\ \/ Goto(t, "d_check", "d_head") /\ head # cur_head[t]
     \/ /\ Goto(t, "d_check", "d_help") /\ head = cur_head[t]
        /\ cur_head[t] = cur_tail[t] /\ lnext[t] # Null
     \/ /\ Goto(t, "d_check", "d_value") /\ head = cur_head[t]
        /\ cur_head[t] # cur_tail[t]
  /\ UNCHANGED <<shared, locals, caller, scanning, list>>

\* A call returns r, and its locals are gone.
DequeueReturns(t, r, retired) ==
  /\ ret' = [ret EXCEPT ![t] = r]
  /\ free_list' = [free_list EXCEPT ![t] = retired]
  /\ cur_head' = [cur_head EXCEPT ![t] = Null]
  /\ cur_tail' = [cur_tail EXCEPT ![t] = Null]
  /\ lnext' = [lnext EXCEPT ![t] = Null]
  /\ UNCHANGED <<node, out>>

\* MUTANT of DequeueEmpty: head being tail is taken for empty.
DequeueEmptyByTail(t) ==
  /\ Goto(t, "d_check", "idle")
  /\ head = cur_head[t] /\ cur_head[t] = cur_tail[t]
  /\ DequeueReturns(t, "false", free_list[t])
  /\ UNCHANGED <<shared, slot, ptr_list, kept, list>>

DequeueEmpty(t) ==
  /\ Goto(t, "d_check", "idle")
  /\ head = cur_head[t]
  /\ cur_head[t] = cur_tail[t] /\ lnext[t] = Null
  /\ DequeueReturns(t, "false", free_list[t])
  /\ UNCHANGED <<shared, slot, ptr_list, kept, list>>

DequeueHelpTail(t) ==
  /\ Goto(t, "d_help", "d_head")
  /\ CasTail(t, lnext[t])
  /\ UNCHANGED <<head, next, value, heap, hp, locals, caller, scanning, list>>

\* MUTANT of DequeueReadValue: the value of the dummy node is taken.
DequeueReadsHead(t) ==
  /\ Goto(t, "d_value", "d_swing")
  /\ out' = [out EXCEPT ![t] = value[cur_head[t]]]
  /\ UNCHANGED <<shared, locals, ret, scanning, list>>

\* *value = next->value; where next is null the program ends.
DequeueReadValue(t) ==
  /\ Goto(t, "d_value", "d_swing")
  /\ lnext[t] # Null
  /\ \E v \in ValueAt(lnext[t]) : out' = [out EXCEPT ![t] = v]
  /\ UNCHANGED <<shared, locals, ret, scanning, list>>

\* MUTANT of DequeueSwingHead: head is stored, not compared and swapped.
DequeueStoresHead(t) ==
  /\ Goto(t, "d_swing", "d_retire")
  /\ head' = lnext[t]
  /\ list' = SubSeq(list, 2, Len(list))
  /\ UNCHANGED <<tail, next, value, heap, hp, locals, caller, scanning>>

DequeueSwingHead(t) ==
  /\ Goto(t, "d_swing", "d_retire")
  /\ head = cur_head[t]
  /\ head' = lnext[t]
  /\ list' = SubSeq(list, 2, Len(list))
  /\ UNCHANGED <<tail, next, value, heap, hp, locals, caller, scanning>>

DequeueSwingFails(t) ==
  /\ Goto(t, "d_swing", "d_head")
  /\ head # cur_head[t]
  /\ UNCHANGED <<shared, locals, caller, scanning, list>>

-----------------------------------------------------------------------------
(* HazardRec::retire_node and scan                                         *)

\* MUTANT of RetireNode: a scan starts at the threshold and not above it.
RetireNodeAtOnce(t) ==
  LET retired == Append(free_list[t], cur_head[t])
  IN \/ /\ Len(retired) = Threshold
        /\ Goto(t, "d_retire", "s_load")
        /\ free_list' = [free_list EXCEPT ![t] = retired]
        /\ slot' = [slot EXCEPT ![t] = 0]
        /\ ptr_list' = [ptr_list EXCEPT ![t] = {}]
        /\ UNCHANGED <<shared, locals, caller, kept, list>>
     \/ /\ Len(retired) # Threshold
        /\ Goto(t, "d_retire", "idle")
        /\ DequeueReturns(t, "true", retired)
        /\ UNCHANGED <<shared, slot, ptr_list, kept, list>>

\* free_list.push_back(node), and a scan if it is long enough; otherwise
\* dequeue returns true.
RetireNode(t) ==
  LET retired == Append(free_list[t], cur_head[t])
  IN \/ /\ Len(retired) >= Threshold
        /\ Goto(t, "d_retire", "s_load")
        /\ free_list' = [free_list EXCEPT ![t] = retired]
        /\ slot' = [slot EXCEPT ![t] = 0]
        /\ ptr_list' = [ptr_list EXCEPT ![t] = {}]
        /\ UNCHANGED <<shared, locals, caller, kept, list>>
     \/ /\ Len(retired) < Threshold
        /\ Goto(t, "d_retire", "idle")
        /\ DequeueReturns(t, "true", retired)
        /\ UNCHANGED <<shared, slot, ptr_list, kept, list>>

\* MUTANT of ScanLoad: the loops end one hazard pointer early.
ScanLoadSkipsLast(t) ==
  /\ IF slot[t] + 2 < 2 * N THEN Goto(t, "s_load", "s_load")
                            ELSE Goto(t, "s_load", "s_free")
  /\ slot' = [slot EXCEPT ![t] = @ + 1]
  /\ LET ptr == hp[slot[t] \div 2][slot[t] % 2]
     IN ptr_list' = [ptr_list EXCEPT ![t] = @ \cup ({ptr} \ {Null})]
  /\ UNCHANGED <<shared, locals, caller, free_list, kept, list>>

\* MUTANT of ScanLoad: null hazard pointers are collected too.
ScanLoadNull(t) ==
  /\ IF slot[t] + 1 < 2 * N THEN Goto(t, "s_load", "s_load")
                            ELSE Goto(t, "s_load", "s_free")
  /\ slot' = [slot EXCEPT ![t] = @ + 1]
  /\ ptr_list' = [ptr_list EXCEPT ![t] = @ \cup {hp[slot[t] \div 2][slot[t] % 2]}]
  /\ UNCHANGED <<shared, locals, caller, free_list, kept, list>>

\* ptr = hp[i][j].load(): one of the N * 2 loads, in the order of the loops
ScanLoad(t) ==
  /\ IF slot[t] + 1 < 2 * N THEN Goto(t, "s_load", "s_load")
                            ELSE Goto(t, "s_load", "s_free")
  /\ slot' = [slot EXCEPT ![t] = @ + 1]
  /\ LET ptr == hp[slot[t] \div 2][slot[t] % 2]
     IN ptr_list' = [ptr_list EXCEPT ![t] = @ \cup ({ptr} \ {Null})]
  /\ UNCHANGED <<shared, locals, caller, free_list, kept, list>>

\* The last node of free_list is popped, and kept or deleted.
ScanFree(t) ==
  /\ Goto(t, "s_free", "s_free")
  /\ free_list[t] # <<>>
  /\ LET n == Last(free_list[t])
     IN \/ /\ n \in ptr_list[t]
           /\ kept' = [kept EXCEPT ![t] = Append(@, n)]
           /\ UNCHANGED heap
        \/ /\ n \notin ptr_list[t]
           /\ heap' = heap \ {n}
           /\ UNCHANGED kept
  /\ free_list' = [free_list EXCEPT ![t] = Front(@)]
  /\ UNCHANGED <<head, tail, next, value, hp, locals, caller, slot, ptr_list,
                 list>>

\* MUTANT of ScanEnd: the nodes scan kept are dropped.
ScanEndDrops(t) ==
  /\ Goto(t, "s_free", "idle")
  /\ free_list[t] = <<>>
  /\ DequeueReturns(t, "true", <<>>)
  /\ slot' = [slot EXCEPT ![t] = 0]
  /\ ptr_list' = [ptr_list EXCEPT ![t] = {}]
  /\ kept' = [kept EXCEPT ![t] = <<>>]
  /\ UNCHANGED <<shared, list>>

\* free_list = new_free_list, and back in dequeue: return true
ScanEnd(t) ==
  /\ Goto(t, "s_free", "idle")
  /\ free_list[t] = <<>>
  /\ DequeueReturns(t, "true", kept[t])
  /\ slot' = [slot EXCEPT ![t] = 0]
  /\ ptr_list' = [ptr_list EXCEPT ![t] = {}]
  /\ kept' = [kept EXCEPT ![t] = <<>>]
  /\ UNCHANGED <<shared, list>>

-----------------------------------------------------------------------------
EnqueueStep(t) ==
  \/ EnqueueLoadTail(t) \/ EnqueueProtect(t) \/ EnqueueSafe(t)
  \/ EnqueueLoadNext(t) \/ EnqueueCheckTail(t)
  \/ EnqueueLink(t) \/ EnqueueLinkFails(t)
  \/ EnqueueHelpTail(t) \/ EnqueueSwingTail(t)

DequeueStep(t) ==
  \/ DequeueLoadHead(t) \/ DequeueProtect(t) \/ DequeueSafe(t)
  \/ DequeueLoadTail(t) \/ DequeueLoadNext(t) \/ DequeueProtectNext(t)
  \/ DequeueCheckHead(t) \/ DequeueEmpty(t) \/ DequeueHelpTail(t)
  \/ DequeueReadValue(t) \/ DequeueSwingHead(t) \/ DequeueSwingFails(t)

ReclaimStep(t) == RetireNode(t) \/ ScanLoad(t) \/ ScanFree(t) \/ ScanEnd(t)

Call(t) == \/ DequeueCall(t)
           \/ t \in Producer /\ \E v \in Value : EnqueueCall(t, v)

Next == \E t \in Thread :
          Call(t) \/ EnqueueStep(t) \/ DequeueStep(t) \/ ReclaimStep(t)

Spec == Init /\ [][Next]_vars

\* A condition on the allocator, and not on this code: the memory new hands
\* out in this step reads as null where next lies.
ClearMemory == \A n \in heap' \ heap : next'[n] = Null

-----------------------------------------------------------------------------
(* Properties.  TypeOK is one of Spec.  The others hold while every step   *)
(* satisfies ClearMemory, that is of Spec /\ [][ClearMemory]_vars: the      *)
(* first node with a stale next may break any of them, and                 *)
(* LastHasNoSuccessor is broken as soon as it is linked.                   *)

EnqueuePC == {"e_tail", "e_protect", "e_safe", "e_next", "e_check", "e_link",
              "e_help", "e_swing"}
DequeuePC == {"d_head", "d_protect", "d_safe", "d_tail", "d_next",
              "d_protect_next", "d_check", "d_help", "d_value", "d_swing",
              "d_retire", "s_load", "s_free"}

\* Every variable stays in its type, whatever the memory holds.  In
\* particular head and tail are never null.
TypeOK ==
  /\ head \in Node /\ tail \in Node
  /\ next \in [Node -> Node \cup {Null}]
  /\ value \in [Node -> Value \cup {NoValue}]
  /\ heap \subseteq Node
  /\ hp \in [Thread -> [0..1 -> Node \cup {Null}]]
  /\ pc \in [Thread -> {"idle"} \cup EnqueuePC \cup DequeuePC]
  /\ {node, cur_head, cur_tail, lnext} \subseteq [Thread -> Node \cup {Null}]
  /\ out \in [Thread -> Value \cup {NoValue}]
  /\ ret \in [Thread -> {"void", "true", "false"}]
  /\ {free_list, kept} \subseteq [Thread -> Seq(Node)]
  /\ slot \in [Thread -> 0..(2 * N)]
  /\ ptr_list \in [Thread -> SUBSET Node]
  /\ list \in Seq(Node)

\* The node t dereferences in its next access.
Dereferenced(t) ==
  CASE pc[t] \in {"e_next", "e_link"} -> {cur_tail[t]}
    [] pc[t] = "d_next" -> {cur_head[t]}
    [] pc[t] = "d_value" -> {lnext[t]}
    [] pc[t] = "s_free" -> ToSet(free_list[t]) \ ptr_list[t]
    [] OTHER -> {}

\* What the hazard pointers are for, with ClearMemory: no thread follows a
\* pointer to a node that was deleted since it loaded the pointer, nor a
\* null one; and scan prints and deletes nodes that are still there.
ReadsLiveNodes == \A t \in Thread : Dereferenced(t) \subseteq heap

\* node.h:22, "Create node with no successor": the node linked last leads
\* nowhere.  It is true of memory that reads as null and of no other.
LastHasNoSuccessor == next[Last(list)] = Null

\* With ClearMemory: the nodes from head on are the list the operations
\* built, all of them allocated, and tail is the last or last but one: no
\* compare-and-swap succeeds on a pointer that went away and came back.
ListIntact ==
  /\ list # <<>>
  /\ head = list[1]
  /\ ToSet(list) \subseteq heap
  /\ \A i \in 1..(Len(list) - 1) : next[list[i]] = list[i + 1]
  /\ LastHasNoSuccessor
  /\ \E i \in {Len(list) - 1, Len(list)} \ {0} : tail = list[i]

\* What t has taken out of the queue and not deleted.
Retired(t) == free_list[t] \o kept[t]
                \o (IF pc[t] = "d_retire" THEN <<cur_head[t]>> ELSE <<>>)

Private(t) == IF pc[t] \in EnqueuePC \ {"e_swing"} THEN {node[t]} ELSE {}

\* "only the thread that succeeded CAS can free it", with ClearMemory: a
\* node waits in one free list at most, once, and only after it has left the
\* queue.
RetiredOnce ==
  \A t \in Thread :
    /\ IsInjective(Retired(t))
    /\ ToSet(Retired(t)) \cap ToSet(list) = {}
    /\ \A u \in Thread \ {t} : ToSet(Retired(t)) \cap ToSet(Retired(u)) = {}

\* ms_queue_strong.h:105-106, "Free the node", "Use of hazard pointer to
\* safely free the node", with ClearMemory: nothing is forgotten, every node
\* allocated is in the queue, still private to an enqueue, or waits to be
\* deleted.
NoLeak ==
  heap = ToSet(list) \cup (UNION {Private(t) : t \in Thread})
           \cup (UNION {ToSet(Retired(t)) : t \in Thread})

\* With ClearMemory, however long the others stop, a thread holds back at
\* most the nodes the records can name, its own cur_head and two of every
\* other thread's, and the one it retires next; or as many as do not start a
\* scan.
GarbageBound ==
  \A t \in Thread :
    Len(Retired(t)) <= IF Threshold > 2 * N THEN Threshold ELSE 2 * N

-----------------------------------------------------------------------------
(* The inductive invariant of MSQueueHazardProofs, with ClearMemory        *)

Linked == ToSet(list)

\* The nodes of Retired(t), as a set
Held(t) == ToSet(free_list[t]) \cup ToSet(kept[t])
             \cup (IF pc[t] = "d_retire" THEN {cur_head[t]} ELSE {})

\* What has left the list has a successor, which it keeps.
HeldInv ==
  /\ Linked \subseteq heap
  /\ \A t \in Thread : \A n \in Held(t) :
       n \in heap /\ n \notin Linked /\ next[n] # Null
  /\ \A t, u \in Thread : t # u => Held(t) \cap Held(u) = {}

PrivateInv ==
  \A t \in Thread : \A n \in Private(t) :
    /\ n \in heap /\ n \notin Linked /\ next[n] = Null
    /\ \A u \in Thread \ {t} : n \notin Private(u)

NoLeakInv ==
  \A n \in heap : n \in Linked \/ \E t \in Thread : n \in Private(t) \cup Held(t)

ScanInv(t) ==
  /\ IsInjective(free_list[t]) /\ IsInjective(kept[t])
  /\ ToSet(free_list[t]) \cap ToSet(kept[t]) = {}
  /\ pc[t] # "s_free" => kept[t] = <<>>
  /\ pc[t] = "d_retire" => cur_head[t] \notin ToSet(free_list[t])
  /\ pc[t] = "s_load" => slot[t] < 2 * N

\* Hazard pointer k of t names n in time: n is not free, and a scan that
\* has it in its list either finds the pointer or has found it.
Safe(t, k, n) ==
  /\ hp[t][k] = n
  /\ n \in heap /\ (n \in Linked \/ next[n] # Null)
  /\ \A u \in Thread : n \in ToSet(free_list[u]) =>
       /\ pc[u] = "s_load" => slot[u] <= 2 * t + k \/ n \in ptr_list[u]
       /\ pc[u] = "s_free" => n \in ptr_list[u]

\* What t knows inside enqueue
EnqueueInv(t) ==
  /\ pc[t] = "e_safe" => hp[t][0] = cur_tail[t]
  /\ pc[t] \in {"e_next", "e_check", "e_link", "e_help", "e_swing"} =>
       Safe(t, 0, cur_tail[t])
  /\ pc[t] = "e_check" => lnext[t] \in {Null, next[cur_tail[t]]}
  /\ pc[t] = "e_link" => /\ lnext[t] = Null
                         /\ next[cur_tail[t]] = Null => tail = cur_tail[t]
  /\ pc[t] = "e_help" => lnext[t] # Null /\ lnext[t] = next[cur_tail[t]]
  /\ pc[t] = "e_swing" => node[t] # Null /\ node[t] = next[cur_tail[t]]
  /\ pc[t] \in EnqueuePC => node[t] # Null
  /\ pc[t] \in EnqueuePC \ {"e_tail"} => cur_tail[t] # Null

\* What t knows inside dequeue.  cur_tail was loaded after cur_head was found
\* to be head, so that it can differ only if cur_head has a successor.
DequeueInv(t) ==
  /\ pc[t] = "d_safe" => hp[t][0] = cur_head[t]
  /\ pc[t] \in DequeuePC \ {"d_head", "s_load", "s_free"} => cur_head[t] # Null
  /\ pc[t] \in {"d_tail", "d_next", "d_protect_next", "d_check", "d_help",
                 "d_value", "d_swing"} =>
       /\ Safe(t, 0, cur_head[t])
       /\ cur_head[t] \in Linked => cur_head[t] = head
  /\ pc[t] \in {"d_next", "d_protect_next", "d_check", "d_help", "d_value",
                 "d_swing"} =>
       /\ cur_tail[t] # Null
       /\ cur_tail[t] # cur_head[t] =>
            tail # cur_head[t] /\ next[cur_head[t]] # Null
  /\ pc[t] \in {"d_protect_next", "d_check", "d_help", "d_value", "d_swing"} =>
       /\ lnext[t] \in {Null, next[cur_head[t]]}
       /\ cur_tail[t] # cur_head[t] => lnext[t] # Null
  /\ pc[t] = "d_check" => hp[t][1] = lnext[t]
  /\ pc[t] = "d_help" => lnext[t] # Null /\ cur_tail[t] = cur_head[t]
  /\ pc[t] \in {"d_value", "d_swing"} =>
       cur_tail[t] # cur_head[t] /\ Safe(t, 1, lnext[t])

IInv == /\ TypeOK /\ ListIntact /\ IsInjective(list)
        /\ HeldInv /\ PrivateInv /\ NoLeakInv
        /\ \A t \in Thread : ScanInv(t) /\ EnqueueInv(t) /\ DequeueInv(t)

-----------------------------------------------------------------------------
(* Refinement of FifoQueue, as in MSQueueNoFree                            *)

queueBar == [i \in 1..(Len(list) - 1) |-> value[list[i + 1]]]

phaseBar ==
  [t \in Thread |->
     CASE pc[t] = "idle" -> "idle"
       [] pc[t] \in EnqueuePC \ {"e_swing"} -> "enq"
       [] pc[t] = "e_swing" -> "enqueued"
       [] pc[t] \in {"d_protect_next", "d_check"} /\ lnext[t] = Null -> "sawEmpty"
       [] pc[t] \in {"d_retire", "s_load", "s_free"} -> "dequeued"
       [] OTHER -> "deq"]

datumBar ==
  [t \in Thread |->
     IF pc[t] \in EnqueuePC \ {"e_swing"} THEN value[node[t]]
     ELSE IF pc[t] \in {"d_retire", "s_load", "s_free"}
             \/ (pc[t] = "idle" /\ ret[t] = "true")
     THEN out[t] ELSE NoValue]

Queue == INSTANCE FifoQueue
           WITH queue <- queueBar, phase <- phaseBar, datum <- datumBar

\* Deleting and reusing nodes does not show, with ClearMemory: every
\* behaviour is one of a linearizable FIFO queue.
Linearizable == Queue!Spec
=============================================================================
