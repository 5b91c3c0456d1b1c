------------------------ MODULE MSQueueCountedProofs ------------------------
(***************************************************************************)
(* Proofs about MSQueueCounted, for every set of threads, nodes and values *)
(* and whether or not deleted memory is used again, whatever it then reads *)
(* as (Residue): as long as the counters do not wrap, no node is deleted   *)
(* twice, head and tail stay on live nodes, and a dequeue that succeeds    *)
(* returns the value of the node it moves head to.  A link may be added to *)
(* a deleted node; it does not change the list.                            *)
(*                                                                         *)
(* Ranks (pos) are of no use here: with reuse a link may be added to a     *)
(* node that is not in the list (LinksAfterTheLast).  What remains true is *)
(* that next never joins two chains of live nodes at one node, and that it *)
(* leads from head to tail in as many steps as their counters are apart.   *)
(***************************************************************************)
EXTENDS MSQueueCounted, TLAPS

\* No counter has wrapped around, and none will in the next step: tail has
\* moved less than 2^32 - 1 times.
NoWrap == tail.count < CountMod - 1

\* pc values at which the node of an enqueue is still private to it
Inserting == EnqueuePC \ {"e_swing"}

Retired == {cur_head[t].ptr : t \in {u \in Thread : pc[u] = "d_return"}}

\* The nodes allocated and not dequeued
Live == heap \ Retired

\* Chains of live nodes never meet; head starts one, and a private node does.
ChainInv ==
  /\ \A n \in Live : next[n].ptr # Null => next[n].ptr \in Live \ {head.ptr}
  /\ \A m, n \in Live : next[m].ptr = next[n].ptr /\ next[n].ptr # Null => m = n
  /\ \A n \in heap \ Live : next[n].ptr # Null
  /\ \A t \in Thread : pc[t] \in Inserting =>
       /\ node[t] \in Live \ {head.ptr}
       /\ \A n \in Live : next[n].ptr # node[t]
       /\ \A u \in Thread : pc[u] \in Inserting /\ node[u] = node[t] => u = t

\* next leads from head to tail; path[c] is what tail pointed to when its
\* counter was c.
IsPath(path) ==
  /\ path[head.count] = head.ptr /\ path[tail.count] = tail.ptr
  /\ \A c \in head.count..tail.count :
       c < tail.count => next[path[c]].ptr = path[c + 1]
  /\ \A c, d \in head.count..tail.count : path[c] = path[d] => c = d

PathInv == /\ head.count <= tail.count
           /\ \E path \in [head.count..tail.count -> Live] : IsPath(path)

\* What an enqueue in progress knows.
EnqueueInv(t) ==
  /\ cur_tail[t].count <= tail.count
  /\ pc[t] \in EnqueuePC => node[t] \in Node
  /\ pc[t] \in EnqueuePC \ {"e_tail"} => cur_tail[t].ptr \in used
  /\ pc[t] = "e_link" => lnext[t].ptr = Null
  /\ pc[t] = "e_help" => lnext[t].ptr # Null
  /\ pc[t] \in {"e_check", "e_help"} /\ tail = cur_tail[t] /\ lnext[t].ptr # Null
       => next[tail.ptr].ptr = lnext[t].ptr
  /\ pc[t] = "e_swing" /\ tail = cur_tail[t] => next[tail.ptr].ptr = node[t]

\* What a dequeue in progress knows: most of it only as long as head, or
\* tail, has not moved since the dequeue loaded it.
DequeueInv(t) ==
  /\ cur_head[t].count <= head.count
  /\ pc[t] \in DequeuePC \ {"d_head"} => cur_head[t].ptr \in used
  /\ pc[t] \in {"d_next", "d_check", "d_value", "d_swing"}
       /\ head = cur_head[t] /\ cur_tail[t].ptr # cur_head[t].ptr =>
       tail.count > head.count
  /\ pc[t] \in {"d_check", "d_value", "d_swing"} /\ head = cur_head[t] =>
       /\ lnext[t].ptr # Null => next[head.ptr].ptr = lnext[t].ptr
       /\ cur_tail[t].ptr # cur_head[t].ptr => lnext[t].ptr # Null
  /\ pc[t] \in {"d_value", "d_swing"} => cur_tail[t].ptr # cur_head[t].ptr
  /\ pc[t] = "d_swing" /\ head = cur_head[t] => out[t] = value[lnext[t].ptr]
  /\ pc[t] = "d_help" => lnext[t].ptr # Null
  /\ pc[t] \in {"d_check", "d_help"} /\ tail = cur_tail[t]
       /\ (pc[t] = "d_help" \/ cur_tail[t].ptr = cur_head[t].ptr)
       /\ lnext[t].ptr # Null => next[tail.ptr].ptr = lnext[t].ptr

IInv ==
  /\ TypeOK /\ ChainInv /\ PathInv /\ DeleteOnce
  /\ \A t \in Thread : EnqueueInv(t) /\ DequeueInv(t)

USE NodeAssumption, ValueAssumption, CountAssumption, ResidueAssumption
    DEF EnqueuePC, DequeuePC, Inserting, Goto, NewNode, PointerType,
        shared, locals, caller, history

-----------------------------------------------------------------------------
(* Lemmas about the state                                                  *)

\* Counters are kept modulo CountMod, which changes none that is in range.
LEMMA CountFacts ==
  /\ \A c \in 0..(CountMod - 1) : c % CountMod = c
  /\ \A c \in Nat : c % CountMod \in 0..(CountMod - 1)
OBVIOUS

LEMMA PointerFacts ==
  /\ \A n, c : Pointer(n, c).ptr = n /\ Pointer(n, c).count = c % CountMod
  /\ \A n \in Node \cup {Null}, c \in Nat : Pointer(n, c) \in PointerType
  /\ \A c \in 0..(CountMod - 1) : \A n : Pointer(n, c).count = c
BY CountFacts DEF Pointer

LEMMA NullPointer ==
  /\ Pointer(Null, 0) \in PointerType
  /\ Pointer(Null, 0).ptr = Null /\ Pointer(Null, 0).count = 0
BY PointerFacts

\* head and tail are live, and head has a next unless it is tail.
LEMMA EndsAreLive ==
  ASSUME TypeOK, PathInv
  PROVE  /\ head.ptr \in Live /\ tail.ptr \in Live
         /\ head.count < tail.count => next[head.ptr].ptr \in Live
<1>1. PICK path \in [head.count..tail.count -> Live] : IsPath(path)
  BY DEF PathInv
<1>2. head.count \in Nat /\ tail.count \in Nat /\ head.count <= tail.count
  BY DEF TypeOK, PathInv
<1> QED BY <1>1, <1>2 DEF IsPath

\* Live nodes are allocated.
LEMMA LiveIsAllocated == TypeOK => Live \subseteq heap /\ Live \subseteq Node
BY DEF TypeOK, Live

LEMMA InitIInv == Init => IInv
<1> SUFFICES ASSUME Init PROVE IInv
  OBVIOUS
<1> USE PointerFacts DEF Init
<1>1. TypeOK
  BY DEF TypeOK
<1>2. Live = {Fake}
  BY DEF Live, Retired
<1>3. ChainInv
  BY <1>2 DEF ChainInv
<1>4. PathInv
  <2> DEFINE path == [c \in 0..0 |-> Fake]
  <2>1. head.count = 0 /\ tail.count = 0 /\ 0..0 = {0}
    OBVIOUS
  <2>2. path \in [head.count..tail.count -> Live]
    BY <1>2, <2>1
  <2>3. IsPath(path)
    BY <2>1 DEF IsPath
  <2> HIDE DEF path
  <2> QED BY <2>1, <2>2, <2>3 DEF PathInv
<1>5. DeleteOnce
  BY DEF DeleteOnce
<1>6. ASSUME NEW t \in Thread PROVE EnqueueInv(t) /\ DequeueInv(t)
  BY DEF EnqueueInv, DequeueInv
<1> QED BY <1>1, <1>3, <1>4, <1>5, <1>6 DEF IInv

-----------------------------------------------------------------------------
(* The steps: what each does to the chains and to the path                 *)

\* What a step of t leaves alone
Others(t) ==
  \A u \in Thread \ {t} :
    /\ pc'[u] = pc[u] /\ node'[u] = node[u] /\ cur_head'[u] = cur_head[u]
    /\ cur_tail'[u] = cur_tail[u] /\ lnext'[u] = lnext[u] /\ out'[u] = out[u]

\* A step that neither retires nor deletes a node
LEMMA RetiredStays ==
  ASSUME NEW t \in Thread, Others(t), pc[t] # "d_return", pc'[t] # "d_return"
  PROVE  Retired' = Retired
BY DEF Others, Retired

\* A step that writes to no node, and moves neither head nor tail
LEMMA ListStays ==
  ASSUME IInv, NEW t \in Thread, Others(t), UNCHANGED shared,
         pc[t] # "d_return", pc'[t] # "d_return",
         pc'[t] \in Inserting => pc[t] \in Inserting /\ node'[t] = node[t]
  PROVE  Live' = Live /\ ChainInv' /\ PathInv' /\ DeleteOnce'
<1>1. Live' = Live
  BY RetiredStays DEF Live
<1>2. ChainInv'
  BY <1>1 DEF IInv, ChainInv, Others
<1>3. PathInv'
  <2>1. PICK path \in [head.count..tail.count -> Live] : IsPath(path)
    BY DEF IInv, PathInv
  <2>2. IsPath(path)'
    BY <2>1 DEF IsPath
  <2> QED BY <1>1, <2>1, <2>2 DEF IInv, PathInv
<1>4. DeleteOnce'
  BY DEF IInv, DeleteOnce, Others
<1> QED BY <1>1, <1>2, <1>3, <1>4

\* A new node: it was not live, so nothing leads to it.
LEMMA AllocationKeepsList ==
  ASSUME IInv, NEW t \in Thread, Others(t), NEW n \in Node \ heap, NEW v,
         heap' = heap \cup {n}, used' = used \cup {n}, NewNode(n, v),
         UNCHANGED <<head, tail>>, node'[t] = n,
         pc[t] = "idle", pc'[t] = "e_tail"
  PROVE  Live' = Live \cup {n} /\ ChainInv' /\ PathInv' /\ DeleteOnce'
<1>0. n \notin Live /\ n \notin Retired /\ Retired' = Retired
  BY RetiredStays DEF IInv, DeleteOnce, Live, Retired
<1>1. Live' = Live \cup {n}
  BY <1>0 DEF Live
<1>2. /\ next \in [Node -> PointerType] /\ Live \subseteq Node
      /\ used \subseteq Node /\ head.ptr \in Live
      /\ next' = [next EXCEPT ![n] = Pointer(Null, 0)]
      /\ Pointer(Null, 0).ptr = Null
  BY LiveIsAllocated, EndsAreLive, PointerFacts DEF IInv, TypeOK
<1>3. ChainInv'
  BY <1>0, <1>1, <1>2 DEF IInv, ChainInv, Others
<1>4. PathInv'
  <2>1. PICK path \in [head.count..tail.count -> Live] : IsPath(path)
    BY DEF IInv, PathInv
  <2>2. path \in [head.count..tail.count -> Live \cup {n}]
    BY <2>1
  <2>3. IsPath(path)'
    BY <1>0, <1>2, <2>1 DEF IsPath
  <2> QED BY <1>1, <2>2, <2>3 DEF IInv, PathInv
<1>5. DeleteOnce'
  BY DEF IInv, DeleteOnce, Others
<1> QED BY <1>1, <1>3, <1>4, <1>5

\* A link in a node that is allocated: wherever it is added, it leads to a
\* node without predecessor.
LEMMA LinkKeepsList ==
  ASSUME IInv, NEW t \in Thread, Others(t), pc[t] \in Inserting,
         pc'[t] = "e_swing", UNCHANGED <<head, tail, heap, used, node, cur_head>>,
         NEW x \in heap, NEW c \in Nat, next[x].ptr = Null,
         next' = [next EXCEPT ![x] = Pointer(node[t], c)]
  PROVE  Live' = Live /\ x \in Live /\ ChainInv' /\ PathInv' /\ DeleteOnce'
<1>0. /\ x \in Live /\ x \in Node /\ node[t] \in Live \ {head.ptr}
      /\ node[t] # Null /\ Live \subseteq Node
      /\ next \in [Node -> PointerType] /\ used \subseteq Node
      /\ Pointer(node[t], c).ptr = node[t]
  BY LiveIsAllocated, PointerFacts DEF IInv, TypeOK, ChainInv
<1>1. Live' = Live
  BY RetiredStays DEF Live
<1>2. ChainInv'
  BY <1>0, <1>1 DEF IInv, ChainInv, Others
<1>3. PathInv'
  <2>1. PICK path \in [head.count..tail.count -> Live] : IsPath(path)
    BY DEF IInv, PathInv
  <2>2. IsPath(path)'
    BY <1>0, <2>1 DEF IsPath, IInv, TypeOK
  <2> QED BY <1>1, <2>1, <2>2 DEF IInv, PathInv
<1>4. DeleteOnce'
  BY DEF IInv, DeleteOnce, Others
<1> QED BY <1>0, <1>1, <1>2, <1>3, <1>4

\* A link in deleted memory: no node of the list is there.
LEMMA LateLinkKeepsList ==
  ASSUME IInv, NEW t \in Thread, Others(t), pc[t] \in Inserting,
         pc'[t] = "e_swing", UNCHANGED <<head, tail, heap, used, node, cur_head>>,
         NEW x \in Node \ heap, NEW p, next' = [next EXCEPT ![x] = p]
  PROVE  Live' = Live /\ x \notin Live /\ ChainInv' /\ PathInv' /\ DeleteOnce'
<1>0. x \notin Live /\ Live \subseteq heap
  BY DEF Live
<1>1. Live' = Live
  BY RetiredStays DEF Live
<1>2. \A n \in heap : next'[n] = next[n]
  BY DEF IInv, TypeOK
<1>3. ChainInv'
  BY <1>0, <1>1, <1>2 DEF IInv, ChainInv, Others
<1>4. PathInv'
  <2>1. PICK path \in [head.count..tail.count -> Live] : IsPath(path)
    BY DEF IInv, PathInv
  <2>2. IsPath(path)'
    BY <1>0, <1>2, <2>1 DEF IsPath
  <2> QED BY <1>1, <2>1, <2>2 DEF IInv, PathInv
<1>5. DeleteOnce'
  BY DEF IInv, DeleteOnce, Others
<1> QED BY <1>0, <1>1, <1>3, <1>4, <1>5

\* tail moves to its next: the path gets one node longer.
LEMMA TailMoveKeepsList ==
  ASSUME IInv, NoWrap, NEW t \in Thread, Others(t),
         pc[t] # "d_return", pc'[t] # "d_return",
         pc'[t] \in Inserting => pc[t] \in Inserting /\ node'[t] = node[t],
         UNCHANGED <<head, next, heap, used>>,
         next[tail.ptr].ptr # Null,
         tail' = Pointer(next[tail.ptr].ptr, tail.count + 1)
  PROVE  Live' = Live /\ ChainInv' /\ PathInv' /\ DeleteOnce'
<1> DEFINE n == next[tail.ptr].ptr
<1>0. /\ head.count \in Nat /\ tail.count \in Nat /\ head.count <= tail.count
      /\ tail'.count = tail.count + 1 /\ tail'.ptr = n
      /\ tail.ptr \in Live /\ n \in Live \ {head.ptr}
  <2>1. tail.count \in 0..(CountMod - 1) /\ tail.count + 1 \in 0..(CountMod - 1)
    BY DEF IInv, TypeOK, NoWrap
  <2>2. tail'.count = tail.count + 1 /\ tail'.ptr = n
    BY <2>1, PointerFacts
  <2>3. tail.ptr \in Live
    BY EndsAreLive DEF IInv
  <2> QED BY <2>1, <2>2, <2>3 DEF IInv, TypeOK, PathInv, ChainInv
<1>1. Live' = Live
  BY RetiredStays DEF Live
<1>2. ChainInv'
  BY <1>1 DEF IInv, ChainInv, Others
<1>3. PathInv'
  <2>1. PICK path \in [head.count..tail.count -> Live] : IsPath(path)
    BY DEF IInv, PathInv
  <2>2. PICK longer \in [head.count..(tail.count + 1) -> Live] :
          \A c \in head.count..(tail.count + 1) :
            longer[c] = IF c = tail.count + 1 THEN n ELSE path[c]
    <3> DEFINE f == [c \in head.count..(tail.count + 1) |->
                      IF c = tail.count + 1 THEN n ELSE path[c]]
    <3>1. f \in [head.count..(tail.count + 1) -> Live]
      BY <1>0, <2>1
    <3> QED BY <3>1
  <2>3. ASSUME NEW c \in head.count..tail.count PROVE path[c] # n
    <3>1. CASE c = head.count
      BY <1>0, <2>1, <3>1 DEF IsPath
    <3>2. CASE c # head.count
      <4>1. /\ c - 1 \in head.count..tail.count /\ c - 1 < tail.count
            /\ path[c - 1] \in Live /\ tail.count \in head.count..tail.count
        BY <1>0, <2>1, <3>2
      <4>2. next[path[c - 1]].ptr = path[c]
        BY <1>0, <2>1, <4>1 DEF IsPath
      <4>3. path[c - 1] # tail.ptr
        BY <2>1, <4>1 DEF IsPath
      <4> QED BY <1>0, <4>1, <4>2, <4>3 DEF IInv, ChainInv
    <3> QED BY <3>1, <3>2
  <2>4. IsPath(longer)'
    <3>1. head.count \in head.count..tail.count /\ head' = head
      BY <1>0
    <3>2. /\ longer[head.count] = head.ptr /\ longer[tail.count] = tail.ptr
          /\ longer[tail.count + 1] = n
      BY <1>0, <2>1, <2>2, <3>1 DEF IsPath
    <3>3. ASSUME NEW c \in head.count..(tail.count + 1), c < tail.count + 1
          PROVE  next[longer[c]].ptr = longer[c + 1]
      BY <1>0, <2>1, <2>2, <3>2, <3>3 DEF IsPath
    <3>4. ASSUME NEW c \in head.count..(tail.count + 1),
                 NEW d \in head.count..(tail.count + 1), longer[c] = longer[d]
          PROVE  c = d
      <4>1. CASE c \in head.count..tail.count /\ d \in head.count..tail.count
        BY <1>0, <2>1, <2>2, <3>4, <4>1 DEF IsPath
      <4>2. CASE c = tail.count + 1 /\ d \in head.count..tail.count
        BY <1>0, <2>2, <2>3, <3>4, <4>2
      <4>3. CASE d = tail.count + 1 /\ c \in head.count..tail.count
        BY <1>0, <2>2, <2>3, <3>4, <4>3
      <4> QED BY <1>0, <4>1, <4>2, <4>3
    <3> QED BY <1>0, <3>1, <3>2, <3>3, <3>4 DEF IsPath
  <2> HIDE DEF n
  <2> QED BY <1>0, <1>1, <2>2, <2>4 DEF PathInv
<1>4. DeleteOnce'
  BY DEF IInv, DeleteOnce, Others
<1> QED BY <1>1, <1>2, <1>3, <1>4

\* head moves to its next: the path loses its first node, which is retired.
LEMMA HeadMoveKeepsList ==
  ASSUME IInv, NEW t \in Thread, Others(t),
         pc[t] = "d_swing", pc'[t] = "d_return", pc' = [pc EXCEPT ![t] = "d_return"],
         head = cur_head[t], head.count < tail.count,
         UNCHANGED <<tail, next, heap, used, node, cur_head>>,
         head' = Pointer(next[head.ptr].ptr, head.count + 1)
  PROVE  Live' = Live \ {head.ptr} /\ ChainInv' /\ PathInv' /\ DeleteOnce'
<1> DEFINE n == next[head.ptr].ptr
<1>0. /\ head.count \in Nat /\ tail.count \in Nat
      /\ head'.count = head.count + 1 /\ head'.ptr = n
      /\ head.ptr \in Live /\ n \in Live \ {head.ptr} /\ Null \notin Live
  <2>1. head.count \in 0..(CountMod - 1) /\ head.count + 1 \in 0..(CountMod - 1)
    BY DEF IInv, TypeOK
  <2>2. head'.count = head.count + 1 /\ head'.ptr = n
    BY <2>1, PointerFacts
  <2>3. head.ptr \in Live /\ n \in Live /\ Null \notin Live
    BY EndsAreLive, LiveIsAllocated DEF IInv
  <2> QED BY <2>1, <2>2, <2>3 DEF IInv, TypeOK, ChainInv
<1>1. Retired' = Retired \cup {head.ptr}
  BY DEF Retired
<1>2. Live' = Live \ {head.ptr}
  BY <1>1 DEF Live
<1>3. ChainInv'
  <2> USE <1>0, <1>2
  <2>1. \A m \in Live' : next[m].ptr # Null => next[m].ptr \in Live' \ {n}
    BY DEF IInv, ChainInv
  <2>2. \A m \in heap \ Live' : next[m].ptr # Null
    BY DEF IInv, ChainInv
  <2>3. ASSUME NEW u \in Thread, pc'[u] \in Inserting
        PROVE  /\ node[u] \in Live' \ {n} /\ \A m \in Live' : next[m].ptr # node[u]
               /\ \A v \in Thread :
                    pc'[v] \in Inserting /\ node[v] = node[u] => v = u
    BY <2>3 DEF IInv, ChainInv, TypeOK
  <2>4. \A l, m \in Live' : next[l].ptr = next[m].ptr /\ next[m].ptr # Null => l = m
    BY DEF IInv, ChainInv
  <2>5. /\ next' = next /\ heap' = heap /\ node' = node /\ head'.ptr = n
        /\ \A m \in Live' : next[m].ptr # Null =>
             next[m].ptr \in Live' \ {head'.ptr}
    BY <2>1
  <2>6. \A u \in Thread : pc'[u] \in Inserting =>
          /\ node[u] \in Live' \ {head'.ptr} /\ \A m \in Live' : next[m].ptr # node[u]
          /\ \A v \in Thread :
               pc'[v] \in Inserting /\ node[v] = node[u] => v = u
    BY <2>3
  <2> HIDE <1>0, <1>2 DEF n, Inserting
  <2>7. \A m \in Live' : next'[m].ptr # Null =>
          next'[m].ptr \in Live' \ {head'.ptr}
    BY <2>5
  <2>8. \A l, m \in Live' : next'[l].ptr = next'[m].ptr /\ next'[m].ptr # Null => l = m
    BY <2>4, <2>5
  <2>9. \A m \in heap' \ Live' : next'[m].ptr # Null
    BY <2>2, <2>5
  <2>10. \A u \in Thread : pc'[u] \in Inserting =>
           /\ node'[u] \in Live' \ {head'.ptr}
           /\ \A m \in Live' : next'[m].ptr # node'[u]
           /\ \A v \in Thread :
                pc'[v] \in Inserting /\ node'[v] = node'[u] => v = u
    BY <2>5, <2>6
  <2> HIDE <2>1, <2>2, <2>3, <2>4, <2>5, <2>6
  <2> QED BY <2>7, <2>8, <2>9, <2>10 DEF ChainInv, Inserting
<1>4. PathInv'
  <2>1. PICK path \in [head.count..tail.count -> Live] : IsPath(path)
    BY DEF IInv, PathInv
  <2>2. PICK rest \in [(head.count + 1)..tail.count -> Live] :
          \A c \in (head.count + 1)..tail.count : rest[c] = path[c]
    <3> DEFINE f == [c \in (head.count + 1)..tail.count |-> path[c]]
    <3>1. f \in [(head.count + 1)..tail.count -> Live]
      BY <1>0, <2>1
    <3> QED BY <3>1
  <2>3. \A c \in (head.count + 1)..tail.count : rest[c] # head.ptr
    BY <1>0, <2>1, <2>2 DEF IsPath
  <2>4. rest \in [(head.count + 1)..tail.count -> Live \ {head.ptr}]
    BY <2>2, <2>3
  <2>5. rest[head.count + 1] = n /\ rest[tail.count] = tail.ptr
    <3>1. head.count + 1 \in (head.count + 1)..tail.count
          /\ tail.count \in (head.count + 1)..tail.count
          /\ head.count \in head.count..tail.count /\ head.count < tail.count
      BY <1>0
    <3>2. rest[head.count + 1] = path[head.count + 1]
          /\ rest[tail.count] = path[tail.count]
      BY <2>2, <3>1
    <3>3. next[path[head.count]].ptr = path[head.count + 1]
          /\ path[head.count] = head.ptr /\ path[tail.count] = tail.ptr
      BY <2>1, <3>1 DEF IsPath
    <3> QED BY <3>2, <3>3
  <2>6. IsPath(rest)'
    <3>1. \A c \in (head.count + 1)..tail.count : c \in head.count..tail.count
      BY <1>0
    <3>2. ASSUME NEW c \in (head.count + 1)..tail.count, c < tail.count
          PROVE  next[rest[c]].ptr = rest[c + 1]
      <4>1. c + 1 \in (head.count + 1)..tail.count
        BY <1>0, <3>2
      <4> QED BY <2>1, <2>2, <3>1, <3>2, <4>1 DEF IsPath
    <3>3. \A c, d \in (head.count + 1)..tail.count : rest[c] = rest[d] => c = d
      BY <2>1, <2>2, <3>1 DEF IsPath
    <3>4. /\ next' = next /\ tail' = tail /\ head'.count = head.count + 1
          /\ head'.ptr = n
      BY <1>0
    <3> HIDE DEF n
    <3>5. rest[head'.count] = head'.ptr /\ rest[tail'.count] = tail'.ptr
      BY <2>5, <3>4
    <3>6. head'.count..tail'.count = (head.count + 1)..tail.count
      BY <3>4
    <3>7. \A c \in head'.count..tail'.count :
            c < tail'.count => next'[rest[c]].ptr = rest[c + 1]
      BY <3>2, <3>4, <3>6
    <3>8. \A c, d \in head'.count..tail'.count : rest[c] = rest[d] => c = d
      BY <3>3, <3>6
    <3> HIDE <1>0, <1>2, <3>1, <3>2, <3>3, <3>4, <3>6
    <3> QED BY <3>5, <3>7, <3>8 DEF IsPath
  <2>7. /\ head'.count = head.count + 1 /\ tail' = tail
        /\ head.count + 1 <= tail.count
    BY <1>0
  <2>8. rest \in [head'.count..tail'.count -> Live']
    BY <1>2, <2>4, <2>7
  <2>9. head'.count <= tail'.count
    BY <2>7
  <2> HIDE <1>0, <1>2
  <2> QED BY <2>6, <2>8, <2>9 DEF PathInv
<1>5. DeleteOnce'
  <2>1. head.ptr \in heap /\ head.ptr \notin Retired
    BY <1>0 DEF Live
  <2> QED BY <2>1 DEF IInv, DeleteOnce, Others, Retired
<1> QED BY <1>2, <1>3, <1>4, <1>5

\* A deletion: only one thread has retired the node.
LEMMA DeletionKeepsList ==
  ASSUME IInv, NEW t \in Thread, Others(t), pc[t] = "d_return",
         pc' = [pc EXCEPT ![t] = "idle"], heap' = heap \ {cur_head[t].ptr},
         UNCHANGED <<head, tail, next, used, node>>
  PROVE  Live' = Live /\ ChainInv' /\ PathInv' /\ DeleteOnce'
<1>1. Retired' = Retired \ {cur_head[t].ptr} /\ cur_head[t].ptr \in Retired
  <2>1. \A u \in Thread : pc[u] = "d_return" /\ u # t =>
          cur_head[u].ptr # cur_head[t].ptr
    BY DEF IInv, DeleteOnce
  <2>2. \A u \in Thread : pc'[u] = "d_return" <=> pc[u] = "d_return" /\ u # t
    BY DEF IInv, TypeOK
  <2>3. \A u \in Thread : u # t => cur_head'[u] = cur_head[u]
    BY DEF Others
  <2> QED BY <2>1, <2>2, <2>3 DEF Retired
<1>2. Live' = Live
  BY <1>1 DEF Live
<1>3. ChainInv'
  BY <1>2 DEF IInv, ChainInv, Others
<1>4. PathInv'
  <2>1. PICK path \in [head.count..tail.count -> Live] : IsPath(path)
    BY DEF IInv, PathInv
  <2>2. IsPath(path)'
    BY <2>1 DEF IsPath
  <2> QED BY <1>2, <2>1, <2>2 DEF IInv, PathInv
<1>5. DeleteOnce'
  BY DEF IInv, TypeOK, DeleteOnce, Others
<1> QED BY <1>2, <1>3, <1>4, <1>5

-----------------------------------------------------------------------------
(* What the other threads rely on: the counters of head and tail grow      *)
(* whenever these move, and live nodes keep their values and their links.  *)

Evolves ==
  /\ head' = head \/ head.count < head'.count
  /\ tail' = tail \/ tail.count < tail'.count
  /\ {head'.count, tail'.count} \subseteq Nat
  /\ used \subseteq used'
  /\ \A n \in Live : /\ value'[n] = value[n]
                     /\ next[n].ptr # Null => next'[n] = next[n]

LEMMA OthersKeepInv ==
  ASSUME IInv, NEW t \in Thread, Others(t), Evolves, NEW u \in Thread, u # t
  PROVE  EnqueueInv(u)' /\ DequeueInv(u)'
<1> USE DEF Others, Evolves
<1>1. /\ head.count \in Nat /\ tail.count \in Nat
      /\ cur_head[u].count \in Nat /\ cur_tail[u].count \in Nat
      /\ head.ptr \in Live /\ tail.ptr \in Live
      /\ cur_head[u].count <= head.count /\ cur_tail[u].count <= tail.count
  BY EndsAreLive DEF IInv, TypeOK, EnqueueInv, DequeueInv
<1>2. /\ head' = cur_head[u] => head' = head
      /\ tail' = cur_tail[u] => tail' = tail
      /\ head.count <= head'.count /\ tail.count <= tail'.count
  BY <1>1
<1>3. EnqueueInv(u)'
  BY <1>1, <1>2 DEF IInv, EnqueueInv
<1>4. pc[u] = "d_swing" /\ head' = cur_head[u] => lnext[u].ptr \in Live
  BY <1>1, <1>2 DEF IInv, DequeueInv, ChainInv
<1>5. DequeueInv(u)'
  BY <1>1, <1>2, <1>4 DEF IInv, DequeueInv
<1> QED BY <1>3, <1>5

\* What remains to be shown of a step of t
LEMMA StepKeepsIInv ==
  ASSUME IInv, NEW t \in Thread, Others(t), Evolves,
         TypeOK',
         ChainInv' /\ PathInv' /\ DeleteOnce', EnqueueInv(t)' /\ DequeueInv(t)'
  PROVE  IInv'
BY OthersKeepInv DEF IInv

-----------------------------------------------------------------------------
(* The actions                                                             *)

LEMMA CallKeepsIInv ==
  ASSUME IInv, NEW t \in Thread, Call(t)
  PROVE  IInv'
<1>0. /\ TypeOK
      /\ EnqueueInv(t) /\ DequeueInv(t)
  BY DEF IInv
<1>1. CASE DequeueCall(t)
  <2> USE <1>1 DEF DequeueCall
  <2>1. TypeOK'
    BY <1>0 DEF TypeOK
  <2>2. Others(t) /\ Evolves /\ pc[t] = "idle" /\ pc'[t] = "d_head"
    BY <1>0 DEF TypeOK, Others, Evolves
  <2>3. ChainInv' /\ PathInv' /\ DeleteOnce'
    BY <2>2, ListStays
  <2>4. EnqueueInv(t)' /\ DequeueInv(t)'
    BY <1>0, <2>2 DEF EnqueueInv, DequeueInv
  <2> QED BY <2>1, <2>2, <2>3, <2>4, StepKeepsIInv
<1>2. ASSUME NEW v \in Value, EnqueueCall(t, v) PROVE IInv'
  <2> USE <1>2 DEF EnqueueCall
  <2>1. PICK n \in Fresh : /\ heap' = heap \cup {n} /\ used' = used \cup {n}
                           /\ NewNode(n, v) /\ node' = [node EXCEPT ![t] = n]
                           /\ pos' = [pos EXCEPT ![n] = 0]
    OBVIOUS
  <2>2. n \in Node \ heap /\ n \notin Live
    BY <1>0, <2>1 DEF Fresh, TypeOK, Live
  <2>3. TypeOK'
    BY <1>0, <2>1, <2>2, NullPointer DEF TypeOK
  <2>4. /\ Others(t) /\ Evolves /\ pc[t] = "idle" /\ pc'[t] = "e_tail"
        /\ node'[t] = n
    BY <1>0, <2>1, <2>2, LiveIsAllocated DEF TypeOK, Others, Evolves
  <2>5. ChainInv' /\ PathInv' /\ DeleteOnce'
    BY <2>1, <2>2, <2>4, AllocationKeepsList
  <2>6. EnqueueInv(t)' /\ DequeueInv(t)'
    BY <1>0, <2>2, <2>4 DEF EnqueueInv, DequeueInv
  <2> QED BY <2>3, <2>4, <2>5, <2>6, StepKeepsIInv
<1> QED BY <1>1, <1>2 DEF Call

LEMMA EnqueueStepKeepsIInv ==
  ASSUME IInv, NoWrap, NEW t \in Thread, EnqueueStep(t)
  PROVE  IInv'
<1>0. /\ TypeOK
      /\ EnqueueInv(t) /\ DequeueInv(t)
      /\ head.ptr \in Live /\ tail.ptr \in Live /\ Live \subseteq used
  BY EndsAreLive, LiveIsAllocated DEF IInv, TypeOK
<1>1. CASE EnqueueLoadTail(t)
  <2> USE <1>1 DEF EnqueueLoadTail
  <2>1. TypeOK'
    BY <1>0, NullPointer DEF TypeOK
  <2>2. Others(t) /\ Evolves
    BY <1>0 DEF TypeOK, Others, Evolves
  <2>3. ChainInv' /\ PathInv' /\ DeleteOnce'
    BY <1>0, <2>2, ListStays DEF TypeOK
  <2>4. EnqueueInv(t)' /\ DequeueInv(t)'
    BY <1>0, NullPointer DEF TypeOK, EnqueueInv, DequeueInv
  <2> QED BY <2>1, <2>2, <2>3, <2>4, StepKeepsIInv
<1>2. CASE EnqueueLoadNext(t)
  <2> USE <1>2 DEF EnqueueLoadNext
  <2>0. PICK p \in PointerType :
          /\ lnext' = [lnext EXCEPT ![t] = p]
          /\ cur_tail[t].ptr \in heap => p = next[cur_tail[t].ptr]
    BY <1>0 DEF TypeOK, EnqueueInv, NextAt
  <2>1. TypeOK'
    BY <1>0, <2>0 DEF TypeOK
  <2>2. Others(t) /\ Evolves
    BY <1>0, <2>0 DEF TypeOK, Others, Evolves
  <2>3. ChainInv' /\ PathInv' /\ DeleteOnce'
    BY <1>0, <2>2, ListStays DEF TypeOK
  <2>4. EnqueueInv(t)' /\ DequeueInv(t)'
    BY <1>0, <2>0, LiveIsAllocated DEF TypeOK, EnqueueInv, DequeueInv
  <2> QED BY <2>1, <2>2, <2>3, <2>4, StepKeepsIInv
<1>3. CASE EnqueueCheckTail(t)
  <2> USE <1>3 DEF EnqueueCheckTail
  <2>1. TypeOK'
    BY <1>0, NullPointer DEF TypeOK
  <2>2. Others(t) /\ Evolves
    BY <1>0 DEF TypeOK, Others, Evolves
  <2>3. ChainInv' /\ PathInv' /\ DeleteOnce'
    BY <1>0, <2>2, ListStays DEF TypeOK
  <2>4. EnqueueInv(t)' /\ DequeueInv(t)'
    BY <1>0, NullPointer DEF TypeOK, EnqueueInv, DequeueInv
  <2> QED BY <2>1, <2>2, <2>3, <2>4, StepKeepsIInv
<1>4. CASE EnqueueLink(t)
  <2> USE <1>4 DEF EnqueueLink
  <2> DEFINE x == cur_tail[t].ptr
             p == Pointer(node[t], lnext[t].count + 1)
  <2>1. /\ x \in Node /\ (x \in heap => next[x].ptr = Null)
        /\ pc[t] \in Inserting /\ pc'[t] = "e_swing" /\ Others(t)
        /\ lnext[t].count + 1 \in Nat /\ UNCHANGED cur_head
        /\ next' = [next EXCEPT ![x] = p] /\ next[x] \in PointerType
    BY <1>0 DEF TypeOK, EnqueueInv, Others, NextAt
  <2>2. /\ Live' = Live /\ (x \in Live => next[x].ptr = Null)
        /\ ChainInv' /\ PathInv' /\ DeleteOnce'
    <3> HIDE DEF x
    <3>1. CASE x \in heap
      BY <2>1, <3>1, LinkKeepsList
    <3>2. CASE x \notin heap
      <4> HIDE DEF p
      <4> QED BY <2>1, <3>2, LateLinkKeepsList
    <3> QED BY <3>1, <3>2
  <2>3. TypeOK'
    <3>1. p \in PointerType
      BY <1>0, <2>1, PointerFacts DEF TypeOK, EnqueueInv
    <3> QED BY <1>0, <2>1, <3>1 DEF TypeOK, EnqueueInv
  <2>4. Evolves
    BY <1>0, <2>1, <2>2 DEF TypeOK, Evolves
  <2>5. EnqueueInv(t)' /\ DequeueInv(t)'
    BY <1>0, <2>1, PointerFacts DEF TypeOK, EnqueueInv, DequeueInv
  <2> QED BY <2>1, <2>2, <2>3, <2>4, <2>5, StepKeepsIInv
<1>5. CASE EnqueueLinkFails(t)
  <2> USE <1>5 DEF EnqueueLinkFails
  <2>1. TypeOK'
    BY <1>0, NullPointer DEF TypeOK
  <2>2. Others(t) /\ Evolves
    BY <1>0 DEF TypeOK, Others, Evolves
  <2>3. ChainInv' /\ PathInv' /\ DeleteOnce'
    BY <1>0, <2>2, ListStays DEF TypeOK
  <2>4. EnqueueInv(t)' /\ DequeueInv(t)'
    BY <1>0, NullPointer DEF TypeOK, EnqueueInv, DequeueInv
  <2> QED BY <2>1, <2>2, <2>3, <2>4, StepKeepsIInv
<1>6. CASE EnqueueHelpTail(t)
  <2> USE <1>6 DEF EnqueueHelpTail, CasTail
  <2>1. CASE tail # cur_tail[t]
    <3>1. TypeOK'
      BY <1>0, <2>1, NullPointer DEF TypeOK
    <3>2. Others(t) /\ Evolves
      BY <1>0, <2>1 DEF TypeOK, Others, Evolves
    <3>3. ChainInv' /\ PathInv' /\ DeleteOnce'
      BY <1>0, <2>1, <3>2, ListStays
    <3>4. EnqueueInv(t)' /\ DequeueInv(t)'
      BY <1>0, <2>1, PointerFacts DEF TypeOK, EnqueueInv, DequeueInv
    <3> QED BY <3>1, <3>2, <3>3, <3>4, StepKeepsIInv
  <2>2. CASE tail = cur_tail[t]
    <3>0. /\ next[tail.ptr].ptr = lnext[t].ptr /\ lnext[t].ptr \in Node
          /\ tail' = Pointer(lnext[t].ptr, tail.count + 1)
          /\ tail'.ptr = lnext[t].ptr /\ tail'.count = tail.count + 1
          /\ tail' \in PointerType
      BY <1>0, <2>2, PointerFacts DEF TypeOK, NoWrap, EnqueueInv, DequeueInv
    <3>1. TypeOK'
      BY <1>0, <3>0, NullPointer DEF TypeOK
    <3>2. Others(t) /\ Evolves
      BY <1>0, <3>0 DEF TypeOK, Others, Evolves
    <3>3. ChainInv' /\ PathInv' /\ DeleteOnce'
      BY <1>0, <3>0, <3>2, TailMoveKeepsList
    <3>4. EnqueueInv(t)' /\ DequeueInv(t)'
      BY <1>0, <3>0, <3>1, PointerFacts DEF TypeOK, EnqueueInv, DequeueInv
    <3> QED BY <3>1, <3>2, <3>3, <3>4, StepKeepsIInv
  <2> QED BY <2>1, <2>2
<1>7. CASE EnqueueSwingTail(t)
  <2> USE <1>7 DEF EnqueueSwingTail, CasTail
  <2>1. CASE tail # cur_tail[t]
    <3>1. TypeOK'
      BY <1>0, <2>1, NullPointer DEF TypeOK
    <3>2. Others(t) /\ Evolves
      BY <1>0, <2>1 DEF TypeOK, Others, Evolves
    <3>3. ChainInv' /\ PathInv' /\ DeleteOnce'
      BY <1>0, <2>1, <3>2, ListStays
    <3>4. EnqueueInv(t)' /\ DequeueInv(t)'
      BY <1>0, <2>1, PointerFacts DEF TypeOK, EnqueueInv, DequeueInv
    <3> QED BY <3>1, <3>2, <3>3, <3>4, StepKeepsIInv
  <2>2. CASE tail = cur_tail[t]
    <3>0. /\ next[tail.ptr].ptr = node[t] /\ node[t] \in Node
          /\ tail' = Pointer(node[t], tail.count + 1)
          /\ tail'.ptr = node[t] /\ tail'.count = tail.count + 1
          /\ tail' \in PointerType
      BY <1>0, <2>2, PointerFacts DEF TypeOK, NoWrap, EnqueueInv, DequeueInv
    <3>1. TypeOK'
      BY <1>0, <3>0, NullPointer DEF TypeOK
    <3>2. Others(t) /\ Evolves
      BY <1>0, <3>0 DEF TypeOK, Others, Evolves
    <3>3. ChainInv' /\ PathInv' /\ DeleteOnce'
      BY <1>0, <3>0, <3>2, TailMoveKeepsList
    <3>4. EnqueueInv(t)' /\ DequeueInv(t)'
      BY <1>0, <3>0, <3>1, PointerFacts DEF TypeOK, EnqueueInv, DequeueInv
    <3> QED BY <3>1, <3>2, <3>3, <3>4, StepKeepsIInv
  <2> QED BY <2>1, <2>2
<1> QED BY <1>1, <1>2, <1>3, <1>4, <1>5, <1>6, <1>7 DEF EnqueueStep

LEMMA DequeueStepKeepsIInv ==
  ASSUME IInv, NoWrap, NEW t \in Thread, DequeueStep(t)
  PROVE  IInv'
<1>0. /\ TypeOK
      /\ EnqueueInv(t) /\ DequeueInv(t)
      /\ head.ptr \in Live /\ tail.ptr \in Live /\ Live \subseteq used
      /\ Live \subseteq heap /\ head.count <= tail.count
      /\ head.count < tail.count => next[head.ptr].ptr \in Live
  BY EndsAreLive, LiveIsAllocated DEF IInv, TypeOK, PathInv
<1>1. CASE DequeueLoadHead(t)
  <2> USE <1>1 DEF DequeueLoadHead
  <2>1. TypeOK'
    BY <1>0, NullPointer DEF TypeOK
  <2>2. Others(t) /\ Evolves
    BY <1>0 DEF TypeOK, Others, Evolves
  <2>3. ChainInv' /\ PathInv' /\ DeleteOnce'
    BY <1>0, <2>2, ListStays DEF TypeOK
  <2>4. EnqueueInv(t)' /\ DequeueInv(t)'
    BY <1>0, NullPointer DEF TypeOK, EnqueueInv, DequeueInv
  <2> QED BY <2>1, <2>2, <2>3, <2>4, StepKeepsIInv
<1>2. CASE DequeueLoadTail(t)
  <2> USE <1>2 DEF DequeueLoadTail
  <2>1. TypeOK'
    BY <1>0 DEF TypeOK
  <2>2. Others(t) /\ Evolves
    BY <1>0 DEF TypeOK, Others, Evolves
  <2>3. ChainInv' /\ PathInv' /\ DeleteOnce'
    BY <1>0, <2>2, ListStays
  <2>4. tail.ptr # head.ptr => head.count < tail.count
    BY <1>0 DEF IInv, PathInv, IsPath, TypeOK
  <2>5. EnqueueInv(t)' /\ DequeueInv(t)'
    BY <1>0, <2>4 DEF TypeOK, EnqueueInv, DequeueInv
  <2> QED BY <2>1, <2>2, <2>3, <2>5, StepKeepsIInv
<1>3. CASE DequeueLoadNext(t)
  <2> USE <1>3 DEF DequeueLoadNext
  <2>0. PICK p \in PointerType :
          /\ lnext' = [lnext EXCEPT ![t] = p]
          /\ cur_head[t].ptr \in heap => p = next[cur_head[t].ptr]
    BY <1>0 DEF TypeOK, DequeueInv, NextAt
  <2>1. TypeOK'
    BY <1>0, <2>0 DEF TypeOK
  <2>2. Others(t) /\ Evolves
    BY <1>0, <2>0 DEF TypeOK, Others, Evolves
  <2>3. ChainInv' /\ PathInv' /\ DeleteOnce'
    BY <1>0, <2>2, ListStays DEF TypeOK
  <2>4. EnqueueInv(t)' /\ DequeueInv(t)'
    BY <1>0, <2>0 DEF TypeOK, EnqueueInv, DequeueInv
  <2> QED BY <2>1, <2>2, <2>3, <2>4, StepKeepsIInv
<1>4. CASE DequeueCheckHead(t)
  <2> USE <1>4 DEF DequeueCheckHead
  <2>1. TypeOK'
    BY <1>0, NullPointer DEF TypeOK
  <2>2. Others(t) /\ Evolves
    BY <1>0 DEF TypeOK, Others, Evolves
  <2>3. ChainInv' /\ PathInv' /\ DeleteOnce'
    BY <1>0, <2>2, ListStays DEF TypeOK
  <2>4. EnqueueInv(t)' /\ DequeueInv(t)'
    BY <1>0, NullPointer DEF TypeOK, EnqueueInv, DequeueInv
  <2> QED BY <2>1, <2>2, <2>3, <2>4, StepKeepsIInv
<1>5. CASE DequeueEmpty(t)
  <2> USE <1>5 DEF DequeueEmpty, DequeueReturns
  <2>1. TypeOK'
    BY <1>0, NullPointer DEF TypeOK
  <2>2. Others(t) /\ Evolves
    BY <1>0 DEF TypeOK, Others, Evolves
  <2>3. ChainInv' /\ PathInv' /\ DeleteOnce'
    BY <1>0, <2>2, ListStays DEF TypeOK
  <2>4. EnqueueInv(t)' /\ DequeueInv(t)'
    BY <1>0, NullPointer DEF TypeOK, EnqueueInv, DequeueInv
  <2> QED BY <2>1, <2>2, <2>3, <2>4, StepKeepsIInv
<1>6. CASE DequeueHelpTail(t)
  <2> USE <1>6 DEF DequeueHelpTail, CasTail
  <2>1. CASE tail # cur_tail[t]
    <3>1. TypeOK'
      BY <1>0, <2>1, NullPointer DEF TypeOK
    <3>2. Others(t) /\ Evolves
      BY <1>0, <2>1 DEF TypeOK, Others, Evolves
    <3>3. ChainInv' /\ PathInv' /\ DeleteOnce'
      BY <1>0, <2>1, <3>2, ListStays
    <3>4. EnqueueInv(t)' /\ DequeueInv(t)'
      BY <1>0, <2>1, PointerFacts DEF TypeOK, EnqueueInv, DequeueInv
    <3> QED BY <3>1, <3>2, <3>3, <3>4, StepKeepsIInv
  <2>2. CASE tail = cur_tail[t]
    <3>0. /\ next[tail.ptr].ptr = lnext[t].ptr /\ lnext[t].ptr \in Node
          /\ tail' = Pointer(lnext[t].ptr, tail.count + 1)
          /\ tail'.ptr = lnext[t].ptr /\ tail'.count = tail.count + 1
          /\ tail' \in PointerType
      BY <1>0, <2>2, PointerFacts DEF TypeOK, NoWrap, EnqueueInv, DequeueInv
    <3>1. TypeOK'
      BY <1>0, <3>0, NullPointer DEF TypeOK
    <3>2. Others(t) /\ Evolves
      BY <1>0, <3>0 DEF TypeOK, Others, Evolves
    <3>3. ChainInv' /\ PathInv' /\ DeleteOnce'
      BY <1>0, <3>0, <3>2, TailMoveKeepsList
    <3>4. EnqueueInv(t)' /\ DequeueInv(t)'
      BY <1>0, <3>0, <3>1, PointerFacts DEF TypeOK, EnqueueInv, DequeueInv
    <3> QED BY <3>1, <3>2, <3>3, <3>4, StepKeepsIInv
  <2> QED BY <2>1, <2>2
<1>7. CASE DequeueReadValue(t)
  <2> USE <1>7 DEF DequeueReadValue, ValueAt
  <2>1. TypeOK'
    BY <1>0, NullPointer DEF TypeOK
  <2>2. Others(t) /\ Evolves
    BY <1>0 DEF TypeOK, Others, Evolves
  <2>3. ChainInv' /\ PathInv' /\ DeleteOnce'
    BY <1>0, <2>2, ListStays DEF TypeOK
  <2>4. EnqueueInv(t)' /\ DequeueInv(t)'
    BY <1>0, NullPointer DEF TypeOK, EnqueueInv, DequeueInv
  <2> QED BY <2>1, <2>2, <2>3, <2>4, StepKeepsIInv
<1>8. CASE DequeueSwingHead(t)
  <2> USE <1>8 DEF DequeueSwingHead
  <2>1. /\ head.count < tail.count /\ lnext[t].ptr = next[head.ptr].ptr
        /\ lnext[t].ptr \in Node /\ head.count \in Nat /\ tail.count \in Nat
        /\ head'.ptr = lnext[t].ptr /\ head'.count = head.count + 1
        /\ head' = Pointer(next[head.ptr].ptr, head.count + 1)
        /\ head' \in PointerType
    BY <1>0, PointerFacts DEF TypeOK, NoWrap, DequeueInv
  <2>2. TypeOK'
    BY <1>0, <2>1 DEF TypeOK
  <2>3. Others(t) /\ Evolves /\ pc[t] = "d_swing" /\ pc'[t] = "d_return"
    BY <1>0, <2>1 DEF TypeOK, Others, Evolves
  <2>4. ChainInv' /\ PathInv' /\ DeleteOnce'
    BY <1>0, <2>1, <2>3, HeadMoveKeepsList
  <2>5. EnqueueInv(t)'
    BY <1>0, <2>1, <2>3 DEF TypeOK, EnqueueInv
  <2>6. DequeueInv(t)'
    <3>1. /\ cur_head' = cur_head /\ pc'[t] = "d_return"
          /\ cur_head[t].count <= head.count /\ cur_head[t].ptr \in used
          /\ cur_head[t].count \in Nat /\ used' = used
      BY <1>0, <2>1, <2>3 DEF TypeOK, DequeueInv
    <3>2. head.count \in Nat /\ head'.count = head.count + 1
      BY <2>1
    <3> HIDE <1>0, <1>8 DEF DequeueSwingHead
    <3>3. cur_head'[t].count <= head'.count /\ cur_head'[t].ptr \in used'
      BY <3>1, <3>2
    <3> QED BY <3>1, <3>3 DEF DequeueInv
  <2> QED BY <2>2, <2>3, <2>4, <2>5, <2>6, StepKeepsIInv
<1>9. CASE DequeueSwingFails(t)
  <2> USE <1>9 DEF DequeueSwingFails
  <2>1. TypeOK'
    BY <1>0, NullPointer DEF TypeOK
  <2>2. Others(t) /\ Evolves
    BY <1>0 DEF TypeOK, Others, Evolves
  <2>3. ChainInv' /\ PathInv' /\ DeleteOnce'
    BY <1>0, <2>2, ListStays DEF TypeOK
  <2>4. EnqueueInv(t)' /\ DequeueInv(t)'
    BY <1>0, NullPointer DEF TypeOK, EnqueueInv, DequeueInv
  <2> QED BY <2>1, <2>2, <2>3, <2>4, StepKeepsIInv
<1>10. CASE DequeueReturn(t)
  <2> USE <1>10 DEF DequeueReturn, DequeueReturns
  <2>1. TypeOK'
    BY <1>0, NullPointer DEF TypeOK
  <2>2. Others(t) /\ Evolves /\ pc[t] = "d_return"
    BY <1>0 DEF TypeOK, Others, Evolves
  <2>3. ChainInv' /\ PathInv' /\ DeleteOnce'
    BY <1>0, <2>2, DeletionKeepsList
  <2>4. EnqueueInv(t)' /\ DequeueInv(t)'
    BY <1>0, PointerFacts DEF TypeOK, EnqueueInv, DequeueInv
  <2> QED BY <2>1, <2>2, <2>3, <2>4, StepKeepsIInv
<1> QED BY <1>1, <1>2, <1>3, <1>4, <1>5, <1>6, <1>7, <1>8, <1>9, <1>10
       DEF DequeueStep

LEMMA IInvInductive == IInv /\ NoWrap /\ [Next]_vars => IInv'
<1>1. ASSUME IInv, UNCHANGED vars PROVE IInv'
  <2> USE <1>1 DEF vars, IInv
  <2>1. TypeOK' /\ DeleteOnce'
    BY DEF TypeOK, DeleteOnce
  <2>2. Live' = Live
    BY DEF Live, Retired
  <2>3. ChainInv'
    BY <2>2 DEF ChainInv
  <2>4. PathInv'
    <3>1. PICK path \in [head.count..tail.count -> Live] : IsPath(path)
      BY DEF PathInv
    <3>2. IsPath(path)'
      BY <3>1 DEF IsPath
    <3> QED BY <2>2, <3>1, <3>2 DEF PathInv
  <2>5. ASSUME NEW t \in Thread PROVE EnqueueInv(t)' /\ DequeueInv(t)'
    BY DEF EnqueueInv, DequeueInv
  <2> QED BY <2>1, <2>3, <2>4, <2>5
<1> QED BY <1>1, CallKeepsIInv, EnqueueStepKeepsIInv, DequeueStepKeepsIInv
        DEF Next

\* IInv holds in every state up to which no counter has wrapped around.
THEOREM Invariance == Spec /\ []NoWrap => []IInv
BY InitIInv, IInvInductive, PTL DEF Spec

\* Every variable keeps its type.
THEOREM TypeCorrect == Spec /\ []NoWrap => []TypeOK
<1>1. IInv => TypeOK
  BY DEF IInv
<1> QED BY <1>1, Invariance, PTL

\* A new operation always starts on live nodes: neither head nor tail is
\* ever left at a deleted node.
THEOREM EndsStayAlive == Spec /\ []NoWrap => []EndsAreAlive
<1>1. IInv => EndsAreAlive
  BY EndsAreLive, LiveIsAllocated DEF IInv, EndsAreAlive
<1> QED BY <1>1, Invariance, PTL

\* "only the thread that succeeded CAS can free it": no double delete, and
\* with addresses that come back none of another node than the one meant.
THEOREM NoDoubleDelete == Spec /\ []NoWrap => []DeleteOnce
<1>1. IInv => DeleteOnce
  BY DEF IInv
<1> QED BY <1>1, Invariance, PTL

\* A step that moves head, seen from the thread that takes it
LEMMA SwingInAStep ==
  ASSUME IInv, [Next]_vars, NEW t \in Thread,
         pc[t] = "d_swing", pc'[t] = "d_return"
  PROVE  /\ lnext[t].ptr = next[head.ptr].ptr
         /\ lnext[t].ptr \in heap
         /\ out[t] = value[lnext[t].ptr]
<1> USE DEF IInv
<1>1. PICK u \in Thread : Call(u) \/ EnqueueStep(u) \/ DequeueStep(u)
  BY DEF Next, vars
<1>2. u = t /\ DequeueSwingHead(t)
  BY <1>1 DEF TypeOK, Call, DequeueCall, EnqueueCall,
     EnqueueStep, EnqueueLoadTail, EnqueueLoadNext,
     EnqueueCheckTail, EnqueueLink, EnqueueLinkFails, EnqueueHelpTail,
     EnqueueSwingTail, DequeueStep, DequeueLoadHead, DequeueLoadTail,
     DequeueLoadNext, DequeueCheckHead, DequeueEmpty, DequeueHelpTail,
     DequeueReadValue, DequeueSwingHead, DequeueSwingFails, DequeueReturn,
     DequeueReturns
<1>3. head = cur_head[t]
  BY <1>2 DEF DequeueSwingHead
<1> QED BY <1>3, EndsAreLive, LiveIsAllocated DEF DequeueInv, ChainInv

\* What the counter of head is for: a compare-and-swap of head that succeeds
\* takes the node dequeue has looked at, and the value it has read there,
\* although deleted memory may have read as anything in between.
THEOREM CurrentSwing == Spec /\ []NoWrap => SwingIsCurrent
<1>1. IInv /\ [Next]_vars =>
        [\A t \in Thread : pc[t] = "d_swing" /\ pc'[t] = "d_return" =>
           /\ lnext[t].ptr = next[head.ptr].ptr
           /\ lnext[t].ptr \in heap
           /\ out[t] = value[lnext[t].ptr]]_vars
  BY SwingInAStep
<1> QED BY <1>1, Invariance, PTL DEF Spec, SwingIsCurrent
=============================================================================
