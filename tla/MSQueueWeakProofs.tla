-------------------------- MODULE MSQueueWeakProofs --------------------------
(***************************************************************************)
(* What MSQueueWeak and MSQueueWeakCounted guarantee, for any threads,     *)
(* nodes and values, with or without spurious failures.                    *)
(*                                                                         *)
(* The messages of head and of tail are the nodes of list in order, so a   *)
(* stale load is a load of an earlier node; the view that a message of     *)
(* head carries has seen as many messages of tail.  MSQueueWeak implements *)
(* LooseFifo.  The last part is about two threads and a compare-and-swap   *)
(* that does not fail spuriously: they find no node that they do not see   *)
(* constructed.                                                            *)
(***************************************************************************)
EXTENDS MSQueueWeakCounted, SequenceTheorems, TLAPS

\* n follows m in the list.
Follows(m, n) == \E i \in 1..(Len(list) - 1) : list[i] = m /\ list[i + 1] = n

InList(n) == \E i \in 1..Len(list) : list[i] = n

\* The messages of head and tail.  tail is one of the last two nodes.
EndsInv ==
  /\ Newest(head) >= 1 /\ Newest(head) <= Newest(tail)
  /\ Newest(tail) \in {Len(list) - 1, Len(list)}
  /\ \A i \in 1..Newest(head) : memory[head][i].val = list[i]
  /\ \A i \in 1..Newest(tail) : memory[tail][i].val = list[i]
  /\ \A i \in 2..Newest(head) : memory[head][i].view[tail] >= i

\* The messages of the next of a node: what the memory held, the null of the
\* constructor, and the node linked behind it.  Who acquires that one is
\* ordered after the constructor of the node it leads to.
NextInv ==
  /\ IsInjective(list)
  /\ \A n \in Node :
       /\ Newest(data(n)) = 1 /\ Newest(next(n)) \in 1..3
       /\ memory[next(n)][1].val = Garbage
       /\ Newest(next(n)) >= 2 => memory[next(n)][2].val = Null
       /\ InList(n) => Newest(next(n)) >= 2
       /\ Newest(next(n)) = 3 =>
            /\ Follows(n, memory[next(n)][3].val)
            /\ memory[next(n)][3].view[data(memory[next(n)][3].val)] = 1
  /\ \A i \in 1..(Len(list) - 1) : Newest(next(list[i])) = 3

\* Nobody has seen a message that is not there.
Bound(w) == \A l \in Location : w[l] <= Newest(l)

ViewInv ==
  /\ \A t \in Thread : Bound(view[t])
  /\ \A l \in Location : \A i \in 1..Newest(l) : Bound(memory[l][i].view)

\* pc values at which the node of an enqueue is still private to it
Inserting == EnqueuePC \ {"e_swing"}

\* What an enqueue in progress knows.
EnqueueInv(t) ==
  /\ pc[t] \in Inserting =>
       /\ node[t] \in Node /\ ~InList(node[t])
       /\ Newest(next(node[t])) = 2 /\ view[t][data(node[t])] = 1
       /\ \A u \in Thread :
            pc[u] \in Inserting /\ node[u] = node[t] => u = t
  /\ pc[t] \in EnqueuePC \ {"e_tail"} =>
       \E i \in 1..Newest(tail) : cur_tail[t] = list[i]
  /\ pc[t] = "e_link" => lnext[t] = Null
  /\ pc[t] = "e_help" => lnext[t] \in Node
  /\ pc[t] \in {"e_check", "e_help"} /\ lnext[t] \in Node =>
       Follows(cur_tail[t], lnext[t])
  /\ pc[t] = "e_swing" => Follows(cur_tail[t], node[t])

\* What a dequeue in progress knows.
DequeueInv(t) ==
  /\ pc[t] = "d_tail" =>
       \E i \in 1..Newest(head) :
         cur_head[t] = list[i] /\ (i = 1 \/ i <= view[t][tail])
  /\ pc[t] \in DequeuePC \ {"d_head", "d_tail", "d_return", "d_empty"} =>
       \E i \in 1..Newest(head), j \in 1..Newest(tail) :
         /\ cur_head[t] = list[i] /\ cur_tail[t] = list[j]
         /\ i <= j /\ j <= view[t][tail]
  /\ pc[t] \in {"d_check", "d_help", "d_value", "d_swing"} /\ lnext[t] \in Node =>
       Follows(cur_head[t], lnext[t]) /\ view[t][data(lnext[t])] = 1
  /\ pc[t] = "d_help" => lnext[t] \in Node /\ cur_tail[t] = cur_head[t]
  /\ pc[t] \in {"d_value", "d_swing"} => cur_tail[t] # cur_head[t]
  /\ pc[t] = "d_swing" => lnext[t] \in Node

IInv == /\ TypeOK /\ EndsInv /\ NextInv /\ ViewInv
        /\ \A t \in Thread : EnqueueInv(t) /\ DequeueInv(t)

\* MSQueueWeakCounted: only nodes before head are deleted, each by the one
\* thread that moved head past it.
HeapInv ==
  /\ ListIsAlive
  /\ heap \subseteq Node
  /\ \A t \in Thread : pc[t] \in Inserting => node[t] \in heap
  /\ \A t \in Thread : pc[t] = "d_return" =>
       /\ \E i \in 1..(Newest(head) - 1) : cur_head[t] = list[i]
       /\ cur_head[t] \in heap
       /\ \A u \in Thread : pc[u] = "d_return" /\ cur_head[u] = cur_head[t] => u = t

USE NodeAssumption, ValueAssumption, SpuriousAssumption
    DEF EnqueuePC, DequeuePC, Inserting, Pointer, Goto, Newest, NewestVal,
        locals, caller

-----------------------------------------------------------------------------
(* Lemmas about locations, views and messages                              *)

LEMMA Locations ==
  /\ head \in Location /\ tail \in Location /\ head # tail
  /\ \A n \in Node :
       /\ next(n) \in Location /\ data(n) \in Location
       /\ next(n) # head /\ next(n) # tail /\ data(n) # head /\ data(n) # tail
       /\ \A m \in Node :
            /\ next(n) # data(m)
            /\ next(n) = next(m) => n = m
            /\ data(n) = data(m) => n = m
BY DEF Location, head, tail, next, data

\* A view has been extended, but not beyond what is there.
Extends(w, v) == /\ w \in [Location -> Nat] /\ Bound(w)
                 /\ \A l \in Location : v[l] <= w[l]

LEMMA RelaxedLoad ==
  ASSUME TypeOK, ViewInv, NEW t \in Thread, NEW l \in Location,
         NEW i \in 1..Newest(l), LoadRelaxed(t, l, i)
  PROVE  /\ view[t][l] <= i /\ UNCHANGED memory
         /\ \E w : /\ view' = [view EXCEPT ![t] = w]
                   /\ Extends(w, view[t]) /\ w[l] = i
<1>1. view[t] \in [Location -> Nat] /\ memory[l] \in Seq(Message)
  BY DEF TypeOK
<1>2. i \in Nat /\ view[t][l] <= i /\ i <= Newest(l)
  BY <1>1 DEF LoadRelaxed, Reads
<1>3. PICK w : w = [view[t] EXCEPT ![l] = i]
  OBVIOUS
<1>4. Extends(w, view[t]) /\ w[l] = i
  BY <1>1, <1>2, <1>3 DEF Extends, ViewInv, Bound
<1>5. view' = [view EXCEPT ![t] = w]
  BY <1>3 DEF LoadRelaxed
<1> QED BY <1>2, <1>4, <1>5 DEF LoadRelaxed

LEMMA AcquireLoad ==
  ASSUME TypeOK, ViewInv, NEW t \in Thread, NEW l \in Location,
         NEW i \in 1..Newest(l), LoadAcquire(t, l, i)
  PROVE  /\ view[t][l] <= i /\ UNCHANGED memory
         /\ \E w : /\ view' = [view EXCEPT ![t] = w]
                   /\ Extends(w, view[t]) /\ w[l] = i
                   /\ \A k \in Location : k # l => memory[l][i].view[k] <= w[k]
<1>1. view[t] \in [Location -> Nat] /\ memory[l] \in Seq(Message)
  BY DEF TypeOK
<1>2. i \in Nat /\ view[t][l] <= i /\ i <= Newest(l)
  BY <1>1 DEF LoadAcquire, Reads
<1>3. memory[l][i].view \in [Location -> Nat]
  <2>1. memory[l][i] \in Message
    BY <1>1
  <2> QED BY <2>1 DEF Message
<1>4. PICK w : w = [Join(view[t], memory[l][i].view) EXCEPT ![l] = i]
  OBVIOUS
<1>5. /\ w \in [Location -> Nat] /\ w[l] = i
      /\ \A k \in Location \ {l} :
           w[k] = IF view[t][k] < memory[l][i].view[k]
                  THEN memory[l][i].view[k] ELSE view[t][k]
  BY <1>1, <1>2, <1>3, <1>4 DEF Join
<1>6. Bound(w)
  BY <1>1, <1>2, <1>3, <1>5 DEF ViewInv, Bound
<1>7. Extends(w, view[t])
  <2>1. ASSUME NEW k \in Location PROVE view[t][k] <= w[k]
    <3>1. view[t][k] \in Nat /\ memory[l][i].view[k] \in Nat
      BY <1>1, <1>3
    <3>2. k # l => w[k] = IF view[t][k] < memory[l][i].view[k]
                          THEN memory[l][i].view[k] ELSE view[t][k]
      BY <1>5
    <3> QED BY <1>2, <1>5, <3>1, <3>2
  <2> QED BY <1>5, <1>6, <2>1 DEF Extends
<1>8. view' = [view EXCEPT ![t] = w]
  BY <1>4 DEF LoadAcquire
<1>9. \A k \in Location : k # l => memory[l][i].view[k] <= w[k]
  BY <1>1, <1>3, <1>5
<1> QED BY <1>2, <1>5, <1>7, <1>8, <1>9 DEF LoadAcquire

\* A successful compare-and-swap adds one message, whose view goes at least
\* as far as that of the message before it, and for release also as far as
\* that of the thread.
LEMMA Exchange ==
  ASSUME TypeOK, ViewInv, NEW t \in Thread, NEW l \in Location,
         Newest(l) >= 1, NEW v \in Pointer \cup {Garbage},
         RmwRelease(t, l, v) \/ RmwRelaxed(t, l, v)
  PROVE  \E m \in Message :
           /\ m.val = v
           /\ memory' = [memory EXCEPT ![l] = Append(memory[l], m)]
           /\ view' = [view EXCEPT ![t][l] = Newest(l) + 1]
           /\ \A k \in Location \ {l} :
                /\ m.view[k] <= Newest(k)
                /\ memory[l][Newest(l)].view[k] <= m.view[k]
           /\ m.view[l] <= Newest(l) + 1
           /\ RmwRelease(t, l, v) =>
                \A k \in Location \ {l} : view[t][k] <= m.view[k]
<1>1. view[t] \in [Location -> Nat] /\ memory[l] \in Seq(Message)
      /\ Newest(l) \in Nat
  BY DEF TypeOK
<1>2. \A k \in Location : Newest(k) \in Nat
  BY DEF TypeOK
<1>3. /\ Passed(l) \in [Location -> Nat]
      /\ \A k \in Location : Passed(l)[k] <= Newest(k)
  <2>1. memory[l][Newest(l)] \in Message /\ Newest(l) \in 1..Newest(l)
    BY <1>1
  <2>2. memory[l][Newest(l)].view \in [Location -> Nat]
    BY <2>1 DEF Message
  <2>3. Bound(memory[l][Newest(l)].view)
    BY <2>1 DEF ViewInv
  <2> QED BY <2>2, <2>3 DEF Passed, Bound
<1>4. PICK a : a = After(t, l)
  OBVIOUS
<1>5. /\ a \in [Location -> Nat] /\ a[l] = Newest(l) + 1
      /\ \A k \in Location \ {l} : a[k] = view[t][k] /\ a[k] <= Newest(k)
  BY <1>1, <1>4 DEF After, ViewInv, Bound
<1>6. PICK j : j = Join(a, Passed(l))
  OBVIOUS
<1>7. /\ j \in [Location -> Nat]
      /\ \A k \in Location : j[k] = IF a[k] < Passed(l)[k] THEN Passed(l)[k] ELSE a[k]
  BY <1>3, <1>5, <1>6 DEF Join
<1>8. /\ j[l] <= Newest(l) + 1
      /\ \A k \in Location \ {l} :
           /\ j[k] <= Newest(k) /\ Passed(l)[k] <= j[k] /\ view[t][k] <= j[k]
  BY <1>1, <1>2, <1>3, <1>5, <1>7
<1>9. view' = [view EXCEPT ![t][l] = Newest(l) + 1]
  BY DEF RmwRelease, RmwRelaxed, Rmw, After
<1>10. CASE RmwRelease(t, l, v)
  <2>1. PICK m : m = [val |-> v, view |-> j]
    OBVIOUS
  <2>2. m \in Message /\ m.val = v /\ m.view = j
    BY <1>7, <2>1 DEF Message
  <2>3. memory' = [memory EXCEPT ![l] = Append(memory[l], m)]
    BY <1>4, <1>6, <1>10, <2>1 DEF RmwRelease, Rmw
  <2> QED BY <1>8, <1>9, <2>2, <2>3 DEF Passed
<1>11. CASE ~RmwRelease(t, l, v)
  <2>1. PICK m : m = [val |-> v, view |-> Passed(l)]
    OBVIOUS
  <2>2. m \in Message /\ m.val = v /\ m.view = Passed(l)
    BY <1>3, <2>1 DEF Message
  <2>3. memory' = [memory EXCEPT ![l] = Append(memory[l], m)]
    BY <1>11, <2>1 DEF RmwRelaxed, Rmw
  <2>4. Passed(l)[l] <= Newest(l) + 1
    BY <1>1, <1>3
  <2>5. \A k \in Location \ {l} :
          m.view[k] <= Newest(k) /\ memory[l][Newest(l)].view[k] <= m.view[k]
    BY <1>3, <2>2 DEF Passed
  <2> QED BY <1>9, <1>11, <2>2, <2>3, <2>4, <2>5
<1> QED BY <1>10, <1>11

-----------------------------------------------------------------------------
(* What a step of t leaves alone                                           *)

\* The list, the messages of head and those of tail are only added to.
Evolves ==
  /\ Len(list) <= Len(list') /\ \A i \in 1..Len(list) : list'[i] = list[i]
  /\ list' \in Seq(Node)
  /\ Newest(head) <= Newest(head)' /\ Newest(tail) <= Newest(tail)'
  /\ Newest(head)' \in Nat /\ Newest(tail)' \in Nat

\* The other threads keep their locals and views, and those that insert a
\* node still have it for themselves.
Others(t) ==
  \A u \in Thread \ {t} :
    /\ pc'[u] = pc[u] /\ node'[u] = node[u]
    /\ cur_head'[u] = cur_head[u] /\ cur_tail'[u] = cur_tail[u]
    /\ lnext'[u] = lnext[u] /\ view'[u] = view[u]
    /\ pc[u] \in Inserting =>
         /\ ~InList(node[u])' /\ Newest(next(node[u]))' = 2
         /\ ~(pc'[t] \in Inserting /\ node'[t] = node[u])

LEMMA LinksStay ==
  ASSUME TypeOK, Evolves
  PROVE  \A i \in 1..(Len(list) - 1) :
           /\ i \in 1..(Len(list') - 1)
           /\ list'[i] = list[i] /\ list'[i + 1] = list[i + 1]
<1>1. Len(list) \in Nat /\ Len(list') \in Nat
  BY DEF TypeOK, Evolves
<1>2. \A i \in 1..(Len(list) - 1) : i + 1 \in 1..Len(list) /\ i \in 1..Len(list)
  BY <1>1
<1> QED BY <1>1, <1>2 DEF Evolves

LEMMA OthersKeepInv ==
  ASSUME IInv, NEW t \in Thread, Others(t), Evolves
  PROVE  \A u \in Thread \ {t} : EnqueueInv(u)' /\ DequeueInv(u)'
<1> SUFFICES ASSUME NEW u \in Thread \ {t}
             PROVE  EnqueueInv(u)' /\ DequeueInv(u)'
  OBVIOUS
<1>0. TypeOK /\ EnqueueInv(u) /\ DequeueInv(u) /\ EndsInv
  BY DEF IInv
<1>1. /\ pc'[u] = pc[u] /\ node'[u] = node[u]
      /\ cur_head'[u] = cur_head[u] /\ cur_tail'[u] = cur_tail[u]
      /\ lnext'[u] = lnext[u] /\ view'[u] = view[u]
  BY DEF Others
<1>2. /\ Follows(cur_tail[u], lnext[u]) => Follows(cur_tail[u], lnext[u])'
      /\ Follows(cur_tail[u], node[u]) => Follows(cur_tail[u], node[u])'
      /\ Follows(cur_head[u], lnext[u]) => Follows(cur_head[u], lnext[u])'
  <2>1. Follows(cur_tail[u], lnext[u]) => Follows(cur_tail[u], lnext[u])'
    BY <1>0, <1>1, LinksStay DEF Follows
  <2>2. Follows(cur_tail[u], node[u]) => Follows(cur_tail[u], node[u])'
    BY <1>0, <1>1, LinksStay DEF Follows
  <2>3. Follows(cur_head[u], lnext[u]) => Follows(cur_head[u], lnext[u])'
    BY <1>0, <1>1, LinksStay DEF Follows
  <2> QED BY <2>1, <2>2, <2>3
<1>3. /\ \A i \in 1..Newest(head) : i \in 1..Newest(head)' /\ list'[i] = list[i]
      /\ \A i \in 1..Newest(tail) : i \in 1..Newest(tail)' /\ list'[i] = list[i]
  <2>1. /\ Len(list) \in Nat /\ Newest(head) \in Nat /\ Newest(tail) \in Nat
        /\ Newest(head) <= Len(list) /\ Newest(tail) <= Len(list)
    <3>1. memory[head] \in Seq(Message) /\ memory[tail] \in Seq(Message)
      BY <1>0, Locations DEF TypeOK
    <3> QED BY <1>0, <3>1 DEF TypeOK, EndsInv
  <2> QED BY <2>1 DEF Evolves
<1>4. EnqueueInv(u)'
  <2>1. pc[u] \in Inserting =>
          \A v \in Thread : pc'[v] \in Inserting /\ node'[v] = node[u] => v = u
    BY <1>0, <1>1 DEF Others, EnqueueInv
  <2> QED BY <1>0, <1>1, <1>2, <1>3, <2>1 DEF EnqueueInv, Others
<1>5. DequeueInv(u)'
  BY <1>0, <1>1, <1>2, <1>3 DEF DequeueInv
<1> QED BY <1>4, <1>5

LEMMA StepKeepsIInv ==
  ASSUME IInv, NEW t \in Thread, Others(t), Evolves,
         TypeOK', EndsInv' /\ NextInv' /\ ViewInv', EnqueueInv(t)' /\ DequeueInv(t)'
  PROVE  IInv'
BY OthersKeepInv DEF IInv

\* What holds of memory and of the other threads' views after a step of t.
MemoryOK(t) ==
  /\ memory' \in [Location -> Seq(Message)]
  /\ EndsInv' /\ NextInv' /\ ViewInv' /\ Evolves
  /\ view' \in [Thread -> [Location -> Nat]]
  /\ \A u \in Thread \ {t} : view'[u] = view[u]
  /\ \A l \in Location : view[t][l] <= view'[t][l]
  /\ \A u \in Thread : pc[u] \in Inserting /\ (u = t => list' = list) =>
       /\ \A i \in 1..Len(list') : list'[i] # node[u]
       /\ Len(memory'[next(node[u])]) = 2

\* A step that writes nothing and at most extends the view of t.
LEMMA ReadKeeps ==
  ASSUME IInv, NEW t \in Thread, NEW w, UNCHANGED <<memory, list>>,
         view' = [view EXCEPT ![t] = w], Extends(w, view[t])
  PROVE  MemoryOK(t) /\ view'[t] = w
<1>0. TypeOK /\ EndsInv /\ NextInv /\ ViewInv
      /\ \A u \in Thread : EnqueueInv(u)
  BY DEF IInv
<1>1. EndsInv'
  BY <1>0 DEF EndsInv
<1>2. NextInv'
  BY <1>0 DEF NextInv, InList, Follows
<1>3. ViewInv'
  BY <1>0 DEF TypeOK, ViewInv, Bound, Extends
<1>4. Evolves
  BY <1>0, Locations DEF Evolves, TypeOK
<1>5. \A u \in Thread : pc[u] \in Inserting =>
        /\ \A i \in 1..Len(list') : list'[i] # node[u]
        /\ Len(memory'[next(node[u])]) = 2
  BY <1>0 DEF EnqueueInv, InList
<1> QED BY <1>0, <1>1, <1>2, <1>3, <1>4, <1>5 DEF TypeOK, Extends, MemoryOK

-----------------------------------------------------------------------------
(* Successful compare-and-swaps                                            *)

LEMMA Appended ==
  ASSUME TypeOK, NEW l \in Location, NEW m \in Message,
         memory' = [memory EXCEPT ![l] = Append(memory[l], m)]
  PROVE  /\ memory' \in [Location -> Seq(Message)]
         /\ \A k \in Location \ {l} : memory'[k] = memory[k]
         /\ Newest(l)' = Newest(l) + 1 /\ Newest(l) \in Nat
         /\ \A i \in 1..Newest(l) : memory'[l][i] = memory[l][i]
         /\ memory'[l][Newest(l) + 1] = m
<1>1. memory[l] \in Seq(Message) /\ memory \in [Location -> Seq(Message)]
  BY DEF TypeOK
<1>2. memory'[l] = Append(memory[l], m)
  BY <1>1
<1> QED BY <1>1, <1>2

LEMMA ExchangeKeepsViews ==
  ASSUME TypeOK, ViewInv, NEW t \in Thread, NEW l \in Location, NEW m \in Message,
         memory' = [memory EXCEPT ![l] = Append(memory[l], m)],
         view' = [view EXCEPT ![t][l] = Newest(l) + 1],
         \A k \in Location \ {l} : m.view[k] <= Newest(k),
         m.view[l] <= Newest(l) + 1
  PROVE  /\ ViewInv'
         /\ view' \in [Thread -> [Location -> Nat]]
         /\ \A u \in Thread \ {t} : view'[u] = view[u]
         /\ \A k \in Location : view[t][k] <= view'[t][k]
<1>1. /\ memory' \in [Location -> Seq(Message)]
      /\ \A k \in Location \ {l} : memory'[k] = memory[k]
      /\ Newest(l)' = Newest(l) + 1 /\ Newest(l) \in Nat
      /\ \A i \in 1..Newest(l) : memory'[l][i] = memory[l][i]
      /\ memory'[l][Newest(l) + 1] = m
  BY Appended
<1>2. \A k \in Location : Newest(k) \in Nat /\ Newest(k) <= Newest(k)'
  BY <1>1 DEF TypeOK
<1>3. ASSUME NEW w, w \in [Location -> Nat], Bound(w) PROVE \A k \in Location : w[k] <= Newest(k)'
  BY <1>1, <1>2, <1>3 DEF Bound
<1>4. view' \in [Thread -> [Location -> Nat]]
  BY <1>1 DEF TypeOK
<1>5. \A u \in Thread : \A k \in Location : view'[u][k] <= Newest(k)'
  BY <1>1, <1>2 DEF TypeOK, ViewInv, Bound
<1>6. \A k \in Location : \A i \in 1..Newest(k)' :
        \A j \in Location : memory'[k][i].view[j] <= Newest(j)'
  <2> SUFFICES ASSUME NEW k \in Location, NEW i \in 1..Newest(k)', NEW j \in Location
               PROVE  memory'[k][i].view[j] <= Newest(j)'
    OBVIOUS
  <2>1. CASE k = l /\ i = Newest(l) + 1
    BY <1>1, <1>2, <2>1
  <2>2. CASE ~(k = l /\ i = Newest(l) + 1)
    <3>1. i \in 1..Newest(k) /\ memory'[k][i] = memory[k][i]
      BY <1>1, <2>2
    <3>2. memory[k][i] \in Message
      BY <3>1 DEF TypeOK
    <3>3. memory[k][i].view \in [Location -> Nat] /\ Bound(memory[k][i].view)
      BY <3>1, <3>2 DEF ViewInv, Message
    <3> QED BY <1>3, <3>1, <3>3
  <2> QED BY <2>1, <2>2
<1>7. ViewInv'
  BY <1>5, <1>6 DEF ViewInv, Bound
<1>8. \A k \in Location : view[t][k] <= view'[t][k]
  BY <1>1 DEF TypeOK, ViewInv, Bound
<1> QED BY <1>4, <1>7, <1>8 DEF TypeOK

LEMMA ListFacts ==
  ASSUME IInv
  PROVE  /\ Len(list) \in Nat \ {0} /\ \A i \in 1..Len(list) : list[i] \in Node
         /\ \A i, j \in 1..Len(list) : list[i] = list[j] => i = j
         /\ Newest(head) \in 1..Len(list) /\ Newest(tail) \in 1..Len(list)
         /\ Newest(head) <= Newest(tail) /\ Newest(tail) >= Len(list) - 1
         /\ NewestVal(head) = list[Newest(head)]
         /\ NewestVal(tail) = list[Newest(tail)]
<1>0. TypeOK /\ EndsInv /\ IsInjective(list)
  BY DEF IInv, NextInv
<1>1. /\ list \in Seq(Node)
      /\ memory[head] \in Seq(Message) /\ memory[tail] \in Seq(Message)
  BY <1>0, Locations DEF TypeOK
<1>2. Newest(head) \in Nat /\ Newest(tail) \in Nat /\ Len(list) \in Nat
  BY <1>1
<1>3. Newest(head) \in 1..Len(list) /\ Newest(tail) \in 1..Len(list) /\ Len(list) # 0
  BY <1>0, <1>2 DEF EndsInv
<1>4. \A i, j \in 1..Len(list) : list[i] = list[j] => i = j
  BY <1>0, <1>1 DEF IsInjective
<1>5. NewestVal(head) = list[Newest(head)] /\ NewestVal(tail) = list[Newest(tail)]
  BY <1>0, <1>2, <1>3 DEF EndsInv
<1> QED BY <1>0, <1>1, <1>2, <1>3, <1>4, <1>5 DEF EndsInv

LEMMA NodeFacts ==
  ASSUME IInv, NEW n \in Node
  PROVE  /\ Newest(data(n)) = 1 /\ Newest(next(n)) \in 1..3
         /\ memory[next(n)][1].val = Garbage
         /\ Newest(next(n)) >= 2 => memory[next(n)][2].val = Null
         /\ InList(n) => Newest(next(n)) >= 2
         /\ \A i \in 1..(Len(list) - 1) : list[i] = n => Newest(next(n)) = 3
         /\ Newest(next(n)) = 3 =>
              /\ memory[next(n)][3].val \in Node
              /\ Follows(n, memory[next(n)][3].val)
              /\ memory[next(n)][3].view[data(memory[next(n)][3].val)] = 1
<1>0. TypeOK /\ NextInv
  BY DEF IInv
<1>1. /\ Newest(data(n)) = 1 /\ Newest(next(n)) \in 1..3
      /\ memory[next(n)][1].val = Garbage
      /\ Newest(next(n)) >= 2 => memory[next(n)][2].val = Null
      /\ InList(n) => Newest(next(n)) >= 2
  BY <1>0 DEF NextInv
<1>2. Newest(next(n)) = 3 =>
        /\ Follows(n, memory[next(n)][3].val)
        /\ memory[next(n)][3].view[data(memory[next(n)][3].val)] = 1
  BY <1>0 DEF NextInv
<1>3. Follows(n, memory[next(n)][3].val) => memory[next(n)][3].val \in Node
  <2>1. \A i \in 1..(Len(list) - 1) : list[i + 1] \in Node
    BY <1>0 DEF TypeOK
  <2> QED BY <2>1 DEF Follows
<1>4. \A i \in 1..(Len(list) - 1) : list[i] = n => Newest(next(n)) = 3
  BY <1>0 DEF NextInv
<1> QED BY <1>1, <1>2, <1>3, <1>4

\* Messages of head or of tail change nothing about the nodes.
LEMMA NextInvStays ==
  ASSUME TypeOK, NextInv, list' = list,
         \A n \in Node : memory'[next(n)] = memory[next(n)] /\ memory'[data(n)] = memory[data(n)]
  PROVE  NextInv'
<1>1. \A n \in Node :
        /\ Newest(data(n))' = 1 /\ Newest(next(n))' \in 1..3
        /\ memory'[next(n)][1].val = Garbage
        /\ Newest(next(n))' >= 2 => memory'[next(n)][2].val = Null
        /\ InList(n)' => Newest(next(n))' >= 2
  BY DEF NextInv, InList
<1>2. \A n \in Node : Newest(next(n))' = 3 =>
        /\ Follows(n, memory[next(n)][3].val)'
        /\ memory'[next(n)][3].view[data(memory'[next(n)][3].val)] = 1
  BY DEF NextInv, Follows
<1>3. \A i \in 1..(Len(list') - 1) : Newest(next(list[i]))' = 3
  BY DEF NextInv, TypeOK
<1>4. IsInjective(list)'
  BY DEF NextInv, IsInjective
<1> QED BY <1>1, <1>2, <1>3, <1>4 DEF NextInv

LEMMA TailExchange ==
  ASSUME IInv, NEW t \in Thread, NEW v \in Node, NewestVal(tail) = cur_tail[t],
         RmwRelease(t, tail, v) \/ RmwRelaxed(t, tail, v),
         UNCHANGED list, Follows(cur_tail[t], v)
  PROVE  MemoryOK(t)
<1>0. TypeOK /\ EndsInv /\ NextInv /\ ViewInv /\ \A u \in Thread : EnqueueInv(u)
  BY DEF IInv
<1>1. PICK m \in Message :
        /\ m.val = v
        /\ memory' = [memory EXCEPT ![tail] = Append(memory[tail], m)]
        /\ view' = [view EXCEPT ![t][tail] = Newest(tail) + 1]
        /\ \A k \in Location \ {tail} : m.view[k] <= Newest(k)
        /\ m.view[tail] <= Newest(tail) + 1
  BY <1>0, Exchange, Locations, ListFacts
<1>2. /\ memory' \in [Location -> Seq(Message)]
      /\ \A k \in Location \ {tail} : memory'[k] = memory[k]
      /\ Newest(tail)' = Newest(tail) + 1 /\ Newest(tail) \in Nat
      /\ \A i \in 1..Newest(tail) : memory'[tail][i] = memory[tail][i]
      /\ memory'[tail][Newest(tail) + 1] = m
  BY <1>0, <1>1, Appended, Locations
<1>3. /\ ViewInv' /\ view' \in [Thread -> [Location -> Nat]]
      /\ \A u \in Thread \ {t} : view'[u] = view[u]
      /\ \A k \in Location : view[t][k] <= view'[t][k]
  BY <1>0, <1>1, ExchangeKeepsViews, Locations
<1>4. Newest(tail) + 1 <= Len(list) /\ v = list[Newest(tail) + 1]
  <2>1. PICK i \in 1..(Len(list) - 1) : list[i] = cur_tail[t] /\ list[i + 1] = v
    BY DEF Follows
  <2>2. i = Newest(tail)
    BY <2>1, ListFacts
  <2> QED BY <2>1, <2>2, ListFacts
<1>5. memory'[head] = memory[head]
      /\ \A n \in Node : memory'[next(n)] = memory[next(n)]
                        /\ memory'[data(n)] = memory[data(n)]
  BY <1>2, Locations
<1>6. EndsInv'
  <2>1. Newest(head)' = Newest(head)
    BY <1>5
  <2>2. \A i \in 1..Newest(tail)' : memory'[tail][i].val = list[i]
    BY <1>0, <1>1, <1>2, <1>4 DEF EndsInv
  <2>3. /\ Newest(head)' >= 1 /\ Newest(head)' <= Newest(tail)'
        /\ Newest(tail)' \in {Len(list) - 1, Len(list)}
    BY <1>2, <1>4, <2>1, ListFacts
  <2> QED BY <1>0, <1>5, <2>2, <2>3 DEF EndsInv
<1>7. NextInv'
  BY <1>0, <1>5, NextInvStays
<1>8. Evolves
  BY <1>0, <1>2, <1>5, ListFacts DEF Evolves, TypeOK
<1>9. \A u \in Thread : pc[u] \in Inserting =>
        /\ \A i \in 1..Len(list') : list'[i] # node[u]
        /\ Len(memory'[next(node[u])]) = 2
  BY <1>0, <1>5 DEF EnqueueInv, InList
<1> QED BY <1>2, <1>3, <1>6, <1>7, <1>8, <1>9 DEF MemoryOK

LEMMA HeadExchange ==
  ASSUME IInv, NEW t \in Thread, pc[t] = "d_swing", NewestVal(head) = cur_head[t],
         RmwRelease(t, head, lnext[t]), UNCHANGED list
  PROVE  /\ MemoryOK(t) /\ Newest(head)' = Newest(head) + 1
         /\ Newest(tail)' = Newest(tail) /\ NewestVal(tail)' = NewestVal(tail)
<1>0. TypeOK /\ EndsInv /\ NextInv /\ ViewInv /\ DequeueInv(t)
      /\ \A u \in Thread : EnqueueInv(u)
  BY DEF IInv
<1>1. lnext[t] \in Node /\ Follows(cur_head[t], lnext[t])
  BY <1>0 DEF DequeueInv
<1>2. PICK m \in Message :
        /\ m.val = lnext[t]
        /\ memory' = [memory EXCEPT ![head] = Append(memory[head], m)]
        /\ view' = [view EXCEPT ![t][head] = Newest(head) + 1]
        /\ \A k \in Location \ {head} : m.view[k] <= Newest(k) /\ view[t][k] <= m.view[k]
        /\ m.view[head] <= Newest(head) + 1
  <2>1. head \in Location /\ lnext[t] \in Pointer \cup {Garbage} /\ Newest(head) >= 1
    BY <1>1, Locations, ListFacts
  <2> QED BY <1>0, <2>1, Exchange
<1>3. /\ memory' \in [Location -> Seq(Message)]
      /\ \A k \in Location \ {head} : memory'[k] = memory[k]
      /\ Newest(head)' = Newest(head) + 1 /\ Newest(head) \in Nat
      /\ \A i \in 1..Newest(head) : memory'[head][i] = memory[head][i]
      /\ memory'[head][Newest(head) + 1] = m
  BY <1>0, <1>2, Appended, Locations
<1>4. /\ ViewInv' /\ view' \in [Thread -> [Location -> Nat]]
      /\ \A u \in Thread \ {t} : view'[u] = view[u]
      /\ \A k \in Location : view[t][k] <= view'[t][k]
  BY <1>0, <1>2, ExchangeKeepsViews, Locations
<1>5. lnext[t] = list[Newest(head) + 1]
  <2>1. PICK i \in 1..(Len(list) - 1) : list[i] = cur_head[t] /\ list[i + 1] = lnext[t]
    BY <1>1 DEF Follows
  <2>2. i = Newest(head)
    BY <2>1, ListFacts
  <2> QED BY <2>1, <2>2
<1>6. Newest(head) + 1 <= Newest(tail) /\ m.view[tail] >= Newest(head) + 1
  <2>1. PICK i \in 1..Newest(head), j \in 1..Newest(tail) :
          /\ cur_head[t] = list[i] /\ cur_tail[t] = list[j]
          /\ i <= j /\ j <= view[t][tail]
    BY <1>0 DEF DequeueInv
  <2>2. i = Newest(head) /\ i # j
    BY <1>0, <2>1, ListFacts DEF DequeueInv
  <2>3. view[t][tail] <= m.view[tail] /\ view[t][tail] \in Nat /\ m.view[tail] \in Nat
    BY <1>0, <1>2, Locations DEF TypeOK, Message
  <2> QED BY <2>1, <2>2, <2>3, ListFacts
<1>7. memory'[tail] = memory[tail]
      /\ \A n \in Node : memory'[next(n)] = memory[next(n)]
                        /\ memory'[data(n)] = memory[data(n)]
  BY <1>3, Locations
<1>8. EndsInv'
  <2>1. Newest(tail)' = Newest(tail)
    BY <1>7
  <2>2. \A i \in 1..Newest(head)' : memory'[head][i].val = list[i]
    BY <1>0, <1>2, <1>3, <1>5 DEF EndsInv
  <2>3. \A i \in 2..Newest(head)' : memory'[head][i].view[tail] >= i
    BY <1>0, <1>2, <1>3, <1>6 DEF EndsInv
  <2>4. /\ Newest(head)' >= 1 /\ Newest(head)' <= Newest(tail)'
        /\ Newest(tail)' \in {Len(list) - 1, Len(list)}
    BY <1>0, <1>3, <1>6, <2>1, ListFacts DEF EndsInv
  <2> QED BY <1>0, <1>7, <2>2, <2>3, <2>4 DEF EndsInv
<1>9. NextInv'
  BY <1>0, <1>7, NextInvStays
<1>10. Evolves
  BY <1>0, <1>3, <1>7, ListFacts DEF Evolves, TypeOK
<1>11. \A u \in Thread : pc[u] \in Inserting =>
        /\ \A i \in 1..Len(list') : list'[i] # node[u]
        /\ Len(memory'[next(node[u])]) = 2
  BY <1>0, <1>7 DEF EnqueueInv, InList
<1> QED BY <1>3, <1>4, <1>7, <1>8, <1>9, <1>10, <1>11 DEF MemoryOK

LEMMA LinkExchange ==
  ASSUME IInv, NEW t \in Thread, EnqueueLink(t)
  PROVE  /\ MemoryOK(t) /\ list' = Append(list, node[t]) /\ node[t] \in Node
         /\ Follows(cur_tail[t], node[t])'
         /\ UNCHANGED <<Newest(head), Newest(tail), NewestVal(head)>>
<1>0. /\ TypeOK /\ EndsInv /\ NextInv /\ ViewInv /\ EnqueueInv(t)
      /\ \A u \in Thread : EnqueueInv(u)
  BY DEF IInv
<1>00. PICK n, c, len : n = node[t] /\ c = cur_tail[t] /\ len = Len(list)
  OBVIOUS
<1>01. /\ pc[t] = "e_link" /\ NewestVal(next(c)) = Null
       /\ RmwRelease(t, next(c), n) /\ list' = Append(list, n)
       /\ node' = node /\ cur_tail' = cur_tail
  BY <1>00 DEF EnqueueLink
<1>1. /\ n \in Node /\ ~InList(n) /\ Newest(next(n)) = 2 /\ view[t][data(n)] = 1
      /\ \A u \in Thread : pc[u] \in Inserting /\ node[u] = n => u = t
  BY <1>0, <1>00, <1>01 DEF EnqueueInv
<1>2. len \in Nat \ {0} /\ list \in Seq(Node) /\ len = Len(list)
  BY <1>0, <1>00, ListFacts DEF TypeOK
<1>3. c = list[len] /\ c \in Node /\ Newest(next(c)) = 2 /\ Newest(tail) = len
  <2>1. PICK i \in 1..Newest(tail) : c = list[i]
    BY <1>0, <1>00, <1>01 DEF EnqueueInv
  <2>2. i \in 1..len /\ c \in Node /\ InList(c)
    BY <1>2, <2>1, ListFacts DEF InList
  <2>3. Newest(next(c)) = 2
    <3>1. Newest(next(c)) \in {2, 3}
      BY <2>2, NodeFacts
    <3>2. Newest(next(c)) = 3 => NewestVal(next(c)) \in Node
      BY <2>2, NodeFacts
    <3> QED BY <1>01, <3>1, <3>2
  <2>4. i = len
    <3>1. i # len => i \in 1..(Len(list) - 1)
      BY <1>2, <2>2
    <3> QED BY <2>1, <2>2, <2>3, <3>1, NodeFacts
  <2>5. Newest(tail) = len
    BY <1>2, <2>1, <2>4, ListFacts
  <2> QED BY <2>1, <2>2, <2>3, <2>4, <2>5
<1>5. /\ list' \in Seq(Node) /\ Len(list') = len + 1 /\ list'[len + 1] = n
      /\ \A i \in 1..len : list'[i] = list[i]
  BY <1>01, <1>1, <1>2
<1>6. PICK m \in Message :
        /\ m.val = n
        /\ memory' = [memory EXCEPT ![next(c)] = Append(memory[next(c)], m)]
        /\ view' = [view EXCEPT ![t][next(c)] = Newest(next(c)) + 1]
        /\ \A k \in Location \ {next(c)} :
             m.view[k] <= Newest(k) /\ view[t][k] <= m.view[k]
        /\ m.view[next(c)] <= Newest(next(c)) + 1
  <2>1. next(c) \in Location /\ Newest(next(c)) >= 1 
    BY <1>3, Locations
  <2> QED BY <1>0, <1>01, <1>1, <2>1, Exchange
<1>7. /\ memory' \in [Location -> Seq(Message)]
      /\ \A k \in Location \ {next(c)} : memory'[k] = memory[k]
      /\ Len(memory'[next(c)]) = 3
      /\ \A i \in 1..2 : memory'[next(c)][i] = memory[next(c)][i]
      /\ memory'[next(c)][3] = m
  <2>1. next(c) \in Location /\ Newest(next(c)) = 2
    BY <1>3, Locations
  <2>2. /\ memory' \in [Location -> Seq(Message)]
        /\ \A k \in Location \ {next(c)} : memory'[k] = memory[k]
        /\ Newest(next(c))' = Newest(next(c)) + 1
        /\ \A i \in 1..Newest(next(c)) : memory'[next(c)][i] = memory[next(c)][i]
        /\ memory'[next(c)][Newest(next(c)) + 1] = m
    BY <1>0, <1>6, <2>1, Appended
  <2> QED BY <2>1, <2>2
<1>8. /\ ViewInv' /\ view' \in [Thread -> [Location -> Nat]]
      /\ \A u \in Thread \ {t} : view'[u] = view[u]
      /\ \A k \in Location : view[t][k] <= view'[t][k]
  BY <1>0, <1>3, <1>6, ExchangeKeepsViews, Locations
<1>9. /\ memory'[head] = memory[head] /\ memory'[tail] = memory[tail]
      /\ \A x \in Node : memory'[data(x)] = memory[data(x)]
      /\ \A x \in Node : x # c => memory'[next(x)] = memory[next(x)]
  BY <1>3, <1>7, Locations
<1>10. m.view[data(n)] = 1
  <2>1. data(n) \in Location \ {next(c)} /\ Newest(data(n)) = 1
    BY <1>1, <1>3, Locations, NodeFacts
  <2>2. m.view[data(n)] \in Nat
    BY <2>1 DEF Message
  <2>3. view[t][data(n)] <= m.view[data(n)] /\ m.view[data(n)] <= Newest(data(n))
    BY <1>6, <2>1
  <2> QED BY <1>1, <2>1, <2>2, <2>3
<1>11. EndsInv'
  <2>1. Newest(head) \in 1..len /\ Newest(tail) = len
    BY <1>3, ListFacts
  <2>2. /\ \A i \in 1..Newest(head) : memory[head][i].val = list'[i]
        /\ \A i \in 1..Newest(tail) : memory[tail][i].val = list'[i]
    <3>1. \A i \in 1..Newest(head) : i \in 1..len
      BY <1>2, <2>1
    <3> QED BY <1>0, <1>5, <2>1, <3>1 DEF EndsInv
  <2> QED BY <1>0, <1>2, <1>5, <1>9, <2>1, <2>2 DEF EndsInv
<1>12. Follows(c, n)'
  <2>1. len \in 1..(Len(list') - 1) /\ list'[len] = c /\ list'[len + 1] = n
    BY <1>2, <1>3, <1>5
  <2> QED BY <2>1 DEF Follows
<1>13. NextInv'
  <2>1. IsInjective(list)'
    <3>1. \A i \in 1..len : list[i] # n
      BY <1>1, <1>2 DEF InList
    <3>2. \A i \in 1..(len + 1) : i \in 1..len \/ i = len + 1
      BY <1>2
    <3> QED BY <1>2, <1>5, <3>1, <3>2, ListFacts DEF IsInjective
  <2>2. \A x \in Node : InList(x)' => InList(x) \/ x = n
    BY <1>2, <1>5 DEF InList
  <2>3. \A x \in Node :
          /\ Newest(data(x))' = 1 /\ Newest(next(x))' \in 1..3
          /\ memory'[next(x)][1].val = Garbage
          /\ Newest(next(x))' >= 2 => memory'[next(x)][2].val = Null
          /\ InList(x)' => Newest(next(x))' >= 2
    <3> TAKE x \in Node
    <3>1. CASE x = c
      BY <1>3, <1>7, <1>9, <3>1, NodeFacts
    <3>2. CASE x # c
      BY <1>1, <1>9, <2>2, <3>2, NodeFacts
    <3> QED BY <3>1, <3>2
  <2>4. ASSUME NEW x \in Node, Newest(next(x))' = 3
        PROVE  /\ Follows(x, memory[next(x)][3].val)'
               /\ memory'[next(x)][3].view[data(memory'[next(x)][3].val)] = 1
    <3>1. CASE x = c
      BY <1>6, <1>7, <1>10, <1>12, <3>1 DEF Follows
    <3>2. CASE x # c
      <4>1. PICK v : v = memory[next(x)][3].val
        OBVIOUS
      <4>2. Follows(x, v) /\ memory[next(x)][3].view[data(v)] = 1
        BY <1>9, <2>4, <3>2, <4>1, NodeFacts
      <4>3. PICK i \in 1..(len - 1) : list[i] = x /\ list[i + 1] = v
        BY <1>2, <4>2 DEF Follows
      <4>4. i \in 1..(Len(list') - 1) /\ list'[i] = x /\ list'[i + 1] = v
        BY <1>2, <1>5, <4>3
      <4>5. \E k \in 1..(Len(list') - 1) : list'[k] = x /\ list'[k + 1] = v
        BY <4>4
      <4> QED BY <1>9, <3>2, <4>1, <4>2, <4>5 DEF Follows
    <3> QED BY <3>1, <3>2
  <2>5. \A i \in 1..(Len(list') - 1) : Len(memory'[next(list'[i])]) = 3
    <3> TAKE i \in 1..(Len(list') - 1)
    <3>1. i \in 1..len /\ list'[i] = list[i] /\ list[i] \in Node
      BY <1>2, <1>5
    <3>2. CASE i = len
      BY <1>3, <1>7, <3>1, <3>2
    <3>3. CASE i # len
      <4>1. list[i] # c /\ i \in 1..(len - 1)
        BY <1>2, <1>3, <3>1, <3>3, ListFacts
      <4>2. Newest(next(list[i])) = 3
        BY <1>2, <3>1, <4>1, NodeFacts
      <4> QED BY <1>9, <3>1, <4>1, <4>2
    <3> QED BY <3>2, <3>3
  <2> QED BY <2>1, <2>3, <2>4, <2>5 DEF NextInv
<1>14. Evolves
  BY <1>0, <1>2, <1>5, <1>9, ListFacts DEF Evolves
<1>15. \A u \in Thread \ {t} : pc[u] \in Inserting =>
         /\ \A i \in 1..Len(list') : list'[i] # node[u]
         /\ Len(memory'[next(node[u])]) = 2
  <2> SUFFICES ASSUME NEW u \in Thread \ {t}, pc[u] \in Inserting
               PROVE  /\ \A i \in 1..Len(list') : list'[i] # node[u]
                      /\ Len(memory'[next(node[u])]) = 2
    OBVIOUS
  <2>1. /\ node[u] \in Node /\ ~InList(node[u]) /\ Newest(next(node[u])) = 2
        /\ node[u] # n
    BY <1>0, <1>1 DEF EnqueueInv
  <2>2. node[u] # c
    BY <1>2, <1>3, <2>1 DEF InList
  <2>3. \A i \in 1..(len + 1) : i \in 1..len \/ i = len + 1
    BY <1>2
  <2>4. \A i \in 1..len : list[i] # node[u]
    BY <1>2, <2>1 DEF InList
  <2>5. \A i \in 1..Len(list') : list'[i] # node[u]
    BY <1>5, <2>1, <2>3, <2>4
  <2> QED BY <1>9, <2>1, <2>2, <2>5
<1>16. Follows(cur_tail[t], node[t])'
  BY <1>00, <1>01, <1>12 DEF Follows
<1>17. list' # list
  BY <1>2, <1>5
<1> QED BY <1>00, <1>01, <1>1, <1>7, <1>8, <1>9, <1>11, <1>13, <1>14, <1>15, <1>16, <1>17
    DEF MemoryOK

\* The constructor of a node stores null to a next nobody has used.
Constructs(t, n) ==
  /\ ~Allocated(n)
  /\ memory' = [memory EXCEPT ![next(n)] = Append(@, Initial(Null))]
  /\ view' = [view EXCEPT ![t][next(n)] = 2, ![t][data(n)] = 1]

LEMMA Construction ==
  ASSUME IInv, NEW t \in Thread, NEW n \in Node, Constructs(t, n), UNCHANGED list
  PROVE  /\ MemoryOK(t) /\ Len(memory'[next(n)]) = 2 /\ view'[t][data(n)] = 1
         /\ \A i \in 1..Len(list) : list[i] # n
         /\ \A u \in Thread : pc[u] \in Inserting => node[u] # n
         /\ UNCHANGED <<Newest(head), NewestVal(head)>>
<1>0. /\ TypeOK /\ EndsInv /\ NextInv /\ ViewInv
      /\ \A u \in Thread : EnqueueInv(u)
  BY DEF IInv
<1>1. Newest(next(n)) = 1 /\ Newest(data(n)) = 1
  <2>1. Newest(next(n)) \in 1..3 /\ Newest(data(n)) = 1
    BY NodeFacts
  <2>2. ~(Newest(next(n)) > 1)
    BY DEF Constructs, Allocated
  <2> QED BY <2>1, <2>2
<1>2. /\ \A i \in 1..Len(list) : list[i] # n
      /\ \A u \in Thread : pc[u] \in Inserting => node[u] # n
  <2>1. \A x \in Node : InList(x) => x # n
    BY <1>1, NodeFacts
  <2>2. \A i \in 1..Len(list) : list[i] # n
    BY <2>1 DEF InList
  <2>3. \A u \in Thread : pc[u] \in Inserting => Newest(next(node[u])) = 2
    BY <1>0 DEF EnqueueInv
  <2>4. ASSUME NEW u \in Thread, pc[u] \in Inserting, node[u] = n PROVE FALSE
    BY <1>1, <2>3, <2>4
  <2> QED BY <2>2, <2>4
<1>3. Initial(Null) \in Message /\ Initial(Null).val = Null /\ Initial(Null).view = Nowhere
      /\ \A k \in Location : Nowhere[k] = 0
  BY DEF Message, Initial, Nowhere
<1>4. /\ memory' \in [Location -> Seq(Message)]
      /\ \A k \in Location \ {next(n)} : memory'[k] = memory[k]
      /\ Len(memory'[next(n)]) = 2
      /\ memory'[next(n)][1] = memory[next(n)][1]
      /\ memory'[next(n)][2] = Initial(Null)
  <2>1. next(n) \in Location
    BY Locations
  <2>2. memory' = [memory EXCEPT ![next(n)] = Append(memory[next(n)], Initial(Null))]
    BY DEF Constructs
  <2>3. /\ memory' \in [Location -> Seq(Message)]
        /\ \A k \in Location \ {next(n)} : memory'[k] = memory[k]
        /\ Newest(next(n))' = Newest(next(n)) + 1 /\ Newest(next(n)) \in Nat
        /\ \A i \in 1..Newest(next(n)) : memory'[next(n)][i] = memory[next(n)][i]
        /\ memory'[next(n)][Newest(next(n)) + 1] = Initial(Null)
    BY <1>0, <1>3, <2>1, <2>2, Appended
  <2> QED BY <1>1, <2>3
<1>5. /\ memory'[head] = memory[head] /\ memory'[tail] = memory[tail]
      /\ \A x \in Node : memory'[data(x)] = memory[data(x)]
      /\ \A x \in Node : x # n => memory'[next(x)] = memory[next(x)]
  BY <1>4, Locations
<1>6. /\ view' \in [Thread -> [Location -> Nat]]
      /\ \A u \in Thread \ {t} : view'[u] = view[u]
      /\ view'[t][data(n)] = 1 /\ view'[t][next(n)] = 2
      /\ \A k \in Location \ {next(n), data(n)} : view'[t][k] = view[t][k]
  BY <1>0, Locations DEF TypeOK, Constructs
<1>60. \A k \in Location : view[t][k] <= view'[t][k]
  <2> TAKE k \in Location
  <2>1. view[t][k] \in Nat /\ view[t][k] <= Newest(k)
    BY <1>0 DEF ViewInv, Bound, TypeOK
  <2>2. CASE k = next(n)
    <3>1. Newest(k) = 1 /\ view'[t][k] = 2
      BY ONLY <1>1, <1>6, <2>2
    <3> QED BY <2>1, <3>1
  <2>3. CASE k = data(n)
    <3>1. Newest(k) = 1 /\ view'[t][k] = 1
      BY ONLY <1>1, <1>6, <2>3
    <3> QED BY <2>1, <3>1
  <2> QED BY <1>6, <2>1, <2>2, <2>3
<1>7. \A k \in Location : Newest(k) \in Nat /\ Newest(k) <= Newest(k)'
  <2> TAKE k \in Location
  <2>1. Newest(k) \in Nat
    BY <1>0 DEF TypeOK
  <2>2. CASE k = next(n)
    <3>1. Len(memory[k]) = 1 /\ Len(memory'[k]) = 2
      BY ONLY <1>1, <1>4, <2>2 DEF Newest
    <3> QED BY <2>1, <3>1
  <2>3. CASE k # next(n)
    BY <1>4, <2>1, <2>3
  <2> QED BY <2>2, <2>3
<1>8. ViewInv'
  <2>1. \A u \in Thread : \A k \in Location : view'[u][k] <= Newest(k)'
    <3> SUFFICES ASSUME NEW u \in Thread, NEW k \in Location
                 PROVE  view'[u][k] <= Newest(k)'
      OBVIOUS
    <3>1. view[u][k] \in Nat /\ view[u][k] <= Newest(k)
      BY <1>0 DEF ViewInv, Bound, TypeOK
    <3>2. CASE u = t /\ k \in {next(n), data(n)}
      BY <1>1, <1>4, <1>6, <1>7, <3>2
    <3>3. CASE ~(u = t /\ k \in {next(n), data(n)})
      BY <1>6, <1>7, <3>1, <3>3
    <3> QED BY <3>2, <3>3
  <2>2. \A k \in Location : \A i \in 1..Newest(k)' :
          \A j \in Location : memory'[k][i].view[j] <= Newest(j)'
    <3> SUFFICES ASSUME NEW k \in Location, NEW i \in 1..Newest(k)', NEW j \in Location
                 PROVE  memory'[k][i].view[j] <= Newest(j)'
      OBVIOUS
    <3>1. CASE k = next(n) /\ i = 2
      BY <1>3, <1>4, <1>7, <3>1
    <3>2. CASE ~(k = next(n) /\ i = 2)
      <4>1. i \in 1..Newest(k) /\ memory'[k][i] = memory[k][i]
        <5>1. CASE k = next(n)
          <6>1. Len(memory'[k]) = 2
            BY ONLY <1>4, <5>1
          <6>2. i \in 1..2 /\ i # 2
            BY <3>2, <5>1, <6>1
          <6>3. i = 1
            BY <6>2
          <6> QED BY <1>1, <1>4, <5>1, <6>3
        <5>2. CASE k # next(n)
          BY <1>4, <5>2
        <5> QED BY <5>1, <5>2
      <4>2. memory[k][i] \in Message
        BY <1>0, <4>1 DEF TypeOK
      <4>3. memory[k][i].view[j] \in Nat /\ memory[k][i].view[j] <= Newest(j)
        BY <1>0, <4>1, <4>2 DEF ViewInv, Bound, Message
      <4> QED BY <1>7, <4>1, <4>3
    <3> QED BY <3>1, <3>2
  <2> QED BY <2>1, <2>2 DEF ViewInv, Bound
<1>9. EndsInv'
  BY <1>0, <1>5 DEF EndsInv
<1>10. NextInv'
  <2>1. \A x \in Node :
          /\ Newest(data(x))' = 1 /\ Newest(next(x))' \in 1..3
          /\ memory'[next(x)][1].val = Garbage
          /\ Newest(next(x))' >= 2 => memory'[next(x)][2].val = Null
          /\ InList(x)' => Newest(next(x))' >= 2
    <3> TAKE x \in Node
    <3>1. CASE x = n
      <4>1. ~InList(n)'
        BY <1>2 DEF InList
      <4>2. memory[next(n)][1].val = Garbage /\ Newest(data(n)) = 1
        BY NodeFacts
      <4> QED BY <1>3, <1>4, <1>5, <3>1, <4>1, <4>2
    <3>2. CASE x # n
      BY <1>0, <1>5, <3>2 DEF NextInv, InList
    <3> QED BY <3>1, <3>2
  <2>2. ASSUME NEW x \in Node, Newest(next(x))' = 3
        PROVE  /\ Follows(x, memory[next(x)][3].val)'
               /\ memory'[next(x)][3].view[data(memory'[next(x)][3].val)] = 1
    <3>1. x # n
      <4>1. Len(memory'[next(x)]) = 3
        BY <2>2
      <4>2. x = n => Len(memory'[next(x)]) = 2
        BY ONLY <1>4
      <4> QED BY <4>1, <4>2
    <3>2. /\ Follows(x, memory[next(x)][3].val)
          /\ memory[next(x)][3].view[data(memory[next(x)][3].val)] = 1
      BY <1>5, <2>2, <3>1, NodeFacts
    <3> QED BY <1>5, <3>1, <3>2 DEF Follows
  <2>3. \A i \in 1..(Len(list') - 1) : Len(memory'[next(list'[i])]) = 3
    <3> TAKE i \in 1..(Len(list') - 1)
    <3>1. i \in 1..Len(list) /\ list[i] \in Node /\ list[i] # n
      BY <1>2, ListFacts
    <3> QED BY <1>5, <3>1, NodeFacts
  <2>4. IsInjective(list)'
    BY <1>0 DEF NextInv, IsInjective
  <2> QED BY <2>1, <2>2, <2>3, <2>4 DEF NextInv
<1>11. Evolves
  BY <1>0, <1>5, ListFacts DEF Evolves, TypeOK
<1>12. \A u \in Thread : pc[u] \in Inserting =>
         /\ \A i \in 1..Len(list') : list'[i] # node[u]
         /\ Len(memory'[next(node[u])]) = 2
  BY <1>0, <1>2, <1>5 DEF EnqueueInv, InList
<1> QED BY <1>2, <1>4, <1>5, <1>6, <1>60, <1>8, <1>9, <1>10, <1>11, <1>12 DEF MemoryOK

-----------------------------------------------------------------------------
(* The actions                                                             *)

\* What a step of t does to the variables other than memory, view and list.
LocalsOK(t) ==
  /\ value' \in [Node -> Value \cup {NoValue}]
  /\ pc' \in [Thread -> {"idle"} \cup EnqueuePC \cup DequeuePC]
  /\ node' \in [Thread -> Pointer]
  /\ cur_head' \in [Thread -> Pointer] /\ cur_tail' \in [Thread -> Pointer]
  /\ lnext' \in [Thread -> Pointer \cup {Garbage}]
  /\ out' \in [Thread -> Value \cup {NoValue}]
  /\ ret' \in [Thread -> {"void", "true", "false"}]
  /\ \A u \in Thread \ {t} :
       /\ pc'[u] = pc[u] /\ node'[u] = node[u] /\ lnext'[u] = lnext[u]
       /\ cur_head'[u] = cur_head[u] /\ cur_tail'[u] = cur_tail[u]

LEMMA Assemble ==
  ASSUME IInv, NEW t \in Thread, MemoryOK(t), LocalsOK(t),
         EnqueueInv(t)', DequeueInv(t)'
  PROVE  IInv'
<1>1. TypeOK'
  <2>1. \A l \in {head, tail} : \A i \in 1..Newest(l)' : memory'[l][i].val \in Node
    <3>1. /\ list' \in Seq(Node) /\ Newest(head)' \in 0..Len(list')
          /\ Newest(tail)' \in 0..Len(list')
      <4>1. list' \in Seq(Node) /\ Newest(head)' \in Nat /\ Newest(tail)' \in Nat
        BY DEF MemoryOK, Evolves
      <4>2. /\ Newest(head)' <= Newest(tail)'
            /\ Newest(tail)' \in {Len(list') - 1, Len(list')}
        BY DEF MemoryOK, EndsInv
      <4> QED BY <4>1, <4>2
    <3>2. /\ \A i \in 1..Newest(head)' : memory'[head][i].val = list'[i]
          /\ \A i \in 1..Newest(tail)' : memory'[tail][i].val = list'[i]
      BY DEF MemoryOK, EndsInv
    <3>3. \A i \in 1..Len(list') : list'[i] \in Node
      BY <3>1
    <3> QED BY <3>1, <3>2, <3>3
  <2> QED BY <2>1 DEF TypeOK, MemoryOK, LocalsOK, Evolves
<1>2. Others(t)
  <2>1. \A u \in Thread \ {t} :
          /\ pc'[u] = pc[u] /\ node'[u] = node[u]
          /\ cur_head'[u] = cur_head[u] /\ cur_tail'[u] = cur_tail[u]
          /\ lnext'[u] = lnext[u] /\ view'[u] = view[u]
    BY DEF MemoryOK, LocalsOK
  <2>2. ASSUME NEW u \in Thread \ {t}, pc[u] \in Inserting
        PROVE  /\ \A i \in 1..Len(list') : list'[i] # node'[u]
               /\ Len(memory'[next(node'[u])]) = 2
    BY <2>1, <2>2 DEF MemoryOK
  <2>3. ASSUME NEW u \in Thread \ {t}, pc[u] \in Inserting
        PROVE  ~(pc'[t] \in Inserting /\ node'[t] = node[u])
    BY <2>1, <2>3 DEF EnqueueInv
  <2>4. \A u \in Thread \ {t} : pc[u] \in Inserting => ~InList(node[u])'
    BY <2>2 DEF InList
  <2>5. \A u \in Thread \ {t} : pc[u] \in Inserting => Newest(next(node[u]))' = 2
    BY <2>2
  <2> QED BY <2>1, <2>3, <2>4, <2>5 DEF Others
<1> QED BY <1>1, <1>2, StepKeepsIInv DEF MemoryOK

\* The steps that leave memory as it is.
LEMMA RelaxedKeeps ==
  ASSUME IInv, NEW t \in Thread, NEW l \in Location,
         NEW i \in 1..Newest(l), LoadRelaxed(t, l, i), UNCHANGED list
  PROVE  /\ MemoryOK(t) /\ UNCHANGED memory
         /\ view[t][l] <= i /\ view'[t][l] = i
<1>1. TypeOK /\ ViewInv
  BY DEF IInv
<1>2. /\ view[t][l] <= i /\ UNCHANGED memory
      /\ \E w : /\ view' = [view EXCEPT ![t] = w]
                /\ Extends(w, view[t]) /\ w[l] = i
  BY <1>1, RelaxedLoad
<1>3. PICK w : /\ view' = [view EXCEPT ![t] = w]
               /\ Extends(w, view[t]) /\ w[l] = i
  BY <1>2
<1>4. MemoryOK(t) /\ view'[t] = w
  BY <1>2, <1>3, ReadKeeps
<1> QED BY <1>2, <1>3, <1>4

LEMMA AcquireKeeps ==
  ASSUME IInv, NEW t \in Thread, NEW l \in Location,
         NEW i \in 1..Newest(l), LoadAcquire(t, l, i), UNCHANGED list
  PROVE  /\ MemoryOK(t) /\ UNCHANGED memory
         /\ view[t][l] <= i /\ view'[t][l] = i
         /\ \A k \in Location : k # l => memory[l][i].view[k] <= view'[t][k]
<1>1. TypeOK /\ ViewInv
  BY DEF IInv
<1>2. /\ view[t][l] <= i /\ UNCHANGED memory
      /\ \E w : /\ view' = [view EXCEPT ![t] = w]
                /\ Extends(w, view[t]) /\ w[l] = i
                /\ \A k \in Location : k # l => memory[l][i].view[k] <= w[k]
  BY <1>1, AcquireLoad
<1>3. PICK w : /\ view' = [view EXCEPT ![t] = w]
               /\ Extends(w, view[t]) /\ w[l] = i
               /\ \A k \in Location : k # l => memory[l][i].view[k] <= w[k]
  BY <1>2
<1>4. MemoryOK(t) /\ view'[t] = w
  BY <1>2, <1>3, ReadKeeps
<1> QED BY <1>2, <1>3, <1>4

LEMMA UnchangedKeeps ==
  ASSUME IInv, NEW t \in Thread, UNCHANGED <<memory, view, list>>
  PROVE  MemoryOK(t)
<1>1. Extends(view[t], view[t]) /\ view' = [view EXCEPT ![t] = view[t]]
  BY DEF IInv, ViewInv, Bound, Extends, TypeOK
<1> QED BY <1>1, ReadKeeps

\* Helping tail on, or failing to.
LEMMA HelpKeeps ==
  ASSUME IInv, NEW t \in Thread, HelpTail(t), lnext[t] \in Node,
         Follows(cur_tail[t], lnext[t])
  PROVE  MemoryOK(t)
<1>1. CASE NewestVal(tail) = cur_tail[t] /\ RmwRelaxed(t, tail, lnext[t])
  BY <1>1, TailExchange DEF HelpTail
<1>2. CASE WeakCasFails(t, tail, cur_tail[t])
  BY <1>2, RelaxedKeeps, Locations DEF HelpTail, WeakCasFails, CasFails
<1> QED BY <1>1, <1>2 DEF HelpTail

\* The value of a node is written once.
LEMMA Seen ==
  ASSUME IInv, NEW t \in Thread, MemoryOK(t), NEW n \in Node,
         1 <= view'[t][data(n)] \/ view[t][data(n)] = 1
  PROVE  view'[t][data(n)] = 1
<1>1. PICK k \in Location : k = data(n)
  BY Locations
<1>2. Len(memory'[data(n)]) = 1
  BY DEF MemoryOK, NextInv
<1>3. view'[t][k] \in Nat /\ view'[t][k] <= Len(memory'[k]) /\ view[t][k] <= view'[t][k]
  BY DEF MemoryOK, ViewInv, Bound
<1>4. Len(memory'[k]) = 1
  BY ONLY <1>1, <1>2
<1>5. 1 <= view'[t][k] \/ view[t][k] = 1
  BY <1>1
<1> QED BY <1>1, <1>3, <1>4, <1>5

\* The node of an enqueue that has not been linked stays as it is.
LEMMA KeepsNode ==
  ASSUME IInv, NEW t \in Thread, MemoryOK(t), LocalsOK(t), pc[t] \in Inserting,
         list' = list, node'[t] = node[t]
  PROVE  /\ node'[t] \in Node /\ \A i \in 1..Len(list') : list'[i] # node'[t]
         /\ Len(memory'[next(node'[t])]) = 2 /\ view'[t][data(node'[t])] = 1
         /\ \A u \in Thread :
              pc'[u] \in Inserting /\ node'[u] = node'[t] => u = t
<1>1. /\ node[t] \in Node /\ view[t][data(node[t])] = 1
      /\ \A u \in Thread : pc[u] \in Inserting /\ node[u] = node[t] => u = t
  BY DEF IInv, EnqueueInv
<1>2. view'[t][data(node[t])] = 1
  BY <1>1, Seen
<1>3. \A u \in Thread : pc'[u] \in Inserting /\ node'[u] = node[t] => u = t
  BY <1>1 DEF LocalsOK
<1> QED BY <1>1, <1>2, <1>3 DEF MemoryOK

\* What has been linked, or swung to, stays so.
LEMMA Persists ==
  ASSUME IInv, NEW t \in Thread, MemoryOK(t)
  PROVE  /\ \A m, n : Follows(m, n) =>
              \E i \in 1..(Len(list') - 1) : list'[i] = m /\ list'[i + 1] = n
         /\ \A i \in 1..Newest(head) : i \in 1..Newest(head)' /\ list'[i] = list[i]
         /\ \A i \in 1..Newest(tail) : i \in 1..Newest(tail)' /\ list'[i] = list[i]
<1>0. TypeOK /\ Evolves
  BY DEF IInv, MemoryOK
<1>1. \A m, n : Follows(m, n) =>
        \E i \in 1..(Len(list') - 1) : list'[i] = m /\ list'[i + 1] = n
  BY <1>0, LinksStay DEF Follows
<1>2. /\ Newest(head) \in 1..Len(list) /\ Newest(tail) \in 1..Len(list)
      /\ Len(list) \in Nat
  BY ListFacts
<1>3. \A i \in 1..Newest(head) : i \in 1..Newest(head)' /\ list'[i] = list[i]
  BY <1>0, <1>2 DEF Evolves
<1>4. \A i \in 1..Newest(tail) : i \in 1..Newest(tail)' /\ list'[i] = list[i]
  BY <1>0, <1>2 DEF Evolves
<1> QED BY <1>1, <1>3, <1>4

\* What a load of next finds: who acquires a successor has its value, too.
LEMMA NextLoaded ==
  ASSUME IInv, NEW n \in Node, NEW i \in 1..Newest(next(n)),
         memory[next(n)][i].val \in Node
  PROVE  /\ Follows(n, memory[next(n)][i].val)
         /\ memory[next(n)][i].view[data(memory[next(n)][i].val)] = 1
<1>1. i \in {1, 2, 3} /\ (i = 3 => Newest(next(n)) = 3)
  BY NodeFacts
<1>2. i # 1
  BY NodeFacts
<1>3. i # 2
  BY NodeFacts
<1> QED BY <1>1, <1>2, <1>3, NodeFacts

LEMMA LoadedPointer ==
  ASSUME TypeOK, NEW l \in Location, NEW i \in 1..Newest(l)
  PROVE  /\ memory[l][i].val \in Pointer \cup {Garbage}
         /\ memory[l][i].view \in [Location -> Nat]
<1>1. memory[l][i] \in Message
  BY DEF TypeOK
<1> QED BY <1>1 DEF Message

LEMMA CallKeepsIInv ==
  ASSUME IInv, NEW t \in Thread, Call(t)
  PROVE  IInv' /\ MemoryOK(t) /\ LocalsOK(t)
<1>0. TypeOK /\ view \in [Thread -> [Location -> Nat]] /\ EnqueueInv(t)
  BY DEF IInv, TypeOK
<1>1. CASE DequeueCall(t)
  <2>2. MemoryOK(t)
    BY <1>1, UnchangedKeeps DEF DequeueCall
  <2>3. LocalsOK(t)
    BY <1>0, <1>1 DEF DequeueCall, TypeOK, LocalsOK
  <2>4. pc'[t] = "d_head"
    BY <1>0, <1>1 DEF DequeueCall, TypeOK
  <2>5. EnqueueInv(t)' /\ DequeueInv(t)'
    BY <2>4 DEF EnqueueInv, DequeueInv
  <2> QED BY <2>2, <2>3, <2>4, <2>5, Assemble
<1>2. ASSUME NEW v \in Value, EnqueueCall(t, v)
      PROVE  IInv' /\ MemoryOK(t) /\ LocalsOK(t)
  <2>1. PICK n \in Node :
          /\ Constructs(t, n) /\ UNCHANGED list
          /\ value' = [value EXCEPT ![n] = v] /\ node' = [node EXCEPT ![t] = n]
          /\ pc[t] = "idle" /\ pc' = [pc EXCEPT ![t] = "e_tail"]
          /\ ret' = [ret EXCEPT ![t] = "void"]
          /\ UNCHANGED <<cur_head, cur_tail, lnext, out>>
    BY <1>2 DEF EnqueueCall, Constructs
  <2>2. /\ MemoryOK(t) /\ Len(memory'[next(n)]) = 2 /\ view'[t][data(n)] = 1
        /\ \A i \in 1..Len(list) : list[i] # n
        /\ \A u \in Thread : pc[u] \in Inserting => node[u] # n
    BY <2>1, Construction
  <2>3. LocalsOK(t)
    BY <1>0, <2>1 DEF TypeOK, LocalsOK
  <2>4. pc'[t] = "e_tail" /\ node'[t] = n
    BY <1>0, <2>1 DEF TypeOK
  <2>5. EnqueueInv(t)'
    <3>1. \A u \in Thread : pc'[u] \in Inserting /\ node'[u] = n => u = t
      BY <2>2, <2>3 DEF LocalsOK
    <3> QED BY <2>1, <2>2, <2>4, <3>1 DEF EnqueueInv, InList
  <2>6. DequeueInv(t)'
    BY <2>4 DEF DequeueInv
  <2> QED BY <2>2, <2>3, <2>4, <2>5, <2>6, Assemble
<1> QED BY <1>1, <1>2 DEF Call

LEMMA EnqueueStepKeepsIInv ==
  ASSUME IInv, NEW t \in Thread, EnqueueStep(t)
  PROVE  IInv' /\ MemoryOK(t) /\ LocalsOK(t)
<1>0. TypeOK /\ EndsInv /\ EnqueueInv(t)
  BY DEF IInv
<1>1. CASE EnqueueLoadTail(t)
  <2>1. PICK i \in 1..Newest(tail) :
          /\ LoadAcquire(t, tail, i)
          /\ cur_tail' = [cur_tail EXCEPT ![t] = memory[tail][i].val]
    BY <1>1 DEF EnqueueLoadTail
  <2>2. MemoryOK(t) /\ memory[tail][i].val = list[i]
    BY <1>0, <1>1, <2>1, AcquireKeeps, Locations DEF EnqueueLoadTail, EndsInv
  <2>3. LocalsOK(t)
    BY <1>0, <1>1, <2>1 DEF EnqueueLoadTail, TypeOK, LocalsOK
  <2>4. /\ pc[t] = "e_tail" /\ pc'[t] = "e_next" /\ node'[t] = node[t]
        /\ cur_tail'[t] = list[i] /\ list' = list
    BY <1>0, <1>1, <2>1, <2>2 DEF EnqueueLoadTail, TypeOK
  <2>5. EnqueueInv(t)'
    BY <2>2, <2>3, <2>4, KeepsNode, Persists DEF EnqueueInv, InList
  <2> QED BY <2>2, <2>3, <2>4, <2>5, Assemble DEF DequeueInv
<1>2. CASE EnqueueLoadNext(t)
  <2>1. PICK c \in Node : c = cur_tail[t]
    BY <1>0, <1>2, ListFacts DEF EnqueueLoadNext, EnqueueInv
  <2>2. PICK i \in 1..Newest(next(c)) :
          /\ LoadAcquire(t, next(c), i)
          /\ lnext' = [lnext EXCEPT ![t] = memory[next(c)][i].val]
    BY <1>2, <2>1 DEF EnqueueLoadNext
  <2>3. MemoryOK(t)
    BY <1>2, <2>2, AcquireKeeps, Locations DEF EnqueueLoadNext
  <2>4. /\ memory[next(c)][i].val \in Pointer \cup {Garbage}
        /\ memory[next(c)][i].val \in Node => Follows(c, memory[next(c)][i].val)
    BY <1>0, LoadedPointer, NextLoaded, Locations
  <2>5. LocalsOK(t)
    BY <1>0, <1>2, <2>2, <2>4 DEF EnqueueLoadNext, TypeOK, LocalsOK
  <2>6. /\ pc[t] = "e_next" /\ pc'[t] = "e_check" /\ node'[t] = node[t]
        /\ cur_tail'[t] = c /\ lnext'[t] = memory[next(c)][i].val /\ list' = list
    BY <1>0, <1>2, <2>1, <2>2 DEF EnqueueLoadNext, TypeOK
  <2>7. \E k \in 1..Newest(tail)' : cur_tail'[t] = list'[k]
    BY <1>0, <2>1, <2>3, <2>6, Persists DEF EnqueueInv
  <2>8. lnext'[t] \in Node => Follows(cur_tail[t], lnext[t])'
    BY <2>3, <2>4, <2>6, Persists DEF Follows
  <2>9. EnqueueInv(t)'
    BY <2>3, <2>5, <2>6, <2>7, <2>8, KeepsNode DEF EnqueueInv, InList
  <2> QED BY <2>3, <2>5, <2>6, <2>9, Assemble DEF DequeueInv
<1>3. CASE EnqueueCheckTail(t)
  <2>1. MemoryOK(t)
    BY <1>3, RelaxedKeeps, Locations DEF EnqueueCheckTail
  <2>2. LocalsOK(t)
    BY <1>0, <1>3 DEF EnqueueCheckTail, TypeOK, LocalsOK
  <2>3. /\ pc[t] = "e_check" /\ node'[t] = node[t] /\ list' = list
        /\ cur_tail'[t] = cur_tail[t] /\ lnext'[t] = lnext[t]
        /\ \/ pc'[t] = "e_link" /\ lnext[t] = Null
           \/ pc'[t] = "e_help" /\ lnext[t] \in Node
           \/ pc'[t] = "e_tail"
    BY <1>0, <1>3 DEF EnqueueCheckTail, TypeOK
  <2>4. \E k \in 1..Newest(tail)' : cur_tail'[t] = list'[k]
    BY <1>0, <2>1, <2>3, Persists DEF EnqueueInv
  <2>5. lnext'[t] \in Node => Follows(cur_tail[t], lnext[t])'
    BY <1>0, <2>1, <2>3, Persists DEF Follows, EnqueueInv
  <2>6. EnqueueInv(t)'
    BY <2>1, <2>2, <2>3, <2>4, <2>5, KeepsNode DEF EnqueueInv, InList
  <2> QED BY <2>1, <2>2, <2>3, <2>6, Assemble DEF DequeueInv
<1>4. CASE EnqueueLink(t)
  <2>1. MemoryOK(t) /\ Follows(cur_tail[t], node[t])'
    BY <1>4, LinkExchange
  <2>2. LocalsOK(t)
    BY <1>0, <1>4 DEF EnqueueLink, TypeOK, LocalsOK
  <2>3. /\ pc[t] = "e_link" /\ pc'[t] = "e_swing" /\ cur_tail'[t] = cur_tail[t]
    BY <1>0, <1>4 DEF EnqueueLink, TypeOK
  <2>4. \E k \in 1..Newest(tail)' : cur_tail'[t] = list'[k]
    BY <1>0, <2>1, <2>3, Persists DEF EnqueueInv
  <2>5. EnqueueInv(t)'
    BY <2>1, <2>3, <2>4 DEF EnqueueInv
  <2> QED BY <2>1, <2>2, <2>3, <2>5, Assemble DEF DequeueInv
<1>5. CASE EnqueueLinkFails(t)
  <2>1. PICK c \in Node : c = cur_tail[t]
    BY <1>0, <1>5, ListFacts DEF EnqueueLinkFails, EnqueueInv
  <2>2. MemoryOK(t)
    BY <1>5, <2>1, RelaxedKeeps, Locations DEF EnqueueLinkFails, CasFails
  <2>3. LocalsOK(t)
    BY <1>0, <1>5 DEF EnqueueLinkFails, TypeOK, LocalsOK
  <2>4. pc[t] = "e_link" /\ pc'[t] = "e_tail" /\ node'[t] = node[t] /\ list' = list
    BY <1>0, <1>5 DEF EnqueueLinkFails, TypeOK
  <2>5. EnqueueInv(t)'
    BY <2>2, <2>3, <2>4, KeepsNode DEF EnqueueInv, InList
  <2> QED BY <2>2, <2>3, <2>4, <2>5, Assemble DEF DequeueInv
<1>6. CASE EnqueueHelpTail(t)
  <2>1. pc[t] = "e_help" /\ pc'[t] = "e_tail" /\ node'[t] = node[t] /\ list' = list
    BY <1>0, <1>6 DEF EnqueueHelpTail, HelpTail, TypeOK
  <2>2. MemoryOK(t)
    BY <1>0, <1>6, <2>1, HelpKeeps DEF EnqueueHelpTail, EnqueueInv
  <2>3. LocalsOK(t)
    BY <1>0, <1>6 DEF EnqueueHelpTail, HelpTail, TypeOK, LocalsOK
  <2>4. EnqueueInv(t)'
    BY <2>1, <2>2, <2>3, KeepsNode DEF EnqueueInv, InList
  <2> QED BY <2>1, <2>2, <2>3, <2>4, Assemble DEF DequeueInv
<1>7. CASE EnqueueSwingTail(t)
  <2>1. pc[t] = "e_swing" /\ pc'[t] = "idle" /\ list' = list
    BY <1>0, <1>7 DEF EnqueueSwingTail, TypeOK
  <2>2. MemoryOK(t)
    <3>1. CASE NewestVal(tail) = cur_tail[t] /\ RmwRelease(t, tail, node[t])
      <4>1. Follows(cur_tail[t], node[t])
        BY <1>0, <2>1 DEF EnqueueInv
      <4>2. node[t] \in Node
        BY <4>1, ListFacts DEF Follows
      <4> QED BY <2>1, <3>1, <4>1, <4>2, TailExchange
    <3>2. CASE WeakCasFails(t, tail, cur_tail[t])
      BY <2>1, <3>2, RelaxedKeeps, Locations DEF WeakCasFails, CasFails
    <3> QED BY <1>7, <3>1, <3>2 DEF EnqueueSwingTail
  <2>3. LocalsOK(t)
    BY <1>0, <1>7 DEF EnqueueSwingTail, TypeOK, LocalsOK
  <2> QED BY <2>1, <2>2, <2>3, Assemble DEF DequeueInv, EnqueueInv
<1> QED BY <1>1, <1>2, <1>3, <1>4, <1>5, <1>6, <1>7 DEF EnqueueStep

\* What a dequeue found stays true while it does not reload it.
LEMMA KeepsFound ==
  ASSUME IInv, NEW t \in Thread, MemoryOK(t),
         pc[t] \in {"d_next", "d_check", "d_help", "d_value", "d_swing"},
         cur_head'[t] = cur_head[t], cur_tail'[t] = cur_tail[t]
  PROVE  /\ \E i \in 1..Newest(head)', j \in 1..Newest(tail)' :
              /\ cur_head'[t] = list'[i] /\ cur_tail'[t] = list'[j]
              /\ i <= j /\ j <= view'[t][tail]
         /\ pc[t] # "d_next" /\ lnext[t] \in Node =>
              /\ \E i \in 1..(Len(list') - 1) :
                   list'[i] = cur_head[t] /\ list'[i + 1] = lnext[t]
              /\ view'[t][data(lnext[t])] = 1
<1>0. TypeOK /\ DequeueInv(t)
  BY DEF IInv
<1>1. PICK i \in 1..Newest(head), j \in 1..Newest(tail) :
        /\ cur_head[t] = list[i] /\ cur_tail[t] = list[j]
        /\ i <= j /\ j <= view[t][tail]
  BY <1>0 DEF DequeueInv
<1>2. j <= view'[t][tail]
  <2>1. /\ view[t][tail] \in Nat /\ view'[t][tail] \in Nat
        /\ view[t][tail] <= view'[t][tail]
    BY <1>0, Locations DEF TypeOK, MemoryOK
  <2>2. j \in Nat
    OBVIOUS
  <2> QED BY <1>1, <2>1, <2>2
<1>3. \E k \in 1..Newest(head)', l \in 1..Newest(tail)' :
        /\ cur_head'[t] = list'[k] /\ cur_tail'[t] = list'[l]
        /\ k <= l /\ l <= view'[t][tail]
  BY <1>1, <1>2, Persists
<1>4. ASSUME pc[t] # "d_next", lnext[t] \in Node
      PROVE  /\ \E k \in 1..(Len(list') - 1) :
                  list'[k] = cur_head[t] /\ list'[k + 1] = lnext[t]
             /\ view'[t][data(lnext[t])] = 1
  <2>1. Follows(cur_head[t], lnext[t]) /\ view[t][data(lnext[t])] = 1
    BY <1>0, <1>4 DEF DequeueInv
  <2> QED BY <1>4, <2>1, Persists, Seen
<1> QED BY <1>3, <1>4

LEMMA DequeueStepKeepsIInv ==
  ASSUME IInv, NEW t \in Thread, DequeueStep(t)
  PROVE  IInv' /\ MemoryOK(t) /\ LocalsOK(t)
<1>0. TypeOK /\ EndsInv /\ DequeueInv(t)
  BY DEF IInv
<1>1. CASE DequeueLoadHead(t)
  <2>1. PICK i \in 1..Newest(head) :
          /\ LoadAcquire(t, head, i)
          /\ cur_head' = [cur_head EXCEPT ![t] = memory[head][i].val]
    BY <1>1 DEF DequeueLoadHead
  <2>2. /\ MemoryOK(t) /\ memory[head][i].val = list[i]
        /\ memory[head][i].view[tail] <= view'[t][tail]
    BY <1>0, <1>1, <2>1, AcquireKeeps, Locations DEF DequeueLoadHead, EndsInv
  <2>3. LocalsOK(t)
    BY <1>0, <1>1, <2>1 DEF DequeueLoadHead, TypeOK, LocalsOK
  <2>4. pc'[t] = "d_tail" /\ cur_head'[t] = list[i]
    BY <1>0, <1>1, <2>1, <2>2 DEF DequeueLoadHead, TypeOK
  <2>5. i = 1 \/ i <= view'[t][tail]
    <3>1. memory[head][i].view[tail] \in Nat /\ view'[t][tail] \in Nat
      BY <1>0, <2>2, LoadedPointer, Locations DEF MemoryOK
    <3>2. i # 1 => memory[head][i].view[tail] >= i
      BY <1>0 DEF EndsInv
    <3> QED BY <2>2, <3>1, <3>2
  <2>6. DequeueInv(t)'
    BY <2>2, <2>4, <2>5, Persists DEF DequeueInv
  <2> QED BY <2>2, <2>3, <2>4, <2>6, Assemble DEF EnqueueInv
<1>2. CASE DequeueLoadTail(t)
  <2>1. PICK j \in 1..Newest(tail) :
          /\ LoadRelaxed(t, tail, j)
          /\ cur_tail' = [cur_tail EXCEPT ![t] = memory[tail][j].val]
    BY <1>2 DEF DequeueLoadTail
  <2>2. /\ MemoryOK(t) /\ memory[tail][j].val = list[j]
        /\ view[t][tail] <= j /\ view'[t][tail] = j
    BY <1>0, <1>2, <2>1, RelaxedKeeps, Locations DEF DequeueLoadTail, EndsInv
  <2>3. LocalsOK(t)
    BY <1>0, <1>2, <2>1 DEF DequeueLoadTail, TypeOK, LocalsOK
  <2>4. /\ pc[t] = "d_tail" /\ pc'[t] = "d_next"
        /\ cur_head'[t] = cur_head[t] /\ cur_tail'[t] = list[j]
    BY <1>0, <1>2, <2>1, <2>2 DEF DequeueLoadTail, TypeOK
  <2>5. PICK i \in 1..Newest(head) :
          cur_head[t] = list[i] /\ (i = 1 \/ i <= view[t][tail])
    BY <1>0, <2>4 DEF DequeueInv
  <2>6. i <= j /\ j <= view'[t][tail]
    <3>1. view[t][tail] \in Nat
      BY <1>0, Locations DEF TypeOK
    <3> QED BY <2>2, <2>5, <3>1
  <2>7. \E k \in 1..Newest(head)', l \in 1..Newest(tail)' :
          /\ cur_head'[t] = list'[k] /\ cur_tail'[t] = list'[l]
          /\ k <= l /\ l <= view'[t][tail]
    BY <2>2, <2>4, <2>5, <2>6, Persists
  <2>8. DequeueInv(t)'
    BY <2>4, <2>7 DEF DequeueInv
  <2> QED BY <2>2, <2>3, <2>4, <2>8, Assemble DEF EnqueueInv
<1>3. CASE DequeueLoadNext(t)
  <2>1. PICK c \in Node : c = cur_head[t]
    BY <1>0, <1>3, ListFacts DEF DequeueLoadNext, DequeueInv
  <2>2. PICK i \in 1..Newest(next(c)) :
          /\ LoadAcquire(t, next(c), i)
          /\ lnext' = [lnext EXCEPT ![t] = memory[next(c)][i].val]
    BY <1>3, <2>1 DEF DequeueLoadNext
  <2>3. /\ MemoryOK(t)
        /\ \A k \in Location : k # next(c) => memory[next(c)][i].view[k] <= view'[t][k]
    BY <1>3, <2>2, AcquireKeeps, Locations DEF DequeueLoadNext
  <2>4. PICK v \in Pointer \cup {Garbage} : v = memory[next(c)][i].val
    BY <1>0, LoadedPointer, Locations
  <2>5. LocalsOK(t)
    BY <1>0, <1>3, <2>2, <2>4 DEF DequeueLoadNext, TypeOK, LocalsOK
  <2>6. /\ pc[t] = "d_next" /\ pc'[t] = "d_check" /\ lnext'[t] = v
        /\ cur_head'[t] = cur_head[t] /\ cur_tail'[t] = cur_tail[t]
    BY <1>0, <1>3, <2>2, <2>4 DEF DequeueLoadNext, TypeOK
  <2>7. \E k \in 1..Newest(head)', l \in 1..Newest(tail)' :
          /\ cur_head'[t] = list'[k] /\ cur_tail'[t] = list'[l]
          /\ k <= l /\ l <= view'[t][tail]
    BY <2>3, <2>6, KeepsFound
  <2>8. v \in Node => Follows(c, v) /\ view'[t][data(v)] = 1
    <3> SUFFICES ASSUME v \in Node PROVE Follows(c, v) /\ view'[t][data(v)] = 1
      OBVIOUS
    <3>1. Follows(c, v) /\ memory[next(c)][i].view[data(v)] = 1
      BY <2>4, NextLoaded
    <3>2. data(v) \in Location /\ data(v) # next(c)
      BY Locations
    <3>3. 1 <= view'[t][data(v)]
      BY <2>3, <3>1, <3>2
    <3> QED BY <2>3, <3>1, <3>3, Seen
  <2>9. v \in Node => Follows(cur_head[t], v)'
    <3>1. v \in Node =>
            \E k \in 1..(Len(list') - 1) : list'[k] = c /\ list'[k + 1] = v
      BY <2>3, <2>8, Persists
    <3> QED BY <2>1, <2>6, <3>1 DEF Follows
  <2>10. DequeueInv(t)'
    BY <2>6, <2>7, <2>8, <2>9 DEF DequeueInv, Follows
  <2> QED BY <2>3, <2>5, <2>6, <2>10, Assemble DEF EnqueueInv
<1>4. CASE DequeueCheckHead(t)
  <2>1. MemoryOK(t)
    BY <1>4, RelaxedKeeps, Locations DEF DequeueCheckHead
  <2>2. LocalsOK(t)
    BY <1>0, <1>4 DEF DequeueCheckHead, TypeOK, LocalsOK
  <2>3. /\ pc[t] = "d_check" /\ lnext'[t] = lnext[t]
        /\ cur_head'[t] = cur_head[t] /\ cur_tail'[t] = cur_tail[t]
        /\ \/ pc'[t] \in {"d_head", "d_empty"}
           \/ pc'[t] = "d_help" /\ cur_tail[t] = cur_head[t] /\ lnext[t] \in Node
           \/ pc'[t] = "d_value" /\ cur_tail[t] # cur_head[t]
    BY <1>0, <1>4 DEF DequeueCheckHead, TypeOK
  <2>4. DequeueInv(t)'
    BY <2>1, <2>3, KeepsFound DEF DequeueInv, Follows
  <2> QED BY <2>1, <2>2, <2>3, <2>4, Assemble DEF EnqueueInv
<1>5. CASE DequeueHelpTail(t)
  <2>1. pc[t] = "d_help" /\ pc'[t] = "d_head"
    BY <1>0, <1>5 DEF DequeueHelpTail, HelpTail, TypeOK
  <2>2. MemoryOK(t)
    BY <1>0, <1>5, <2>1, HelpKeeps DEF DequeueHelpTail, DequeueInv
  <2>3. LocalsOK(t)
    BY <1>0, <1>5 DEF DequeueHelpTail, HelpTail, TypeOK, LocalsOK
  <2> QED BY <2>1, <2>2, <2>3, Assemble DEF EnqueueInv, DequeueInv
<1>6. CASE DequeueReadValue(t)
  <2>1. MemoryOK(t)
    BY <1>6, UnchangedKeeps DEF DequeueReadValue
  <2>2. LocalsOK(t)
    BY <1>0, <1>6 DEF DequeueReadValue, TypeOK, LocalsOK
  <2>3. /\ pc[t] = "d_value" /\ pc'[t] = "d_swing" /\ lnext'[t] = lnext[t]
        /\ cur_head'[t] = cur_head[t] /\ cur_tail'[t] = cur_tail[t]
        /\ cur_tail[t] # cur_head[t] /\ lnext[t] \in Node
    BY <1>0, <1>6 DEF DequeueReadValue, TypeOK, DequeueInv
  <2>4. DequeueInv(t)'
    BY <2>1, <2>3, KeepsFound DEF DequeueInv, Follows
  <2> QED BY <2>1, <2>2, <2>3, <2>4, Assemble DEF EnqueueInv
<1>7. CASE DequeueSwingHead(t)
  <2>1. MemoryOK(t)
    BY <1>7, HeadExchange DEF DequeueSwingHead
  <2>2. LocalsOK(t)
    BY <1>0, <1>7 DEF DequeueSwingHead, TypeOK, LocalsOK
  <2>3. pc'[t] = "d_return"
    BY <1>0, <1>7 DEF DequeueSwingHead, TypeOK
  <2> QED BY <2>1, <2>2, <2>3, Assemble DEF EnqueueInv, DequeueInv
<1>8. CASE DequeueSwingFails(t)
  <2>1. MemoryOK(t)
    BY <1>8, RelaxedKeeps, Locations DEF DequeueSwingFails, CasFails
  <2>2. LocalsOK(t)
    BY <1>0, <1>8 DEF DequeueSwingFails, TypeOK, LocalsOK
  <2>3. pc'[t] = "d_head"
    BY <1>0, <1>8 DEF DequeueSwingFails, TypeOK
  <2> QED BY <2>1, <2>2, <2>3, Assemble DEF EnqueueInv, DequeueInv
<1>9. CASE DequeueReturn(t)
  <2>1. MemoryOK(t)
    BY <1>9, UnchangedKeeps DEF DequeueReturn
  <2>2. LocalsOK(t)
    BY <1>0, <1>9 DEF DequeueReturn, TypeOK, LocalsOK
  <2>3. pc'[t] = "idle"
    BY <1>0, <1>9 DEF DequeueReturn, TypeOK
  <2> QED BY <2>1, <2>2, <2>3, Assemble DEF EnqueueInv, DequeueInv
<1> QED BY <1>1, <1>2, <1>3, <1>4, <1>5, <1>6, <1>7, <1>8, <1>9 DEF DequeueStep

LEMMA StutterKeepsIInv ==
  ASSUME IInv, UNCHANGED vars
  PROVE  IInv'
<1> USE DEF IInv, vars
<1>1. TypeOK'
  BY DEF TypeOK
<1>2. EndsInv' /\ ViewInv'
  BY DEF EndsInv, ViewInv, Bound
<1>3. NextInv'
  BY DEF NextInv, InList, Follows
<1>4. ASSUME NEW t \in Thread PROVE EnqueueInv(t)' /\ DequeueInv(t)'
  BY DEF EnqueueInv, DequeueInv, InList, Follows
<1> QED BY <1>1, <1>2, <1>3, <1>4

LEMMA InitIInv == Init => IInv
<1> SUFFICES ASSUME Init PROVE IInv
  OBVIOUS
<1>1. /\ memory[head] = <<Initial(Fake)>> /\ memory[tail] = <<Initial(Fake)>>
      /\ memory[next(Fake)] = <<Initial(Garbage), Initial(Null)>>
      /\ \A l \in Location \ {head, tail, next(Fake)} :
           memory[l] = <<Initial(Garbage)>>
  BY Locations DEF Init
<1>2. /\ Fake \in Node /\ list = <<Fake>> /\ \A t \in Thread : pc[t] = "idle"
      /\ DOMAIN memory = Location
  BY DEF Init
<1>3. /\ Nowhere \in [Location -> Nat] /\ \A l \in Location : Nowhere[l] = 0
      /\ \A v \in {Fake, Null, Garbage} :
           Initial(v) \in Message /\ Initial(v).val = v /\ Initial(v).view = Nowhere
  BY DEF Message, Initial, Nowhere
<1>4. memory \in [Location -> Seq(Message)]
  <2>1. /\ <<Initial(Fake)>> \in Seq(Message) /\ <<Initial(Garbage)>> \in Seq(Message)
        /\ <<Initial(Garbage), Initial(Null)>> \in Seq(Message)
    <3>1. PICK f, g, n \in Message : f = Initial(Fake) /\ g = Initial(Garbage) /\ n = Initial(Null)
      BY <1>3
    <3>2. <<f>> \in Seq(Message) /\ <<g>> \in Seq(Message) /\ <<g, n>> \in Seq(Message)
      OBVIOUS
    <3> QED BY <3>1, <3>2
  <2>2. \A l \in Location : memory[l] \in Seq(Message)
    BY <1>1, <2>1
  <2> QED BY <2>2 DEF Init
<1>5. view \in [Thread -> [Location -> Nat]]
  BY DEF Init
<1>6. EndsInv
  BY <1>1, <1>2, <1>3 DEF EndsInv
<1>7. TypeOK
  <2>1. \A l \in {head, tail} : \A i \in 1..Newest(l) : memory[l][i].val \in Node
    BY <1>1, <1>2, <1>3
  <2>2. list \in Seq(Node)
    BY <1>2
  <2>3. /\ value \in [Node -> Value \cup {NoValue}]
        /\ pc \in [Thread -> {"idle"} \cup EnqueuePC \cup DequeuePC]
        /\ node \in [Thread -> Pointer]
        /\ cur_head \in [Thread -> Pointer] /\ cur_tail \in [Thread -> Pointer]
        /\ lnext \in [Thread -> Pointer \cup {Garbage}]
        /\ out \in [Thread -> Value \cup {NoValue}]
        /\ ret \in [Thread -> {"void", "true", "false"}]
    BY DEF Init
  <2> QED BY <1>4, <1>5, <2>1, <2>2, <2>3 DEF TypeOK
<1>8. NextInv
  <2>1. \A n \in Node :
          /\ Newest(data(n)) = 1 /\ Newest(next(n)) \in {1, 2}
          /\ memory[next(n)][1].val = Garbage
          /\ Newest(next(n)) = 2 => memory[next(n)][2].val = Null
          /\ InList(n) => Newest(next(n)) = 2
    <3> TAKE n \in Node
    <3>1. memory[data(n)] = <<Initial(Garbage)>>
      BY <1>1, <1>2, Locations
    <3>2. CASE n = Fake
      <4>1. memory[next(n)] = <<Initial(Garbage), Initial(Null)>>
        BY <1>1, <3>2
      <4> QED BY <1>3, <3>1, <4>1
    <3>3. CASE n # Fake
      <4>1. memory[next(n)] = <<Initial(Garbage)>> /\ ~InList(n)
        BY <1>1, <1>2, <3>3, Locations DEF InList
      <4> QED BY <1>3, <3>1, <4>1
    <3> QED BY <3>2, <3>3
  <2>2. IsInjective(list) /\ Len(list) = 1
    BY <1>2 DEF IsInjective
  <2> QED BY <2>1, <2>2 DEF NextInv
<1>9. ViewInv
  <2>1. ASSUME NEW l \in Location
        PROVE  /\ Newest(l) >= 1 /\ (l = next(Fake) => Newest(l) = 2)
               /\ \A i \in 1..Newest(l) : memory[l][i].view = Nowhere
    <3>1. \/ l # next(Fake) /\ memory[l] = <<Initial(Fake)>>
          \/ l # next(Fake) /\ memory[l] = <<Initial(Garbage)>>
          \/ l = next(Fake) /\ memory[l] = <<Initial(Garbage), Initial(Null)>>
      BY <1>1, <1>2, Locations
    <3>2. CASE l # next(Fake) /\ Newest(l) = 1 /\ memory[l][1].view = Nowhere
      BY <3>2
    <3>3. CASE l = next(Fake) /\ memory[l] = <<Initial(Garbage), Initial(Null)>>
      BY <1>3, <3>3
    <3> QED BY <1>3, <3>1, <3>2, <3>3
  <2>2. \A t \in Thread : \A l \in Location : view[t][l] <= Newest(l)
    BY <2>1, Locations DEF Init
  <2>3. \A l \in Location : Newest(l) \in Nat
    BY <1>4
  <2> QED BY <1>3, <2>1, <2>2, <2>3 DEF ViewInv, Bound
<1> QED BY <1>2, <1>6, <1>7, <1>8, <1>9 DEF IInv, EnqueueInv, DequeueInv

LEMMA NextKeepsIInv == IInv /\ [Next]_vars => IInv'
BY CallKeepsIInv, EnqueueStepKeepsIInv, DequeueStepKeepsIInv, StutterKeepsIInv
   DEF Next

\* The invariant of the queue on weak memory.
THEOREM Invariance == Spec => []IInv
BY InitIInv, NextKeepsIInv, PTL DEF Spec

\* Every variable stays in its type.
THEOREM TypeCorrect == Spec => []TypeOK
<1>1. IInv => TypeOK
  BY DEF IInv
<1> QED BY Invariance, <1>1, PTL

LEMMA RankOf == IInv => \A i \in 1..Len(list) : Rank(list[i]) = i
<1> SUFFICES ASSUME IInv, NEW i \in 1..Len(list) PROVE Rank(list[i]) = i
  OBVIOUS
<1>1. DOMAIN list = 1..Len(list)
  BY DEF IInv, TypeOK
<1> QED BY <1>1, ListFacts DEF Rank

\* However stale the views, the nodes form one list: each is linked once,
\* behind the one that was last, and tail stays one of the last two.
THEOREM ListStaysIntact == Spec => []ListIntact
<1>1. ASSUME IInv PROVE ListIntact
  <2>0. Len(list) \in Nat \ {0} /\ IsInjective(list)
    BY <1>1, ListFacts DEF IInv, NextInv
  <2>1. ASSUME NEW n \in Node, Follows(n, NewestVal(next(n)))
        PROVE  \E i \in 1..(Len(list) - 1) :
                 list[i] = n /\ list[i + 1] = NewestVal(next(n))
    BY <2>1 DEF Follows
  <2>2. ASSUME NEW i \in 1..(Len(list) - 1) PROVE NewestVal(next(list[i])) = list[i + 1]
    <3>1. PICK n \in Node : n = list[i]
      BY <1>1, <2>0, ListFacts
    <3>2. Newest(next(n)) = 3 /\ Follows(n, memory[next(n)][3].val)
      BY <1>1, <3>1, NodeFacts
    <3>3. PICK j \in 1..(Len(list) - 1) : list[j] = n /\ list[j + 1] = NewestVal(next(n))
      BY <2>1, <3>2
    <3>4. i = j
      BY <1>1, <2>0, <3>1, <3>3, ListFacts
    <3> QED BY <3>1, <3>3, <3>4
  <2>3. NewestVal(next(Last(list))) = Null
    <3>1. PICK n \in Node : n = list[Len(list)]
      BY <1>1, <2>0, ListFacts
    <3>2. InList(n)
      BY <2>0, <3>1 DEF InList
    <3>3. Newest(next(n)) \in {2, 3} /\ (Newest(next(n)) = 2 => NewestVal(next(n)) = Null)
      BY <1>1, <3>2, NodeFacts
    <3>4. Newest(next(n)) # 3
      <4> SUFFICES ASSUME Newest(next(n)) = 3 PROVE FALSE
        OBVIOUS
      <4>1. PICK j \in 1..(Len(list) - 1) : list[j] = n
        BY <1>1, <2>1, NodeFacts
      <4> QED BY <1>1, <2>0, <3>1, <4>1, ListFacts
    <3> QED BY <3>1, <3>3, <3>4 DEF Last
  <2>4. NewestVal(tail) \in {list[i] : i \in {Len(list) - 1, Len(list)} \ {0}}
    BY <1>1, <2>0, ListFacts
  <2> QED BY <2>0, <2>2, <2>3, <2>4 DEF ListIntact
<1> QED BY Invariance, <1>1, PTL

\* The comparison of cur_head with a tail that is loaded relaxed keeps head
\* from passing tail: whoever acquires head has a tail at least as far.
THEOREM HeadBehind == Spec => []HeadBehindTail
<1>1. ASSUME IInv PROVE HeadBehindTail
  <2>1. Rank(NewestVal(head)) <= Rank(NewestVal(tail))
    BY <1>1, ListFacts, RankOf
  <2>2. ASSUME NEW t \in Thread, pc[t] = "d_check"
        PROVE  Rank(cur_head[t]) <= Rank(cur_tail[t])
    <3>1. PICK i \in 1..Newest(head), j \in 1..Newest(tail) :
            cur_head[t] = list[i] /\ cur_tail[t] = list[j] /\ i <= j
      BY <1>1, <2>2 DEF IInv, DequeueInv
    <3>2. i \in 1..Len(list) /\ j \in 1..Len(list)
      BY <1>1, ListFacts
    <3> QED BY <1>1, <3>1, <3>2, RankOf
  <2> QED BY <2>1, <2>2 DEF HeadBehindTail
<1> QED BY Invariance, <1>1, PTL

\* The value of a node is not atomic, and yet no read of it races with the
\* constructor that wrote it.
THEOREM RaceFree == Spec => []NoDataRace
<1>1. IInv => NoDataRace
  BY DEF IInv, DequeueInv, NoDataRace
<1> QED BY Invariance, <1>1, PTL

-----------------------------------------------------------------------------
(* Deletion (MSQueueWeakCounted)                                           *)

\* Only the successful compare-and-swap of head moves head.
LEMMA HeadStays ==
  ASSUME IInv, NEW t \in Thread,
         Call(t) \/ EnqueueStep(t) \/ DequeueStep(t), ~DequeueSwingHead(t)
  PROVE  Newest(head)' = Newest(head)
<1>1. TypeOK /\ head # tail /\ head \in Location /\ tail \in Location
      /\ \A n \in Node : next(n) # head
  BY Locations DEF IInv
<1>2. HelpTail(t) => Newest(head)' = Newest(head)
  BY <1>1 DEF HelpTail, RmwRelaxed, Rmw, WeakCasFails, CasFails, LoadRelaxed, TypeOK
<1>3. CASE Call(t)
  BY <1>1, <1>3 DEF Call, DequeueCall, EnqueueCall, TypeOK
<1>4. CASE EnqueueStep(t)
  <2>1. EnqueueLink(t) => Newest(head)' = Newest(head)
    BY LinkExchange
  <2>2. EnqueueSwingTail(t) => Newest(head)' = Newest(head)
    BY <1>1 DEF EnqueueSwingTail, RmwRelease, Rmw, WeakCasFails, CasFails,
                LoadRelaxed, TypeOK
  <2>3. EnqueueHelpTail(t) => Newest(head)' = Newest(head)
    BY <1>2 DEF EnqueueHelpTail
  <2> QED BY <1>4, <2>1, <2>2, <2>3
          DEF EnqueueStep, EnqueueLoadTail, EnqueueLoadNext, EnqueueCheckTail,
              EnqueueLinkFails, CasFails, LoadAcquire, LoadRelaxed
<1>5. CASE DequeueStep(t)
  <2>1. DequeueHelpTail(t) => Newest(head)' = Newest(head)
    BY <1>2 DEF DequeueHelpTail
  <2> QED BY <1>5, <2>1
          DEF DequeueStep, DequeueLoadHead, DequeueLoadTail, DequeueLoadNext,
              DequeueCheckHead, DequeueReadValue, DequeueSwingFails, DequeueReturn,
              CasFails, LoadAcquire, LoadRelaxed
<1> QED BY <1>3, <1>4, <1>5

\* ListIsAlive, with the number of messages of head for the rank of head.
Alive == \A i \in 1..Len(list) : i >= Newest(head) => list[i] \in heap

LEMMA AliveFromHead == IInv => (ListIsAlive <=> Alive)
<1> SUFFICES ASSUME IInv PROVE ListIsAlive <=> Alive
  OBVIOUS
<1>1. DOMAIN list = 1..Len(list)
  BY DEF IInv, TypeOK
<1>2. Rank(NewestVal(head)) = Newest(head)
  BY RankOf, ListFacts
<1> QED BY <1>1, <1>2 DEF ListIsAlive, Alive

\* Of the steps that leave list, head and heap alone.
LEMMA QuietKeepsHeap ==
  ASSUME IInv, IInv', HeapInv, NEW t \in Thread,
         Newest(head)' = Newest(head), list' = list, heap' = heap,
         \A u \in Thread \ {t} :
           pc'[u] = pc[u] /\ node'[u] = node[u] /\ cur_head'[u] = cur_head[u],
         pc'[t] \in Inserting => pc[t] \in Inserting /\ node'[t] = node[t],
         pc'[t] # "d_return"
  PROVE  HeapInv'
<1>1. ListIsAlive'
  <2>1. Alive
    BY AliveFromHead DEF HeapInv
  <2>2. IInv' => (ListIsAlive' <=> Alive')
    BY AliveFromHead, PTL
  <2> QED BY <2>1, <2>2 DEF Alive
<1>2. \A u \in Thread : pc'[u] \in Inserting => node'[u] \in heap
  BY DEF HeapInv
<1>3. \A u \in Thread : pc'[u] = "d_return" => u # t
  OBVIOUS
<1>4. ASSUME NEW u \in Thread, pc'[u] = "d_return"
      PROVE  /\ \E i \in 1..(Newest(head)' - 1) : cur_head'[u] = list'[i]
             /\ cur_head'[u] \in heap'
             /\ \A s \in Thread :
                  pc'[s] = "d_return" /\ cur_head'[s] = cur_head'[u] => s = u
  BY <1>3, <1>4 DEF HeapInv
<1> QED BY <1>1, <1>2, <1>4 DEF HeapInv

LEMMA EnqueueCallKeepsHeap ==
  ASSUME IInv, IInv', HeapInv, NEW t \in Thread, NEW v \in Value, CountedEnqueueCall(t, v)
  PROVE  HeapInv'
<1>0. TypeOK /\ Alive /\ heap \subseteq Node
  BY AliveFromHead DEF IInv, HeapInv
<1>1. PICK n \in Node :
        /\ node' = [node EXCEPT ![t] = n] /\ pc' = [pc EXCEPT ![t] = "e_tail"]
        /\ UNCHANGED <<cur_head, list>> /\ heap' = heap \cup {n}
  BY <1>0 DEF CountedEnqueueCall, EnqueueCall, TypeOK
<1>2. Newest(head)' = Newest(head)
  <2>1. ~DequeueSwingHead(t) /\ Call(t)
    BY DEF CountedEnqueueCall, EnqueueCall, DequeueSwingHead, Call
  <2> QED BY <2>1, HeadStays
<1>3. /\ pc'[t] = "e_tail" /\ node'[t] = n
      /\ \A u \in Thread \ {t} : pc'[u] = pc[u] /\ node'[u] = node[u]
  BY <1>0, <1>1 DEF TypeOK
<1>4. ListIsAlive'
  <2>1. Alive'
    BY <1>0, <1>1, <1>2 DEF Alive
  <2>2. IInv' => (ListIsAlive' <=> Alive')
    BY AliveFromHead, PTL
  <2> QED BY <2>1, <2>2
<1>5. \A u \in Thread : pc'[u] \in Inserting => node'[u] \in heap'
  BY <1>1, <1>3 DEF HeapInv
<1>6. \A u \in Thread : pc'[u] = "d_return" =>
        /\ \E i \in 1..(Newest(head)' - 1) : cur_head'[u] = list'[i]
        /\ cur_head'[u] \in heap'
        /\ \A s \in Thread : pc'[s] = "d_return" /\ cur_head'[s] = cur_head'[u] => s = u
  BY <1>1, <1>2, <1>3 DEF HeapInv
<1> QED BY <1>0, <1>1, <1>4, <1>5, <1>6 DEF HeapInv

LEMMA EnqueueStepKeepsHeap ==
  ASSUME IInv, IInv', HeapInv, NEW t \in Thread, CountedEnqueueStep(t)
  PROVE  HeapInv'
<1>0. TypeOK /\ Alive /\ EnqueueStep(t) /\ heap' = heap
  BY AliveFromHead DEF IInv, HeapInv, CountedEnqueueStep
<1>1. pc[t] \in EnqueuePC
  BY <1>0 DEF EnqueueStep, EnqueueLoadTail, EnqueueLoadNext, EnqueueCheckTail,
              EnqueueLink, EnqueueLinkFails, EnqueueHelpTail, EnqueueSwingTail
<1>2. Newest(head)' = Newest(head)
  BY <1>0, <1>1, HeadStays DEF DequeueSwingHead
<1>3. CASE EnqueueLink(t)
  <2>1. /\ pc[t] = "e_link" /\ list' = Append(list, node[t])
        /\ pc' = [pc EXCEPT ![t] = "e_swing"] /\ UNCHANGED <<node, cur_head>>
    BY <1>3 DEF EnqueueLink
  <2>2. /\ Len(list') = Len(list) + 1 /\ list'[Len(list) + 1] = node[t]
        /\ \A i \in 1..Len(list) : list'[i] = list[i]
        /\ Len(list) \in Nat /\ Newest(head) \in 1..Len(list)
    <3>1. node[t] \in Node
      BY <1>3, LinkExchange
    <3> QED BY <1>0, <2>1, <3>1, ListFacts DEF TypeOK
  <2>3. node[t] \in heap
    BY <2>1 DEF HeapInv
  <2>4. ListIsAlive'
    <3>1. \A i \in 1..(Len(list) + 1) : i \in 1..Len(list) \/ i = Len(list) + 1
      BY <2>2
    <3>2. Alive'
      BY <1>0, <1>2, <2>2, <2>3, <3>1 DEF Alive
    <3>3. IInv' => (ListIsAlive' <=> Alive')
      BY AliveFromHead, PTL
    <3> QED BY <3>2, <3>3
  <2>5. \A u \in Thread : /\ pc'[u] \in Inserting => pc[u] \in Inserting
                          /\ pc'[u] = "d_return" <=> pc[u] = "d_return"
    BY <1>0, <2>1 DEF TypeOK
  <2>6. ASSUME NEW u \in Thread, pc'[u] = "d_return"
        PROVE  /\ \E i \in 1..(Newest(head)' - 1) : cur_head'[u] = list'[i]
               /\ cur_head'[u] \in heap'
               /\ \A s \in Thread :
                    pc'[s] = "d_return" /\ cur_head'[s] = cur_head'[u] => s = u
    <3>1. PICK i \in 1..(Newest(head) - 1) : cur_head[u] = list[i]
      BY <2>5, <2>6 DEF HeapInv
    <3>2. list'[i] = list[i]
      BY <2>2, <3>1
    <3> QED BY <1>0, <1>2, <2>1, <2>5, <2>6, <3>1, <3>2 DEF HeapInv
  <2> QED BY <1>0, <2>1, <2>4, <2>5, <2>6 DEF HeapInv
<1>4. CASE ~EnqueueLink(t)
  <2>1. /\ list' = list
        /\ \A u \in Thread \ {t} :
             pc'[u] = pc[u] /\ node'[u] = node[u] /\ cur_head'[u] = cur_head[u]
        /\ pc'[t] \in Inserting => pc[t] \in Inserting /\ node'[t] = node[t]
        /\ pc'[t] # "d_return"
    BY <1>0, <1>4
       DEF TypeOK, EnqueueStep, EnqueueLoadTail, EnqueueLoadNext, EnqueueCheckTail,
           EnqueueLinkFails, EnqueueHelpTail, HelpTail, EnqueueSwingTail
  <2> QED BY <1>0, <1>2, <2>1, QuietKeepsHeap
<1> QED BY <1>3, <1>4

LEMMA DequeueStepKeepsHeap ==
  ASSUME IInv, IInv', HeapInv, NEW t \in Thread, CountedDequeueStep(t)
  PROVE  HeapInv'
<1>0. TypeOK /\ Alive /\ heap' = heap
  BY AliveFromHead DEF IInv, HeapInv, CountedDequeueStep
<1>1. CASE DequeueSwingHead(t)
  <2>1. /\ pc[t] = "d_swing" /\ pc' = [pc EXCEPT ![t] = "d_return"]
        /\ NewestVal(head) = cur_head[t] /\ UNCHANGED <<node, cur_head, list>>
    BY <1>1 DEF DequeueSwingHead
  <2>2. Newest(head)' = Newest(head) + 1 /\ Newest(head) \in 1..Len(list)
        /\ Len(list) \in Nat
    BY <1>1, HeadExchange, ListFacts DEF DequeueSwingHead
  <2>3. cur_head[t] = list[Newest(head)] /\ cur_head[t] \in heap
    BY <1>0, <2>1, <2>2, ListFacts DEF Alive
  <2>4. ListIsAlive'
    <3>1. Alive'
      BY <1>0, <2>1, <2>2 DEF Alive
    <3>2. IInv' => (ListIsAlive' <=> Alive')
      BY AliveFromHead, PTL
    <3> QED BY <3>1, <3>2
  <2>5. \A u \in Thread : /\ pc'[u] \in Inserting => pc[u] \in Inserting
                          /\ u # t => pc'[u] = pc[u]
    BY <1>0, <2>1 DEF TypeOK
  <2>6. ASSUME NEW u \in Thread \ {t}, pc[u] = "d_return"
        PROVE  /\ \E i \in 1..(Newest(head) - 1) : cur_head[u] = list[i]
               /\ cur_head[u] # cur_head[t] /\ cur_head[u] \in heap
    <3>1. PICK i \in 1..(Newest(head) - 1) : cur_head[u] = list[i]
      BY <2>6 DEF HeapInv
    <3>2. i \in 1..Len(list) /\ i # Newest(head)
      BY <2>2, <3>1
    <3> QED BY <2>2, <2>3, <2>6, <3>1, <3>2, ListFacts DEF HeapInv
  <2>7. ASSUME NEW u \in Thread, pc'[u] = "d_return"
        PROVE  /\ \E i \in 1..(Newest(head)' - 1) : cur_head'[u] = list'[i]
               /\ cur_head'[u] \in heap'
               /\ \A s \in Thread :
                    pc'[s] = "d_return" /\ cur_head'[s] = cur_head'[u] => s = u
    <3>1. CASE u = t
      BY <1>0, <2>1, <2>2, <2>3, <2>5, <2>6, <3>1
    <3>2. CASE u # t
      BY <1>0, <2>1, <2>2, <2>5, <2>6, <2>7, <3>2 DEF HeapInv
    <3> QED BY <3>1, <3>2
  <2> QED BY <1>0, <2>1, <2>4, <2>5, <2>7 DEF HeapInv
<1>2. CASE ~DequeueSwingHead(t)
  <2>1. Newest(head)' = Newest(head)
    BY <1>2, HeadStays DEF CountedDequeueStep, Call
  <2>2. /\ list' = list
        /\ \A u \in Thread \ {t} :
             pc'[u] = pc[u] /\ node'[u] = node[u] /\ cur_head'[u] = cur_head[u]
        /\ pc'[t] \notin Inserting /\ pc'[t] # "d_return"
    <3>1. CASE DequeueCall(t)
      BY <1>0, <3>1 DEF TypeOK, DequeueCall
    <3>2. CASE DequeueLoadHead(t) \/ DequeueLoadTail(t) \/ DequeueLoadNext(t)
      BY <1>0, <3>2 DEF TypeOK, DequeueLoadHead, DequeueLoadTail, DequeueLoadNext
    <3>3. CASE DequeueCheckHead(t) \/ DequeueHelpTail(t)
      BY <1>0, <3>3 DEF TypeOK, DequeueCheckHead, DequeueHelpTail, HelpTail
    <3>4. CASE DequeueReadValue(t) \/ DequeueSwingFails(t)
      BY <1>0, <3>4 DEF TypeOK, DequeueReadValue, DequeueSwingFails
    <3>5. CASE DequeueReturn(t)
      BY <1>0, <3>5 DEF TypeOK, DequeueReturn
    <3>6. DequeueCall(t) \/ DequeueStep(t)
      BY DEF CountedDequeueStep
    <3> QED BY <1>2, <3>1, <3>2, <3>3, <3>4, <3>5, <3>6 DEF DequeueStep
  <2> QED BY <1>0, <2>1, <2>2, QuietKeepsHeap
<1> QED BY <1>1, <1>2

LEMMA DeleteKeepsHeap ==
  ASSUME IInv, IInv', HeapInv, NEW t \in Thread, CountedDelete(t)
  PROVE  HeapInv'
<1>0. TypeOK /\ Alive
  BY AliveFromHead DEF IInv, HeapInv
<1>1. /\ pc[t] = "d_return" /\ pc' = [pc EXCEPT ![t] = "idle"]
      /\ cur_head' = [cur_head EXCEPT ![t] = Null] /\ heap' = heap \ {cur_head[t]}
      /\ UNCHANGED <<memory, node, list>>
  BY DEF CountedDelete, DequeueReturn
<1>2. PICK i \in 1..(Newest(head) - 1) : cur_head[t] = list[i]
  BY <1>1 DEF HeapInv
<1>3. i \in 1..Len(list) /\ i < Newest(head)
  BY <1>2, ListFacts
<1>4. /\ \A u \in Thread \ {t} : pc'[u] = pc[u] /\ cur_head'[u] = cur_head[u]
      /\ pc'[t] = "idle"
  BY <1>0, <1>1 DEF TypeOK
<1>5. ListIsAlive'
  <2>1. ASSUME NEW k \in 1..Len(list), k >= Newest(head) PROVE list[k] # cur_head[t]
    BY <1>2, <1>3, <2>1, ListFacts
  <2>2. Alive'
    BY <1>0, <1>1, <2>1 DEF Alive
  <2>3. IInv' => (ListIsAlive' <=> Alive')
    BY AliveFromHead, PTL
  <2> QED BY <2>2, <2>3
<1>6. ASSUME NEW u \in Thread, pc'[u] \in Inserting PROVE node'[u] \in heap'
  <2>1. pc[u] \in Inserting /\ node'[u] = node[u]
    BY <1>1, <1>4, <1>6
  <2>2. node[u] # cur_head[t]
    BY <1>2, <1>3, <2>1 DEF IInv, EnqueueInv, InList
  <2> QED BY <1>1, <2>1, <2>2 DEF HeapInv
<1>7. ASSUME NEW u \in Thread, pc'[u] = "d_return"
      PROVE  /\ \E k \in 1..(Newest(head)' - 1) : cur_head'[u] = list'[k]
             /\ cur_head'[u] \in heap'
             /\ \A s \in Thread :
                  pc'[s] = "d_return" /\ cur_head'[s] = cur_head'[u] => s = u
  <2>1. u # t /\ pc[u] = "d_return" /\ cur_head'[u] = cur_head[u]
    BY <1>4, <1>7
  <2>2. cur_head[u] # cur_head[t]
    BY <1>1, <2>1 DEF HeapInv
  <2> QED BY <1>1, <1>4, <2>1, <2>2 DEF HeapInv
<1> QED BY <1>1, <1>5, <1>6, <1>7 DEF HeapInv

LEMMA CountedNextIsNext == [CountedNext]_countedVars => [Next]_vars
BY DEF CountedNext, countedVars, CountedEnqueueCall, CountedEnqueueStep,
       CountedDequeueStep, CountedDelete, Next, Call, DequeueStep

\* Deletion takes nothing away: what the queue without it does, and what is
\* proved of that, holds of this one.
THEOREM CountedImplements == CountedSpec => Spec
<1>1. CountedInit => Init
  BY DEF CountedInit
<1> QED BY <1>1, CountedNextIsNext, PTL DEF CountedSpec, Spec

LEMMA CountedNextKeeps ==
  IInv /\ HeapInv /\ [CountedNext]_countedVars => IInv' /\ HeapInv'
<1> SUFFICES ASSUME IInv, HeapInv, [CountedNext]_countedVars
             PROVE  IInv' /\ HeapInv'
  OBVIOUS
<1>1. [Next]_vars
  BY CountedNextIsNext
<1>2. IInv'
  BY <1>1, NextKeepsIInv
<1>3. CASE CountedNext
  BY <1>2, <1>3, EnqueueCallKeepsHeap, EnqueueStepKeepsHeap, DequeueStepKeepsHeap,
     DeleteKeepsHeap DEF CountedNext
<1>4. CASE UNCHANGED countedVars
  <2>1. UNCHANGED <<memory, pc, node, cur_head, list, heap>>
    BY <1>4 DEF countedVars, vars
  <2>2. Alive' <=> Alive
    BY <2>1 DEF Alive
  <2>3. IInv' => (ListIsAlive' <=> Alive')
    BY AliveFromHead, PTL
  <2>4. ListIsAlive'
    BY <1>2, <2>2, <2>3, AliveFromHead DEF HeapInv
  <2> QED BY <1>2, <2>1, <2>4 DEF HeapInv
<1> QED BY <1>2, <1>3, <1>4

\* The invariant of the queue on weak memory that deletes its nodes.
THEOREM CountedInvariance == CountedSpec => [](IInv /\ HeapInv)
<1>1. CountedInit => IInv /\ HeapInv
  <2> SUFFICES ASSUME CountedInit PROVE IInv /\ HeapInv
    OBVIOUS
  <2>1. IInv
    BY InitIInv DEF CountedInit
  <2>2. /\ list = <<Fake>> /\ heap = {Fake} /\ Fake \in Node
        /\ \A t \in Thread : pc[t] = "idle"
    BY DEF CountedInit, Init
  <2>3. Alive
    BY <2>2 DEF Alive
  <2> QED BY <2>1, <2>2, <2>3, AliveFromHead DEF HeapInv
<1> QED BY <1>1, CountedNextKeeps, PTL DEF CountedSpec

\* Whatever order the threads see the stores in, no node from head on is
\* deleted.
THEOREM ListStaysAlive == CountedSpec => []ListIsAlive
<1>1. IInv /\ HeapInv => ListIsAlive
  BY DEF HeapInv
<1> QED BY CountedInvariance, <1>1, PTL

\* "only the thread that succeeded CAS can free it": no node is deleted
\* twice, and none that tail points to.
THEOREM NoDoubleDelete == CountedSpec => []DeleteOnce
<1>1. ASSUME IInv, HeapInv PROVE DeleteOnce
  <2> SUFFICES ASSUME NEW t \in Thread, pc[t] = "d_return"
               PROVE  /\ cur_head[t] \in heap /\ NewestVal(tail) # cur_head[t]
                      /\ \A u \in Thread \ {t} :
                           pc[u] = "d_return" => cur_head[u] # cur_head[t]
    BY DEF DeleteOnce
  <2>1. PICK i \in 1..(Newest(head) - 1) : cur_head[t] = list[i]
    BY <1>1 DEF HeapInv
  <2>2. i \in 1..Len(list) /\ i # Newest(tail)
    BY <1>1, <2>1, ListFacts
  <2> QED BY <1>1, <2>1, <2>2, ListFacts DEF HeapInv
<1> QED BY CountedInvariance, <1>1, PTL

-----------------------------------------------------------------------------
(* MSQueueWeak implements LooseFifo, for any threads, nodes and values:    *)
(* a stale view costs a dequeue nothing but a false it is entitled to.     *)

\* KnownIn, with the list as a parameter.
Known(w, nodes) == IF w[next(nodes[w[tail]])] = 3 THEN w[tail] ELSE w[tail] - 1

\* An enqueue has seen tail reach the node it links behind.
EnqueueKnows(t) ==
  /\ pc[t] \in EnqueuePC => ret[t] = "void"
  /\ pc[t] \in {"e_next", "e_check", "e_link"} =>
       \E i \in 1..Newest(tail) : cur_tail[t] = list[i] /\ i <= view[t][tail]

\* A dequeue has seen whatever the thread that put cur_head in head had seen.
\* If it found no next, it has seen tail reach its cur_tail, and no further.
DequeueKnows(t) ==
  /\ pc[t] \in DequeuePC \ {"d_head", "d_return", "d_empty"} =>
       \E i \in 1..Newest(head) :
         /\ cur_head[t] = list[i]
         /\ \A k \in Location \ {head} : memory[head][i].view[k] <= view[t][k]
  /\ pc[t] = "d_next" => cur_tail[t] = list[view[t][tail]]
  /\ pc[t] = "d_check" /\ lnext[t] = Null =>
       cur_tail[t] = list[view[t][tail]] /\ view[t][next(cur_head[t])] = 2
  /\ pc[t] = "d_swing" => out[t] = value[lnext[t]]

\* The null a constructor stores to next tells its reader nothing else.
KnowInv ==
  /\ \A t \in Thread : view[t][tail] >= 1 /\ EnqueueKnows(t) /\ DequeueKnows(t)
  /\ \A n \in Node : Newest(next(n)) >= 2 => memory[next(n)][2].view = Nowhere

-----------------------------------------------------------------------------
(* Views                                                                   *)

\* A load takes each place of the new view from the old one or the message.
LEMMA Loaded ==
  ASSUME TypeOK, NEW t \in Thread, NEW l \in Location, NEW i \in 1..Newest(l),
         LoadRelaxed(t, l, i) \/ LoadAcquire(t, l, i)
  PROVE  /\ UNCHANGED memory /\ view[t][l] <= i /\ view'[t][l] = i
         /\ \A u \in Thread \ {t} : view'[u] = view[u]
         /\ \A k \in Location \ {l} :
              /\ view[t][k] <= view'[t][k]
              /\ \/ view'[t][k] = view[t][k]
                 \/ LoadAcquire(t, l, i) /\ view'[t][k] = memory[l][i].view[k]
              /\ LoadAcquire(t, l, i) => memory[l][i].view[k] <= view'[t][k]
<1>1. /\ view \in [Thread -> [Location -> Nat]] /\ view[t] \in [Location -> Nat]
      /\ Newest(l) \in Nat /\ i \in Nat
  BY DEF TypeOK
<1>2. memory[l][i].view \in [Location -> Nat]
  BY LoadedPointer
<1>3. Reads(t, l, i) /\ UNCHANGED memory
  BY DEF LoadRelaxed, LoadAcquire
<1>4. view[t][l] <= i
  BY <1>1, <1>3 DEF Reads
<1>5. CASE LoadRelaxed(t, l, i) /\ ~LoadAcquire(t, l, i)
  BY <1>1, <1>3, <1>4, <1>5 DEF LoadRelaxed
<1>6. CASE LoadAcquire(t, l, i)
  <2>1. PICK w : w = [Join(view[t], memory[l][i].view) EXCEPT ![l] = i]
    OBVIOUS
  <2>2. view' = [view EXCEPT ![t] = w]
    BY <1>6, <2>1 DEF LoadAcquire
  <2>3. w[l] = i /\ \A k \in Location \ {l} :
          w[k] = IF view[t][k] < memory[l][i].view[k]
                 THEN memory[l][i].view[k] ELSE view[t][k]
    BY <2>1 DEF Join
  <2>4. ASSUME NEW k \in Location \ {l}
        PROVE  /\ view[t][k] <= w[k] /\ memory[l][i].view[k] <= w[k]
               /\ w[k] = view[t][k] \/ w[k] = memory[l][i].view[k]
    <3>1. view[t][k] \in Nat /\ memory[l][i].view[k] \in Nat
      BY <1>1, <1>2
    <3> QED BY <2>3, <3>1
  <2>5. view'[t] = w /\ \A u \in Thread \ {t} : view'[u] = view[u]
    BY <1>1, <2>2
  <2> QED BY <1>3, <1>4, <1>6, <2>3, <2>4, <2>5
<1> QED BY <1>5, <1>6

\* The last node of the list has no next yet.
ListOpen ==
  /\ Len(list) \in Nat \ {0} /\ Newest(tail) \in 1..Len(list)
  /\ \A i \in 1..Len(list) : list[i] \in Node /\ Newest(next(list[i])) \in 1..3
  /\ Newest(next(list[Len(list)])) = 2

LEMMA LastIsOpen == IInv => ListOpen
<1> SUFFICES ASSUME IInv PROVE ListOpen
  OBVIOUS
<1>1. /\ Len(list) \in Nat \ {0} /\ Newest(tail) \in 1..Len(list)
      /\ \A i \in 1..Len(list) : list[i] \in Node /\ Newest(next(list[i])) \in 1..3
  BY ListFacts, NodeFacts
<1>2. PICK n \in Node : n = list[Len(list)]
  BY <1>1
<1>3. InList(n)
  BY <1>1, <1>2 DEF InList
<1>4. Newest(next(n)) # 3
  <2> SUFFICES ASSUME Newest(next(n)) = 3 PROVE FALSE
    OBVIOUS
  <2>1. PICK x \in 1..(Len(list) - 1) : list[x] = n
    BY NodeFacts DEF Follows
  <2> QED BY <1>1, <1>2, <2>1, ListFacts
<1>5. Newest(next(n)) = 2
  BY <1>3, <1>4, NodeFacts
<1> QED BY <1>1, <1>2, <1>5 DEF ListOpen

\* What is known does not get less, and is one of the items.
LEMMA KnownGrows ==
  ASSUME NEW v \in [Location -> Nat], NEW w \in [Location -> Nat], NEW nodes,
         Len(nodes) \in Nat, v[tail] >= 1, w[tail] <= Len(nodes),
         \A k \in Location \ {head} : v[k] <= w[k],
         nodes[w[tail]] \in Node, w[next(nodes[w[tail]])] <= 3,
         w[tail] = Len(nodes) => w[next(nodes[w[tail]])] # 3
  PROVE  /\ Known(v, nodes) \in Nat /\ Known(w, nodes) \in Nat
         /\ Known(v, nodes) <= Known(w, nodes) /\ Known(w, nodes) <= Len(nodes) - 1
<1>1. PICK i, j \in Nat : i = v[tail] /\ j = w[tail]
  BY Locations
<1>2. 1 <= i /\ i <= j /\ j <= Len(nodes)
  BY <1>1, Locations
<1>3. PICK n \in Node : n = nodes[j]
  BY <1>1
<1>4. PICK x, y \in Nat : x = v[next(n)] /\ y = w[next(n)]
  BY Locations
<1>5. x <= y /\ y <= 3 /\ (j = Len(nodes) => y # 3)
  BY <1>1, <1>3, <1>4, Locations
<1>6. Known(w, nodes) = IF y = 3 THEN j ELSE j - 1
  BY <1>1, <1>3, <1>4 DEF Known
<1>7. Known(v, nodes) \in {i, i - 1} /\ (i = j => Known(v, nodes) = IF x = 3 THEN j ELSE j - 1)
  BY <1>1, <1>3, <1>4 DEF Known
<1> QED BY <1>2, <1>5, <1>6, <1>7

\* Nor does it change when the list grows.
LEMMA KnownStays ==
  ASSUME NEW w, NEW old, NEW new, w[tail] \in 1..Len(old),
         \A i \in 1..Len(old) : new[i] = old[i]
  PROVE  Known(w, new) = Known(w, old)
BY DEF Known

\* Messages are never changed, nor are the values in the list, nor what
\* belongs to other threads.
Remembers(t) ==
  /\ MemoryOK(t) /\ LocalsOK(t)
  /\ \A i \in 1..Newest(head) : memory'[head][i] = memory[head][i]
  /\ \A n \in Node : Len(memory'[next(n)]) >= 2 => memory'[next(n)][2].view = Nowhere
  /\ \A i \in 1..Len(list) : value'[list[i]] = value[list[i]]
  /\ \A u \in Thread \ {t} :
       /\ ret'[u] = ret[u] /\ out'[u] = out[u]
       /\ pc[u] \in Inserting => value'[node[u]] = value[node[u]]

LEMMA OthersKnow ==
  ASSUME IInv, KnowInv, NEW t \in Thread, Remembers(t)
  PROVE  /\ \A u \in Thread : view'[u][tail] >= 1
         /\ \A u \in Thread \ {t} : EnqueueKnows(u)' /\ DequeueKnows(u)'
<1>0. /\ TypeOK /\ ViewInv
      /\ \A u \in Thread : DequeueInv(u)
      /\ MemoryOK(t) /\ LocalsOK(t)
  BY DEF IInv, Remembers
<1>1. \A u \in Thread : view'[u][tail] >= 1
  <2> TAKE u \in Thread
  <2>1. view[u][tail] \in Nat /\ view'[u][tail] \in Nat /\ view[u][tail] >= 1
    BY <1>0, Locations DEF TypeOK, MemoryOK, KnowInv
  <2>2. view[u][tail] <= view'[u][tail]
    BY <1>0, <2>1, Locations DEF MemoryOK
  <2> QED BY <2>1, <2>2
<1>2. ASSUME NEW u \in Thread \ {t} PROVE EnqueueKnows(u)' /\ DequeueKnows(u)'
  <2>1. /\ pc'[u] = pc[u] /\ lnext'[u] = lnext[u] /\ view'[u] = view[u]
        /\ cur_head'[u] = cur_head[u] /\ cur_tail'[u] = cur_tail[u]
        /\ ret'[u] = ret[u] /\ out'[u] = out[u]
    BY <1>0 DEF Remembers, MemoryOK, LocalsOK
  <2>2. EnqueueKnows(u) /\ DequeueKnows(u)
    BY DEF KnowInv
  <2>3. /\ \A i \in 1..Newest(head) :
             /\ i \in 1..Newest(head)' /\ list'[i] = list[i]
             /\ memory'[head][i] = memory[head][i]
        /\ \A i \in 1..Newest(tail) : i \in 1..Newest(tail)' /\ list'[i] = list[i]
    BY <1>0, Persists DEF Remembers
  <2>4. EnqueueKnows(u)'
    BY <2>1, <2>2, <2>3 DEF EnqueueKnows
  <2>5. list'[view[u][tail]] = list[view[u][tail]]
    <3>1. view[u][tail] \in 1..Newest(tail)
      BY <1>0, Locations DEF KnowInv, TypeOK, ViewInv, Bound
    <3> QED BY <2>3, <3>1
  <2>6. pc[u] = "d_swing" => value'[lnext[u]] = value[lnext[u]]
    <3> SUFFICES ASSUME pc[u] = "d_swing" PROVE value'[lnext[u]] = value[lnext[u]]
      OBVIOUS
    <3>1. PICK i \in 1..(Len(list) - 1) : list[i + 1] = lnext[u]
      BY <1>0 DEF DequeueInv, Follows
    <3>2. i + 1 \in 1..Len(list)
      BY <1>0, ListFacts
    <3> QED BY <3>1, <3>2 DEF Remembers
  <2>7. DequeueKnows(u)'
    BY <2>1, <2>2, <2>3, <2>5, <2>6 DEF DequeueKnows
  <2> QED BY <2>4, <2>7
<1> QED BY <1>1, <1>2

\* The steps that leave memory as it is, a successful compare-and-swap, and
\* the constructor of a node.
LEMMA ReadRemembers ==
  ASSUME IInv, KnowInv, NEW t \in Thread, MemoryOK(t), LocalsOK(t),
         UNCHANGED <<memory, value>>,
         \A u \in Thread \ {t} : ret'[u] = ret[u] /\ out'[u] = out[u]
  PROVE  Remembers(t)
BY DEF KnowInv, Remembers

LEMMA ExchangeRemembers ==
  ASSUME IInv, KnowInv, NEW t \in Thread, NEW l \in Location, NEW v, NEW w,
         MemoryOK(t), LocalsOK(t), Rmw(t, l, v, w),
         \A n \in Node : l = next(n) => Newest(l) >= 2,
         UNCHANGED <<value, ret, out>>
  PROVE  Remembers(t)
<1>1. TypeOK /\ memory \in [Location -> Seq(Message)]
  BY DEF IInv, TypeOK
<1>2. PICK m : memory' = [memory EXCEPT ![l] = Append(memory[l], m)]
  BY DEF Rmw
<1>3. /\ \A k \in Location \ {l} : memory'[k] = memory[k]
      /\ Len(memory'[l]) = Newest(l) + 1 /\ Newest(l) \in Nat
      /\ \A i \in 1..Newest(l) : memory'[l][i] = memory[l][i]
  BY <1>1, <1>2
<1>4. \A i \in 1..Newest(head) : memory'[head][i] = memory[head][i]
  BY <1>3, Locations
<1>5. \A n \in Node : Len(memory'[next(n)]) >= 2 => memory'[next(n)][2].view = Nowhere
  <2> SUFFICES ASSUME NEW n \in Node, Len(memory'[next(n)]) >= 2
               PROVE  memory'[next(n)][2].view = Nowhere
    OBVIOUS
  <2>1. Newest(next(n)) >= 2
    BY <1>3, Locations
  <2>2. memory'[next(n)][2] = memory[next(n)][2]
    <3>1. CASE next(n) = l
      <4>1. 2 \in 1..Newest(l)
        BY <1>3, <2>1, <3>1
      <4> QED BY <1>3, <3>1, <4>1
    <3>2. CASE next(n) # l
      BY <1>3, <3>2, Locations
    <3> QED BY <3>1, <3>2
  <2> QED BY <2>1, <2>2 DEF KnowInv
<1> QED BY <1>4, <1>5 DEF Remembers

LEMMA ConstructRemembers ==
  ASSUME IInv, KnowInv, NEW t \in Thread, NEW n \in Node, NEW v,
         Constructs(t, n), LocalsOK(t), UNCHANGED list,
         value' = [value EXCEPT ![n] = v],
         \A u \in Thread \ {t} : ret'[u] = ret[u] /\ out'[u] = out[u]
  PROVE  Remembers(t)
<1>1. TypeOK /\ memory \in [Location -> Seq(Message)]
  BY DEF IInv, TypeOK
<1>2. /\ MemoryOK(t) /\ Len(memory'[next(n)]) = 2
      /\ \A i \in 1..Len(list) : list[i] # n
      /\ \A u \in Thread : pc[u] \in Inserting => node[u] # n
  BY Construction
<1>3. memory' = [memory EXCEPT ![next(n)] = Append(memory[next(n)], Initial(Null))]
  BY DEF Constructs
<1>4. /\ \A k \in Location \ {next(n)} : memory'[k] = memory[k]
      /\ memory'[next(n)][2] = Initial(Null)
  <2>1. next(n) \in Location
    BY Locations
  <2>2. Newest(next(n)) = 1
    <3>1. Newest(next(n)) \in 1..3
      BY NodeFacts
    <3>2. ~(Newest(next(n)) > 1)
      BY DEF Constructs, Allocated
    <3> QED BY <3>1, <3>2
  <2>3. memory'[next(n)] = Append(memory[next(n)], Initial(Null))
    BY <1>1, <1>3, <2>1
  <2>4. memory'[next(n)][2] = Initial(Null)
    <3>1. Initial(Null) \in Message
      BY DEF Initial, Message, Nowhere
    <3>2. memory'[next(n)][Newest(next(n)) + 1] = Initial(Null)
      BY <1>1, <1>3, <2>1, <3>1, Appended
    <3> QED BY <2>2, <3>2
  <2> QED BY <1>1, <1>3, <2>4
<1>5. \A i \in 1..Newest(head) : memory'[head][i] = memory[head][i]
  BY <1>4, Locations
<1>6. \A x \in Node : Len(memory'[next(x)]) >= 2 => memory'[next(x)][2].view = Nowhere
  <2> TAKE x \in Node
  <2>1. CASE x = n
    BY <1>4, <2>1 DEF Initial
  <2>2. CASE x # n
    <3>1. memory'[next(x)] = memory[next(x)]
      BY <1>4, <2>2, Locations
    <3> QED BY <3>1 DEF KnowInv
  <2> QED BY <2>1, <2>2
<1>7. \A x \in Node : x # n => value'[x] = value[x]
  BY <1>1 DEF TypeOK
<1>8. \A i \in 1..Len(list) : value'[list[i]] = value[list[i]]
  BY <1>2, <1>7, ListFacts
<1>9. \A u \in Thread \ {t} : pc[u] \in Inserting => value'[node[u]] = value[node[u]]
  BY <1>2, <1>7 DEF IInv, EnqueueInv
<1> QED BY <1>2, <1>5, <1>6, <1>8, <1>9 DEF Remembers

-----------------------------------------------------------------------------
(* What the threads know is kept by every step                             *)

LEMMA HelpRemembers ==
  ASSUME IInv, KnowInv, NEW t \in Thread, HelpTail(t), MemoryOK(t), LocalsOK(t)
  PROVE  Remembers(t)
<1>1. UNCHANGED <<value, ret, out>>
  BY DEF HelpTail
<1>2. CASE RmwRelaxed(t, tail, lnext[t])
  BY <1>1, <1>2, ExchangeRemembers, Locations DEF RmwRelaxed
<1>3. CASE UNCHANGED memory
  BY <1>1, <1>3, ReadRemembers
<1> QED BY <1>2, <1>3 DEF HelpTail, WeakCasFails, CasFails, LoadRelaxed

LEMMA StepRemembers ==
  ASSUME IInv, KnowInv, NEW t \in Thread,
         Call(t) \/ EnqueueStep(t) \/ DequeueStep(t)
  PROVE  Remembers(t)
<1>0. TypeOK /\ MemoryOK(t) /\ LocalsOK(t)
  BY CallKeepsIInv, EnqueueStepKeepsIInv, DequeueStepKeepsIInv DEF IInv
<1>1. CASE Call(t)
  <2>1. CASE DequeueCall(t)
    BY <1>0, <2>1, ReadRemembers DEF DequeueCall, TypeOK
  <2>2. ASSUME NEW v \in Value, EnqueueCall(t, v) PROVE Remembers(t)
    <3>1. PICK n \in Node :
            Constructs(t, n) /\ UNCHANGED list /\ value' = [value EXCEPT ![n] = v]
      BY <2>2 DEF EnqueueCall, Constructs
    <3>2. \A u \in Thread \ {t} : ret'[u] = ret[u] /\ out'[u] = out[u]
      BY <1>0, <2>2 DEF EnqueueCall, TypeOK
    <3> QED BY <1>0, <3>1, <3>2, ConstructRemembers
  <2> QED BY <1>1, <2>1, <2>2 DEF Call
<1>2. CASE EnqueueStep(t)
  <2>1. CASE EnqueueLink(t)
    <3>1. PICK c \in Node : c = cur_tail[t] /\ Newest(next(c)) >= 2
      <4>1. PICK i \in 1..Newest(tail) : cur_tail[t] = list[i]
        BY <2>1 DEF EnqueueLink, IInv, EnqueueInv
      <4>2. i \in 1..Len(list) /\ list[i] \in Node /\ InList(list[i])
        BY ListFacts DEF InList
      <4> QED BY <4>1, <4>2, NodeFacts
    <3>2. Rmw(t, next(c), node[t], Join(After(t, next(c)), Passed(next(c))))
      BY <2>1, <3>1 DEF EnqueueLink, RmwRelease
    <3>3. next(c) \in Location /\ \A n \in Node : next(c) = next(n) => Newest(next(c)) >= 2
      BY <3>1, Locations
    <3>4. UNCHANGED <<value, ret, out>>
      BY <2>1 DEF EnqueueLink
    <3> QED BY <1>0, <3>2, <3>3, <3>4, ExchangeRemembers
  <2>2. CASE EnqueueHelpTail(t)
    BY <1>0, <2>2, HelpRemembers DEF EnqueueHelpTail
  <2>3. CASE EnqueueSwingTail(t)
    <3>1. UNCHANGED <<value, ret, out>>
      BY <2>3 DEF EnqueueSwingTail
    <3>2. CASE RmwRelease(t, tail, node[t])
      BY <1>0, <3>1, <3>2, ExchangeRemembers, Locations DEF RmwRelease
    <3>3. CASE UNCHANGED memory
      BY <1>0, <3>1, <3>3, ReadRemembers
    <3> QED BY <2>3, <3>2, <3>3 DEF EnqueueSwingTail, WeakCasFails, CasFails, LoadRelaxed
  <2>4. CASE EnqueueLoadTail(t) \/ EnqueueLoadNext(t)
    BY <1>0, <2>4, ReadRemembers DEF EnqueueLoadTail, EnqueueLoadNext, LoadAcquire
  <2>5. CASE EnqueueCheckTail(t) \/ EnqueueLinkFails(t)
    BY <1>0, <2>5, ReadRemembers
       DEF EnqueueCheckTail, EnqueueLinkFails, CasFails, LoadRelaxed
  <2> QED BY <1>2, <2>1, <2>2, <2>3, <2>4, <2>5 DEF EnqueueStep
<1>3. CASE DequeueStep(t)
  <2>1. CASE DequeueSwingHead(t)
    <3>1. UNCHANGED <<value, ret, out>>
      BY <2>1 DEF DequeueSwingHead
    <3>2. Rmw(t, head, lnext[t], Join(After(t, head), Passed(head)))
      BY <2>1 DEF DequeueSwingHead, RmwRelease
    <3> QED BY <1>0, <3>1, <3>2, ExchangeRemembers, Locations
  <2>2. CASE DequeueHelpTail(t)
    BY <1>0, <2>2, HelpRemembers DEF DequeueHelpTail
  <2>3. CASE DequeueLoadHead(t) \/ DequeueLoadNext(t)
    BY <1>0, <2>3, ReadRemembers DEF DequeueLoadHead, DequeueLoadNext, LoadAcquire
  <2>4. CASE DequeueLoadTail(t) \/ DequeueCheckHead(t) \/ DequeueSwingFails(t)
    BY <1>0, <2>4, ReadRemembers
       DEF DequeueLoadTail, DequeueCheckHead, DequeueSwingFails, CasFails, LoadRelaxed
  <2>5. CASE DequeueReadValue(t)
    BY <1>0, <2>5, ReadRemembers DEF DequeueReadValue, TypeOK
  <2>6. CASE DequeueReturn(t)
    BY <1>0, <2>6, ReadRemembers DEF DequeueReturn, TypeOK
  <2> QED BY <1>3, <2>1, <2>2, <2>3, <2>4, <2>5, <2>6 DEF DequeueStep
<1> QED BY <1>1, <1>2, <1>3

\* What t has seen, it has seen.
LEMMA KeepsSeen ==
  ASSUME IInv, KnowInv, NEW t \in Thread, Remembers(t)
  PROVE  /\ pc[t] \in {"e_next", "e_check"} =>
              \E i \in 1..Newest(tail)' : cur_tail[t] = list'[i] /\ i <= view'[t][tail]
         /\ pc[t] \in DequeuePC \ {"d_head", "d_return", "d_empty"} =>
              \E i \in 1..Newest(head)' :
                /\ cur_head[t] = list'[i]
                /\ \A k \in Location \ {head} : memory'[head][i].view[k] <= view'[t][k]
<1>0. TypeOK /\ MemoryOK(t) /\ EnqueueKnows(t) /\ DequeueKnows(t)
  BY DEF IInv, KnowInv, Remembers
<1>1. \A k \in Location : /\ view[t][k] \in Nat /\ view'[t][k] \in Nat
                          /\ view[t][k] <= view'[t][k]
  BY <1>0 DEF MemoryOK, TypeOK
<1>2. ASSUME pc[t] \in {"e_next", "e_check"}
      PROVE  \E i \in 1..Newest(tail)' : cur_tail[t] = list'[i] /\ i <= view'[t][tail]
  <2>1. PICK i \in 1..Newest(tail) : cur_tail[t] = list[i] /\ i <= view[t][tail]
    BY <1>0, <1>2 DEF EnqueueKnows
  <2>2. i <= view'[t][tail]
    <3>1. i \in Nat /\ tail \in Location
      BY Locations
    <3> QED BY <1>1, <2>1, <3>1
  <2> QED BY <1>0, <2>1, <2>2, Persists
<1>3. ASSUME pc[t] \in DequeuePC \ {"d_head", "d_return", "d_empty"}
      PROVE  \E i \in 1..Newest(head)' :
               /\ cur_head[t] = list'[i]
               /\ \A k \in Location \ {head} : memory'[head][i].view[k] <= view'[t][k]
  <2>1. PICK i \in 1..Newest(head) :
          /\ cur_head[t] = list[i]
          /\ \A k \in Location \ {head} : memory[head][i].view[k] <= view[t][k]
    BY <1>0, <1>3 DEF DequeueKnows
  <2>2. memory'[head][i] = memory[head][i]
    BY DEF Remembers
  <2>3. memory[head][i].view \in [Location -> Nat]
    BY <1>0, LoadedPointer, Locations
  <2>4. \A k \in Location \ {head} : memory'[head][i].view[k] <= view'[t][k]
    <3> TAKE k \in Location \ {head}
    <3>1. PICK a, b, c \in Nat :
            a = memory[head][i].view[k] /\ b = view[t][k] /\ c = view'[t][k]
      BY <1>1, <2>3
    <3>2. a <= b /\ b <= c
      BY <1>1, <2>1, <3>1
    <3>3. a <= c
      BY <3>2
    <3> QED BY <2>2, <3>1, <3>3
  <2> QED BY <1>0, <2>1, <2>4, Persists
<1> QED BY <1>2, <1>3

LEMMA EnqueueKeepsKnows ==
  ASSUME IInv, KnowInv, NEW t \in Thread, Remembers(t),
         EnqueueStep(t) \/ \E v \in Value : EnqueueCall(t, v)
  PROVE  EnqueueKnows(t)' /\ DequeueKnows(t)'
<1>0. TypeOK /\ EndsInv /\ EnqueueKnows(t) /\ MemoryOK(t)
  BY DEF IInv, KnowInv, Remembers
<1>1. DequeueKnows(t)'
  <2>1. pc'[t] \in EnqueuePC \cup {"idle"}
    BY <1>0 DEF TypeOK, EnqueueStep, EnqueueCall, EnqueueLoadTail, EnqueueLoadNext,
                EnqueueCheckTail, EnqueueLink, EnqueueLinkFails, EnqueueHelpTail,
                EnqueueSwingTail
  <2> QED BY <2>1 DEF DequeueKnows
<1>2. CASE \E v \in Value : EnqueueCall(t, v)
  <2>1. pc'[t] = "e_tail" /\ ret'[t] = "void"
    BY <1>0, <1>2 DEF EnqueueCall, TypeOK
  <2> QED BY <1>1, <2>1 DEF EnqueueKnows
<1>3. CASE EnqueueLoadTail(t)
  <2>1. PICK i \in 1..Newest(tail) :
          /\ LoadAcquire(t, tail, i)
          /\ cur_tail' = [cur_tail EXCEPT ![t] = memory[tail][i].val]
    BY <1>3 DEF EnqueueLoadTail
  <2>2. UNCHANGED <<ret, list>> /\ pc[t] \in EnqueuePC /\ pc'[t] = "e_next"
    BY <1>0, <1>3 DEF EnqueueLoadTail, TypeOK
  <2>3. cur_tail'[t] = list[i] /\ view'[t][tail] = i /\ UNCHANGED memory
    BY <1>0, <2>1, <2>2, AcquireKeeps, Locations DEF TypeOK, EndsInv
  <2>4. i \in 1..Newest(tail)' /\ i <= view'[t][tail]
    BY <2>3
  <2> QED BY <1>0, <1>1, <2>2, <2>3, <2>4 DEF EnqueueKnows
<1>4. CASE EnqueueLoadNext(t) \/ EnqueueCheckTail(t)
  <2>1. UNCHANGED <<ret, cur_tail>> /\ pc[t] \in {"e_next", "e_check"}
    BY <1>4 DEF EnqueueLoadNext, EnqueueCheckTail
  <2> QED BY <1>0, <1>1, <2>1, KeepsSeen DEF EnqueueKnows
<1>5. CASE EnqueueLinkFails(t) \/ EnqueueHelpTail(t)
  <2>1. UNCHANGED ret /\ pc[t] \in EnqueuePC /\ pc'[t] = "e_tail"
    BY <1>0, <1>5 DEF EnqueueLinkFails, EnqueueHelpTail, HelpTail, TypeOK
  <2> QED BY <1>0, <1>1, <2>1 DEF EnqueueKnows
<1>6. CASE EnqueueLink(t)
  <2>1. UNCHANGED ret /\ pc[t] \in EnqueuePC /\ pc'[t] = "e_swing"
    BY <1>0, <1>6 DEF EnqueueLink, TypeOK
  <2> QED BY <1>0, <1>1, <2>1 DEF EnqueueKnows
<1>7. CASE EnqueueSwingTail(t)
  <2>1. pc'[t] = "idle"
    BY <1>0, <1>7 DEF EnqueueSwingTail, TypeOK
  <2> QED BY <1>1, <2>1 DEF EnqueueKnows
<1> QED BY <1>2, <1>3, <1>4, <1>5, <1>6, <1>7 DEF EnqueueStep

LEMMA DequeueKeepsKnows ==
  ASSUME IInv, KnowInv, NEW t \in Thread, Remembers(t),
         DequeueStep(t) \/ DequeueCall(t)
  PROVE  EnqueueKnows(t)' /\ DequeueKnows(t)'
<1>0. TypeOK /\ EndsInv /\ DequeueKnows(t) /\ MemoryOK(t) /\ DequeueInv(t)
  BY DEF IInv, KnowInv, Remembers
<1>1. EnqueueKnows(t)'
  <2>1. pc'[t] \in DequeuePC \cup {"idle"}
    BY <1>0 DEF TypeOK, DequeueStep, DequeueCall, DequeueLoadHead, DequeueLoadTail,
                DequeueLoadNext, DequeueCheckHead, DequeueHelpTail, DequeueReadValue,
                DequeueSwingHead, DequeueSwingFails, DequeueReturn
  <2> QED BY <2>1 DEF EnqueueKnows
<1>2. CASE DequeueCall(t) \/ DequeueHelpTail(t) \/ DequeueSwingFails(t)
           \/ DequeueSwingHead(t) \/ DequeueReturn(t)
  <2>1. pc'[t] \in {"d_head", "d_return", "idle"}
    BY <1>0, <1>2 DEF DequeueCall, DequeueHelpTail, DequeueSwingFails,
                      DequeueSwingHead, DequeueReturn, TypeOK
  <2> QED BY <1>1, <2>1 DEF DequeueKnows
<1>3. CASE DequeueLoadHead(t)
  <2>1. PICK i \in 1..Newest(head) :
          /\ LoadAcquire(t, head, i)
          /\ cur_head' = [cur_head EXCEPT ![t] = memory[head][i].val]
    BY <1>3 DEF DequeueLoadHead
  <2>2. UNCHANGED list /\ pc'[t] = "d_tail"
    BY <1>0, <1>3 DEF DequeueLoadHead, TypeOK
  <2>3. /\ cur_head'[t] = list[i] /\ UNCHANGED memory
        /\ \A k \in Location \ {head} : memory[head][i].view[k] <= view'[t][k]
    BY <1>0, <2>1, <2>2, AcquireKeeps, Locations DEF TypeOK, EndsInv
  <2>4. i \in 1..Newest(head)' /\ cur_head'[t] = list'[i]
    BY <2>2, <2>3
  <2> QED BY <1>1, <2>2, <2>3, <2>4 DEF DequeueKnows
<1>4. CASE DequeueLoadTail(t)
  <2>1. PICK j \in 1..Newest(tail) :
          /\ LoadRelaxed(t, tail, j)
          /\ cur_tail' = [cur_tail EXCEPT ![t] = memory[tail][j].val]
    BY <1>4 DEF DequeueLoadTail
  <2>2. UNCHANGED <<list, cur_head>> /\ pc[t] = "d_tail" /\ pc'[t] = "d_next"
    BY <1>0, <1>4 DEF DequeueLoadTail, TypeOK
  <2>3. cur_tail'[t] = list[j] /\ view'[t][tail] = j
    BY <1>0, <2>1, <2>2, RelaxedKeeps, Locations DEF TypeOK, EndsInv
  <2> QED BY <1>1, <2>2, <2>3, KeepsSeen DEF DequeueKnows
<1>5. CASE DequeueLoadNext(t)
  <2>1. PICK c \in Node : c = cur_head[t]
    BY <1>0, <1>5, ListFacts DEF DequeueLoadNext, DequeueInv
  <2>2. PICK i \in 1..Newest(next(c)) :
          /\ LoadAcquire(t, next(c), i)
          /\ lnext' = [lnext EXCEPT ![t] = memory[next(c)][i].val]
    BY <1>5, <2>1 DEF DequeueLoadNext
  <2>3. /\ UNCHANGED <<list, cur_head, cur_tail>> /\ pc[t] = "d_next"
        /\ pc'[t] = "d_check" /\ lnext'[t] = memory[next(c)][i].val
    BY <1>0, <1>5, <2>2 DEF DequeueLoadNext, TypeOK
  <2>4. memory[next(c)][i].val = Null => i = 2
    <3>1. i \in {1, 2, 3} /\ (i = 3 => Newest(next(c)) = 3)
      <4>1. PICK m \in 1..3 : m = Newest(next(c))
        BY NodeFacts
      <4>2. i \in 1..m
        BY <4>1
      <4>3. i \in {1, 2, 3} /\ (i = 3 => m = 3)
        BY <4>2
      <4> QED BY <4>1, <4>3
    <3>2. ASSUME i = 3 PROVE memory[next(c)][i].val # Null
      <4>1. memory[next(c)][3].val \in Node
        BY <3>1, <3>2, NodeFacts
      <4> QED BY <3>2, <4>1
    <3>3. i # 1 \/ memory[next(c)][i].val = Garbage
      <4>1. memory[next(c)][1].val = Garbage
        BY NodeFacts
      <4> QED BY <4>1
    <3> QED BY <3>1, <3>2, <3>3
  <2>5. ASSUME i = 2 PROVE view'[t][next(c)] = 2 /\ view'[t][tail] = view[t][tail]
    <3>1. next(c) \in Location /\ tail \in Location \ {next(c)}
      BY Locations
    <3>2. /\ view'[t][next(c)] = 2 /\ view[t][tail] <= view'[t][tail]
          /\ \/ view'[t][tail] = view[t][tail]
             \/ view'[t][tail] = memory[next(c)][2].view[tail]
      BY <1>0, <2>2, <2>5, <3>1, Loaded
    <3>3. memory[next(c)][2].view[tail] = 0
      <4>1. Newest(next(c)) >= 2
        BY <2>2, <2>5, NodeFacts
      <4>2. memory[next(c)][2].view = Nowhere
        BY <4>1 DEF KnowInv
      <4> QED BY <3>1, <4>2 DEF Nowhere
    <3>4. view[t][tail] \in Nat
      BY <1>0, <3>1 DEF TypeOK
    <3> QED BY <3>2, <3>3, <3>4
  <2>6. cur_tail[t] = list[view[t][tail]]
    BY <1>0, <2>3 DEF DequeueKnows
  <2> QED BY <1>1, <2>1, <2>3, <2>4, <2>5, <2>6, KeepsSeen DEF DequeueKnows
<1>6. CASE DequeueCheckHead(t)
  <2>1. /\ UNCHANGED cur_head /\ pc[t] = "d_check"
        /\ pc'[t] \in {"d_head", "d_empty", "d_help", "d_value"}
    BY <1>0, <1>6 DEF DequeueCheckHead, TypeOK
  <2> QED BY <1>1, <2>1, KeepsSeen DEF DequeueKnows
<1>7. CASE DequeueReadValue(t)
  <2>1. /\ UNCHANGED <<cur_head, value, lnext>> /\ pc[t] = "d_value"
        /\ pc'[t] = "d_swing" /\ out'[t] = value[lnext[t]]
    BY <1>0, <1>7 DEF DequeueReadValue, TypeOK
  <2> QED BY <1>1, <2>1, KeepsSeen DEF DequeueKnows
<1> QED BY <1>2, <1>3, <1>4, <1>5, <1>6, <1>7 DEF DequeueStep

LEMMA StepKeepsKnowInv ==
  ASSUME IInv, KnowInv, NEW t \in Thread,
         Call(t) \/ EnqueueStep(t) \/ DequeueStep(t)
  PROVE  KnowInv'
<1>1. Remembers(t)
  BY StepRemembers
<1>2. EnqueueKnows(t)' /\ DequeueKnows(t)'
  BY <1>1, EnqueueKeepsKnows, DequeueKeepsKnows DEF Call
<1>3. \A u \in Thread : view'[u][tail] >= 1 /\ EnqueueKnows(u)' /\ DequeueKnows(u)'
  BY <1>1, <1>2, OthersKnow
<1> QED BY <1>1, <1>3 DEF KnowInv, Remembers

-----------------------------------------------------------------------------
(* What a step of t does to the variables of LooseFifo                     *)

LEMMA ItemsBar ==
  ASSUME Len(list) \in Nat \ {0}
  PROVE  Len(itemsBar) = Len(list) - 1
BY DEF itemsBar

LEMMA ItemsFrame ==
  ASSUME IInv, NEW t \in Thread, Remembers(t), list' = list
  PROVE  itemsBar' = itemsBar
<1>1. \A i \in 1..(Len(list) - 1) : i + 1 \in 1..Len(list)
  BY ListFacts
<1>2. \A i \in 1..(Len(list) - 1) : value'[list[i + 1]] = value[list[i + 1]]
  BY <1>1 DEF Remembers
<1> QED BY <1>2 DEF itemsBar

\* What was seen of the items taken so far.
LEMMA SeenKept ==
  ASSUME IInv, NEW t \in Thread, Remembers(t), NEW i \in 1..(Newest(head) - 1)
  PROVE  Known(memory'[head][i + 1].view, list') = Known(memory[head][i + 1].view, list)
<1>0. TypeOK /\ EndsInv /\ ViewInv /\ Evolves
  BY DEF IInv, Remembers, MemoryOK
<1>1. /\ i + 1 \in 1..Newest(head) /\ i + 1 \in 2..Newest(head)
      /\ Newest(tail) <= Len(list) /\ Newest(tail) \in Nat /\ Len(list) \in Nat
  BY ListFacts
<1>2. PICK w : w = memory[head][i + 1].view
  OBVIOUS
<1>3. memory'[head][i + 1].view = w
  BY <1>1, <1>2 DEF Remembers
<1>4. w \in [Location -> Nat] /\ Bound(w) /\ w[tail] >= i + 1
  BY <1>0, <1>1, <1>2, LoadedPointer, Locations DEF EndsInv, ViewInv
<1>5. w[tail] \in 1..Len(list)
  <2>1. w[tail] \in Nat /\ w[tail] <= Newest(tail)
    BY <1>4, Locations DEF Bound
  <2> QED BY <1>1, <1>4, <2>1
<1>6. Known(w, list') = Known(w, list)
  BY <1>0, <1>5, KnownStays DEF Evolves
<1> QED BY <1>2, <1>3, <1>6

LEMMA SeenFrame ==
  ASSUME IInv, NEW t \in Thread, Remembers(t), Newest(head)' = Newest(head)
  PROVE  seenBar' = seenBar
<1>1. /\ seenBar = [i \in 1..(Newest(head) - 1) |-> Known(memory[head][i + 1].view, list)]
      /\ seenBar' = [i \in 1..(Newest(head) - 1) |-> Known(memory'[head][i + 1].view, list')]
  BY DEF seenBar, KnownIn, Known
<1> QED BY <1>1, SeenKept

\* The message of tail a thread has seen points to a node of the list.
LEMMA TailSeen ==
  ASSUME IInv, KnowInv
  PROVE  \A t \in Thread : view[t][tail] \in 1..Len(list)
<1> TAKE t \in Thread
<1>1. view[t][tail] \in Nat /\ view[t][tail] <= Newest(tail) /\ 1 <= view[t][tail]
  BY Locations DEF IInv, TypeOK, ViewInv, Bound, KnowInv
<1>2. Newest(tail) \in 1..Len(list) /\ Len(list) \in Nat
  BY ListFacts
<1> QED BY <1>1, <1>2

LEMMA KnownFrame ==
  ASSUME IInv, IInv', KnowInv, NEW t \in Thread, Remembers(t)
  PROVE  /\ knownBar' = [knownBar EXCEPT ![t] = Known(view'[t], list')]
         /\ knownBar[t] = Known(view[t], list)
         /\ list' = list => Queue!Learns(t)
<1>0. TypeOK /\ ViewInv /\ MemoryOK(t) /\ Evolves /\ ListOpen
  BY LastIsOpen DEF IInv, Remembers, MemoryOK
<1>1. \A u \in Thread : view[u][tail] \in 1..Len(list)
  BY TailSeen
<1>2. /\ knownBar = [u \in Thread |-> Known(view[u], list)]
      /\ knownBar' = [u \in Thread |-> Known(view'[u], list')]
  BY DEF knownBar, KnownIn, Known
<1>3. ASSUME NEW u \in Thread \ {t} PROVE Known(view'[u], list') = Known(view[u], list)
  <2>1. view'[u] = view[u]
    BY <1>0 DEF MemoryOK
  <2>2. PICK w : w = view[u]
    OBVIOUS
  <2>3. Known(w, list') = Known(w, list)
    BY <1>0, <1>1, <2>2, KnownStays DEF Evolves
  <2> QED BY <2>1, <2>2, <2>3
<1>4. knownBar' = [knownBar EXCEPT ![t] = Known(view'[t], list')]
  BY <1>2, <1>3
<1>5. ASSUME list' = list PROVE Queue!Learns(t)
  <2>1. PICK v, w \in [Location -> Nat] : v = view[t] /\ w = view'[t]
    BY <1>0 DEF TypeOK, MemoryOK
  <2>2. IInv' => ListOpen'
    BY LastIsOpen, PTL
  <2>3. ListOpen' /\ Bound(w)'
    BY <1>0, <2>1, <2>2 DEF MemoryOK, ViewInv, Bound
  <2>4. PICK n \in Nat, last \in Node :
          /\ n = w[tail] /\ last = list[n] /\ n >= 1 /\ n <= Len(list)
          /\ w[next(last)] <= 3 /\ (n = Len(list) => w[next(last)] # 3)
    <3>1. PICK n \in Nat : n = w[tail]
      BY <2>1, Locations
    <3>2. v[tail] <= n /\ v[tail] \in 1..Len(list)
      BY <1>0, <1>1, <2>1, <3>1, Locations DEF MemoryOK
    <3>3. n <= Len(list) /\ Len(list) \in Nat
      <4>1. /\ w[tail] <= Len(memory'[tail]) /\ Len(memory'[tail]) \in 1..Len(list)
            /\ Len(list) \in Nat
        BY <1>5, <2>3, Locations DEF Bound, ListOpen
      <4> QED BY <3>1, <4>1
    <3>4. n \in 1..Len(list)
      BY <3>2, <3>3
    <3>5. PICK last \in Node : last = list[n]
      BY <1>0, <3>4 DEF ListOpen
    <3>6. PICK m : m = Len(memory'[next(last)])
      OBVIOUS
    <3>7. m \in {1, 2, 3} /\ (n = Len(list) => m = 2)
      BY <1>5, <2>3, <3>4, <3>5, <3>6 DEF ListOpen
    <3>8. w[next(last)] \in Nat /\ w[next(last)] <= m
      BY <2>1, <2>3, <3>6, Locations DEF Bound
    <3>9. w[next(last)] <= 3 /\ (n = Len(list) => w[next(last)] # 3)
      BY <3>7, <3>8
    <3> QED BY <3>1, <3>4, <3>5, <3>9
  <2>5. v[tail] >= 1 /\ \A k \in Location \ {head} : v[k] <= w[k]
    BY <1>0, <1>1, <2>1 DEF MemoryOK
  <2>6. /\ Known(v, list) \in Nat /\ Known(w, list) \in Nat
        /\ Known(v, list) <= Known(w, list) /\ Known(w, list) <= Len(list) - 1
    BY <1>0, <2>1, <2>4, <2>5, KnownGrows DEF ListOpen
  <2>7. Len(itemsBar) = Len(list) - 1 /\ Len(list) \in Nat
    BY <1>0, ItemsBar DEF ListOpen
  <2>8. Known(w, list) \in knownBar[t]..Len(itemsBar)
    BY <1>2, <2>1, <2>6, <2>7
  <2> QED BY <1>4, <1>5, <2>1, <2>8 DEF Queue!Learns
<1> QED BY <1>2, <1>4, <1>5

\* A step of t changes no other thread's phase.
LEMMA PhaseFrame ==
  ASSUME NEW t \in Thread, NEW p, Remembers(t), phaseBar'[t] = p
  PROVE  phaseBar' = [phaseBar EXCEPT ![t] = p]
<1>1. \A u \in Thread \ {t} : phaseBar'[u] = phaseBar[u]
  BY DEF phaseBar, Remembers, LocalsOK
<1>2. phaseBar = [u \in Thread |-> phaseBar[u]]
      /\ phaseBar' = [u \in Thread |-> phaseBar'[u]]
  BY DEF phaseBar
<1> QED BY <1>1, <1>2

\* Nor does it change another thread's datum.
LEMMA DatumFrame ==
  ASSUME NEW t \in Thread, NEW d, Remembers(t), datumBar'[t] = d
  PROVE  datumBar' = [datumBar EXCEPT ![t] = d]
<1>1. \A u \in Thread \ {t} : datumBar'[u] = datumBar[u]
  BY DEF datumBar, Remembers, LocalsOK
<1>2. datumBar = [u \in Thread |-> datumBar[u]]
      /\ datumBar' = [u \in Thread |-> datumBar'[u]]
  BY DEF datumBar
<1> QED BY <1>1, <1>2

\* A step that adds neither a node nor a message of head, and changes
\* neither the phase nor the datum, only learns.
LEMMA Learning ==
  ASSUME IInv, IInv', KnowInv, NEW t \in Thread, Remembers(t), list' = list,
         Newest(head)' = Newest(head), phaseBar'[t] = phaseBar[t], datumBar'[t] = datumBar[t]
  PROVE  Queue!Next
<1>1. phaseBar' = phaseBar /\ datumBar' = datumBar
  <2>1. /\ phaseBar' = [phaseBar EXCEPT ![t] = phaseBar[t]]
        /\ datumBar' = [datumBar EXCEPT ![t] = datumBar[t]]
    BY PhaseFrame, DatumFrame
  <2>2. /\ phaseBar = [u \in Thread |-> phaseBar[u]]
        /\ datumBar = [u \in Thread |-> datumBar[u]]
    BY DEF phaseBar, datumBar
  <2>3. phaseBar' = phaseBar
    BY <2>1, <2>2
  <2>4. datumBar' = datumBar
    BY <2>1, <2>2
  <2> QED BY <2>3, <2>4
<1>2. Queue!Learn(t)
  BY <1>1, ItemsFrame, SeenFrame, KnownFrame DEF Queue!Learn
<1> QED BY <1>2 DEF Queue!Next

-----------------------------------------------------------------------------
(* One case per action: the step of LooseFifo it is, or a stutter.         *)

\* What t knows does not change with what it sees of other places.
LEMMA KnownSame ==
  ASSUME IInv, IInv', KnowInv, NEW t \in Thread, Remembers(t), list' = list,
         view'[t][tail] = view[t][tail],
         \A i \in 1..Len(list) : view'[t][next(list[i])] = view[t][next(list[i])]
  PROVE  knownBar' = knownBar
<1>1. view[t][tail] \in 1..Len(list)
  BY TailSeen
<1>2. Known(view'[t], list) = Known(view[t], list)
  BY <1>1 DEF Known
<1>3. knownBar' = [knownBar EXCEPT ![t] = knownBar[t]]
  BY <1>2, KnownFrame
<1> QED BY <1>3 DEF knownBar

LEMMA CallRefines ==
  ASSUME IInv, IInv', KnowInv, NEW t \in Thread, Remembers(t), Call(t)
  PROVE  Queue!Next
<1>0. TypeOK /\ UNCHANGED list /\ Newest(head)' = Newest(head)
  <2>1. ~DequeueSwingHead(t)
    BY DEF Call, DequeueCall, EnqueueCall, DequeueSwingHead
  <2> QED BY <2>1, HeadStays DEF IInv, Call, DequeueCall, EnqueueCall
<1>1. itemsBar' = itemsBar /\ seenBar' = seenBar
  BY <1>0, ItemsFrame, SeenFrame
<1>2. CASE DequeueCall(t)
  <2>1. /\ pc[t] = "idle" /\ pc'[t] = "d_head" /\ UNCHANGED view
    BY <1>0, <1>2 DEF DequeueCall, TypeOK
  <2>2. knownBar' = knownBar
    BY <1>0, <2>1, KnownSame
  <2>3. phaseBar[t] = "idle" /\ phaseBar' = [phaseBar EXCEPT ![t] = "deq"]
    <3>1. phaseBar[t] = "idle" /\ phaseBar'[t] = "deq"
      BY <2>1 DEF phaseBar
    <3> QED BY <3>1, PhaseFrame
  <2>4. datumBar' = [datumBar EXCEPT ![t] = NoValue]
    <3>1. datumBar'[t] = NoValue
      BY <2>1 DEF datumBar
    <3> QED BY <3>1, DatumFrame
  <2>5. Queue!CallDequeue(t)
    BY <1>1, <2>2, <2>3, <2>4 DEF Queue!CallDequeue, Queue!Step
  <2> QED BY <2>5 DEF Queue!Next
<1>3. ASSUME NEW v \in Value, EnqueueCall(t, v) PROVE Queue!Next
  <2>1. PICK n \in Node :
          /\ Constructs(t, n)
          /\ value' = [value EXCEPT ![n] = v] /\ node' = [node EXCEPT ![t] = n]
    BY <1>3 DEF EnqueueCall, Constructs
  <2>2. pc[t] = "idle" /\ pc'[t] = "e_tail" /\ node'[t] = n /\ value'[n] = v
    BY <1>0, <1>3, <2>1 DEF EnqueueCall, TypeOK
  <2>3. knownBar' = knownBar
    <3>1. \A i \in 1..Len(list) : list[i] # n /\ list[i] \in Node
      BY <1>0, <2>1, Construction, ListFacts
    <3>2. view \in [Thread -> [Location -> Nat]]
          /\ view' = [view EXCEPT ![t][next(n)] = 2, ![t][data(n)] = 1]
      BY <1>0, <2>1 DEF TypeOK, Constructs
    <3>3. \A k \in Location \ {next(n), data(n)} : view'[t][k] = view[t][k]
      BY <3>2, Locations
    <3>4. tail \in Location \ {next(n), data(n)}
      BY Locations
    <3>5. \A i \in 1..Len(list) : next(list[i]) \in Location \ {next(n), data(n)}
      BY <3>1, Locations
    <3> QED BY <1>0, <3>3, <3>4, <3>5, KnownSame
  <2>4. phaseBar[t] = "idle" /\ phaseBar' = [phaseBar EXCEPT ![t] = "enq"]
    <3>1. phaseBar[t] = "idle" /\ phaseBar'[t] = "enq"
      BY <2>2 DEF phaseBar
    <3> QED BY <3>1, PhaseFrame
  <2>5. datumBar' = [datumBar EXCEPT ![t] = v]
    <3>1. datumBar'[t] = v
      BY <2>2 DEF datumBar
    <3> QED BY <3>1, DatumFrame
  <2>6. Queue!CallEnqueue(t, v)
    BY <1>1, <2>3, <2>4, <2>5 DEF Queue!CallEnqueue, Queue!Step
  <2> QED BY <2>6 DEF Queue!Next
<1> QED BY <1>2, <1>3 DEF Call

LEMMA EnqueueStepRefines ==
  ASSUME IInv, IInv', KnowInv, NEW t \in Thread, Remembers(t), EnqueueStep(t)
  PROVE  Queue!Next
<1>0. TypeOK /\ Newest(head)' = Newest(head)
  <2>1. pc[t] # "d_swing"
    BY DEF EnqueueStep, EnqueueLoadTail, EnqueueLoadNext, EnqueueCheckTail, EnqueueLink,
           EnqueueLinkFails, EnqueueHelpTail, EnqueueSwingTail
  <2> QED BY <2>1, HeadStays DEF IInv, DequeueSwingHead
<1>1. CASE EnqueueLink(t)
  <2>1. /\ pc[t] = "e_link" /\ pc'[t] = "e_swing" /\ UNCHANGED value
        /\ list' = Append(list, node[t]) /\ NewestVal(next(cur_tail[t])) = Null
        /\ RmwRelease(t, next(cur_tail[t]), node[t])
    BY <1>0, <1>1 DEF EnqueueLink, TypeOK
  <2>2. PICK len \in Nat \ {0} : len = Len(list)
    BY ListFacts
  <2>3. PICK c \in Node : c = cur_tail[t] /\ c = list[len] /\ view[t][tail] = len
    <3>1. PICK i \in 1..Newest(tail) : cur_tail[t] = list[i] /\ i <= view[t][tail]
      BY <2>1 DEF KnowInv, EnqueueKnows
    <3>2. i \in 1..len /\ list[i] \in Node
      BY <2>2, <3>1, ListFacts
    <3>3. i = len
      <4> SUFFICES ASSUME i # len PROVE FALSE
        OBVIOUS
      <4>1. i \in 1..(Len(list) - 1)
        BY <2>2, <3>2
      <4>2. Newest(next(list[i])) = 3 /\ memory[next(list[i])][3].val \in Node
        BY <3>2, <4>1, NodeFacts
      <4> QED BY <2>1, <3>1, <4>2
    <3>4. view[t][tail] \in Nat /\ view[t][tail] <= Newest(tail) /\ Newest(tail) <= len
      <4>1. view[t][tail] \in Nat /\ view[t][tail] <= Newest(tail)
        BY <1>0, Locations DEF IInv, TypeOK, ViewInv, Bound
      <4> QED BY <2>2, <4>1, ListFacts
    <3>5. view[t][tail] = len
      BY <3>1, <3>3, <3>4
    <3> QED BY <3>1, <3>2, <3>3, <3>5
  <2>4. Known(view'[t], list') = len
    <3>1. next(c) \in Location /\ tail \in Location \ {next(c)}
      BY Locations
    <3>2. Newest(next(c)) = 2
      BY <2>2, <2>3, LastIsOpen DEF ListOpen
    <3>3. view' = [view EXCEPT ![t] = [view[t] EXCEPT ![next(c)] = 3]]
      BY <2>1, <2>3, <3>2 DEF RmwRelease, Rmw, After
    <3>4. view'[t][next(c)] = 3 /\ view'[t][tail] = len
      BY <1>0, <2>3, <3>1, <3>3 DEF TypeOK
    <3>5. list'[len] = c
      <4>1. len \in 1..Len(list)
        BY <2>2
      <4> QED BY <2>3, <4>1 DEF Remembers, MemoryOK, Evolves
    <3> QED BY <3>4, <3>5 DEF Known
  <2>5. Len(itemsBar) = len - 1
    BY <2>2, ItemsBar
  <2>6. knownBar' = [knownBar EXCEPT ![t] = Len(itemsBar) + 1]
    <3>1. Len(itemsBar) + 1 = len
      BY <2>2, <2>5
    <3> QED BY <2>4, <3>1, KnownFrame
  <2>7. seenBar' = seenBar
    BY <1>0, SeenFrame
  <2>8. phaseBar[t] = "enq" /\ phaseBar' = [phaseBar EXCEPT ![t] = "enqueued"]
    <3>1. phaseBar[t] = "enq" /\ phaseBar'[t] = "enqueued"
      BY <2>1 DEF phaseBar
    <3> QED BY <3>1, PhaseFrame
  <2>9. datumBar[t] = value[node[t]] /\ datumBar' = [datumBar EXCEPT ![t] = NoValue]
    <3>1. datumBar[t] = value[node[t]] /\ datumBar'[t] = NoValue
      BY <2>1 DEF datumBar
    <3> QED BY <3>1, DatumFrame
  <2>10. itemsBar' = Append(itemsBar, datumBar[t])
    <3>1. node[t] \in Node /\ list \in Seq(Node)
      BY <1>0, <1>1, LinkExchange DEF TypeOK
    <3>2. /\ Len(list') = len + 1 /\ list'[len + 1] = node[t]
          /\ \A i \in 1..len : list'[i] = list[i]
      BY <2>1, <2>2, <3>1
    <3>3. itemsBar' = [i \in 1..len |-> value[list'[i + 1]]]
      BY <2>1, <2>2, <3>2 DEF itemsBar
    <3>4. itemsBar = [i \in 1..(len - 1) |-> value[list[i + 1]]]
      BY <2>2 DEF itemsBar
    <3>5. \A i \in 1..len : value[list'[i + 1]]
                            = IF i = len THEN datumBar[t] ELSE value[list[i + 1]]
      <4> TAKE i \in 1..len
      <4>1. i # len => i + 1 \in 1..len
        BY <2>2
      <4> QED BY <2>9, <3>2, <4>1
    <3>6. itemsBar' = [i \in 1..len |->
                         IF i = len THEN datumBar[t] ELSE value[list[i + 1]]]
      BY <3>3, <3>5
    <3>7. \A i \in 1..(len - 1) : value[list[i + 1]] \in Value \cup {NoValue}
      BY <1>0, <2>2, ListFacts DEF TypeOK
    <3>8. itemsBar \in Seq(Value \cup {NoValue})
      BY <2>2, <3>4, <3>7
    <3>9. \A i \in 1..len : i # len => itemsBar[i] = value[list[i + 1]]
      BY <2>2, <3>4
    <3>10. itemsBar' = [i \in 1..len |-> IF i = len THEN datumBar[t] ELSE itemsBar[i]]
      BY <3>6, <3>9
    <3>11. datumBar[t] \in Value \cup {NoValue}
      BY <1>0, <2>9, <3>1 DEF TypeOK
    <3>12. PICK q \in Seq(Value \cup {NoValue}), d \in Value \cup {NoValue}, m \in Nat :
             q = itemsBar /\ d = datumBar[t] /\ m = Len(q) /\ len = m + 1
      BY <2>2, <2>5, <3>8, <3>11
    <3>13. Append(q, d) = [i \in 1..(m + 1) |-> IF i = m + 1 THEN d ELSE q[i]]
      BY <3>12
    <3> QED BY <3>10, <3>12, <3>13
  <2>11. Queue!Enqueue(t)
    BY <2>6, <2>7, <2>8, <2>9, <2>10 DEF Queue!Enqueue, Queue!Step
  <2> QED BY <2>11 DEF Queue!Next
<1>2. CASE EnqueueSwingTail(t)
  <2>1. pc[t] = "e_swing" /\ pc'[t] = "idle" /\ UNCHANGED <<ret, list>>
    BY <1>0, <1>2 DEF EnqueueSwingTail, TypeOK
  <2>2. phaseBar[t] = "enqueued" /\ phaseBar' = [phaseBar EXCEPT ![t] = "idle"]
    <3>1. phaseBar[t] = "enqueued" /\ phaseBar'[t] = "idle"
      BY <2>1 DEF phaseBar
    <3> QED BY <3>1, PhaseFrame
  <2>3. datumBar' = datumBar
    <3>1. ret[t] = "void"
      BY <2>1 DEF KnowInv, EnqueueKnows
    <3>2. datumBar[t] = NoValue /\ datumBar'[t] = NoValue
      BY <2>1, <3>1 DEF datumBar
    <3>3. datumBar' = [datumBar EXCEPT ![t] = NoValue]
      BY <3>2, DatumFrame
    <3> QED BY <3>2, <3>3 DEF datumBar
  <2>4. Queue!ReturnEnqueue(t)
    BY <1>0, <2>1, <2>2, <2>3, ItemsFrame, SeenFrame, KnownFrame
       DEF Queue!ReturnEnqueue, Queue!Step
  <2> QED BY <2>4 DEF Queue!Next
<1>3. CASE ~EnqueueLink(t) /\ ~EnqueueSwingTail(t)
  <2>1. /\ pc[t] \in Inserting /\ pc'[t] \in Inserting
        /\ UNCHANGED <<value, node, list>>
    BY <1>0, <1>3 DEF TypeOK, EnqueueStep, EnqueueLoadTail, EnqueueLoadNext,
                      EnqueueCheckTail, EnqueueLinkFails, EnqueueHelpTail, HelpTail
  <2>2. phaseBar'[t] = phaseBar[t]
    BY <2>1 DEF phaseBar
  <2>3. datumBar'[t] = datumBar[t]
    BY <2>1 DEF datumBar
  <2> QED BY <1>0, <2>1, <2>2, <2>3, Learning
<1> QED BY <1>1, <1>2, <1>3

\* A dequeue knows all that the thread knew that put cur_head in head.
LEMMA PassedOn ==
  ASSUME IInv, KnowInv, NEW t \in Thread, NEW i \in 1..Newest(head),
         \A k \in Location \ {head} : memory[head][i].view[k] <= view[t][k]
  PROVE  /\ knownBar[t] \in Nat
         /\ i > 1 => seenBar[i - 1] <= knownBar[t]
<1>0. TypeOK /\ EndsInv /\ ViewInv /\ ListOpen
  BY LastIsOpen DEF IInv
<1>1. PICK w \in [Location -> Nat] : w = view[t]
  BY <1>0 DEF TypeOK
<1>2. Bound(w) /\ w[tail] \in 1..Len(list)
  BY <1>0, <1>1, TailSeen DEF ViewInv
<1>3. PICK last \in Node : last = list[w[tail]]
  BY <1>0, <1>2 DEF ListOpen
<1>4. PICK m, x : m = Newest(next(last)) /\ x = w[next(last)]
  OBVIOUS
<1>5. m \in 1..3 /\ (w[tail] = Len(list) => m = 2)
  BY <1>0, <1>2, <1>3, <1>4 DEF ListOpen
<1>6. x \in Nat /\ x <= m
  BY <1>1, <1>2, <1>4, Locations DEF Bound
<1>7. x <= 3 /\ (w[tail] = Len(list) => x # 3)
  BY <1>5, <1>6
<1>8. /\ Len(list) \in Nat /\ w[tail] <= Len(list) /\ list[w[tail]] \in Node
      /\ w[next(list[w[tail]])] <= 3
      /\ w[tail] = Len(list) => w[next(list[w[tail]])] # 3
  BY <1>0, <1>2, <1>3, <1>4, <1>7 DEF ListOpen
<1>9. knownBar[t] = Known(w, list)
  BY <1>1 DEF knownBar, KnownIn, Known
<1>10. ASSUME i > 1 PROVE seenBar[i - 1] <= knownBar[t]
  <2>1. PICK v \in [Location -> Nat] : v = memory[head][i].view
    BY <1>0, LoadedPointer, Locations
  <2>2. v[tail] >= 1 /\ i - 1 \in 1..(Newest(head) - 1)
    <3>1. Newest(head) \in Nat /\ i \in 2..Newest(head)
      BY <1>10, ListFacts
    <3>2. memory[head][i].view[tail] >= i
      BY <1>0, <3>1 DEF EndsInv
    <3>3. v[tail] >= i /\ v[tail] \in Nat
      BY <2>1, <3>2, Locations
    <3> QED BY <1>10, <3>1, <3>3
  <2>3. seenBar[i - 1] = Known(v, list)
    <3>1. (i - 1) + 1 = i
      OBVIOUS
    <3> QED BY <2>1, <2>2, <3>1 DEF seenBar, KnownIn, Known
  <2>4. Known(v, list) <= Known(w, list)
    BY <1>1, <1>8, <2>1, <2>2, KnownGrows
  <2> QED BY <1>9, <2>3, <2>4
<1>11. knownBar[t] \in Nat
  BY <1>2, <1>9, Locations DEF Known
<1> QED BY <1>10, <1>11

LEMMA FindsEmpty ==
  ASSUME IInv, IInv', KnowInv, NEW t \in Thread, Remembers(t), DequeueCheckHead(t),
         pc'[t] = "d_empty"
  PROVE  Queue!FindEmpty(t)
<1>0. TypeOK
  BY DEF IInv
<1>1. /\ pc[t] = "d_check" /\ cur_head[t] = cur_tail[t] /\ lnext[t] = Null
      /\ UNCHANGED <<list, memory>> /\ \E i \in 1..Newest(head) : LoadRelaxed(t, head, i)
  BY <1>0 DEF DequeueCheckHead, TypeOK, LoadRelaxed
<1>2. PICK i \in 1..Newest(head) :
        /\ cur_head[t] = list[i]
        /\ \A k \in Location \ {head} : memory[head][i].view[k] <= view[t][k]
  BY <1>1 DEF KnowInv, DequeueKnows
<1>3. view[t][tail] = i /\ view[t][next(list[i])] = 2 /\ i \in 1..Len(list)
  <2>1. cur_tail[t] = list[view[t][tail]] /\ view[t][next(cur_head[t])] = 2
    BY <1>1 DEF KnowInv, DequeueKnows
  <2>2. view[t][tail] \in 1..Len(list) /\ i \in 1..Len(list)
    BY TailSeen, ListFacts
  <2> QED BY <1>1, <1>2, <2>1, <2>2, ListFacts
<1>4. knownBar[t] = i - 1
  BY <1>3 DEF knownBar, KnownIn
<1>5. Len(seenBar) = Newest(head) - 1 /\ Newest(head) \in Nat
  BY ListFacts DEF seenBar
<1>6. knownBar[t] <= Len(seenBar) /\ (knownBar[t] > 0 => seenBar[knownBar[t]] <= knownBar[t])
  <2>1. i > 1 => seenBar[i - 1] <= knownBar[t]
    BY <1>2, PassedOn
  <2> QED BY <1>4, <1>5, <2>1
<1>7. knownBar' = knownBar
  <2>1. \A k \in Location \ {head} : view'[t][k] = view[t][k]
    BY <1>0, <1>1 DEF TypeOK, LoadRelaxed
  <2>2. \A x \in 1..Len(list) : next(list[x]) \in Location \ {head}
    BY Locations, ListFacts
  <2> QED BY <1>1, <2>1, <2>2, Locations, KnownSame
<1>8. phaseBar[t] = "deq" /\ phaseBar' = [phaseBar EXCEPT ![t] = "foundEmpty"]
  <2>1. phaseBar[t] = "deq" /\ phaseBar'[t] = "foundEmpty"
    BY <1>1 DEF phaseBar
  <2> QED BY <2>1, PhaseFrame
<1>9. datumBar' = datumBar
  <2>1. datumBar[t] = NoValue /\ datumBar'[t] = NoValue
    BY <1>1 DEF datumBar
  <2>2. datumBar' = [datumBar EXCEPT ![t] = NoValue]
    BY <2>1, DatumFrame
  <2> QED BY <2>1, <2>2 DEF datumBar
<1> QED BY <1>1, <1>6, <1>7, <1>8, <1>9, ItemsFrame, SeenFrame
        DEF Queue!FindEmpty, Queue!Step, Queue!taken

LEMMA SwingsHead ==
  ASSUME IInv, IInv', KnowInv, NEW t \in Thread, Remembers(t), DequeueSwingHead(t)
  PROVE  Queue!Dequeue(t)
<1>0. TypeOK /\ DequeueInv(t) /\ Newest(head)' = Newest(head) + 1
  BY HeadExchange DEF IInv, DequeueSwingHead
<1>1. /\ pc[t] = "d_swing" /\ pc'[t] = "d_return" /\ NewestVal(head) = cur_head[t]
      /\ RmwRelease(t, head, lnext[t]) /\ UNCHANGED <<list, value, out>>
  BY <1>0 DEF DequeueSwingHead, TypeOK
<1>2. PICK h \in Nat \ {0} :
        /\ h = Newest(head) /\ h \in 1..Len(list) /\ cur_head[t] = list[h]
        /\ \A i \in 1..h : i \in 1..Len(list)
  BY <1>1, ListFacts
<1>3. \A k \in Location \ {head} : memory[head][h].view[k] <= view[t][k]
  <2>1. PICK i \in 1..Newest(head) :
          /\ cur_head[t] = list[i]
          /\ \A k \in Location \ {head} : memory[head][i].view[k] <= view[t][k]
    BY <1>1 DEF KnowInv, DequeueKnows
  <2>2. i = h
    BY <1>2, <2>1, ListFacts
  <2> QED BY <2>1, <2>2
<1>4. knownBar[t] \in Nat /\ knownBar[t] >= h
  <2>1. PICK i \in 1..Newest(head), j \in 1..Newest(tail) :
          /\ cur_head[t] = list[i] /\ cur_tail[t] = list[j]
          /\ i <= j /\ j <= view[t][tail] /\ i # j
    BY <1>0, <1>1 DEF DequeueInv
  <2>2. i = h
    BY <1>2, <2>1, ListFacts
  <2>3. view[t][tail] \in Nat /\ view[t][tail] >= h + 1
    <3>1. view[t][tail] \in Nat
      BY <1>0, Locations DEF TypeOK
    <3> QED BY <2>1, <2>2, <3>1
  <2>4. knownBar[t] \in {view[t][tail], view[t][tail] - 1}
    BY DEF knownBar, KnownIn
  <2> QED BY <2>3, <2>4
<1>5. knownBar' = knownBar
  <2>1. \A k \in Location \ {head} : view'[t][k] = view[t][k]
    BY <1>0, <1>1 DEF TypeOK, RmwRelease, Rmw, After
  <2>2. \A x \in 1..Len(list) : next(list[x]) \in Location \ {head}
    BY Locations, ListFacts
  <2> QED BY <1>1, <2>1, <2>2, Locations, KnownSame
<1>6. Len(seenBar) = h - 1 /\ seenBar \in Seq(Nat \cup Int)
  <2>1. \A i \in 1..(h - 1) : KnownIn(memory[head][i + 1].view) \in Nat \cup Int
    <3> TAKE i \in 1..(h - 1)
    <3>1. i + 1 \in 1..Newest(head)
      BY <1>2
    <3>2. memory[head][i + 1].view \in [Location -> Nat]
      BY <1>0, <3>1, LoadedPointer, Locations
    <3> QED BY <3>2, Locations DEF KnownIn
  <2> QED BY <1>2, <2>1 DEF seenBar
<1>7. seenBar' = Append(seenBar, knownBar[t])
  <2>1. PICK w : w = Join(After(t, head), Passed(head))
    OBVIOUS
  <2>2. \A k \in Location \ {head} : w[k] = view[t][k]
    <3> TAKE k \in Location \ {head}
    <3>1. view[t] \in [Location -> Nat] /\ memory[head][h].view \in [Location -> Nat]
      <4>1. h \in 1..Newest(head) /\ head \in Location
        BY <1>2, Locations
      <4> QED BY <1>0, <4>1, LoadedPointer DEF TypeOK
    <3>2. After(t, head)[k] = view[t][k] /\ Passed(head)[k] = memory[head][h].view[k]
      BY <1>2, <3>1 DEF After, Passed
    <3>3. w[k] = IF view[t][k] < memory[head][h].view[k]
                 THEN memory[head][h].view[k] ELSE view[t][k]
      BY <2>1, <3>2 DEF Join
    <3>4. ~(view[t][k] < memory[head][h].view[k])
      <4>1. view[t][k] \in Nat /\ memory[head][h].view[k] \in Nat
        BY <3>1
      <4> QED BY <1>3, <4>1
    <3> QED BY <3>3, <3>4
  <2>3. memory'[head][h + 1].view = w
    <3>1. memory'[head] = Append(memory[head], [val |-> lnext[t], view |-> w])
      BY <1>0, <1>1, <2>1, Locations DEF RmwRelease, Rmw, TypeOK
    <3>2. memory[head] \in Seq(Message) /\ Len(memory[head]) = h
      BY <1>0, <1>2, Locations DEF TypeOK
    <3> QED BY <3>1, <3>2
  <2>4. Known(w, list) = knownBar[t]
    <3>1. w[tail] = view[t][tail]
      BY <2>2, Locations
    <3>2. view[t][tail] \in 1..Len(list)
      BY TailSeen
    <3>3. next(list[view[t][tail]]) \in Location \ {head}
      BY <3>2, Locations, ListFacts
    <3> QED BY <2>2, <3>1, <3>3 DEF Known, knownBar, KnownIn
  <2>5. seenBar' = [i \in 1..h |-> Known(memory'[head][i + 1].view, list')]
    <3>1. (h + 1) - 1 = h
      OBVIOUS
    <3> QED BY <1>0, <1>2, <3>1 DEF seenBar, KnownIn, Known
  <2>6. \A i \in 1..(h - 1) : Known(memory'[head][i + 1].view, list') = seenBar[i]
    BY <1>2, SeenKept DEF seenBar, KnownIn, Known
  <2>7. \A i \in 1..h : Known(memory'[head][i + 1].view, list')
                        = IF i = h THEN knownBar[t] ELSE seenBar[i]
    BY <1>1, <2>3, <2>4, <2>6
  <2>8. seenBar' = [i \in 1..h |-> IF i = h THEN knownBar[t] ELSE seenBar[i]]
    BY <2>5, <2>7
  <2>9. PICK q \in Seq(Nat \cup Int), d \in Nat \cup Int, m \in Nat :
          q = seenBar /\ d = knownBar[t] /\ m = Len(q) /\ h = m + 1
    BY <1>2, <1>4, <1>6
  <2>10. Append(q, d) = [i \in 1..(m + 1) |-> IF i = m + 1 THEN d ELSE q[i]]
    BY <2>9
  <2> QED BY <2>8, <2>9, <2>10
<1>8. itemsBar[h] = out[t]
  <2>1. PICK i \in 1..(Len(list) - 1) : list[i] = cur_head[t] /\ list[i + 1] = lnext[t]
    BY <1>0, <1>1 DEF DequeueInv, Follows
  <2>2. i = h
    <3>1. i \in 1..Len(list) /\ h \in 1..Len(list) /\ list[i] = list[h]
      BY <1>2, <2>1
    <3> QED BY <3>1, ListFacts
  <2>3. out[t] = value[lnext[t]]
    BY <1>1 DEF KnowInv, DequeueKnows
  <2> QED BY <2>1, <2>2, <2>3 DEF itemsBar
<1>9. phaseBar[t] = "deq" /\ phaseBar' = [phaseBar EXCEPT ![t] = "dequeued"]
  <2>1. phaseBar[t] = "deq" /\ phaseBar'[t] = "dequeued"
    BY <1>1 DEF phaseBar
  <2> QED BY <2>1, PhaseFrame
<1>10. datumBar' = [datumBar EXCEPT ![t] = out[t]]
  <2>1. datumBar'[t] = out[t]
    BY <1>1 DEF datumBar
  <2> QED BY <2>1, DatumFrame
<1>11. itemsBar' = itemsBar
  BY <1>1, ItemsFrame
<1>12. (h - 1) + 1 = h /\ h - 1 < knownBar[t] /\ (h - 1 > 0 => seenBar[h - 1] <= knownBar[t])
  <2>1. h > 1 => seenBar[h - 1] <= knownBar[t]
    BY <1>2, <1>3, PassedOn
  <2> QED BY <1>4, <2>1
<1> QED BY <1>5, <1>6, <1>7, <1>8, <1>9, <1>10, <1>11, <1>12
        DEF Queue!Dequeue, Queue!Step, Queue!taken

LEMMA DequeueStepRefines ==
  ASSUME IInv, IInv', KnowInv, NEW t \in Thread, Remembers(t), DequeueStep(t)
  PROVE  Queue!Next
<1>0. TypeOK
  BY DEF IInv
<1>1. CASE DequeueSwingHead(t)
  BY <1>1, SwingsHead DEF Queue!Next
<1>2. CASE DequeueCheckHead(t) /\ pc'[t] = "d_empty"
  BY <1>2, FindsEmpty DEF Queue!Next
<1>3. CASE DequeueReturn(t)
  <2>1. /\ pc[t] \in {"d_return", "d_empty"} /\ pc'[t] = "idle"
        /\ ret'[t] = (IF pc[t] = "d_return" THEN "true" ELSE "false")
        /\ UNCHANGED <<memory, view, value, out, list>>
    BY <1>0, <1>3 DEF DequeueReturn, TypeOK
  <2>2. itemsBar' = itemsBar /\ seenBar' = seenBar /\ knownBar' = knownBar
    BY <2>1, ItemsFrame, SeenFrame, KnownSame
  <2>3. datumBar' = datumBar
    <3>1. datumBar'[t] = datumBar[t]
      BY <2>1 DEF datumBar
    <3>2. datumBar' = [datumBar EXCEPT ![t] = datumBar[t]]
      BY <3>1, DatumFrame
    <3> QED BY <3>2 DEF datumBar
  <2>4. /\ phaseBar[t] = (IF pc[t] = "d_return" THEN "dequeued" ELSE "foundEmpty")
        /\ phaseBar' = [phaseBar EXCEPT ![t] = "idle"]
    <3>1. /\ phaseBar[t] = (IF pc[t] = "d_return" THEN "dequeued" ELSE "foundEmpty")
          /\ phaseBar'[t] = "idle"
      BY <2>1 DEF phaseBar
    <3> QED BY <3>1, PhaseFrame
  <2>5. Queue!ReturnDequeue(t) \/ Queue!ReturnEmpty(t)
    BY <2>2, <2>3, <2>4 DEF Queue!ReturnDequeue, Queue!ReturnEmpty, Queue!Step
  <2> QED BY <2>5 DEF Queue!Next
<1>4. CASE /\ ~DequeueSwingHead(t) /\ ~DequeueReturn(t)
           /\ ~(DequeueCheckHead(t) /\ pc'[t] = "d_empty")
  <2>1. /\ pc[t] \in DequeuePC \ {"d_return", "d_empty"}
        /\ pc'[t] \in DequeuePC \ {"d_return", "d_empty"} /\ UNCHANGED list
    <3>1. CASE DequeueCheckHead(t)
      BY <1>0, <1>4, <3>1 DEF TypeOK, DequeueCheckHead
    <3>2. CASE DequeueLoadHead(t) \/ DequeueLoadTail(t) \/ DequeueLoadNext(t)
      BY <1>0, <3>2 DEF TypeOK, DequeueLoadHead, DequeueLoadTail, DequeueLoadNext
    <3>3. CASE DequeueHelpTail(t) \/ DequeueReadValue(t) \/ DequeueSwingFails(t)
      BY <1>0, <3>3 DEF TypeOK, DequeueHelpTail, HelpTail, DequeueReadValue,
                        DequeueSwingFails
    <3> QED BY <1>4, <3>1, <3>2, <3>3 DEF DequeueStep
  <2>2. phaseBar'[t] = phaseBar[t]
    BY <2>1 DEF phaseBar
  <2>3. datumBar'[t] = datumBar[t]
    BY <2>1 DEF datumBar
  <2>4. Newest(head)' = Newest(head)
    BY <1>4, HeadStays
  <2> QED BY <2>1, <2>2, <2>3, <2>4, Learning
<1> QED BY <1>1, <1>2, <1>3, <1>4

-----------------------------------------------------------------------------
LEMMA InitKnows == Init => KnowInv
<1> SUFFICES ASSUME Init PROVE KnowInv
  OBVIOUS
<1>1. \A t \in Thread : view[t][tail] = 1 /\ pc[t] = "idle"
  BY Locations DEF Init
<1>2. memory[next(Fake)] = <<Initial(Garbage), Initial(Null)>>
      /\ \A n \in Node \ {Fake} : memory[next(n)] = <<Initial(Garbage)>>
  BY Locations DEF Init
<1>3. \A n \in Node : Newest(next(n)) >= 2 => memory[next(n)][2].view = Nowhere
  <2> TAKE n \in Node
  <2>1. CASE n = Fake
    BY <1>2, <2>1 DEF Initial
  <2>2. CASE n # Fake
    <3>1. Len(memory[next(n)]) = 1
      BY <1>2, <2>2
    <3> QED BY <3>1
  <2> QED BY <2>1, <2>2
<1> QED BY <1>1, <1>3 DEF KnowInv, EnqueueKnows, DequeueKnows

LEMMA NextKeepsKnowInv ==
  ASSUME IInv, KnowInv, [Next]_vars
  PROVE  KnowInv'
<1>1. CASE Next
  BY <1>1, StepKeepsKnowInv DEF Next
<1>2. CASE UNCHANGED vars
  BY <1>2 DEF vars, KnowInv, EnqueueKnows, DequeueKnows
<1> QED BY <1>1, <1>2

\* What the threads of the queue on weak memory know: an enqueue has seen
\* tail reach the node it links behind, and a dequeue all that was known to
\* the thread that moved head where it found it.
THEOREM KnowInvariance == Spec => [](IInv /\ KnowInv)
<1>1. Init => IInv /\ KnowInv
  BY InitIInv, InitKnows
<1>2. IInv /\ KnowInv /\ [Next]_vars => IInv' /\ KnowInv'
  BY NextKeepsIInv, NextKeepsKnowInv
<1> QED BY <1>1, <1>2, PTL DEF Spec

LEMMA InitRefines == Init => Queue!Init
<1> SUFFICES ASSUME Init PROVE Queue!Init
  OBVIOUS
<1>1. /\ Len(list) = 1 /\ Newest(head) = 1 /\ Fake \in Node /\ list[1] = Fake
      /\ \A t \in Thread : pc[t] = "idle" /\ ret[t] = "void" /\ view[t][tail] = 1
      /\ \A t \in Thread : view[t][next(Fake)] = 2
  BY Locations DEF Init
<1>2. itemsBar = <<>> /\ seenBar = <<>>
  BY <1>1 DEF itemsBar, seenBar
<1>3. knownBar = [t \in Thread |-> 0]
  BY <1>1 DEF knownBar, KnownIn
<1>4. phaseBar = [t \in Thread |-> "idle"] /\ datumBar = [t \in Thread |-> NoValue]
  BY <1>1 DEF phaseBar, datumBar
<1> QED BY <1>2, <1>3, <1>4 DEF Queue!Init

LEMMA StutterRefines ==
  ASSUME UNCHANGED vars
  PROVE  UNCHANGED Queue!vars
BY DEF vars, itemsBar, seenBar, knownBar, KnownIn, phaseBar, datumBar, Queue!vars

\* With relaxed, acquire and release atomics, whatever stale values the
\* threads read: enqueues and successful dequeues take effect in one order
\* at their compare-and-swaps of next and head, first in first out, and a
\* dequeue returns false only if everything its thread knows of is gone.
THEOREM LooseLinearizability == Spec => LooselyLinearizable
<1>1. Init => Queue!Init
  BY InitRefines
<1>2. IInv /\ KnowInv /\ IInv' /\ [Next]_vars => [Queue!Next]_(Queue!vars)
  <2> SUFFICES ASSUME IInv, KnowInv, IInv', [Next]_vars
               PROVE  Queue!Next \/ UNCHANGED Queue!vars
    OBVIOUS
  <2>1. CASE UNCHANGED vars
    BY <2>1, StutterRefines
  <2>2. CASE Next
    <3>1. PICK t \in Thread : Call(t) \/ EnqueueStep(t) \/ DequeueStep(t)
      BY <2>2 DEF Next
    <3>2. Remembers(t)
      BY <3>1, StepRemembers
    <3> QED BY <3>1, <3>2, CallRefines, EnqueueStepRefines, DequeueStepRefines
  <2> QED BY <2>1, <2>2
<1> QED BY <1>1, <1>2, KnowInvariance, PTL DEF Spec, LooselyLinearizable, Queue!Spec

\* So does the queue that deletes its nodes.
THEOREM CountedLooseLinearizability == CountedSpec => LooselyLinearizable
BY CountedImplements, LooseLinearizability

-----------------------------------------------------------------------------
(* Two threads and no spurious failures: nobody finds a node that he does  *)
(* not see constructed.  (With three, or with spurious failures, a thread  *)
(* that helps tail on may hide from another what it has not seen itself.)  *)

TwoThreads ==
  Spurious = FALSE /\ \A a, b, c \in Thread : a = b \/ a = c \/ b = c

\* Who joins the views v and w sees the first m nodes constructed, and each
\* linked to the next.
Sees(v, w, nodes, m) ==
  \A j \in 1..m :
    /\ v[next(nodes[j])] >= 2 \/ w[next(nodes[j])] >= 2
    /\ j < m => v[next(nodes[j])] >= 3 \/ w[next(nodes[j])] >= 3

Has(t, m) == Sees(view[t], view[t], list, m)

\* Who acquires a link sees what it leads to.
LinkSight ==
  \A j \in 1..(Len(list) - 1) :
    Sees(memory[next(list[j])][3].view, memory[next(list[j])][3].view, list, j + 1)

\* So does who acquires head or tail, given what he knows already.
EndsSight ==
  \A l \in {head, tail} : \A i \in 1..Newest(l) : \A t \in Thread :
    Sees(view[t], memory[l][i].view, list, i)

\* Each message of head carries what the one before it carries.
HeadSight ==
  \A i, j \in 1..Newest(head) : i <= j =>
    \A n \in Node : memory[head][i].view[next(n)] <= memory[head][j].view[next(n)]

\* As long as tail lags, the enqueue that linked the last node has not tried
\* to swing it.
LagSight ==
  Newest(tail) < Len(list) =>
    \E u \in Thread : pc[u] = "e_swing" /\ node[u] = list[Len(list)]

\* What a thread has found, it sees.
LocalSight(t) ==
  /\ lnext[t] # Garbage
  /\ pc[t] \in Inserting => view[t][next(node[t])] >= 2
  /\ pc[t] \in {"e_next", "e_check", "e_link"} =>
       \E i \in 1..Newest(tail) : cur_tail[t] = list[i] /\ Has(t, i)
  /\ pc[t] \in {"e_check", "e_help", "d_check", "d_help", "d_value", "d_swing"}
       /\ lnext[t] \in Node =>
       \E i \in 1..Len(list) : lnext[t] = list[i] /\ Has(t, i)
  /\ pc[t] = "e_swing" =>
       \E i \in 1..(Len(list) - 1) :
         /\ cur_tail[t] = list[i] /\ node[t] = list[i + 1]
         /\ i <= view[t][tail] /\ Has(t, i + 1)
  /\ pc[t] \in DequeuePC \ {"d_head", "d_return", "d_empty"} =>
       \E i \in 1..Newest(head) : cur_head[t] = list[i] /\ Has(t, i)

SightInv == /\ LinkSight /\ EndsSight /\ HeadSight /\ LagSight
            /\ \A t \in Thread : LocalSight(t)

LEMMA SeesMore ==
  ASSUME NEW v \in [Location -> Nat], NEW w \in [Location -> Nat],
         NEW x \in [Location -> Nat], NEW y \in [Location -> Nat],
         NEW m \in Nat, NEW old, NEW new, Sees(v, w, old, m),
         \A j \in 1..m : old[j] \in Node /\ new[j] = old[j],
         \A n \in Node :
           /\ v[next(n)] <= x[next(n)] \/ v[next(n)] <= y[next(n)]
           /\ w[next(n)] <= x[next(n)] \/ w[next(n)] <= y[next(n)]
  PROVE  Sees(x, y, new, m)
<1> SUFFICES ASSUME NEW j \in 1..m
             PROVE  /\ x[next(new[j])] >= 2 \/ y[next(new[j])] >= 2
                    /\ j < m => x[next(new[j])] >= 3 \/ y[next(new[j])] >= 3
  BY DEF Sees
<1>1. PICK n \in Node : n = old[j] /\ n = new[j]
  OBVIOUS
<1>2. PICK a, b, c, d \in Nat : /\ a = v[next(n)] /\ b = w[next(n)]
                                /\ c = x[next(n)] /\ d = y[next(n)]
  BY Locations
<1>3. (a >= 2 \/ b >= 2) /\ (j < m => a >= 3 \/ b >= 3)
  BY <1>1, <1>2 DEF Sees
<1>4. (a <= c \/ a <= d) /\ (b <= c \/ b <= d)
  BY <1>2
<1>5. (c >= 2 \/ d >= 2) /\ (j < m => c >= 3 \/ d >= 3)
  BY <1>3, <1>4
<1> QED BY <1>1, <1>2, <1>5

\* What a step of t does to what is seen.
SightFrame(t) ==
  /\ TypeOK /\ memory' \in [Location -> Seq(Message)]
  /\ view' \in [Thread -> [Location -> Nat]]
  /\ \A u \in Thread : \A k \in Location : view[u][k] <= view'[u][k]
  /\ Len(list) \in Nat /\ \A i \in 1..Len(list) : list[i] \in Node /\ list'[i] = list[i]
  /\ Len(list') \in Nat /\ Len(list) <= Len(list')
  /\ Newest(head) \in 1..Len(list) /\ Newest(tail) \in 1..Len(list)
  /\ Newest(head)' \in Nat /\ Newest(tail)' \in Nat
  /\ Newest(head) <= Newest(head)' /\ Newest(tail) <= Newest(tail)'

LEMMA SightFrames ==
  ASSUME IInv, NEW t \in Thread, MemoryOK(t)
  PROVE  SightFrame(t)
<1>0. TypeOK /\ Evolves
  BY DEF IInv, MemoryOK
<1>1. \A u \in Thread : \A k \in Location : view[u][k] <= view'[u][k]
  <2> SUFFICES ASSUME NEW u \in Thread, NEW k \in Location
               PROVE  view[u][k] <= view'[u][k]
    OBVIOUS
  <2>1. CASE u = t
    BY <2>1 DEF MemoryOK
  <2>2. CASE u # t
    <3>1. view'[u][k] = view[u][k] /\ view[u][k] \in Nat
      BY <1>0, <2>2 DEF MemoryOK, TypeOK
    <3> QED BY <3>1
  <2> QED BY <2>1, <2>2
<1>2. Len(list') \in Nat
  BY <1>0 DEF Evolves
<1> QED BY <1>0, <1>1, <1>2, ListFacts DEF SightFrame, Evolves, MemoryOK

\* Once seen, always seen.
LEMMA KeepsHas ==
  ASSUME NEW t \in Thread, SightFrame(t)
  PROVE  \A u \in Thread : \A m \in 0..Len(list) : Has(u, m) => Has(u, m)'
<1> SUFFICES ASSUME NEW u \in Thread, NEW m \in 0..Len(list), Has(u, m)
             PROVE  Sees(view'[u], view'[u], list', m)
  BY DEF Has
<1>1. PICK v, x \in [Location -> Nat] : v = view[u] /\ x = view'[u]
  BY DEF SightFrame, TypeOK
<1>2. \A n \in Node : v[next(n)] <= x[next(n)]
  BY <1>1, Locations DEF SightFrame
<1>3. m \in Nat /\ \A j \in 1..m : list[j] \in Node /\ list'[j] = list[j]
  BY DEF SightFrame
<1>4. Sees(v, v, list, m)
  BY <1>1 DEF Has
<1>5. Sees(x, x, list', m)
  BY <1>2, <1>3, <1>4, SeesMore
<1> QED BY <1>1, <1>5

\* What a thread has found stays found.
LEMMA SightStays ==
  ASSUME IInv, SightInv, NEW t \in Thread, MemoryOK(t), NEW u \in Thread
  PROVE  /\ pc[u] \in Inserting => view'[u][next(node[u])] >= 2
         /\ pc[u] \in {"e_next", "e_check", "e_link"} =>
              \E i \in 1..Newest(tail)' : cur_tail[u] = list'[i] /\ Has(u, i)'
         /\ pc[u] \in {"e_check", "e_help", "d_check", "d_help", "d_value", "d_swing"}
              /\ lnext[u] \in Node =>
              \E i \in 1..Len(list') : lnext[u] = list'[i] /\ Has(u, i)'
         /\ pc[u] = "e_swing" =>
              \E i \in 1..(Len(list') - 1) :
                /\ cur_tail[u] = list'[i] /\ node[u] = list'[i + 1]
                /\ i <= view'[u][tail] /\ Has(u, i + 1)'
         /\ pc[u] \in DequeuePC \ {"d_head", "d_return", "d_empty"} =>
              \E i \in 1..Newest(head)' : cur_head[u] = list'[i] /\ Has(u, i)'
<1>1. SightFrame(t) /\ LocalSight(u) /\ EnqueueInv(u)
  BY SightFrames DEF SightInv, IInv
<1>2. \A k \in Location : /\ view[u][k] \in Nat /\ view'[u][k] \in Nat
                          /\ view[u][k] <= view'[u][k]
  BY <1>1 DEF SightFrame, TypeOK
<1>3. \A i \in 1..Len(list) : /\ i \in 1..Len(list') /\ list'[i] = list[i]
                              /\ Has(u, i) => Has(u, i)'
  <2> SUFFICES ASSUME NEW i \in 1..Len(list)
               PROVE  /\ i \in 1..Len(list') /\ list'[i] = list[i]
                      /\ Has(u, i) => Has(u, i)'
    OBVIOUS
  <2>1. i \in 0..Len(list) /\ i \in 1..Len(list') /\ list'[i] = list[i]
    BY <1>1 DEF SightFrame
  <2>2. \A m \in 0..Len(list) : Has(u, m) => Has(u, m)'
    BY <1>1, KeepsHas
  <2> QED BY <2>1, <2>2
<1>4. /\ \A i \in 1..Newest(head) : i \in 1..Newest(head)' /\ i \in 1..Len(list)
      /\ \A i \in 1..Newest(tail) : i \in 1..Newest(tail)' /\ i \in 1..Len(list)
  BY <1>1 DEF SightFrame
<1>5. \A i \in 1..(Len(list) - 1) :
        /\ i \in 1..(Len(list') - 1) /\ i \in 1..Len(list) /\ i + 1 \in 1..Len(list)
  BY <1>1 DEF SightFrame
<1>6. pc[u] \in Inserting => view'[u][next(node[u])] >= 2
  <2> SUFFICES ASSUME pc[u] \in Inserting PROVE view'[u][next(node[u])] >= 2
    OBVIOUS
  <2>1. PICK k \in Location : k = next(node[u])
    BY <1>1, Locations DEF EnqueueInv
  <2>2. view[u][k] >= 2
    BY <1>1, <2>1 DEF LocalSight
  <2>3. view'[u][k] >= 2
    BY <1>2, <2>2
  <2> QED BY <2>1, <2>3
<1>7. pc[u] \in {"e_next", "e_check", "e_link"} =>
        \E i \in 1..Newest(tail)' : cur_tail[u] = list'[i] /\ Has(u, i)'
  BY <1>1, <1>3, <1>4 DEF LocalSight
<1>8. pc[u] \in {"e_check", "e_help", "d_check", "d_help", "d_value", "d_swing"}
        /\ lnext[u] \in Node =>
        \E i \in 1..Len(list') : lnext[u] = list'[i] /\ Has(u, i)'
  BY <1>1, <1>3 DEF LocalSight
<1>9. pc[u] = "e_swing" =>
        \E i \in 1..(Len(list') - 1) :
          /\ cur_tail[u] = list'[i] /\ node[u] = list'[i + 1]
          /\ i <= view'[u][tail] /\ Has(u, i + 1)'
  <2> SUFFICES ASSUME pc[u] = "e_swing"
               PROVE  \E i \in 1..(Len(list') - 1) :
                        /\ cur_tail[u] = list'[i] /\ node[u] = list'[i + 1]
                        /\ i <= view'[u][tail] /\ Has(u, i + 1)'
    OBVIOUS
  <2>1. PICK i \in 1..(Len(list) - 1) :
          /\ cur_tail[u] = list[i] /\ node[u] = list[i + 1]
          /\ i <= view[u][tail] /\ Has(u, i + 1)
    BY <1>1 DEF LocalSight
  <2>2. i \in Nat /\ i <= view'[u][tail]
    <3>1. view[u][tail] \in Nat /\ view'[u][tail] \in Nat /\ view[u][tail] <= view'[u][tail]
      BY <1>2, Locations
    <3> QED BY <2>1, <3>1
  <2> QED BY <1>3, <1>5, <2>1, <2>2
<1>10. pc[u] \in DequeuePC \ {"d_head", "d_return", "d_empty"} =>
         \E i \in 1..Newest(head)' : cur_head[u] = list'[i] /\ Has(u, i)'
  BY <1>1, <1>3, <1>4 DEF LocalSight
<1> QED BY <1>6, <1>7, <1>8, <1>9, <1>10

LEMMA KeepsSight ==
  ASSUME IInv, SightInv, NEW t \in Thread, MemoryOK(t), LocalsOK(t)
  PROVE  \A u \in Thread \ {t} : LocalSight(u)'
<1> SUFFICES ASSUME NEW u \in Thread \ {t} PROVE LocalSight(u)'
  OBVIOUS
<1>1. /\ pc'[u] = pc[u] /\ node'[u] = node[u] /\ lnext'[u] = lnext[u]
      /\ cur_head'[u] = cur_head[u] /\ cur_tail'[u] = cur_tail[u] /\ lnext[u] # Garbage
  BY DEF LocalsOK, SightInv, LocalSight
<1> QED BY <1>1, SightStays DEF LocalSight

\* Messages, once written, keep what they show.
LEMMA KeepsMessages ==
  ASSUME IInv, SightInv, NEW t \in Thread, MemoryOK(t)
  PROVE  /\ \A l \in {head, tail} : \A i \in 1..Newest(l) : \A u \in Thread :
              memory'[l][i] = memory[l][i] => Sees(view'[u], memory'[l][i].view, list', i)
         /\ \A j \in 1..(Len(list) - 1) :
              memory'[next(list[j])][3] = memory[next(list[j])][3] =>
                Sees(memory'[next(list'[j])][3].view, memory'[next(list'[j])][3].view,
                     list', j + 1)
<1>1. SightFrame(t) /\ TypeOK
  BY SightFrames DEF IInv
<1>2. ASSUME NEW l \in {head, tail}, NEW i \in 1..Newest(l), NEW u \in Thread,
             memory'[l][i] = memory[l][i]
      PROVE  Sees(view'[u], memory'[l][i].view, list', i)
  <2>1. PICK v, x, w \in [Location -> Nat] :
          v = view[u] /\ x = view'[u] /\ w = memory[l][i].view
    <3>1. memory[l][i].view \in [Location -> Nat]
      BY <1>1, LoadedPointer, Locations
    <3>2. view[u] \in [Location -> Nat] /\ view'[u] \in [Location -> Nat]
      BY <1>1 DEF SightFrame, TypeOK
    <3> QED BY <3>1, <3>2
  <2>2. \A n \in Node : v[next(n)] <= x[next(n)] /\ w[next(n)] <= w[next(n)]
    <3> SUFFICES ASSUME NEW n \in Node
                 PROVE  v[next(n)] <= x[next(n)] /\ w[next(n)] <= w[next(n)]
      OBVIOUS
    <3>1. next(n) \in Location
      BY Locations
    <3>2. w[next(n)] \in Nat /\ v[next(n)] <= x[next(n)]
      BY <1>1, <2>1, <3>1 DEF SightFrame
    <3> QED BY <3>2
  <2>3. i \in Nat /\ \A j \in 1..i : list[j] \in Node /\ list'[j] = list[j]
    <3>1. Newest(l) <= Len(list) /\ Newest(l) \in Nat /\ Len(list) \in Nat
      <4>1. CASE l = head
        BY <1>1, <4>1 DEF SightFrame
      <4>2. CASE l = tail
        BY <1>1, <4>2 DEF SightFrame
      <4> QED BY <4>1, <4>2
    <3>2. \A j \in 1..i : j \in 1..Len(list)
      BY <3>1
    <3> QED BY <1>1, <3>2 DEF SightFrame
  <2>4. Sees(v, w, list, i)
    BY <2>1 DEF SightInv, EndsSight
  <2>5. Sees(x, w, list', i)
    BY <2>2, <2>3, <2>4, SeesMore
  <2> QED BY <1>2, <2>1, <2>5
<1>3. ASSUME NEW j \in 1..(Len(list) - 1),
             memory'[next(list[j])][3] = memory[next(list[j])][3]
      PROVE  Sees(memory'[next(list'[j])][3].view, memory'[next(list'[j])][3].view,
                  list', j + 1)
  <2>1. /\ j \in 1..Len(list) /\ j + 1 \in Nat /\ list'[j] = list[j] /\ list[j] \in Node
        /\ \A i \in 1..(j + 1) : list[i] \in Node /\ list'[i] = list[i]
    BY <1>1 DEF SightFrame
  <2>2. PICK n \in Node : n = list[j]
    BY <2>1
  <2>3. 3 \in 1..Newest(next(n)) /\ next(n) \in Location
    BY <1>3, <2>2, NodeFacts, Locations
  <2>4. PICK w \in [Location -> Nat] : w = memory[next(n)][3].view
    BY <1>1, <2>3, LoadedPointer
  <2>5. \A m \in Node : w[next(m)] <= w[next(m)]
    BY Locations
  <2>6. Sees(w, w, list, j + 1)
    BY <2>2, <2>4 DEF SightInv, LinkSight
  <2>7. Sees(w, w, list', j + 1)
    BY <2>1, <2>5, <2>6, SeesMore
  <2> QED BY <1>3, <2>1, <2>2, <2>4, <2>7
<1> QED BY <1>2, <1>3

\* A step that writes neither to head nor to tail nor to a node of the list.
LEMMA QuietSight ==
  ASSUME IInv, SightInv, NEW t \in Thread, MemoryOK(t), LocalsOK(t), list' = list,
         memory'[head] = memory[head], memory'[tail] = memory[tail],
         \A j \in 1..(Len(list) - 1) : memory'[next(list[j])] = memory[next(list[j])],
         pc[t] = "e_swing" /\ Newest(tail) < Len(list) => node[t] # list[Len(list)],
         LocalSight(t)'
  PROVE  SightInv'
<1>1. LinkSight' /\ EndsSight'
  <2>1. EndsSight'
    <3> SUFFICES ASSUME NEW l \in {head, tail}, NEW i \in 1..Newest(l)', NEW u \in Thread
                 PROVE  Sees(view'[u], memory'[l][i].view, list', i)
      BY DEF EndsSight
    <3>1. i \in 1..Newest(l) /\ memory'[l][i] = memory[l][i]
      OBVIOUS
    <3> QED BY <3>1, KeepsMessages
  <2>2. LinkSight'
    <3> SUFFICES ASSUME NEW j \in 1..(Len(list') - 1)
                 PROVE  Sees(memory'[next(list'[j])][3].view,
                             memory'[next(list'[j])][3].view, list', j + 1)
      BY DEF LinkSight
    <3> QED BY KeepsMessages
  <2> QED BY <2>1, <2>2
<1>2. HeadSight'
  BY DEF SightInv, HeadSight
<1>3. LagSight'
  <2> SUFFICES ASSUME Newest(tail) < Len(list)
               PROVE  \E u \in Thread : pc'[u] = "e_swing" /\ node'[u] = list[Len(list)]
    BY DEF LagSight
  <2>1. PICK u \in Thread : pc[u] = "e_swing" /\ node[u] = list[Len(list)]
    BY DEF SightInv, LagSight
  <2> QED BY <2>1 DEF LocalsOK
<1> QED BY <1>1, <1>2, <1>3, KeepsSight DEF SightInv

\* Who sees a node constructed and loads its next gets null or the node
\* behind it, and sees that one, too.
LEMMA NextSight ==
  ASSUME IInv, SightInv, NEW t \in Thread, NEW i \in 1..Len(list), Has(t, i),
         NEW x \in 1..Newest(next(list[i])), LoadAcquire(t, next(list[i]), x), list' = list
  PROVE  LET v == memory[next(list[i])][x].val
         IN /\ v \in Node \cup {Null}
            /\ view[t][next(list[i])] >= 3 => v \in Node
            /\ v \in Node => \E j \in 1..Len(list) : v = list[j] /\ Has(t, j)'
<1>0. PICK n \in Node : n = list[i]
  BY ListFacts
<1>1. /\ MemoryOK(t) /\ view[t][next(n)] <= x /\ view'[t][next(n)] = x
      /\ \A k \in Location : k # next(n) => memory[next(n)][x].view[k] <= view'[t][k]
  BY <1>0, AcquireKeeps, Locations
<1>2. /\ SightFrame(t) /\ TypeOK /\ x \in Nat /\ view[t][next(n)] \in Nat
      /\ Newest(next(n)) \in 1..3
  <2>1. SightFrame(t) /\ TypeOK
    BY <1>1, SightFrames DEF IInv
  <2>2. view[t][next(n)] \in Nat
    BY <2>1, Locations DEF TypeOK
  <2> QED BY <2>1, <2>2, NodeFacts
<1>3. view[t][next(n)] >= 2
  <2>1. i \in 1..i
    OBVIOUS
  <2> QED BY <1>0, <2>1 DEF Has, Sees
<1>4. x \in {2, 3} /\ (x = 3 => Newest(next(n)) = 3) /\ (view[t][next(n)] >= 3 => x = 3)
  <2>1. PICK m \in 1..3 : m = Newest(next(n))
    BY <1>2
  <2>2. PICK a \in Nat : a = view[t][next(n)]
    BY <1>2
  <2>3. a <= x /\ 2 <= a /\ x \in Nat
    BY <1>1, <1>2, <1>3, <2>2
  <2>4. x \in 1..m
    BY <1>0, <2>1
  <2>5. x \in {2, 3} /\ (x = 3 => m = 3) /\ (a >= 3 => x = 3)
    BY <2>3, <2>4
  <2> QED BY <2>1, <2>2, <2>5
<1>5. CASE x = 2
  <2>1. memory[next(n)][2].val = Null
    <3>1. Newest(next(n)) >= 2
      BY <1>0, <1>2, <1>5
    <3> QED BY <3>1, NodeFacts
  <2>2. ~(view[t][next(n)] >= 3)
    BY <1>4, <1>5
  <2> QED BY <1>0, <1>5, <2>1, <2>2
<1>6. CASE x = 3
  <2>1. memory[next(n)][3].val \in Node /\ Follows(n, memory[next(n)][3].val)
    BY <1>4, <1>6, NodeFacts
  <2>2. PICK j \in 1..(Len(list) - 1) : list[j] = n /\ list[j + 1] = memory[next(n)][3].val
    BY <2>1 DEF Follows
  <2>3. /\ Len(list) \in Nat /\ j \in 1..Len(list) /\ j + 1 \in 1..Len(list) /\ j + 1 \in Nat
        /\ \A k \in 1..(j + 1) : list[k] \in Node
    BY <2>2, ListFacts
  <2>4. j = i
    BY <1>0, <2>2, <2>3, ListFacts
  <2>5. PICK w, y \in [Location -> Nat] : w = memory[next(n)][3].view /\ y = view'[t]
    BY <1>0, <1>2, <1>6, LoadedPointer, Locations DEF SightFrame
  <2>6. Sees(w, w, list, j + 1)
    BY <2>2, <2>5 DEF SightInv, LinkSight
  <2>7. \A m \in Node : m # n => w[next(m)] <= y[next(m)]
    BY <1>1, <1>6, <2>5, Locations
  <2>8. y[next(n)] = 3
    BY <1>1, <1>6, <2>5
  <2>9. Sees(y, y, list, j + 1)
    <3> SUFFICES ASSUME NEW k \in 1..(j + 1)
                 PROVE  y[next(list[k])] >= 2 /\ (k < j + 1 => y[next(list[k])] >= 3)
      BY DEF Sees
    <3>1. CASE list[k] = n
      BY <2>8, <3>1
    <3>2. CASE list[k] # n
      <4>1. PICK m \in Node : m = list[k] /\ m # n
        BY <2>3, <3>2
      <4>2. PICK c, d \in Nat : c = w[next(m)] /\ d = y[next(m)]
        BY Locations
      <4>3. c <= d /\ c >= 2 /\ (k < j + 1 => c >= 3)
        BY <2>6, <2>7, <4>1, <4>2 DEF Sees
      <4>4. d >= 2 /\ (k < j + 1 => d >= 3)
        BY <4>2, <4>3
      <4> QED BY <4>1, <4>2, <4>4
    <3> QED BY <3>1, <3>2
  <2>10. Has(t, j + 1)'
    BY <2>5, <2>9 DEF Has
  <2> QED BY <1>0, <1>6, <2>1, <2>2, <2>3, <2>10
<1> QED BY <1>4, <1>5, <1>6

\* A successful compare-and-swap adds a message, and with release one that
\* carries what its thread sees.
LEMMA Sent ==
  ASSUME IInv, NEW t \in Thread, NEW l \in Location, Newest(l) >= 1,
         NEW v \in Pointer, RmwRelease(t, l, v) \/ RmwRelaxed(t, l, v)
  PROVE  \E w \in [Location -> Nat] :
           /\ Newest(l)' = Newest(l) + 1 /\ memory'[l][Newest(l) + 1].view = w
           /\ \A i \in 1..Newest(l) : memory'[l][i] = memory[l][i]
           /\ \A k \in Location \ {l} : memory'[k] = memory[k]
           /\ view'[t][l] = Newest(l) + 1
           /\ \A k \in Location \ {l} : view'[t][k] = view[t][k]
           /\ \A k \in Location : memory[l][Newest(l)].view[k] <= w[k]
           /\ RmwRelease(t, l, v) => \A k \in Location : view'[t][k] <= w[k]
<1>1. /\ TypeOK /\ view[t] \in [Location -> Nat] /\ memory[l] \in Seq(Message)
      /\ Newest(l) \in Nat /\ Newest(l) \in 1..Newest(l)
  <2>1. TypeOK
    BY DEF IInv
  <2>2. view[t] \in [Location -> Nat] /\ memory[l] \in Seq(Message) /\ Newest(l) \in Nat
    BY <2>1 DEF TypeOK
  <2> QED BY <2>1, <2>2
<1>2. PICK a, p \in [Location -> Nat] : a = After(t, l) /\ p = Passed(l)
  <2>1. After(t, l) \in [Location -> Nat]
    BY <1>1 DEF After
  <2>2. Passed(l) \in [Location -> Nat]
    BY <1>1, LoadedPointer DEF Passed
  <2> QED BY <2>1, <2>2
<1>3. PICK w \in [Location -> Nat] :
        /\ Rmw(t, l, v, w)
        /\ \A k \in Location : p[k] <= w[k]
        /\ RmwRelease(t, l, v) => \A k \in Location : a[k] <= w[k]
  <2>1. CASE RmwRelease(t, l, v)
    <3>1. PICK w : w = Join(a, p)
      OBVIOUS
    <3>2. w = [k \in Location |-> IF a[k] < p[k] THEN p[k] ELSE a[k]]
      BY <3>1 DEF Join
    <3>3. \A k \in Location : w[k] \in Nat /\ a[k] <= w[k] /\ p[k] <= w[k]
      <4> TAKE k \in Location
      <4>1. a[k] \in Nat /\ p[k] \in Nat /\ w[k] = IF a[k] < p[k] THEN p[k] ELSE a[k]
        BY <3>2
      <4> QED BY <4>1
    <3>4. w \in [Location -> Nat]
      BY <3>2, <3>3
    <3> QED BY <1>2, <2>1, <3>1, <3>3, <3>4 DEF RmwRelease
  <2>2. CASE ~RmwRelease(t, l, v)
    <3>1. \A k \in Location : p[k] <= p[k]
      OBVIOUS
    <3> QED BY <1>2, <2>2, <3>1 DEF RmwRelaxed
  <2> QED BY <2>1, <2>2
<1>4. PICK m : m = [val |-> v, view |-> w]
  OBVIOUS
<1>5. m \in Message /\ m.view = w
  BY <1>3, <1>4 DEF Message
<1>6. memory' = [memory EXCEPT ![l] = Append(memory[l], m)] /\ view' = [view EXCEPT ![t] = a]
  BY <1>2, <1>3, <1>4 DEF Rmw
<1>7. /\ \A k \in Location \ {l} : memory'[k] = memory[k]
      /\ memory'[l] = Append(memory[l], m) /\ view'[t] = a
  BY <1>1, <1>6 DEF TypeOK
<1>8. /\ Newest(l)' = Newest(l) + 1 /\ memory'[l][Newest(l) + 1] = m
      /\ \A i \in 1..Newest(l) : memory'[l][i] = memory[l][i]
  BY <1>1, <1>5, <1>7
<1>9. a[l] = Newest(l) + 1 /\ \A k \in Location \ {l} : a[k] = view[t][k]
  BY <1>1, <1>2 DEF After
<1> QED BY <1>2, <1>3, <1>5, <1>7, <1>8, <1>9 DEF Passed

\* Somebody moves tail on to the last node, of which everybody knows anyway
\* or learns from the message.
LEMMA TailSight ==
  ASSUME IInv, SightInv, NEW t \in Thread, MemoryOK(t), LocalsOK(t), list' = list,
         NEW v \in Node, RmwRelease(t, tail, v) \/ RmwRelaxed(t, tail, v),
         NewestVal(tail) = cur_tail[t], Follows(cur_tail[t], v), LocalSight(t)',
         \A u \in Thread : \/ Has(u, Len(list))
                           \/ RmwRelease(t, tail, v) /\ Has(t, Len(list))
  PROVE  SightInv'
<1>1. SightFrame(t) /\ TypeOK
  BY SightFrames DEF IInv
<1>2. PICK i \in Nat \ {0} : /\ i = Newest(tail) /\ i + 1 = Len(list)
  <2>1. PICK i \in 1..(Len(list) - 1) : list[i] = cur_tail[t]
    BY DEF Follows
  <2>2. Newest(tail) = i
    BY <2>1, ListFacts
  <2> QED BY <2>1, <2>2, ListFacts
<1>3. PICK w \in [Location -> Nat] :
        /\ Newest(tail)' = i + 1 /\ memory'[tail][i + 1].view = w
        /\ \A j \in 1..i : memory'[tail][j] = memory[tail][j]
        /\ \A k \in Location \ {tail} : memory'[k] = memory[k]
        /\ RmwRelease(t, tail, v) => \A k \in Location : view'[t][k] <= w[k]
  BY <1>2, Sent, Locations
<1>4. memory'[head] = memory[head] /\ \A n \in Node : memory'[next(n)] = memory[next(n)]
  BY <1>3, Locations
<1>5. HeadSight'
  BY <1>4 DEF SightInv, HeadSight
<1>6. LagSight'
  BY <1>2, <1>3 DEF LagSight
<1>7. LinkSight'
  <2> SUFFICES ASSUME NEW j \in 1..(Len(list') - 1)
               PROVE  Sees(memory'[next(list'[j])][3].view,
                           memory'[next(list'[j])][3].view, list', j + 1)
    BY DEF LinkSight
  <2>1. j \in 1..(Len(list) - 1) /\ j \in 1..Len(list)
    BY <1>1 DEF SightFrame
  <2>2. memory'[next(list[j])] = memory[next(list[j])]
    BY <1>1, <1>4, <2>1 DEF SightFrame
  <2> QED BY <2>1, <2>2, KeepsMessages
<1>8. ASSUME NEW u \in Thread PROVE Sees(view'[u], w, list', i + 1)
  <2>0. /\ i + 1 \in 0..Len(list) /\ i + 1 \in Nat
        /\ \A j \in 1..(i + 1) : list'[j] \in Node /\ list'[j] = list'[j]
    BY <1>1, <1>2 DEF SightFrame
  <2>1. PICK x, y \in [Location -> Nat] : x = view'[u] /\ y = view'[t]
    BY <1>1 DEF SightFrame
  <2>2. CASE Has(u, Len(list))
    <3>1. Sees(x, x, list', i + 1)
      BY <1>1, <1>2, <2>0, <2>1, <2>2, KeepsHas DEF Has
    <3>2. \A n \in Node : x[next(n)] <= x[next(n)]
      BY Locations
    <3> QED BY <2>0, <2>1, <3>1, <3>2, SeesMore
  <2>3. CASE RmwRelease(t, tail, v) /\ Has(t, Len(list))
    <3>1. Sees(y, y, list', i + 1)
      BY <1>1, <1>2, <2>0, <2>1, <2>3, KeepsHas DEF Has
    <3>2. \A n \in Node : y[next(n)] <= w[next(n)]
      BY <1>3, <2>1, <2>3, Locations
    <3> QED BY <2>0, <2>1, <3>1, <3>2, SeesMore
  <2> QED BY <2>2, <2>3
<1>9. EndsSight'
  <2> SUFFICES ASSUME NEW l \in {head, tail}, NEW j \in 1..Newest(l)', NEW u \in Thread
               PROVE  Sees(view'[u], memory'[l][j].view, list', j)
    BY DEF EndsSight
  <2>1. CASE l = tail /\ j = i + 1
    BY <1>3, <1>8, <2>1
  <2>2. CASE ~(l = tail /\ j = i + 1)
    <3>1. j \in 1..Newest(l) /\ memory'[l][j] = memory[l][j]
      <4>1. CASE l = tail
        <5>1. j \in 1..(i + 1) /\ j # i + 1
          BY <1>3, <2>2, <4>1
        <5>2. j \in 1..i
          BY <5>1
        <5> QED BY <1>2, <1>3, <4>1, <5>2
      <4>2. CASE l = head
        BY <1>4, <4>2
      <4> QED BY <4>1, <4>2
    <3> QED BY <3>1, KeepsMessages
  <2> QED BY <2>1, <2>2
<1> QED BY <1>5, <1>6, <1>7, <1>9, KeepsSight DEF SightInv

\* Helping tail on.  The node is that of the other thread, who sees it.
LEMMA HelpSight ==
  ASSUME TwoThreads, IInv, SightInv, NEW t \in Thread, MemoryOK(t), LocalsOK(t),
         HelpTail(t), pc[t] \in {"e_help", "d_help"},
         lnext[t] \in Node, Follows(cur_tail[t], lnext[t]), LocalSight(t)'
  PROVE  SightInv'
<1>1. TypeOK /\ list' = list
  BY DEF IInv, HelpTail
<1>2. CASE NewestVal(tail) = cur_tail[t] /\ RmwRelaxed(t, tail, lnext[t])
  <2>1. PICK i \in 1..(Len(list) - 1) : list[i] = cur_tail[t] /\ list[i + 1] = lnext[t]
    BY DEF Follows
  <2>2. /\ Newest(tail) = i /\ i + 1 = Len(list) /\ Len(list) \in 1..Len(list)
        /\ Newest(tail) < Len(list)
    BY <1>2, <2>1, ListFacts
  <2>3. Has(t, Len(list))
    <3>1. PICK j \in 1..Len(list) : lnext[t] = list[j] /\ Has(t, j)
      BY DEF SightInv, LocalSight
    <3>2. j = Len(list)
      BY <2>1, <2>2, <3>1, ListFacts
    <3> QED BY <3>1, <3>2
  <2>4. PICK u \in Thread : pc[u] = "e_swing" /\ node[u] = list[Len(list)]
    BY <2>2 DEF SightInv, LagSight
  <2>5. Has(u, Len(list))
    <3>1. PICK j \in 1..(Len(list) - 1) : node[u] = list[j + 1] /\ Has(u, j + 1)
      BY <2>4 DEF SightInv, LocalSight
    <3>2. j + 1 \in 1..Len(list)
      BY <3>1, ListFacts
    <3>3. j + 1 = Len(list)
      BY <2>2, <2>4, <3>1, <3>2, ListFacts
    <3> QED BY <3>1, <3>3
  <2>6. \A x \in Thread : x = t \/ x = u
    BY <2>4 DEF TwoThreads
  <2>7. \A x \in Thread : Has(x, Len(list))
    BY <2>3, <2>5, <2>6
  <2> QED BY <1>1, <1>2, <2>7, TailSight
<1>3. CASE WeakCasFails(t, tail, cur_tail[t])
  <2>1. UNCHANGED memory
    BY <1>3 DEF WeakCasFails, CasFails, LoadRelaxed
  <2> QED BY <1>1, <2>1, QuietSight
<1> QED BY <1>2, <1>3 DEF HelpTail

LEMMA SwingTailSight ==
  ASSUME TwoThreads, IInv, SightInv, NEW t \in Thread, MemoryOK(t), LocalsOK(t),
         EnqueueSwingTail(t), LocalSight(t)'
  PROVE  SightInv'
<1>1. TypeOK /\ list' = list /\ pc[t] = "e_swing"
  BY DEF IInv, EnqueueSwingTail
<1>2. PICK i \in 1..(Len(list) - 1) :
        /\ cur_tail[t] = list[i] /\ node[t] = list[i + 1]
        /\ i <= view[t][tail] /\ Has(t, i + 1)
  BY <1>1 DEF SightInv, LocalSight
<1>3. /\ Len(list) \in Nat /\ i \in 1..Len(list) /\ i + 1 \in 1..Len(list)
      /\ list[i + 1] \in Node /\ Newest(tail) \in 1..Len(list)
      /\ Newest(tail) >= Len(list) - 1
  BY <1>2, ListFacts
<1>4. CASE NewestVal(tail) = cur_tail[t] /\ RmwRelease(t, tail, node[t])
  <2>1. Newest(tail) = i
    BY <1>2, <1>3, <1>4, ListFacts
  <2>2. i + 1 = Len(list)
    BY <1>2, <1>3, <2>1
  <2>3. Follows(cur_tail[t], node[t]) /\ node[t] \in Node /\ Has(t, Len(list))
    BY <1>2, <1>3, <2>2 DEF Follows
  <2> QED BY <1>1, <1>4, <2>3, TailSight
<1>5. CASE WeakCasFails(t, tail, cur_tail[t])
  <2>1. PICK x \in 1..Newest(tail) :
          memory[tail][x].val # cur_tail[t] /\ LoadRelaxed(t, tail, x)
    BY <1>5 DEF WeakCasFails, CasFails, TwoThreads
  <2>2. UNCHANGED memory /\ view[t][tail] <= x
    BY <1>1, <2>1, RelaxedKeeps, Locations
  <2>3. memory[tail][x].val = list[x] /\ x \in Nat /\ view[t][tail] \in Nat
    BY <1>1, <2>1, Locations DEF IInv, EndsInv, TypeOK
  <2>4. i < x
    BY <1>2, <2>1, <2>2, <2>3
  <2>5. Newest(tail) < Len(list) => i + 1 # Len(list)
    BY <1>3, <2>3, <2>4
  <2>6. Newest(tail) < Len(list) => node[t] # list[Len(list)]
    BY <1>2, <1>3, <2>5, ListFacts
  <2> QED BY <1>1, <2>2, <2>6, QuietSight
<1> QED BY <1>4, <1>5 DEF EnqueueSwingTail

\* Linking a node: who acquires the link sees all that its thread sees.
LEMMA LinkingSight ==
  ASSUME IInv, SightInv, KnowInv, NEW t \in Thread, MemoryOK(t), LocalsOK(t),
         EnqueueLink(t)
  PROVE  SightInv'
<1>0. /\ SightFrame(t) /\ TypeOK /\ EnqueueInv(t) /\ LocalSight(t) /\ EnqueueKnows(t)
      /\ list \in Seq(Node)
  BY SightFrames DEF IInv, SightInv, KnowInv, TypeOK
<1>1. /\ pc[t] = "e_link" /\ pc'[t] = "e_swing" /\ node' = node /\ cur_tail' = cur_tail
      /\ lnext' = lnext /\ cur_head' = cur_head
      /\ NewestVal(next(cur_tail[t])) = Null
      /\ RmwRelease(t, next(cur_tail[t]), node[t]) /\ list' = Append(list, node[t])
  BY <1>0 DEF EnqueueLink, TypeOK
<1>2. PICK n \in Node : n = node[t]
  BY <1>0, <1>1 DEF EnqueueInv
<1>3. PICK i \in 1..Newest(tail) : cur_tail[t] = list[i] /\ Has(t, i)
  BY <1>0, <1>1 DEF LocalSight
<1>4. PICK c \in Node : c = list[i] /\ i \in 1..Len(list) /\ Len(list) \in Nat
  BY <1>0, <1>3 DEF SightFrame
<1>5. Newest(next(c)) = 2 /\ i = Len(list)
  <2>1. Newest(next(c)) \in {2, 3}
    <3>1. InList(c)
      BY <1>4 DEF InList
    <3> QED BY <3>1, NodeFacts
  <2>2. Newest(next(c)) # 3
    <3> SUFFICES ASSUME Newest(next(c)) = 3 PROVE FALSE
      OBVIOUS
    <3>1. memory[next(c)][3].val \in Node
      BY NodeFacts
    <3> QED BY <1>1, <1>3, <1>4, <3>1
  <2>3. ~(i \in 1..(Len(list) - 1))
    BY <1>4, <2>2, NodeFacts
  <2> QED BY <1>4, <2>1, <2>2, <2>3
<1>6. PICK w \in [Location -> Nat] :
        /\ Newest(next(c))' = 3 /\ memory'[next(c)][3].view = w
        /\ \A k \in Location \ {next(c)} : memory'[k] = memory[k]
        /\ view'[t][next(c)] = 3
        /\ \A k \in Location : view'[t][k] <= w[k]
  <2>1. next(c) \in Location /\ Newest(next(c)) >= 1 /\ 2 + 1 = 3
    BY <1>5, Locations
  <2>2. RmwRelease(t, next(c), n) /\ n \in Pointer
    BY <1>1, <1>2, <1>3, <1>4
  <2>3. PICK w \in [Location -> Nat] :
          /\ Newest(next(c))' = Newest(next(c)) + 1
          /\ memory'[next(c)][Newest(next(c)) + 1].view = w
          /\ \A k \in Location \ {next(c)} : memory'[k] = memory[k]
          /\ view'[t][next(c)] = Newest(next(c)) + 1
          /\ RmwRelease(t, next(c), n) => \A k \in Location : view'[t][k] <= w[k]
    BY <2>1, <2>2, Sent
  <2> QED BY <1>5, <2>1, <2>2, <2>3
<1>7. /\ Len(list') = i + 1 /\ list'[i + 1] = n /\ i \in Nat
      /\ \A j \in 1..i : list'[j] = list[j] /\ list[j] \in Node
      /\ \A j \in 1..(i + 1) : list'[j] \in Node
  BY <1>0, <1>1, <1>2, <1>4, <1>5
<1>8. PICK y \in [Location -> Nat] : y = view'[t]
  BY <1>0 DEF SightFrame
<1>9. Sees(y, y, list', i + 1)
  <2>1. Sees(y, y, list', i)
    <3>1. Has(t, i)'
      BY <1>0, <1>3, <1>4, KeepsHas
    <3> QED BY <1>8, <3>1 DEF Has
  <2>2. y[next(list'[i])] = 3
    <3>1. list'[i] = c
      BY <1>4, <1>7
    <3> QED BY <1>6, <1>8, <3>1
  <2>3. y[next(n)] >= 2
    BY <1>0, <1>1, <1>2, <1>8, SightStays
  <2> SUFFICES ASSUME NEW j \in 1..(i + 1)
               PROVE  y[next(list'[j])] >= 2 /\ (j < i + 1 => y[next(list'[j])] >= 3)
    BY DEF Sees
  <2>4. CASE j = i + 1
    BY <1>7, <2>3, <2>4
  <2>5. CASE j = i
    BY <2>2, <2>5
  <2>6. CASE j < i
    <3>1. j \in 1..i
      BY <1>7, <2>6
    <3> QED BY <2>1, <2>6, <3>1 DEF Sees
  <2> QED BY <1>7, <2>4, <2>5, <2>6
<1>10. Has(t, i + 1)'
  BY <1>8, <1>9 DEF Has
<1>11. memory'[head] = memory[head] /\ memory'[tail] = memory[tail]
  BY <1>6, Locations
<1>12. EndsSight'
  <2> SUFFICES ASSUME NEW l \in {head, tail}, NEW j \in 1..Newest(l)', NEW u \in Thread
               PROVE  Sees(view'[u], memory'[l][j].view, list', j)
    BY DEF EndsSight
  <2>1. j \in 1..Newest(l) /\ memory'[l][j] = memory[l][j]
    BY <1>11
  <2> QED BY <2>1, KeepsMessages
<1>13. LinkSight'
  <2> SUFFICES ASSUME NEW j \in 1..(Len(list') - 1)
               PROVE  Sees(memory'[next(list'[j])][3].view,
                           memory'[next(list'[j])][3].view, list', j + 1)
    BY DEF LinkSight
  <2>1. CASE j = i
    <3>1. list'[j] = c
      BY <1>4, <1>7, <2>1
    <3>2. \A m \in Node : y[next(m)] <= w[next(m)]
      BY <1>6, <1>8, Locations
    <3>3. Sees(w, w, list', i + 1)
      <4>1. i + 1 \in Nat /\ \A k \in 1..(i + 1) : list'[k] \in Node /\ list'[k] = list'[k]
        BY <1>7
      <4> QED BY <1>9, <3>2, <4>1, SeesMore
    <3> QED BY <1>6, <2>1, <3>1, <3>3
  <2>2. CASE j # i
    <3>1. j \in 1..(Len(list) - 1) /\ j \in 1..Len(list)
      BY <1>5, <1>7, <2>2
    <3>2. list[j] # c /\ list[j] \in Node
      BY <1>4, <2>2, <3>1, ListFacts
    <3>3. memory'[next(list[j])] = memory[next(list[j])]
      BY <1>6, <3>2, Locations
    <3> QED BY <3>1, <3>3, KeepsMessages
  <2> QED BY <2>1, <2>2
<1>14. HeadSight'
  BY <1>11 DEF SightInv, HeadSight
<1>15. LagSight'
  BY <1>1, <1>2, <1>7 DEF LagSight
<1>16. LocalSight(t)'
  <2>1. i <= view'[t][tail]
    <3>1. PICK k \in 1..Newest(tail) : cur_tail[t] = list[k] /\ k <= view[t][tail]
      BY <1>0, <1>1 DEF EnqueueKnows
    <3>2. k = i
      <4>1. k \in 1..Len(list)
        BY <1>0, <3>1 DEF SightFrame
      <4> QED BY <1>3, <1>4, <3>1, <4>1, ListFacts
    <3>3. view[t][tail] \in Nat /\ view'[t][tail] \in Nat /\ view[t][tail] <= view'[t][tail]
      BY <1>0, Locations DEF SightFrame, TypeOK
    <3> QED BY <1>7, <3>1, <3>2, <3>3
  <2>2. i \in 1..(Len(list') - 1) /\ cur_tail'[t] = list'[i] /\ node'[t] = list'[i + 1]
    BY <1>1, <1>2, <1>3, <1>4, <1>7
  <2>3. lnext'[t] # Garbage
    BY <1>0, <1>1 DEF LocalSight
  <2> QED BY <1>1, <1>10, <2>1, <2>2, <2>3 DEF LocalSight
<1> QED BY <1>12, <1>13, <1>14, <1>15, <1>16, KeepsSight DEF SightInv

\* Moving head: the message carries what its thread sees.
LEMMA HeadMessage ==
  ASSUME IInv, NEW t \in Thread, DequeueSwingHead(t)
  PROVE  \E w \in [Location -> Nat] :
           /\ Newest(head)' = Newest(head) + 1 /\ memory'[head][Newest(head) + 1].view = w
           /\ \A i \in 1..Newest(head) : memory'[head][i] = memory[head][i]
           /\ \A k \in Location \ {head} : memory'[k] = memory[k] /\ view'[t][k] = view[t][k]
           /\ \A k \in Location : memory[head][Newest(head)].view[k] <= w[k]
           /\ \A k \in Location : view'[t][k] <= w[k]
<1>1. /\ pc[t] = "d_swing" /\ RmwRelease(t, head, lnext[t]) /\ Newest(head) >= 1
      /\ lnext[t] \in Pointer /\ head \in Location
  <2>1. pc[t] = "d_swing" /\ RmwRelease(t, head, lnext[t])
    BY DEF DequeueSwingHead
  <2> QED BY <2>1, Locations, ListFacts DEF IInv, DequeueInv
<1>2. PICK w \in [Location -> Nat] :
        /\ Newest(head)' = Newest(head) + 1 /\ memory'[head][Newest(head) + 1].view = w
        /\ \A i \in 1..Newest(head) : memory'[head][i] = memory[head][i]
        /\ \A k \in Location \ {head} : memory'[k] = memory[k]
        /\ \A k \in Location \ {head} : view'[t][k] = view[t][k]
        /\ \A k \in Location : memory[head][Newest(head)].view[k] <= w[k]
        /\ RmwRelease(t, head, lnext[t]) => \A k \in Location : view'[t][k] <= w[k]
  BY <1>1, Sent
<1> QED BY <1>1, <1>2

LEMMA SwingHeadSight ==
  ASSUME IInv, SightInv, NEW t \in Thread, MemoryOK(t), LocalsOK(t),
         DequeueSwingHead(t), LocalSight(t)'
  PROVE  SightInv'
<1>0. /\ SightFrame(t) /\ TypeOK /\ DequeueInv(t) /\ LocalSight(t)
      /\ pc[t] = "d_swing" /\ NewestVal(head) = cur_head[t] /\ list' = list
  BY SightFrames DEF IInv, SightInv, DequeueSwingHead
<1>1. PICK h \in 1..Len(list) : h = Newest(head)
  BY ListFacts
<1>2. h \in Nat /\ h + 1 \in 1..Len(list) /\ lnext[t] = list[h + 1]
  <2>1. PICK i \in 1..(Len(list) - 1) : list[i] = cur_head[t] /\ list[i + 1] = lnext[t]
    BY <1>0 DEF DequeueInv, Follows
  <2>2. i \in 1..Len(list) /\ i + 1 \in 1..Len(list)
    BY <2>1, ListFacts
  <2>3. list[h] = cur_head[t]
    BY <1>0, <1>1, ListFacts
  <2>4. h = i
    BY <1>1, <2>1, <2>2, <2>3, ListFacts
  <2> QED BY <2>1, <2>2, <2>4
<1>3. Has(t, h + 1)
  <2>1. PICK i \in 1..Len(list) : lnext[t] = list[i] /\ Has(t, i)
    BY <1>0 DEF LocalSight, DequeueInv
  <2>2. i = h + 1
    BY <1>2, <2>1, ListFacts
  <2> QED BY <2>1, <2>2
<1>4. PICK w \in [Location -> Nat] :
        /\ Newest(head)' = h + 1 /\ memory'[head][h + 1].view = w
        /\ \A i \in 1..h : memory'[head][i] = memory[head][i]
        /\ \A k \in Location \ {head} : memory'[k] = memory[k]
        /\ \A k \in Location : memory[head][h].view[k] <= w[k]
        /\ \A k \in Location : view'[t][k] <= w[k]
  BY <1>1, HeadMessage
<1>5. memory'[tail] = memory[tail] /\ \A n \in Node : memory'[next(n)] = memory[next(n)]
  BY <1>4, Locations
<1>6. HeadSight'
  <2> SUFFICES ASSUME NEW i \in 1..(h + 1), NEW j \in 1..(h + 1), i <= j, NEW n \in Node
               PROVE  memory'[head][i].view[next(n)] <= memory'[head][j].view[next(n)]
    BY <1>4 DEF HeadSight
  <2>0. next(n) \in Location /\ head \in Location
    BY Locations
  <2>1. CASE j \in 1..h
    <3>1. i \in 1..h
      BY <1>2, <2>1
    <3> QED BY <1>1, <1>4, <2>1, <3>1 DEF SightInv, HeadSight
  <2>2. CASE i = h + 1
    <3>1. j = h + 1 /\ w[next(n)] \in Nat
      BY <1>2, <2>0, <2>2
    <3> QED BY <1>4, <2>2, <3>1
  <2>3. CASE i \in 1..h /\ j = h + 1
    <3>1. h \in 1..Newest(head) /\ i \in 1..Newest(head) /\ i <= h
      BY <1>1, <1>2, <2>3
    <3>2. PICK a, b, c \in Nat : /\ a = memory[head][i].view[next(n)] /\ c = w[next(n)]
                                 /\ b = memory[head][h].view[next(n)]
      <4>1. /\ memory[head][i].view \in [Location -> Nat]
            /\ memory[head][h].view \in [Location -> Nat]
        BY <1>0, <2>0, <3>1, LoadedPointer
      <4> QED BY <2>0, <4>1
    <3>3. a <= b
      BY <3>1, <3>2 DEF SightInv, HeadSight
    <3>4. b <= c
      BY <1>4, <2>0, <3>2
    <3>5. a <= c
      BY <3>3, <3>4
    <3> QED BY <1>4, <2>3, <3>2, <3>5
  <2> QED BY <1>2, <2>1, <2>2, <2>3
<1>7. ASSUME NEW u \in Thread PROVE Sees(view'[u], w, list', h + 1)
  <2>0. /\ h + 1 \in 0..Len(list) /\ h + 1 \in Nat
        /\ \A j \in 1..(h + 1) : list'[j] \in Node /\ list'[j] = list'[j]
    <3>1. h + 1 \in 0..Len(list) /\ h + 1 \in Nat /\ \A j \in 1..(h + 1) : j \in 1..Len(list)
      BY <1>0, <1>2 DEF SightFrame
    <3> QED BY <1>0, <3>1 DEF SightFrame
  <2>1. PICK x, y \in [Location -> Nat] : x = view'[u] /\ y = view'[t]
    BY <1>0 DEF SightFrame
  <2>2. Sees(y, y, list', h + 1)
    BY <1>0, <1>3, <2>0, <2>1, KeepsHas DEF Has
  <2>3. \A n \in Node : y[next(n)] <= w[next(n)]
    BY <1>4, <2>1, Locations
  <2> QED BY <2>0, <2>1, <2>2, <2>3, SeesMore
<1>8. EndsSight'
  <2> SUFFICES ASSUME NEW l \in {head, tail}, NEW j \in 1..Newest(l)', NEW u \in Thread
               PROVE  Sees(view'[u], memory'[l][j].view, list', j)
    BY DEF EndsSight
  <2>1. CASE l = head /\ j = h + 1
    BY <1>4, <1>7, <2>1
  <2>2. CASE ~(l = head /\ j = h + 1)
    <3>1. j \in 1..Newest(l) /\ memory'[l][j] = memory[l][j]
      <4>1. CASE l = head
        <5>1. j \in 1..(h + 1) /\ j # h + 1
          BY <1>4, <2>2, <4>1
        <5>2. j \in 1..h
          BY <1>2, <5>1
        <5> QED BY <1>1, <1>4, <4>1, <5>2
      <4>2. CASE l = tail
        BY <1>5, <4>2
      <4> QED BY <4>1, <4>2
    <3> QED BY <3>1, KeepsMessages
  <2> QED BY <2>1, <2>2
<1>9. LinkSight'
  <2> SUFFICES ASSUME NEW j \in 1..(Len(list') - 1)
               PROVE  Sees(memory'[next(list'[j])][3].view,
                           memory'[next(list'[j])][3].view, list', j + 1)
    BY DEF LinkSight
  <2>1. j \in 1..(Len(list) - 1) /\ j \in 1..Len(list)
    BY <1>0 DEF SightFrame
  <2>2. memory'[next(list[j])] = memory[next(list[j])]
    BY <1>0, <1>5, <2>1 DEF SightFrame
  <2> QED BY <2>1, <2>2, KeepsMessages
<1>10. LagSight'
  <2> SUFFICES ASSUME Newest(tail) < Len(list)
               PROVE  \E u \in Thread : pc'[u] = "e_swing" /\ node'[u] = list[Len(list)]
    BY <1>0, <1>5 DEF LagSight
  <2>1. PICK u \in Thread : pc[u] = "e_swing" /\ node[u] = list[Len(list)]
    BY DEF SightInv, LagSight
  <2>2. u # t
    BY <1>0, <2>1
  <2> QED BY <2>1, <2>2 DEF LocalsOK
<1> QED BY <1>6, <1>8, <1>9, <1>10, KeepsSight DEF SightInv

-----------------------------------------------------------------------------
(* One case per action                                                     *)

\* Who acquires head or tail sees the node it finds there.
LEMMA EndLoaded ==
  ASSUME IInv, SightInv, NEW t \in Thread, NEW l \in {head, tail},
         NEW i \in 1..Newest(l), LoadAcquire(t, l, i), list' = list
  PROVE  /\ MemoryOK(t) /\ UNCHANGED memory /\ memory[l][i].val = list[i]
         /\ i \in 1..Len(list) /\ Has(t, i)'
<1>0. TypeOK /\ EndsInv /\ l \in Location
  BY Locations DEF IInv
<1>1. /\ MemoryOK(t) /\ UNCHANGED memory
      /\ \A k \in Location : k # l => memory[l][i].view[k] <= view'[t][k]
  BY <1>0, AcquireKeeps
<1>2. memory[l][i].val = list[i] /\ i \in 1..Len(list) /\ i \in Nat
  <2>1. CASE l = head
    BY <1>0, <2>1, ListFacts DEF EndsInv
  <2>2. CASE l = tail
    BY <1>0, <2>2, ListFacts DEF EndsInv
  <2> QED BY <2>1, <2>2
<1>3. SightFrame(t)
  BY <1>1, SightFrames
<1>4. PICK v, w, y \in [Location -> Nat] :
        v = view[t] /\ w = memory[l][i].view /\ y = view'[t]
  <2>1. memory[l][i].view \in [Location -> Nat]
    BY <1>0, LoadedPointer
  <2> QED BY <1>0, <1>3, <2>1 DEF SightFrame, TypeOK
<1>5. \A n \in Node : v[next(n)] <= y[next(n)] /\ w[next(n)] <= y[next(n)]
  <2> TAKE n \in Node
  <2>1. next(n) \in Location /\ next(n) # l
    BY Locations
  <2> QED BY <1>1, <1>3, <1>4, <2>1 DEF SightFrame
<1>6. \A j \in 1..i : list[j] \in Node /\ list'[j] = list[j]
  BY <1>2, ListFacts
<1>7. Sees(v, w, list, i)
  BY <1>4 DEF SightInv, EndsSight
<1>8. Sees(y, y, list', i)
  BY <1>2, <1>5, <1>6, <1>7, SeesMore
<1> QED BY <1>1, <1>2, <1>4, <1>8 DEF Has

LEMMA ReadSight ==
  ASSUME IInv, SightInv, NEW t \in Thread, MemoryOK(t), LocalsOK(t),
         UNCHANGED <<memory, list>>, pc[t] # "e_swing", LocalSight(t)'
  PROVE  SightInv'
BY QuietSight

LEMMA CallSight ==
  ASSUME IInv, SightInv, NEW t \in Thread, Call(t)
  PROVE  SightInv'
<1>0. TypeOK /\ LocalSight(t) /\ MemoryOK(t) /\ LocalsOK(t)
  BY CallKeepsIInv DEF IInv, SightInv
<1>1. CASE DequeueCall(t)
  <2>1. /\ pc[t] = "idle" /\ pc'[t] = "d_head" /\ lnext' = lnext
        /\ UNCHANGED <<memory, list>>
    BY <1>0, <1>1 DEF DequeueCall, TypeOK
  <2>2. LocalSight(t)'
    BY <1>0, <2>1 DEF LocalSight
  <2> QED BY <1>0, <2>1, <2>2, ReadSight
<1>2. ASSUME NEW v \in Value, EnqueueCall(t, v) PROVE SightInv'
  <2>1. PICK n \in Node :
          /\ Constructs(t, n) /\ node' = [node EXCEPT ![t] = n]
          /\ memory' = [memory EXCEPT ![next(n)] = Append(@, Initial(Null))]
          /\ view' = [view EXCEPT ![t][next(n)] = 2, ![t][data(n)] = 1]
    BY <1>2 DEF EnqueueCall, Constructs
  <2>2. /\ pc[t] = "idle" /\ pc'[t] = "e_tail" /\ lnext' = lnext /\ list' = list
        /\ node'[t] = n
    BY <1>0, <1>2, <2>1 DEF EnqueueCall, TypeOK
  <2>3. \A i \in 1..Len(list) : list[i] # n
    BY <2>1, <2>2, Construction
  <2>4. view'[t][next(n)] = 2
    <3>1. view[t] \in [Location -> Nat] /\ view \in [Thread -> [Location -> Nat]]
      BY <1>0 DEF TypeOK
    <3> QED BY <2>1, <3>1, Locations
  <2>5. LocalSight(t)'
    BY <1>0, <2>2, <2>4 DEF LocalSight
  <2>6. /\ memory'[head] = memory[head] /\ memory'[tail] = memory[tail]
        /\ \A j \in 1..(Len(list) - 1) : memory'[next(list[j])] = memory[next(list[j])]
    <3>1. \A k \in Location \ {next(n)} : memory'[k] = memory[k]
      BY <1>0, <2>1 DEF TypeOK
    <3>2. ASSUME NEW j \in 1..(Len(list) - 1)
          PROVE  memory'[next(list[j])] = memory[next(list[j])]
      <4>1. j \in 1..Len(list) /\ list[j] \in Node /\ list[j] # n
        BY <2>3, ListFacts
      <4> QED BY <3>1, <4>1, Locations
    <3> QED BY <3>1, <3>2, Locations
  <2> QED BY <1>0, <2>2, <2>5, <2>6, QuietSight
<1> QED BY <1>1, <1>2 DEF Call

LEMMA EnqueueStepSight ==
  ASSUME TwoThreads, IInv, SightInv, KnowInv, NEW t \in Thread, EnqueueStep(t)
  PROVE  SightInv'
<1>0. TypeOK /\ EndsInv /\ LocalSight(t) /\ EnqueueInv(t) /\ MemoryOK(t) /\ LocalsOK(t)
  BY EnqueueStepKeepsIInv DEF IInv, SightInv
<1>1. CASE EnqueueLoadTail(t)
  <2>1. PICK i \in 1..Newest(tail) :
          /\ LoadAcquire(t, tail, i)
          /\ cur_tail' = [cur_tail EXCEPT ![t] = memory[tail][i].val]
    BY <1>1 DEF EnqueueLoadTail
  <2>2. /\ pc[t] = "e_tail" /\ pc'[t] = "e_next" /\ node' = node /\ lnext' = lnext
        /\ cur_tail'[t] = memory[tail][i].val /\ list' = list
    BY <1>0, <1>1, <2>1 DEF EnqueueLoadTail, TypeOK
  <2>3. UNCHANGED memory /\ memory[tail][i].val = list[i] /\ Has(t, i)'
    BY <2>1, <2>2, EndLoaded
  <2>4. view'[t][next(node[t])] >= 2
    BY <1>0, <2>2, SightStays
  <2>5. \E k \in 1..Newest(tail)' : cur_tail'[t] = list'[k] /\ Has(t, k)'
    BY <2>2, <2>3
  <2>6. LocalSight(t)'
    BY <1>0, <2>2, <2>4, <2>5 DEF LocalSight
  <2> QED BY <1>0, <2>2, <2>3, <2>6, ReadSight
<1>2. CASE EnqueueLoadNext(t)
  <2>1. pc[t] = "e_next"
    BY <1>2 DEF EnqueueLoadNext
  <2>2. PICK k \in 1..Newest(tail) : cur_tail[t] = list[k] /\ Has(t, k)
    BY <1>0, <2>1 DEF LocalSight
  <2>3. k \in 1..Len(list)
    BY ListFacts
  <2>4. PICK i \in 1..Newest(next(list[k])) :
          /\ LoadAcquire(t, next(list[k]), i)
          /\ lnext' = [lnext EXCEPT ![t] = memory[next(list[k])][i].val]
    BY <1>2, <2>2 DEF EnqueueLoadNext
  <2>5. PICK v : v = memory[next(list[k])][i].val
    OBVIOUS
  <2>6. /\ pc'[t] = "e_check" /\ node' = node /\ cur_tail' = cur_tail
        /\ lnext'[t] = v /\ UNCHANGED <<memory, list>>
    BY <1>0, <1>2, <2>4, <2>5 DEF EnqueueLoadNext, LoadAcquire, TypeOK
  <2>7. /\ v \in Node \cup {Null}
        /\ v \in Node => \E j \in 1..Len(list) : v = list[j] /\ Has(t, j)'
    BY <2>2, <2>3, <2>4, <2>5, <2>6, NextSight
  <2>8. /\ view'[t][next(node[t])] >= 2
        /\ \E j \in 1..Newest(tail)' : cur_tail[t] = list'[j] /\ Has(t, j)'
    BY <1>0, <2>1, SightStays
  <2>9. LocalSight(t)'
    BY <2>6, <2>7, <2>8 DEF LocalSight
  <2> QED BY <1>0, <2>1, <2>6, <2>9, ReadSight
<1>3. CASE EnqueueCheckTail(t)
  <2>1. /\ pc[t] = "e_check" /\ pc'[t] \in {"e_link", "e_help", "e_tail"}
        /\ node' = node /\ cur_tail' = cur_tail /\ lnext' = lnext
        /\ UNCHANGED <<memory, list>>
    BY <1>0, <1>3 DEF EnqueueCheckTail, LoadRelaxed, TypeOK
  <2>2. /\ view'[t][next(node[t])] >= 2
        /\ \E j \in 1..Newest(tail)' : cur_tail[t] = list'[j] /\ Has(t, j)'
        /\ lnext[t] \in Node => \E j \in 1..Len(list') : lnext[t] = list'[j] /\ Has(t, j)'
    BY <1>0, <2>1, SightStays
  <2>3. LocalSight(t)'
    BY <1>0, <2>1, <2>2 DEF LocalSight
  <2> QED BY <1>0, <2>1, <2>3, ReadSight
<1>4. CASE EnqueueLink(t)
  BY <1>0, <1>4, LinkingSight
<1>5. CASE EnqueueLinkFails(t)
  <2>1. /\ pc[t] = "e_link" /\ pc'[t] = "e_tail" /\ node' = node /\ lnext' = lnext
        /\ UNCHANGED <<memory, list>>
    BY <1>0, <1>5 DEF EnqueueLinkFails, CasFails, LoadRelaxed, TypeOK
  <2>2. view'[t][next(node[t])] >= 2
    BY <1>0, <2>1, SightStays
  <2>3. LocalSight(t)'
    BY <1>0, <2>1, <2>2 DEF LocalSight
  <2> QED BY <1>0, <2>1, <2>3, ReadSight
<1>6. CASE EnqueueHelpTail(t)
  <2>1. /\ pc[t] = "e_help" /\ pc'[t] = "e_tail" /\ node' = node /\ lnext' = lnext
        /\ HelpTail(t)
    BY <1>0, <1>6 DEF EnqueueHelpTail, HelpTail, TypeOK
  <2>2. lnext[t] \in Node /\ Follows(cur_tail[t], lnext[t])
    BY <1>0, <2>1 DEF EnqueueInv
  <2>3. view'[t][next(node[t])] >= 2
    BY <1>0, <2>1, SightStays
  <2>4. LocalSight(t)'
    BY <1>0, <2>1, <2>3 DEF LocalSight
  <2> QED BY <1>0, <2>1, <2>2, <2>4, HelpSight
<1>7. CASE EnqueueSwingTail(t)
  <2>1. pc'[t] = "idle" /\ lnext'[t] = Null
    BY <1>0, <1>7 DEF EnqueueSwingTail, TypeOK
  <2>2. LocalSight(t)'
    BY <2>1 DEF LocalSight
  <2> QED BY <1>0, <1>7, <2>2, SwingTailSight
<1> QED BY <1>1, <1>2, <1>3, <1>4, <1>5, <1>6, <1>7 DEF EnqueueStep

LEMMA DequeueStepSight ==
  ASSUME TwoThreads, IInv, SightInv, NEW t \in Thread, DequeueStep(t)
  PROVE  SightInv'
<1>0. TypeOK /\ EndsInv /\ LocalSight(t) /\ DequeueInv(t) /\ MemoryOK(t) /\ LocalsOK(t)
  BY DequeueStepKeepsIInv DEF IInv, SightInv
<1>1. CASE DequeueLoadHead(t)
  <2>1. PICK i \in 1..Newest(head) :
          /\ LoadAcquire(t, head, i)
          /\ cur_head' = [cur_head EXCEPT ![t] = memory[head][i].val]
    BY <1>1 DEF DequeueLoadHead
  <2>2. /\ pc[t] = "d_head" /\ pc'[t] = "d_tail" /\ lnext' = lnext
        /\ cur_head'[t] = memory[head][i].val /\ list' = list
    BY <1>0, <1>1, <2>1 DEF DequeueLoadHead, TypeOK
  <2>3. UNCHANGED memory /\ memory[head][i].val = list[i] /\ Has(t, i)'
    BY <2>1, <2>2, EndLoaded
  <2>4. \E k \in 1..Newest(head)' : cur_head'[t] = list'[k] /\ Has(t, k)'
    BY <2>2, <2>3
  <2>5. LocalSight(t)'
    BY <1>0, <2>2, <2>4 DEF LocalSight
  <2> QED BY <1>0, <2>2, <2>3, <2>5, ReadSight
<1>2. CASE DequeueLoadTail(t)
  <2>1. /\ pc[t] = "d_tail" /\ pc'[t] = "d_next" /\ lnext' = lnext /\ cur_head' = cur_head
        /\ UNCHANGED <<memory, list>>
    BY <1>0, <1>2 DEF DequeueLoadTail, LoadRelaxed, TypeOK
  <2>2. \E k \in 1..Newest(head)' : cur_head[t] = list'[k] /\ Has(t, k)'
    BY <1>0, <2>1, SightStays
  <2>3. LocalSight(t)'
    BY <1>0, <2>1, <2>2 DEF LocalSight
  <2> QED BY <1>0, <2>1, <2>3, ReadSight
<1>3. CASE DequeueLoadNext(t)
  <2>1. pc[t] = "d_next"
    BY <1>3 DEF DequeueLoadNext
  <2>2. PICK k \in 1..Newest(head) : cur_head[t] = list[k] /\ Has(t, k)
    BY <1>0, <2>1 DEF LocalSight
  <2>3. k \in 1..Len(list)
    BY ListFacts
  <2>4. PICK i \in 1..Newest(next(list[k])) :
          /\ LoadAcquire(t, next(list[k]), i)
          /\ lnext' = [lnext EXCEPT ![t] = memory[next(list[k])][i].val]
    BY <1>3, <2>2 DEF DequeueLoadNext
  <2>5. PICK v : v = memory[next(list[k])][i].val
    OBVIOUS
  <2>6. /\ pc'[t] = "d_check" /\ cur_head' = cur_head
        /\ lnext'[t] = v /\ UNCHANGED <<memory, list>>
    BY <1>0, <1>3, <2>4, <2>5 DEF DequeueLoadNext, LoadAcquire, TypeOK
  <2>7. /\ v \in Node \cup {Null}
        /\ v \in Node => \E j \in 1..Len(list) : v = list[j] /\ Has(t, j)'
    BY <2>2, <2>3, <2>4, <2>5, <2>6, NextSight
  <2>8. \E j \in 1..Newest(head)' : cur_head[t] = list'[j] /\ Has(t, j)'
    BY <1>0, <2>1, SightStays
  <2>9. LocalSight(t)'
    BY <2>6, <2>7, <2>8 DEF LocalSight
  <2> QED BY <1>0, <2>1, <2>6, <2>9, ReadSight
<1>4. CASE DequeueCheckHead(t) \/ DequeueReadValue(t)
  <2>1. /\ pc[t] \in {"d_check", "d_value"}
        /\ pc'[t] \in {"d_head", "d_empty", "d_help", "d_value", "d_swing"}
        /\ cur_head' = cur_head /\ lnext' = lnext /\ UNCHANGED <<memory, list>>
    BY <1>0, <1>4 DEF DequeueCheckHead, DequeueReadValue, LoadRelaxed, TypeOK
  <2>2. /\ \E j \in 1..Newest(head)' : cur_head[t] = list'[j] /\ Has(t, j)'
        /\ lnext[t] \in Node => \E j \in 1..Len(list') : lnext[t] = list'[j] /\ Has(t, j)'
    BY <1>0, <2>1, SightStays
  <2>3. LocalSight(t)'
    BY <1>0, <2>1, <2>2 DEF LocalSight
  <2> QED BY <1>0, <2>1, <2>3, ReadSight
<1>5. CASE DequeueHelpTail(t)
  <2>1. pc[t] = "d_help" /\ pc'[t] = "d_head" /\ lnext' = lnext /\ HelpTail(t)
    BY <1>0, <1>5 DEF DequeueHelpTail, HelpTail, TypeOK
  <2>2. lnext[t] \in Node /\ Follows(cur_tail[t], lnext[t])
    BY <1>0, <2>1 DEF DequeueInv
  <2>3. LocalSight(t)'
    BY <1>0, <2>1 DEF LocalSight
  <2> QED BY <1>0, <2>1, <2>2, <2>3, HelpSight
<1>6. CASE DequeueSwingHead(t)
  <2>1. pc'[t] = "d_return" /\ lnext' = lnext
    BY <1>0, <1>6 DEF DequeueSwingHead, TypeOK
  <2>2. LocalSight(t)'
    BY <1>0, <2>1 DEF LocalSight
  <2> QED BY <1>0, <1>6, <2>2, SwingHeadSight
<1>7. CASE DequeueSwingFails(t)
  <2>1. /\ pc[t] = "d_swing" /\ pc'[t] = "d_head" /\ lnext' = lnext
        /\ UNCHANGED <<memory, list>>
    BY <1>0, <1>7 DEF DequeueSwingFails, CasFails, LoadRelaxed, TypeOK
  <2>2. LocalSight(t)'
    BY <1>0, <2>1 DEF LocalSight
  <2> QED BY <1>0, <2>1, <2>2, ReadSight
<1>8. CASE DequeueReturn(t)
  <2>1. /\ pc[t] \in {"d_return", "d_empty"} /\ pc'[t] = "idle" /\ lnext'[t] = Null
        /\ UNCHANGED <<memory, list>>
    BY <1>0, <1>8 DEF DequeueReturn, TypeOK
  <2>2. LocalSight(t)'
    BY <2>1 DEF LocalSight
  <2> QED BY <1>0, <2>1, <2>2, ReadSight
<1> QED BY <1>1, <1>2, <1>3, <1>4, <1>5, <1>6, <1>7, <1>8 DEF DequeueStep

LEMMA InitSight == Init => SightInv
<1> SUFFICES ASSUME Init PROVE SightInv
  OBVIOUS
<1>1. /\ list = <<Fake>> /\ Len(list) = 1 /\ list[1] = Fake /\ Fake \in Node
      /\ Newest(head) = 1 /\ Newest(tail) = 1
      /\ \A t \in Thread : pc[t] = "idle" /\ lnext[t] = Null /\ view[t][next(Fake)] = 2
  BY Locations DEF Init
<1>2. LinkSight /\ LagSight
  BY <1>1 DEF LinkSight, LagSight
<1>3. EndsSight
  BY <1>1 DEF EndsSight, Sees
<1>4. HeadSight
  <2>1. TypeOK
    BY InitIInv DEF IInv
  <2>2. memory[head][1].view \in [Location -> Nat]
    <3>1. 1 \in 1..Newest(head) /\ head \in Location
      BY <1>1, Locations
    <3> QED BY <2>1, <3>1, LoadedPointer
  <2>3. \A n \in Node : memory[head][1].view[next(n)] \in Nat
    BY <2>2, Locations
  <2> QED BY <1>1, <2>3 DEF HeadSight
<1>5. \A t \in Thread : LocalSight(t)
  BY <1>1 DEF LocalSight
<1> QED BY <1>2, <1>3, <1>4, <1>5 DEF SightInv

LEMMA NextKeepsSight ==
  ASSUME TwoThreads, IInv, KnowInv, SightInv, [Next]_vars
  PROVE  SightInv'
<1>1. CASE Next
  BY <1>1, CallSight, EnqueueStepSight, DequeueStepSight DEF Next
<1>2. CASE UNCHANGED vars
  BY <1>2 DEF vars, SightInv, LinkSight, EndsSight, HeadSight, LagSight, LocalSight, Has, Sees
<1> QED BY <1>1, <1>2

\* What two threads find they see, if no compare-and-swap fails spuriously.
THEOREM SightInvariance ==
  TwoThreads => (Spec => [](IInv /\ KnowInv /\ SightInv))
<1> SUFFICES ASSUME TwoThreads PROVE Spec => [](IInv /\ KnowInv /\ SightInv)
  OBVIOUS
<1>1. Init => IInv /\ KnowInv /\ SightInv
  BY InitIInv, InitKnows, InitSight
<1>2. IInv /\ KnowInv /\ SightInv /\ [Next]_vars => IInv' /\ KnowInv' /\ SightInv'
  BY NextKeepsIInv, NextKeepsKnowInv, NextKeepsSight
<1> QED BY <1>1, <1>2, PTL DEF Spec

\* With two threads and no spurious failures the memory orders the code has do
\* suffice: nobody finds the next of a node before its constructor's store.
THEOREM TwoThreadsReadNoGarbage == TwoThreads => (Spec => []NoUninitialisedRead)
<1>1. SightInv => NoUninitialisedRead
  BY DEF SightInv, LocalSight, NoUninitialisedRead
<1> QED BY <1>1, SightInvariance, PTL
=============================================================================
