---------------------- MODULE MSQueueCountedRefinement ----------------------
(***************************************************************************)
(* As long as the allocator leaves deleted memory alone, MSQueueCounted is *)
(* MSQueueNoFree: dropping the counters turns each of its steps into one   *)
(* of MSQueueNoFree, and the queue is linearizable.  One step is           *)
(* different: *value = next.ptr->value may read a deleted node.  It does   *)
(* so only when the compare-and-swap that follows is bound to fail.        *)
(*                                                                         *)
(* No assumption about the counters is needed: without reuse neither head  *)
(* nor tail ever comes back to a node.                                     *)
(***************************************************************************)
EXTENDS MSQueueCounted, TLAPS

\* The proofs about MSQueueNoFree, under the mapping of MSQueueCounted.
NF == INSTANCE MSQueueNoFreeProofs
        WITH head <- head.ptr, tail <- tail.ptr, next <- Ptrs(next),
             heap <- used, cur_head <- Ptrs(cur_head),
             cur_tail <- Ptrs(cur_tail), lnext <- Ptrs(lnext)

\* What a thread has loaded from head, or from tail, is in the list and no
\* newer than what is there now; if it is the same node it also has the same counter.
LoadedInv ==
  /\ \A t \in Thread : cur_head[t].ptr # Null =>
       /\ 1 <= pos[cur_head[t].ptr] /\ pos[cur_head[t].ptr] <= pos[head.ptr]
       /\ cur_head[t].ptr = head.ptr => cur_head[t] = head
  /\ \A t \in Thread : cur_tail[t].ptr # Null =>
       /\ 1 <= pos[cur_tail[t].ptr] /\ pos[cur_tail[t].ptr] <= pos[tail.ptr]
       /\ cur_tail[t].ptr = tail.ptr => cur_tail[t] = tail

\* A null pointer has the counter of the constructor.
NullInv ==
  /\ \A n \in Node : next[n].ptr = Null => next[n] = Pointer(Null, 0)
  /\ \A t \in Thread : lnext[t].ptr = Null => lnext[t] = Pointer(Null, 0)

\* Only nodes before head are deleted.
AliveInv ==
  /\ \A n \in used \ heap : 1 <= pos[n] /\ pos[n] < pos[head.ptr]
  /\ \A t \in Thread : pc[t] = "d_return" =>
       /\ cur_head[t].ptr \in Node /\ 1 <= pos[cur_head[t].ptr]
       /\ pos[cur_head[t].ptr] < pos[head.ptr]

IInv == TypeOK /\ NF!IInv /\ LoadedInv /\ NullInv /\ AliveInv

USE NodeAssumption, ValueAssumption, CountAssumption
    DEF EnqueuePC, DequeuePC, Goto, NewNode, CasTail, PointerType,
        shared, locals, caller, history

-----------------------------------------------------------------------------
(* Lemmas                                                                  *)

LEMMA PointerFacts ==
  /\ \A n, c : Pointer(n, c).ptr = n
  /\ \A n \in Node \cup {Null}, c \in Nat : Pointer(n, c) \in PointerType
  /\ Pointer(Null, 0) \in PointerType /\ Pointer(Null, 0).ptr = Null
<1>1. \A c \in Nat : c % CountMod \in 0..(CountMod - 1)
  OBVIOUS
<1> QED BY <1>1 DEF Pointer

LEMMA NextStays == Reuse = FALSE => \A n : NextAt(n) = {next[n]}
BY DEF NextAt

-----------------------------------------------------------------------------
(* The steps are steps of MSQueueNoFree.                                   *)

\* What a comparison with the counters says is what one without them says.
LEMMA SameComparisons ==
  ASSUME IInv, NEW t \in Thread
  PROVE  /\ head = cur_head[t] <=> head.ptr = Ptrs(cur_head)[t]
         /\ tail = cur_tail[t] <=> tail.ptr = Ptrs(cur_tail)[t]
         /\ Ptrs(cur_head)[t] = cur_head[t].ptr
         /\ Ptrs(cur_tail)[t] = cur_tail[t].ptr
         /\ Ptrs(lnext)[t] = lnext[t].ptr
         /\ \A n \in Node : Ptrs(next)[n] = next[n].ptr
<1>1. TypeOK /\ LoadedInv
  BY DEF IInv
<1>2. /\ Ptrs(cur_head)[t] = cur_head[t].ptr /\ Ptrs(cur_tail)[t] = cur_tail[t].ptr
      /\ Ptrs(lnext)[t] = lnext[t].ptr
      /\ \A n \in Node : Ptrs(next)[n] = next[n].ptr
  <2>1. /\ cur_head \in [Thread -> PointerType] /\ cur_tail \in [Thread -> PointerType]
        /\ lnext \in [Thread -> PointerType] /\ next \in [Node -> PointerType]
    BY <1>1 DEF TypeOK
  <2> QED BY <2>1 DEF Ptrs
<1>3. head = cur_head[t] <=> head.ptr = cur_head[t].ptr
  <2>1. head.ptr # Null
    BY <1>1 DEF TypeOK
  <2> QED BY <1>1, <2>1 DEF LoadedInv
<1>4. tail = cur_tail[t] <=> tail.ptr = cur_tail[t].ptr
  <2>1. tail.ptr # Null
    BY <1>1 DEF TypeOK
  <2> QED BY <1>1, <2>1 DEF LoadedInv
<1> QED BY <1>2, <1>3, <1>4

LEMMA CallIsNoFree ==
  ASSUME IInv, Reuse = FALSE, NEW t \in Thread, Call(t)
  PROVE  NF!Call(t)
<1>1. CASE DequeueCall(t)
  <2>1. NF!DequeueCall(t)
    BY <1>1 DEF DequeueCall, NF!DequeueCall, NF!Goto, NF!shared, NF!locals,
                NF!history, Ptrs
  <2> QED BY <2>1 DEF NF!Call
<1>2. ASSUME NEW v \in Value, EnqueueCall(t, v) PROVE NF!EnqueueCall(t, v)
  <2> USE <1>2 DEF EnqueueCall
  <2>1. PICK n \in Node \ used :
          /\ heap' = heap \cup {n} /\ used' = used \cup {n}
          /\ NewNode(n, v) /\ node' = [node EXCEPT ![t] = n]
          /\ pos' = [pos EXCEPT ![n] = 0]
    BY DEF Fresh
  <2>2. pos' = pos
    BY <2>1 DEF IInv, TypeOK, NF!IInv, NF!ListInv
  <2>3. Ptrs(next)' = [Ptrs(next) EXCEPT ![n] = Null]
    BY <2>1, PointerFacts DEF IInv, TypeOK, Ptrs
  <2>4. /\ Ptrs(cur_head)' = Ptrs(cur_head) /\ Ptrs(cur_tail)' = Ptrs(cur_tail)
        /\ Ptrs(lnext)' = Ptrs(lnext)
    BY DEF Ptrs
  <2> QED BY <2>1, <2>2, <2>3, <2>4
          DEF NF!EnqueueCall, NF!NewNode, NF!Goto, NF!history
<1> QED BY <1>1, <1>2 DEF Call, NF!Call

LEMMA EnqueueStepIsNoFree ==
  ASSUME IInv, Reuse = FALSE, NEW t \in Thread, EnqueueStep(t)
  PROVE  NF!EnqueueStep(t)
<1> USE SameComparisons
    DEF NF!Goto, NF!CasTail, NF!shared, NF!locals, NF!caller, NF!history
<1>0. /\ TypeOK /\ NF!EnqueueInv(t)
      /\ \A n \in Node : next[n].ptr = Null => next[n] = Pointer(Null, 0)
      /\ lnext[t].ptr = Null => lnext[t] = Pointer(Null, 0)
  BY DEF IInv, NF!IInv, NullInv
<1>1. CASE EnqueueLoadTail(t)
  <2>1. Ptrs(cur_tail)' = [Ptrs(cur_tail) EXCEPT ![t] = tail.ptr]
    BY <1>0, <1>1 DEF EnqueueLoadTail, TypeOK, Ptrs
  <2>2. NF!EnqueueLoadTail(t)
    BY <1>1, <2>1 DEF EnqueueLoadTail, NF!EnqueueLoadTail, Ptrs
  <2> QED BY <2>2 DEF NF!EnqueueStep
<1>2. CASE EnqueueLoadNext(t)
  <2>1. cur_tail[t].ptr \in Node
    BY <1>0, <1>2 DEF EnqueueLoadNext, NF!EnqueueInv, NF!EnqueuePC
  <2>2. Ptrs(lnext)' = [Ptrs(lnext) EXCEPT ![t] = Ptrs(next)[cur_tail[t].ptr]]
    <3>1. lnext' = [lnext EXCEPT ![t] = next[cur_tail[t].ptr]]
      <4>1. NextAt(cur_tail[t].ptr) = {next[cur_tail[t].ptr]}
        BY NextStays
      <4>2. PICK p \in NextAt(cur_tail[t].ptr) : lnext' = [lnext EXCEPT ![t] = p]
        BY <1>2 DEF EnqueueLoadNext
      <4> QED BY <4>1, <4>2
    <3> QED BY <1>0, <2>1, <3>1 DEF TypeOK, Ptrs
  <2>3. NF!EnqueueLoadNext(t)
    BY <1>2, <2>2 DEF EnqueueLoadNext, NF!EnqueueLoadNext, Ptrs
  <2> QED BY <2>3 DEF NF!EnqueueStep
<1>3. CASE EnqueueCheckTail(t)
  <2>1. NF!EnqueueCheckTail(t)
    BY <1>3 DEF EnqueueCheckTail, NF!EnqueueCheckTail, Ptrs
  <2> QED BY <2>1 DEF NF!EnqueueStep
<1>4. CASE EnqueueLink(t)
  <2>1. cur_tail[t].ptr \in Node /\ node[t] \in Node /\ lnext[t].count + 1 \in Nat
    BY <1>0, <1>4 DEF EnqueueLink, TypeOK, NF!EnqueueInv, NF!EnqueuePC,
                      NF!Inserting
  <2>2. Ptrs(next)' = [Ptrs(next) EXCEPT ![cur_tail[t].ptr] = node[t]]
    <3>1. PICK p : p = Pointer(node[t], lnext[t].count + 1) /\ p.ptr = node[t]
      BY PointerFacts
    <3>2. next' = [next EXCEPT ![cur_tail[t].ptr] = p]
      BY <1>4, <3>1 DEF EnqueueLink
    <3> QED BY <1>0, <2>1, <3>1, <3>2 DEF TypeOK, Ptrs
  <2>3. /\ Ptrs(cur_head)' = Ptrs(cur_head) /\ Ptrs(cur_tail)' = Ptrs(cur_tail)
        /\ Ptrs(lnext)' = Ptrs(lnext)
    BY <1>4 DEF EnqueueLink, Ptrs
  <2>4. Ptrs(next)[Ptrs(cur_tail)[t]] = Ptrs(lnext)[t]
    BY NextStays, <1>4, <2>1 DEF EnqueueLink
  <2>5. NF!EnqueueLink(t)
    BY <1>4, <2>2, <2>3, <2>4 DEF EnqueueLink, NF!EnqueueLink
  <2> QED BY <2>5 DEF NF!EnqueueStep
<1>5. CASE EnqueueLinkFails(t)
  <2>1. cur_tail[t].ptr \in Node /\ lnext[t].ptr = Null
    BY <1>0, <1>5 DEF EnqueueLinkFails, NF!EnqueueInv, NF!EnqueuePC
  <2>2. next[cur_tail[t].ptr].ptr # lnext[t].ptr
    BY NextStays, <1>0, <1>5, <2>1 DEF EnqueueLinkFails
  <2>3. /\ Ptrs(next)' = Ptrs(next) /\ Ptrs(cur_head)' = Ptrs(cur_head)
        /\ Ptrs(cur_tail)' = Ptrs(cur_tail) /\ Ptrs(lnext)' = Ptrs(lnext)
    BY <1>5 DEF EnqueueLinkFails, Ptrs
  <2>4. Ptrs(next)[Ptrs(cur_tail)[t]] # Ptrs(lnext)[t]
    BY <2>1, <2>2, SameComparisons
  <2>5. NF!EnqueueLinkFails(t)
    BY <1>5, <2>3, <2>4 DEF EnqueueLinkFails, NF!EnqueueLinkFails
  <2> QED BY <2>5 DEF NF!EnqueueStep
<1>6. CASE EnqueueHelpTail(t)
  <2>1. /\ Ptrs(cur_head)' = Ptrs(cur_head) /\ Ptrs(cur_tail)' = Ptrs(cur_tail)
        /\ Ptrs(lnext)' = Ptrs(lnext) /\ Ptrs(next)' = Ptrs(next)
    BY <1>6 DEF EnqueueHelpTail, Ptrs
  <2>2. NF!CasTail(t, Ptrs(lnext)[t])
    BY <1>6, PointerFacts DEF EnqueueHelpTail
  <2>3. NF!EnqueueHelpTail(t)
    BY <1>6, <2>1, <2>2 DEF EnqueueHelpTail, NF!EnqueueHelpTail
  <2> QED BY <2>3 DEF NF!EnqueueStep
<1>7. CASE EnqueueSwingTail(t)
  <2>1. /\ Ptrs(cur_tail)' = [Ptrs(cur_tail) EXCEPT ![t] = Null]
        /\ Ptrs(lnext)' = [Ptrs(lnext) EXCEPT ![t] = Null]
    BY <1>0, <1>7, PointerFacts DEF EnqueueSwingTail, TypeOK, Ptrs
  <2>2. NF!EnqueueSwingTail(t)
    BY <1>7, <2>1, PointerFacts DEF EnqueueSwingTail, NF!EnqueueSwingTail, Ptrs
  <2> QED BY <2>2 DEF NF!EnqueueStep
<1> QED BY <1>1, <1>2, <1>3, <1>4, <1>5, <1>6, <1>7 DEF EnqueueStep

\* The one step that may differ: a value read too late.
LateRead(t) ==
  /\ DequeueReadValue(t)
  /\ head # cur_head[t]
  /\ out' = [out EXCEPT ![t] = out'[t]]

LEMMA DequeueStepIsNoFree ==
  ASSUME IInv, Reuse = FALSE, NEW t \in Thread, DequeueStep(t), ~LateRead(t)
  PROVE  NF!DequeueStep(t)
<1> USE SameComparisons
    DEF NF!Goto, NF!CasTail, NF!shared, NF!locals, NF!caller, NF!history
<1>0. TypeOK /\ NF!DequeueInv(t)
  BY DEF IInv, NF!IInv
<1>1. CASE DequeueLoadHead(t)
  <2>1. Ptrs(cur_head)' = [Ptrs(cur_head) EXCEPT ![t] = head.ptr]
    BY <1>0, <1>1 DEF DequeueLoadHead, TypeOK, Ptrs
  <2>2. NF!DequeueLoadHead(t)
    BY <1>1, <2>1 DEF DequeueLoadHead, NF!DequeueLoadHead, Ptrs
  <2> QED BY <2>2 DEF NF!DequeueStep
<1>2. CASE DequeueLoadTail(t)
  <2>1. Ptrs(cur_tail)' = [Ptrs(cur_tail) EXCEPT ![t] = tail.ptr]
    BY <1>0, <1>2 DEF DequeueLoadTail, TypeOK, Ptrs
  <2>2. NF!DequeueLoadTail(t)
    BY <1>2, <2>1 DEF DequeueLoadTail, NF!DequeueLoadTail, Ptrs
  <2> QED BY <2>2 DEF NF!DequeueStep
<1>3. CASE DequeueLoadNext(t)
  <2>1. cur_head[t].ptr \in Node
    BY <1>0, <1>3 DEF DequeueLoadNext, NF!DequeueInv, NF!DequeuePC
  <2>2. Ptrs(lnext)' = [Ptrs(lnext) EXCEPT ![t] = Ptrs(next)[cur_head[t].ptr]]
    <3>1. lnext' = [lnext EXCEPT ![t] = next[cur_head[t].ptr]]
      <4>1. NextAt(cur_head[t].ptr) = {next[cur_head[t].ptr]}
        BY NextStays
      <4>2. PICK p \in NextAt(cur_head[t].ptr) : lnext' = [lnext EXCEPT ![t] = p]
        BY <1>3 DEF DequeueLoadNext
      <4> QED BY <4>1, <4>2
    <3> QED BY <1>0, <2>1, <3>1 DEF TypeOK, Ptrs
  <2>3. NF!DequeueLoadNext(t)
    BY <1>3, <2>2 DEF DequeueLoadNext, NF!DequeueLoadNext, Ptrs
  <2> QED BY <2>3 DEF NF!DequeueStep
<1>4. CASE DequeueCheckHead(t)
  <2>1. NF!DequeueCheckHead(t)
    BY <1>4 DEF DequeueCheckHead, NF!DequeueCheckHead, Ptrs
  <2> QED BY <2>1 DEF NF!DequeueStep
<1>5. ASSUME NEW r, DequeueReturns(t, r) PROVE NF!DequeueReturns(t, r)
  <2>1. /\ Ptrs(cur_head)' = [Ptrs(cur_head) EXCEPT ![t] = Null]
        /\ Ptrs(cur_tail)' = [Ptrs(cur_tail) EXCEPT ![t] = Null]
        /\ Ptrs(lnext)' = [Ptrs(lnext) EXCEPT ![t] = Null]
    BY <1>0, <1>5, PointerFacts DEF DequeueReturns, TypeOK, Ptrs
  <2> QED BY <1>5, <2>1 DEF DequeueReturns, NF!DequeueReturns, Ptrs
<1>6. CASE DequeueEmpty(t)
  <2>1. NF!DequeueEmpty(t)
    BY <1>5, <1>6 DEF DequeueEmpty, NF!DequeueEmpty
  <2> QED BY <2>1 DEF NF!DequeueStep
<1>7. CASE DequeueHelpTail(t)
  <2>1. /\ Ptrs(cur_head)' = Ptrs(cur_head) /\ Ptrs(cur_tail)' = Ptrs(cur_tail)
        /\ Ptrs(lnext)' = Ptrs(lnext) /\ Ptrs(next)' = Ptrs(next)
    BY <1>7 DEF DequeueHelpTail, Ptrs
  <2>2. NF!CasTail(t, Ptrs(lnext)[t])
    BY <1>7, PointerFacts DEF DequeueHelpTail
  <2>3. NF!DequeueHelpTail(t)
    BY <1>7, <2>1, <2>2 DEF DequeueHelpTail, NF!DequeueHelpTail
  <2> QED BY <2>3 DEF NF!DequeueStep
<1>8. CASE DequeueReadValue(t)
  <2>1. head = cur_head[t]
    BY <1>0, <1>8 DEF LateRead, DequeueReadValue, TypeOK
  <2>2. lnext[t].ptr \in heap
    <3>1. lnext[t].ptr = next[head.ptr].ptr /\ lnext[t].ptr # Null
      BY <1>0, <1>8, <2>1 DEF DequeueReadValue, NF!DequeueInv, TypeOK
    <3>2. head.ptr \in Node /\ Ptrs(next)[head.ptr] = lnext[t].ptr
      BY <1>0, <3>1 DEF TypeOK
    <3>3. lnext[t].ptr \in Node /\ pos[lnext[t].ptr] = pos[head.ptr] + 1
      BY <1>0, <3>1, <3>2 DEF TypeOK, IInv, NF!IInv, NF!ListInv
    <3>4. lnext[t].ptr \in used
      BY <1>0, <3>3 DEF TypeOK, IInv, NF!IInv, NF!ListInv
    <3> QED BY <1>0, <3>3, <3>4 DEF IInv, AliveInv, TypeOK
  <2>3. NF!DequeueReadValue(t)
    BY <1>8, <2>2 DEF DequeueReadValue, ValueAt, NF!DequeueReadValue, Ptrs
  <2> QED BY <2>3 DEF NF!DequeueStep
<1>9. CASE DequeueSwingHead(t)
  <2>1. NF!DequeueSwingHead(t)
    BY <1>9, PointerFacts DEF DequeueSwingHead, NF!DequeueSwingHead, Ptrs
  <2> QED BY <2>1 DEF NF!DequeueStep
<1>10. CASE DequeueSwingFails(t)
  <2>1. NF!DequeueSwingFails(t)
    BY <1>10 DEF DequeueSwingFails, NF!DequeueSwingFails, Ptrs
  <2> QED BY <2>1 DEF NF!DequeueStep
<1>11. CASE DequeueReturn(t)
  <2>1. NF!DequeueReturn(t)
    BY <1>5, <1>11 DEF DequeueReturn, NF!DequeueReturn
  <2> QED BY <2>1 DEF NF!DequeueStep
<1> QED BY <1>1, <1>2, <1>3, <1>4, <1>6, <1>7, <1>8, <1>9, <1>10, <1>11
       DEF DequeueStep

-----------------------------------------------------------------------------
(* They keep the invariant.                                                *)

\* A move of tail to the next node, or none.
LEMMA TailMoves ==
  ASSUME IInv, NEW t \in Thread, NEW n \in Node, CasTail(t, n),
         tail = cur_tail[t] => next[tail.ptr].ptr = n
  PROVE  /\ tail' \in PointerType /\ tail'.ptr \in Node
         /\ \A u \in Thread : cur_tail[u].ptr # Null =>
              /\ 1 <= pos[cur_tail[u].ptr]
              /\ pos[cur_tail[u].ptr] <= pos[tail'.ptr]
              /\ cur_tail[u].ptr = tail'.ptr => cur_tail[u] = tail'
<1>0. TypeOK /\ LoadedInv
  BY DEF IInv
<1>1. CASE tail # cur_tail[t]
  BY <1>0, <1>1 DEF TypeOK, LoadedInv
<1>2. CASE tail = cur_tail[t]
  <2>1. tail' = Pointer(n, tail.count + 1)
    BY <1>2
  <2>2. tail.count + 1 \in Nat
    BY <1>0 DEF TypeOK
  <2>3. tail' \in PointerType /\ tail'.ptr = n
    <3>1. /\ Pointer(n, tail.count + 1) \in PointerType
          /\ Pointer(n, tail.count + 1).ptr = n
      BY <2>2, PointerFacts
    <3> QED BY <2>1, <3>1
  <2>4. Ptrs(next)[tail.ptr] = n
    BY <1>0, <1>2, SameComparisons DEF TypeOK
  <2>5. pos[n] = pos[tail.ptr] + 1
    BY <1>0, <2>4 DEF TypeOK, IInv, NF!IInv, NF!ListInv
  <2> QED BY <1>0, <2>3, <2>5 DEF TypeOK, LoadedInv
<1> QED BY <1>1, <1>2

LEMMA CallKeepsIInv ==
  ASSUME IInv, Reuse = FALSE, NEW t \in Thread, Call(t)
  PROVE  IInv'
<1>0. TypeOK /\ LoadedInv /\ NullInv /\ AliveInv
  BY DEF IInv
<1>1. NF!IInv'
  BY CallIsNoFree, NF!CallKeepsIInv DEF IInv
<1>2. CASE DequeueCall(t)
  BY <1>0, <1>1, <1>2 DEF DequeueCall, IInv, TypeOK, LoadedInv, NullInv, AliveInv
<1>3. ASSUME NEW v \in Value, EnqueueCall(t, v) PROVE IInv'
  <2> USE <1>3 DEF EnqueueCall
  <2>1. PICK n \in Node \ used :
          /\ heap' = heap \cup {n} /\ used' = used \cup {n}
          /\ NewNode(n, v) /\ node' = [node EXCEPT ![t] = n]
          /\ pos' = [pos EXCEPT ![n] = 0]
    BY DEF Fresh
  <2>2. pos' = pos
    BY <2>1 DEF IInv, TypeOK, NF!IInv, NF!ListInv
  <2>3. TypeOK'
    <3>1. Pointer(Null, 0) \in PointerType
      BY PointerFacts
    <3>2. next' = [next EXCEPT ![n] = Pointer(Null, 0)]
      BY <2>1
    <3>3. next' \in [Node -> PointerType]
      BY <1>0, <3>1, <3>2 DEF TypeOK
    <3> QED BY <1>0, <2>1, <2>2, <3>3 DEF TypeOK
  <2>4. LoadedInv'
    BY <1>0, <2>2 DEF LoadedInv
  <2>5. NullInv'
    BY <1>0, <2>1, PointerFacts DEF NullInv, TypeOK
  <2>6. AliveInv'
    BY <1>0, <2>1, <2>2 DEF AliveInv, TypeOK
  <2> QED BY <1>1, <2>3, <2>4, <2>5, <2>6 DEF IInv
<1> QED BY <1>2, <1>3 DEF Call

LEMMA EnqueueStepKeepsIInv ==
  ASSUME IInv, Reuse = FALSE, NEW t \in Thread, EnqueueStep(t)
  PROVE  IInv'
<1>0. /\ TypeOK /\ LoadedInv /\ NullInv /\ AliveInv
      /\ NF!EnqueueInv(t) /\ NF!EndsInv /\ NF!ListInv
  BY DEF IInv, NF!IInv
<1>00. NF!IInv'
  BY EnqueueStepIsNoFree, NF!EnqueueStepKeepsIInv DEF IInv
<1>1. CASE EnqueueLoadTail(t)
  <2> USE <1>1 DEF EnqueueLoadTail
  <2>1. 1 <= pos[tail.ptr]
    BY <1>0 DEF TypeOK, NF!EndsInv, NF!TailBounds
  <2>2. TypeOK'
    BY <1>0 DEF TypeOK
  <2>3. LoadedInv'
    BY <1>0, <2>1 DEF LoadedInv, TypeOK
  <2> QED BY <1>0, <1>00, <2>2, <2>3 DEF IInv, NullInv, AliveInv, TypeOK
<1>2. CASE EnqueueLoadNext(t)
  <2> USE NextStays, <1>2 DEF EnqueueLoadNext
  <2>1. cur_tail[t].ptr \in Node
    BY <1>0, SameComparisons DEF NF!EnqueueInv, NF!EnqueuePC
  <2>2. TypeOK' /\ NullInv'
    BY <1>0, <2>1 DEF TypeOK, NullInv
  <2> QED BY <1>0, <1>00, <2>2 DEF IInv, LoadedInv, AliveInv, TypeOK
<1>3. CASE EnqueueCheckTail(t)
  <2> USE <1>3 DEF EnqueueCheckTail
  <2>1. TypeOK'
    BY <1>0 DEF TypeOK
  <2> QED BY <1>0, <1>00, <2>1 DEF IInv, LoadedInv, NullInv, AliveInv, TypeOK
<1>4. CASE EnqueueLink(t)
  <2> USE <1>4 DEF EnqueueLink
  <2>1. /\ cur_tail[t].ptr \in Node /\ node[t] \in used
        /\ pos[node[t]] = 0 /\ lnext[t].count + 1 \in Nat
    BY <1>0, SameComparisons
       DEF TypeOK, NF!EnqueueInv, NF!EnqueuePC, NF!Inserting
  <2>2. PICK p \in PointerType :
          /\ p.ptr = node[t]
          /\ next' = [next EXCEPT ![cur_tail[t].ptr] = p]
    <3>1. Pointer(node[t], lnext[t].count + 1) \in PointerType
      BY <1>0, <2>1, PointerFacts DEF TypeOK
    <3> QED BY <3>1, PointerFacts
  <2>3. TypeOK'
    BY <1>0, <2>1, <2>2 DEF TypeOK
  <2>4. \A m \in Node : m # node[t] => pos'[m] = pos[m]
    BY <1>0 DEF TypeOK
  <2>5. 1 <= pos[head.ptr] /\ 1 <= pos[tail.ptr]
    BY <1>0 DEF TypeOK, NF!EndsInv, NF!TailBounds
  <2>6. LoadedInv'
    BY <1>0, <2>1, <2>4, <2>5 DEF LoadedInv, TypeOK
  <2>7. NullInv'
    BY <1>0, <2>1, <2>2 DEF NullInv, TypeOK
  <2>8. AliveInv'
    BY <1>0, <2>1, <2>4, <2>5 DEF AliveInv, TypeOK
  <2> QED BY <1>00, <2>3, <2>6, <2>7, <2>8 DEF IInv
<1>5. CASE EnqueueLinkFails(t)
  <2> USE <1>5 DEF EnqueueLinkFails
  <2>1. TypeOK'
    BY <1>0 DEF TypeOK
  <2> QED BY <1>0, <1>00, <2>1 DEF IInv, LoadedInv, NullInv, AliveInv, TypeOK
<1>6. CASE EnqueueHelpTail(t)
  <2> USE <1>6 DEF EnqueueHelpTail
  <2>1. /\ lnext[t].ptr \in Node
        /\ tail = cur_tail[t] => next[tail.ptr].ptr = lnext[t].ptr
    BY <1>0, SameComparisons DEF TypeOK, NF!EnqueueInv
  <2>2. TypeOK' /\ LoadedInv'
    BY <1>0, <2>1, TailMoves DEF TypeOK, LoadedInv
  <2> QED BY <1>0, <1>00, <2>2 DEF IInv, NullInv, AliveInv, TypeOK
<1>7. CASE EnqueueSwingTail(t)
  <2> USE <1>7 DEF EnqueueSwingTail
  <2>1. /\ node[t] \in Node
        /\ tail = cur_tail[t] => next[tail.ptr].ptr = node[t]
    BY <1>0, SameComparisons DEF TypeOK, NF!EnqueueInv, NF!EnqueuePC
  <2>2. /\ tail' \in PointerType /\ tail'.ptr \in Node
        /\ \A u \in Thread : cur_tail[u].ptr # Null =>
             /\ 1 <= pos[cur_tail[u].ptr]
             /\ pos[cur_tail[u].ptr] <= pos[tail'.ptr]
             /\ cur_tail[u].ptr = tail'.ptr => cur_tail[u] = tail'
    BY <2>1, TailMoves
  <2>3. \A u \in Thread : cur_tail'[u].ptr # Null => cur_tail'[u] = cur_tail[u]
    BY <1>0, PointerFacts DEF TypeOK
  <2>4. TypeOK'
    BY <1>0, <2>2, PointerFacts DEF TypeOK
  <2>5. LoadedInv'
    BY <1>0, <2>2, <2>3 DEF LoadedInv, TypeOK
  <2>6. NullInv'
    BY <1>0, PointerFacts DEF NullInv, TypeOK
  <2> QED BY <1>0, <1>00, <2>4, <2>5, <2>6 DEF IInv, AliveInv, TypeOK
<1> QED BY <1>1, <1>2, <1>3, <1>4, <1>5, <1>6, <1>7 DEF EnqueueStep

LEMMA DequeueStepKeepsIInv ==
  ASSUME IInv, Reuse = FALSE, NEW t \in Thread, DequeueStep(t)
  PROVE  IInv'
<1>0. /\ TypeOK /\ LoadedInv /\ NullInv /\ AliveInv
      /\ NF!DequeueInv(t) /\ NF!EndsInv /\ NF!ListInv
  BY DEF IInv, NF!IInv
<1>00. NF!IInv'
  <2>1. CASE LateRead(t)
    <3> USE <2>1 DEF LateRead, DequeueReadValue, ValueAt
    <3>1. /\ head.ptr # cur_head[t].ptr /\ out' \in [Thread -> Value \cup {NoValue}]
      <4>1. head.ptr # Ptrs(cur_head)[t] /\ Ptrs(cur_head)[t] = cur_head[t].ptr
        BY SameComparisons
      <4>2. out' \in [Thread -> Value \cup {NoValue}]
        BY <1>0 DEF TypeOK
      <4> QED BY <4>1, <4>2
    <3>2. /\ NF!TypeOK /\ NF!ListInv /\ NF!EndsInv
          /\ \A u \in Thread : NF!EnqueueInv(u) /\ NF!DequeueInv(u)
      BY DEF IInv, NF!IInv
    <3>3. /\ Ptrs(next)' = Ptrs(next) /\ Ptrs(cur_head)' = Ptrs(cur_head)
          /\ Ptrs(cur_tail)' = Ptrs(cur_tail) /\ Ptrs(lnext)' = Ptrs(lnext)
      BY DEF Ptrs
    <3>4. NF!TypeOK' /\ NF!ListInv' /\ NF!EndsInv'
      BY <3>1, <3>2, <3>3
         DEF NF!TypeOK, NF!ListInv, NF!EndsInv, NF!TailBounds, NF!EnqueuePC,
             NF!DequeuePC
    <3>5. \A u \in Thread : NF!EnqueueInv(u)'
      BY <1>0, <3>2, <3>3
         DEF NF!EnqueueInv, NF!EnqueuePC, NF!Inserting, TypeOK
    <3>6. \A u \in Thread : NF!DequeueInv(u)'
      BY <1>0, <3>1, <3>2, <3>3, SameComparisons
         DEF NF!DequeueInv, NF!DequeuePC, TypeOK
    <3> QED BY <3>4, <3>5, <3>6 DEF NF!IInv
  <2>2. CASE ~LateRead(t)
    BY <2>2, DequeueStepIsNoFree, NF!DequeueStepKeepsIInv DEF IInv
  <2> QED BY <2>1, <2>2
<1>1. CASE DequeueLoadHead(t)
  <2> USE <1>1 DEF DequeueLoadHead
  <2>1. 1 <= pos[head.ptr]
    BY <1>0 DEF TypeOK, NF!EndsInv
  <2>2. TypeOK'
    BY <1>0 DEF TypeOK
  <2>3. LoadedInv'
    BY <1>0, <2>1 DEF LoadedInv, TypeOK
  <2>4. AliveInv'
    BY <1>0 DEF AliveInv, TypeOK
  <2> QED BY <1>0, <1>00, <2>2, <2>3, <2>4 DEF IInv, NullInv
<1>2. CASE DequeueLoadTail(t)
  <2> USE <1>2 DEF DequeueLoadTail
  <2>1. 1 <= pos[tail.ptr]
    BY <1>0 DEF TypeOK, NF!EndsInv, NF!TailBounds
  <2>2. TypeOK'
    BY <1>0 DEF TypeOK
  <2>3. LoadedInv'
    BY <1>0, <2>1 DEF LoadedInv, TypeOK
  <2> QED BY <1>0, <1>00, <2>2, <2>3 DEF IInv, NullInv, AliveInv, TypeOK
<1>3. CASE DequeueLoadNext(t)
  <2> USE NextStays, <1>3 DEF DequeueLoadNext
  <2>1. cur_head[t].ptr \in Node
    BY <1>0, SameComparisons DEF NF!DequeueInv, NF!DequeuePC
  <2>2. TypeOK' /\ NullInv'
    BY <1>0, <2>1 DEF TypeOK, NullInv
  <2> QED BY <1>0, <1>00, <2>2 DEF IInv, LoadedInv, AliveInv, TypeOK
<1>4. CASE DequeueCheckHead(t)
  <2> USE <1>4 DEF DequeueCheckHead
  <2>1. TypeOK'
    BY <1>0 DEF TypeOK
  <2> QED BY <1>0, <1>00, <2>1 DEF IInv, LoadedInv, NullInv, AliveInv, TypeOK
<1>5. ASSUME NEW r \in {"true", "false"}, DequeueReturns(t, r),
             \E from \in DequeuePC : Goto(t, from, "idle"),
             heap' \subseteq heap,
             \A n \in heap \ heap' : 1 <= pos[n] /\ pos[n] < pos[head.ptr]
      PROVE  IInv'
  <2> USE <1>5 DEF DequeueReturns
  <2>1. TypeOK'
    <3>1. Pointer(Null, 0) \in PointerType
      BY PointerFacts
    <3>2. /\ cur_head' \in [Thread -> PointerType]
          /\ cur_tail' \in [Thread -> PointerType]
          /\ lnext' \in [Thread -> PointerType]
      BY <1>0, <3>1 DEF TypeOK
    <3> QED BY <1>0, <3>2 DEF TypeOK
  <2>2. LoadedInv'
    BY <1>0, PointerFacts DEF LoadedInv, TypeOK
  <2>3. NullInv'
    BY <1>0, PointerFacts DEF NullInv, TypeOK
  <2>4. AliveInv'
    BY <1>0 DEF AliveInv, TypeOK
  <2> QED BY <1>00, <2>1, <2>2, <2>3, <2>4 DEF IInv
<1>6. CASE DequeueEmpty(t)
  BY <1>5, <1>6 DEF DequeueEmpty
<1>7. CASE DequeueHelpTail(t)
  <2> USE <1>7 DEF DequeueHelpTail
  <2>1. /\ lnext[t].ptr \in Node
        /\ tail = cur_tail[t] => next[tail.ptr].ptr = lnext[t].ptr
    BY <1>0, SameComparisons DEF TypeOK, NF!DequeueInv
  <2>2. TypeOK' /\ LoadedInv'
    BY <1>0, <2>1, TailMoves DEF TypeOK, LoadedInv
  <2> QED BY <1>0, <1>00, <2>2 DEF IInv, NullInv, AliveInv, TypeOK
<1>8. CASE DequeueReadValue(t)
  <2> USE <1>8 DEF DequeueReadValue, ValueAt
  <2>1. lnext[t].ptr \in Node
    BY <1>0, SameComparisons DEF TypeOK, NF!DequeueInv
  <2>2. TypeOK'
    BY <1>0, <2>1 DEF TypeOK
  <2> QED BY <1>0, <1>00, <2>2 DEF IInv, LoadedInv, NullInv, AliveInv, TypeOK
<1>9. CASE DequeueSwingHead(t)
  <2> USE <1>9 DEF DequeueSwingHead
  <2>1. /\ lnext[t].ptr \in Node /\ head.count + 1 \in Nat
        /\ Ptrs(next)[head.ptr] = lnext[t].ptr
    BY <1>0, SameComparisons DEF TypeOK, NF!DequeueInv
  <2>2. pos[lnext[t].ptr] = pos[head.ptr] + 1
    BY <1>0, <2>1 DEF TypeOK, NF!ListInv
  <2>3. head' \in PointerType /\ head'.ptr = lnext[t].ptr
    <3>1. /\ Pointer(lnext[t].ptr, head.count + 1) \in PointerType
          /\ Pointer(lnext[t].ptr, head.count + 1).ptr = lnext[t].ptr
      BY <2>1, PointerFacts
    <3> QED BY <3>1
  <2>4. TypeOK'
    BY <1>0, <2>1, <2>3 DEF TypeOK
  <2>5. LoadedInv'
    BY <1>0, <2>1, <2>2, <2>3 DEF LoadedInv, TypeOK
  <2>6. AliveInv'
    BY <1>0, <2>1, <2>2, <2>3 DEF AliveInv, LoadedInv, TypeOK
  <2> QED BY <1>0, <1>00, <2>4, <2>5, <2>6 DEF IInv, NullInv
<1>10. CASE DequeueSwingFails(t)
  <2> USE <1>10 DEF DequeueSwingFails
  <2>1. TypeOK'
    BY <1>0 DEF TypeOK
  <2> QED BY <1>0, <1>00, <2>1 DEF IInv, LoadedInv, NullInv, AliveInv, TypeOK
<1>11. CASE DequeueReturn(t)
  BY <1>0, <1>5, <1>11 DEF DequeueReturn, AliveInv
<1> QED BY <1>1, <1>2, <1>3, <1>4, <1>6, <1>7, <1>8, <1>9, <1>10, <1>11
       DEF DequeueStep

LEMMA InitIInv == Init => IInv
<1> SUFFICES ASSUME Init PROVE IInv
  OBVIOUS
<1>1. /\ Pointer(Fake, 0) \in PointerType /\ Pointer(Fake, 0).ptr = Fake
      /\ Pointer(Null, 0) \in PointerType /\ Pointer(Null, 0).ptr = Null
  BY PointerFacts
<1>2. TypeOK
  BY <1>1 DEF Init, TypeOK
<1>3. NF!Init
  BY <1>1 DEF Init, NF!Init, Ptrs
<1>4. NF!IInv
  BY <1>3, NF!InitIInv
<1>5. LoadedInv /\ NullInv /\ AliveInv
  BY <1>1 DEF Init, LoadedInv, NullInv, AliveInv
<1> QED BY <1>2, <1>4, <1>5 DEF IInv

LEMMA IInvInductive ==
  ASSUME IInv, Reuse = FALSE, [Next]_vars
  PROVE  IInv'
<1>1. CASE UNCHANGED vars
  <2>1. /\ Ptrs(next)' = Ptrs(next) /\ Ptrs(cur_head)' = Ptrs(cur_head)
        /\ Ptrs(cur_tail)' = Ptrs(cur_tail) /\ Ptrs(lnext)' = Ptrs(lnext)
    BY <1>1 DEF vars, Ptrs
  <2>2. NF!IInv'
    BY <1>1, <2>1 DEF vars, IInv, NF!IInv, NF!TypeOK, NF!ListInv, NF!EndsInv,
                      NF!TailBounds, NF!EnqueueInv, NF!DequeueInv
  <2> QED BY <1>1, <2>2 DEF vars, IInv, TypeOK, LoadedInv, NullInv, AliveInv
<1>2. CASE Next
  BY <1>2, CallKeepsIInv, EnqueueStepKeepsIInv, DequeueStepKeepsIInv DEF Next
<1> QED BY <1>1, <1>2

LEMMA Invariance == Reuse = FALSE => (Spec => []IInv)
<1>1. (Reuse = FALSE) /\ IInv /\ [Next]_vars => IInv'
  BY IInvInductive
<1>2. CASE Reuse = FALSE
  BY <1>1, <1>2, InitIInv, PTL DEF Spec
<1> QED BY <1>2

-----------------------------------------------------------------------------
(* Linearizability                                                         *)

\* A late read changes nothing FifoQueue sees: out counts for the abstract
\* state only once head has moved.
LEMMA LateReadRefines ==
  ASSUME IInv, IInv', NEW t \in Thread, LateRead(t)
  PROVE  UNCHANGED NF!Queue!vars
<1> USE DEF LateRead, DequeueReadValue
<1>0. TypeOK /\ NF!DequeueInv(t)
  BY DEF IInv, NF!IInv
<1>1. /\ Ptrs(next)' = Ptrs(next) /\ Ptrs(cur_head)' = Ptrs(cur_head)
      /\ Ptrs(cur_tail)' = Ptrs(cur_tail) /\ Ptrs(lnext)' = Ptrs(lnext)
  BY DEF Ptrs
<1>2. NF!queueBar' = NF!queueBar
  BY DEF NF!queueBar, NF!At
<1>3. NF!phaseBar' = NF!phaseBar
  BY <1>0, <1>1 DEF NF!phaseBar, NF!Inserting, NF!EnqueuePC, TypeOK
<1>4. NF!datumBar' = NF!datumBar
  BY <1>0, <1>1 DEF NF!datumBar, NF!Inserting, NF!EnqueuePC, TypeOK
<1> QED BY <1>2, <1>3, <1>4 DEF NF!Queue!vars

LEMMA NextRefines ==
  ASSUME IInv, IInv', Reuse = FALSE, [Next]_vars
  PROVE  NF!Queue!Next \/ UNCHANGED NF!Queue!vars
<1>0. NF!IInv /\ NF!IInv'
  BY DEF IInv
<1>1. CASE UNCHANGED vars
  <2>1. UNCHANGED NF!vars
    BY <1>1 DEF vars, NF!vars, NF!shared, NF!locals, NF!caller, NF!history, Ptrs
  <2> QED BY <1>0, <2>1, NF!StutterRefines
<1>2. ASSUME NEW t \in Thread, Call(t)
      PROVE  NF!Queue!Next \/ UNCHANGED NF!Queue!vars
  BY <1>0, <1>2, CallIsNoFree, NF!CallRefines
<1>3. ASSUME NEW t \in Thread, EnqueueStep(t)
      PROVE  NF!Queue!Next \/ UNCHANGED NF!Queue!vars
  BY <1>0, <1>3, EnqueueStepIsNoFree, NF!EnqueueStepRefines
<1>4. ASSUME NEW t \in Thread, DequeueStep(t)
      PROVE  NF!Queue!Next \/ UNCHANGED NF!Queue!vars
  <2>1. CASE LateRead(t)
    BY <1>4, <2>1, LateReadRefines
  <2>2. CASE ~LateRead(t)
    BY <1>0, <1>4, <2>2, DequeueStepIsNoFree, NF!DequeueStepRefines
  <2> QED BY <2>1, <2>2
<1> QED BY <1>1, <1>2, <1>3, <1>4 DEF Next

LEMMA InitRefines == Init => NF!Queue!Init
<1> SUFFICES ASSUME Init PROVE NF!Queue!Init
  OBVIOUS
<1>1. NF!Init
  BY PointerFacts DEF Init, NF!Init, Ptrs
<1> QED BY <1>1, NF!InitRefines

\* MSQueueCounted states its property through its own instance of
\* MSQueueNoFree, with the same mapping.
LEMMA SameQueue ==
  /\ NF!Queue!Init <=> NoFree!Queue!Init
  /\ NF!Queue!Next <=> NoFree!Queue!Next
  /\ UNCHANGED NF!Queue!vars <=> UNCHANGED NoFree!Queue!vars
<1>1. /\ NF!queueBar = NoFree!queueBar
      /\ NF!queueBar' = NoFree!queueBar'
  BY DEF NF!queueBar, NF!At, NoFree!queueBar, NoFree!At
<1>2. /\ NF!phaseBar = NoFree!phaseBar
      /\ NF!phaseBar' = NoFree!phaseBar'
  BY DEF NF!phaseBar, NF!Inserting, NF!EnqueuePC,
         NoFree!phaseBar, NoFree!Inserting, NoFree!EnqueuePC
<1>3. /\ NF!datumBar = NoFree!datumBar
      /\ NF!datumBar' = NoFree!datumBar'
  BY DEF NF!datumBar, NF!Inserting, NF!EnqueuePC,
         NoFree!datumBar, NoFree!Inserting, NoFree!EnqueuePC
<1>4. UNCHANGED NF!Queue!vars <=> UNCHANGED NoFree!Queue!vars
  BY <1>1, <1>2, <1>3 DEF NF!Queue!vars, NoFree!Queue!vars
<1>5. NF!Queue!Init <=> NoFree!Queue!Init
  BY <1>1, <1>2, <1>3 DEF NF!Queue!Init, NoFree!Queue!Init
<1>6. NF!Queue!Next <=> NoFree!Queue!Next
  BY <1>1, <1>2, <1>3
     DEF NF!Queue!Next, NF!Queue!Step, NF!Queue!CallEnqueue, NF!Queue!Enqueue,
         NF!Queue!ReturnEnqueue, NF!Queue!CallDequeue, NF!Queue!Dequeue,
         NF!Queue!ReturnDequeue, NF!Queue!ObserveEmpty, NF!Queue!Retry,
         NF!Queue!ReturnEmpty,
         NoFree!Queue!Next, NoFree!Queue!Step, NoFree!Queue!CallEnqueue,
         NoFree!Queue!Enqueue, NoFree!Queue!ReturnEnqueue,
         NoFree!Queue!CallDequeue, NoFree!Queue!Dequeue,
         NoFree!Queue!ReturnDequeue, NoFree!Queue!ObserveEmpty,
         NoFree!Queue!Retry, NoFree!Queue!ReturnEmpty
<1> QED BY <1>4, <1>5, <1>6

\* Deleting nodes at once does not hurt as long as the allocator leaves them
\* alone, addresses and contents: the queue is then linearizable, for any number of threads, nodes and
\* values, and however few bits the counters have.
THEOREM Linearizability == Reuse = FALSE => (Spec => Linearizable)
<1>1. (Reuse = FALSE) /\ IInv /\ IInv' /\ [Next]_vars
        => [NoFree!Queue!Next]_(NoFree!Queue!vars)
  BY NextRefines, SameQueue
<1>2. Init => NoFree!Queue!Init
  BY InitRefines, SameQueue
<1>3. CASE Reuse = FALSE
  BY <1>1, <1>2, <1>3, Invariance, PTL
     DEF Spec, Linearizable, NoFree!Linearizable, NoFree!Queue!Spec
<1> QED BY <1>3

\* Without reuse a link is only ever added after the last node of the list,
\* however long ago the thread read that its next was null.
THEOREM LinkedLast == Reuse = FALSE => (Spec => LinksAfterTheLast)
<1>1. ASSUME IInv, [Next]_vars
      PROVE  [\A n \in Node : next[n].ptr = Null /\ next'[n].ptr # Null =>
                pos[n] = linked]_vars
  <2> SUFFICES ASSUME NEW n \in Node, next[n].ptr = Null, next'[n].ptr # Null
               PROVE  pos[n] = linked
    OBVIOUS
  <2>0. TypeOK /\ NF!ListInv /\ NF!EndsInv /\ \A t \in Thread : NF!EnqueueInv(t)
    BY <1>1 DEF IInv, NF!IInv
  <2>1. PICK t \in Thread : EnqueueLink(t) /\ cur_tail[t].ptr = n
    <3>1. PICK t \in Thread : Call(t) \/ EnqueueStep(t) \/ DequeueStep(t)
      BY <1>1 DEF Next, vars
    <3>2. ~Call(t)
      <4>1. ~DequeueCall(t)
        BY DEF DequeueCall
      <4>2. ASSUME NEW v \in Value PROVE ~EnqueueCall(t, v)
        <5>1. ASSUME NEW m \in Fresh, next' = [next EXCEPT ![m] = Pointer(Null, 0)]
              PROVE  next'[n].ptr = Null
          BY <2>0, <5>1, PointerFacts DEF TypeOK
        <5> QED BY <5>1 DEF EnqueueCall
      <4> QED BY <4>1, <4>2 DEF Call
    <3>3. ~DequeueStep(t)
      BY DEF DequeueStep, DequeueLoadHead, DequeueLoadTail, DequeueLoadNext,
             DequeueCheckHead, DequeueEmpty, DequeueHelpTail, DequeueReadValue,
             DequeueSwingHead, DequeueSwingFails, DequeueReturn, DequeueReturns
    <3>4. EnqueueLink(t)
      BY <3>1, <3>2, <3>3
         DEF EnqueueStep, EnqueueLoadTail, EnqueueLoadNext, EnqueueCheckTail,
             EnqueueLinkFails, EnqueueHelpTail, EnqueueSwingTail
    <3> QED BY <2>0, <3>4 DEF EnqueueLink, TypeOK
  <2>2. 1 <= pos[n] /\ Ptrs(next)[n] = Null
    BY <1>1, <2>0, <2>1, SameComparisons
       DEF EnqueueLink, NF!EnqueueInv, NF!EnqueuePC
  <2> QED BY <2>0, <2>2 DEF TypeOK, NF!ListInv
<1>2. CASE Reuse = FALSE
  BY <1>1, <1>2, Invariance, PTL DEF Spec, LinksAfterTheLast
<1> QED BY <1>2
=============================================================================
