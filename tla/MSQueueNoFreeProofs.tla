------------------------ MODULE MSQueueNoFreeProofs ------------------------
(***************************************************************************)
(* Proofs about MSQueueNoFree, for every set of threads, nodes and values: *)
(* IInv is inductive, the safety properties follow from it, and the queue  *)
(* implements FifoQueue.                                                   *)
(***************************************************************************)
EXTENDS MSQueueNoFree, SequenceTheorems, TLAPS

USE NodeAssumption, ValueAssumption
    DEF EnqueuePC, DequeuePC, Inserting, Goto, NewNode, CasTail,
        shared, locals, caller, history

-----------------------------------------------------------------------------
(* IInv is inductive.  Most actions change only locals of thread t: they   *)
(* leave ListInv and EndsInv alone, and what the other threads know about  *)
(* the list stays true because ranks never change and pos[head], pos[tail] *)
(* never decrease.                                                         *)

LEMMA InitIInv == Init => IInv
BY DEF Init, IInv, TypeOK, ListInv, EndsInv, TailBounds, EnqueueInv, DequeueInv

LEMMA CallKeepsIInv ==
  ASSUME IInv, NEW t \in Thread, Call(t)
  PROVE  IInv'
<1> USE DEF IInv
<1>1. CASE DequeueCall(t)
  <2> USE <1>1 DEF DequeueCall
  <2>1. TypeOK'
    BY DEF TypeOK, EnqueueInv, DequeueInv
  <2>2. ListInv' /\ EndsInv'
    BY DEF ListInv, EndsInv, TailBounds
  <2>3. ASSUME NEW u \in Thread PROVE EnqueueInv(u)' /\ DequeueInv(u)'
    BY <2>3 DEF TypeOK, ListInv, EndsInv, TailBounds, EnqueueInv, DequeueInv
  <2> QED BY <2>1, <2>2, <2>3
<1>2. ASSUME NEW v \in Value, EnqueueCall(t, v) PROVE IInv'
  <2> USE <1>2 DEF EnqueueCall
  <2>1. TypeOK'
    BY DEF TypeOK, EnqueueInv, DequeueInv
  <2>2. ListInv'
    BY DEF TypeOK, ListInv, EndsInv, TailBounds, EnqueueInv, DequeueInv
  <2>3. EndsInv'
    BY DEF TypeOK, ListInv, EndsInv, TailBounds, EnqueueInv, DequeueInv
  <2>4. ASSUME NEW u \in Thread PROVE EnqueueInv(u)'
    BY <2>4 DEF TypeOK, ListInv, EndsInv, TailBounds, EnqueueInv, DequeueInv
  <2>5. ASSUME NEW u \in Thread PROVE DequeueInv(u)'
    BY <2>5 DEF TypeOK, ListInv, EndsInv, TailBounds, EnqueueInv, DequeueInv
  <2> QED BY <2>1, <2>2, <2>3, <2>4, <2>5
<1> QED BY <1>1, <1>2 DEF Call

LEMMA EnqueueStepKeepsIInv ==
  ASSUME IInv, NEW t \in Thread, EnqueueStep(t)
  PROVE  IInv'
<1> USE DEF IInv
<1>1. CASE EnqueueLoadTail(t)
  <2> USE <1>1 DEF EnqueueLoadTail
  <2>1. TypeOK'
    BY DEF TypeOK, EnqueueInv, DequeueInv
  <2>2. ListInv' /\ EndsInv'
    BY DEF ListInv, EndsInv, TailBounds
  <2>3. ASSUME NEW u \in Thread PROVE EnqueueInv(u)' /\ DequeueInv(u)'
    BY <2>3 DEF TypeOK, ListInv, EndsInv, TailBounds, EnqueueInv, DequeueInv
  <2> QED BY <2>1, <2>2, <2>3
<1>2. CASE EnqueueLoadNext(t)
  <2> USE <1>2 DEF EnqueueLoadNext
  <2>1. TypeOK'
    BY DEF TypeOK, EnqueueInv, DequeueInv
  <2>2. ListInv' /\ EndsInv'
    BY DEF ListInv, EndsInv, TailBounds
  <2>3. ASSUME NEW u \in Thread PROVE EnqueueInv(u)' /\ DequeueInv(u)'
    BY <2>3 DEF TypeOK, ListInv, EndsInv, TailBounds, EnqueueInv, DequeueInv
  <2> QED BY <2>1, <2>2, <2>3
<1>3. CASE EnqueueCheckTail(t)
  <2> USE <1>3 DEF EnqueueCheckTail
  <2>1. TypeOK'
    BY DEF TypeOK, EnqueueInv, DequeueInv
  <2>2. ListInv' /\ EndsInv'
    BY DEF ListInv, EndsInv, TailBounds
  <2>3. ASSUME NEW u \in Thread PROVE EnqueueInv(u)' /\ DequeueInv(u)'
    BY <2>3 DEF TypeOK, ListInv, EndsInv, TailBounds, EnqueueInv, DequeueInv
  <2> QED BY <2>1, <2>2, <2>3
<1>4. CASE EnqueueLink(t)
  <2> USE <1>4 DEF EnqueueLink
  <2>1. TypeOK'
    BY DEF TypeOK, EnqueueInv, DequeueInv
  <2>2. ListInv'
    BY DEF TypeOK, ListInv, EndsInv, TailBounds, EnqueueInv, DequeueInv
  <2>3. EndsInv'
    BY DEF TypeOK, ListInv, EndsInv, TailBounds, EnqueueInv, DequeueInv
  <2>4. ASSUME NEW u \in Thread PROVE EnqueueInv(u)'
    BY <2>4 DEF TypeOK, ListInv, EndsInv, TailBounds, EnqueueInv, DequeueInv
  <2>5. ASSUME NEW u \in Thread PROVE DequeueInv(u)'
    BY <2>5 DEF TypeOK, ListInv, EndsInv, TailBounds, EnqueueInv, DequeueInv
  <2> QED BY <2>1, <2>2, <2>3, <2>4, <2>5
<1>5. CASE EnqueueLinkFails(t)
  <2> USE <1>5 DEF EnqueueLinkFails
  <2>1. TypeOK'
    BY DEF TypeOK, EnqueueInv, DequeueInv
  <2>2. ListInv' /\ EndsInv'
    BY DEF ListInv, EndsInv, TailBounds
  <2>3. ASSUME NEW u \in Thread PROVE EnqueueInv(u)' /\ DequeueInv(u)'
    BY <2>3 DEF TypeOK, ListInv, EndsInv, TailBounds, EnqueueInv, DequeueInv
  <2> QED BY <2>1, <2>2, <2>3
<1>6. CASE EnqueueHelpTail(t)
  <2> USE <1>6 DEF EnqueueHelpTail
  <2>1. TypeOK'
    BY DEF TypeOK, EnqueueInv, DequeueInv
  <2>2. ListInv'
    BY DEF TypeOK, ListInv, EndsInv, TailBounds, EnqueueInv, DequeueInv
  <2>3. EndsInv'
    BY DEF TypeOK, ListInv, EndsInv, TailBounds, EnqueueInv, DequeueInv
  <2>4. ASSUME NEW u \in Thread PROVE EnqueueInv(u)'
    BY <2>4 DEF TypeOK, ListInv, EndsInv, TailBounds, EnqueueInv, DequeueInv
  <2>5. ASSUME NEW u \in Thread PROVE DequeueInv(u)'
    BY <2>5 DEF TypeOK, ListInv, EndsInv, TailBounds, EnqueueInv, DequeueInv
  <2> QED BY <2>1, <2>2, <2>3, <2>4, <2>5
<1>7. CASE EnqueueSwingTail(t)
  <2> USE <1>7 DEF EnqueueSwingTail
  <2>0. /\ node[t] \in Node /\ cur_tail[t] \in Node
        /\ pos[node[t]] = pos[cur_tail[t]] + 1
    BY DEF TypeOK, ListInv, EnqueueInv
  <2>1. TypeOK'
    BY <2>0 DEF TypeOK
  <2>2. ListInv'
    BY DEF ListInv
  <2>3. EndsInv'
    BY <2>0 DEF TypeOK, ListInv, EndsInv, TailBounds
  <2>4. ASSUME NEW u \in Thread PROVE EnqueueInv(u)'
    BY <2>4 DEF TypeOK, ListInv, EndsInv, TailBounds, EnqueueInv, DequeueInv
  <2>5. ASSUME NEW u \in Thread PROVE DequeueInv(u)'
    BY <2>5 DEF TypeOK, ListInv, EndsInv, TailBounds, EnqueueInv, DequeueInv
  <2> QED BY <2>1, <2>2, <2>3, <2>4, <2>5
<1> QED BY <1>1, <1>2, <1>3, <1>4, <1>5, <1>6, <1>7 DEF EnqueueStep

LEMMA DequeueStepKeepsIInv ==
  ASSUME IInv, NEW t \in Thread, DequeueStep(t)
  PROVE  IInv'
<1> USE DEF IInv
<1>1. CASE DequeueLoadHead(t)
  <2> USE <1>1 DEF DequeueLoadHead
  <2>1. TypeOK'
    BY DEF TypeOK, EnqueueInv, DequeueInv
  <2>2. ListInv' /\ EndsInv'
    BY DEF ListInv, EndsInv, TailBounds
  <2>3. ASSUME NEW u \in Thread PROVE EnqueueInv(u)' /\ DequeueInv(u)'
    BY <2>3 DEF TypeOK, ListInv, EndsInv, TailBounds, EnqueueInv, DequeueInv
  <2> QED BY <2>1, <2>2, <2>3
<1>2. CASE DequeueLoadTail(t)
  <2> USE <1>2 DEF DequeueLoadTail
  <2>1. TypeOK'
    BY DEF TypeOK, EnqueueInv, DequeueInv
  <2>2. ListInv' /\ EndsInv'
    BY DEF ListInv, EndsInv, TailBounds
  <2>3. ASSUME NEW u \in Thread PROVE EnqueueInv(u)' /\ DequeueInv(u)'
    BY <2>3 DEF TypeOK, ListInv, EndsInv, TailBounds, EnqueueInv, DequeueInv
  <2> QED BY <2>1, <2>2, <2>3
<1>3. CASE DequeueLoadNext(t)
  <2> USE <1>3 DEF DequeueLoadNext
  <2>1. TypeOK'
    BY DEF TypeOK, EnqueueInv, DequeueInv
  <2>2. ListInv' /\ EndsInv'
    BY DEF ListInv, EndsInv, TailBounds
  <2>3. ASSUME NEW u \in Thread PROVE EnqueueInv(u)' /\ DequeueInv(u)'
    BY <2>3 DEF TypeOK, ListInv, EndsInv, TailBounds, EnqueueInv, DequeueInv
  <2> QED BY <2>1, <2>2, <2>3
<1>4. CASE DequeueCheckHead(t)
  <2> USE <1>4 DEF DequeueCheckHead
  <2>1. TypeOK'
    BY DEF TypeOK, EnqueueInv, DequeueInv
  <2>2. ListInv' /\ EndsInv'
    BY DEF ListInv, EndsInv, TailBounds
  <2>3. ASSUME NEW u \in Thread PROVE EnqueueInv(u)' /\ DequeueInv(u)'
    BY <2>3 DEF TypeOK, ListInv, EndsInv, TailBounds, EnqueueInv, DequeueInv
  <2> QED BY <2>1, <2>2, <2>3
<1>5. CASE DequeueEmpty(t)
  <2> USE <1>5 DEF DequeueEmpty, DequeueReturns
  <2>1. TypeOK'
    BY DEF TypeOK, EnqueueInv, DequeueInv
  <2>2. ListInv' /\ EndsInv'
    BY DEF ListInv, EndsInv, TailBounds
  <2>3. ASSUME NEW u \in Thread PROVE EnqueueInv(u)' /\ DequeueInv(u)'
    BY <2>3 DEF TypeOK, ListInv, EndsInv, TailBounds, EnqueueInv, DequeueInv
  <2> QED BY <2>1, <2>2, <2>3
<1>6. CASE DequeueHelpTail(t)
  <2> USE <1>6 DEF DequeueHelpTail
  <2>1. TypeOK'
    BY DEF TypeOK, EnqueueInv, DequeueInv
  <2>2. ListInv'
    BY DEF TypeOK, ListInv, EndsInv, TailBounds, EnqueueInv, DequeueInv
  <2>3. EndsInv'
    BY DEF TypeOK, ListInv, EndsInv, TailBounds, EnqueueInv, DequeueInv
  <2>4. ASSUME NEW u \in Thread PROVE EnqueueInv(u)'
    BY <2>4 DEF TypeOK, ListInv, EndsInv, TailBounds, EnqueueInv, DequeueInv
  <2>5. ASSUME NEW u \in Thread PROVE DequeueInv(u)'
    BY <2>5 DEF TypeOK, ListInv, EndsInv, TailBounds, EnqueueInv, DequeueInv
  <2> QED BY <2>1, <2>2, <2>3, <2>4, <2>5
<1>7. CASE DequeueReadValue(t)
  <2> USE <1>7 DEF DequeueReadValue
  <2>1. TypeOK'
    BY DEF TypeOK, EnqueueInv, DequeueInv
  <2>2. ListInv' /\ EndsInv'
    BY DEF ListInv, EndsInv, TailBounds
  <2>3. ASSUME NEW u \in Thread PROVE EnqueueInv(u)' /\ DequeueInv(u)'
    BY <2>3 DEF TypeOK, ListInv, EndsInv, TailBounds, EnqueueInv, DequeueInv
  <2> QED BY <2>1, <2>2, <2>3
<1>8. CASE DequeueSwingHead(t)
  <2> USE <1>8 DEF DequeueSwingHead
  <2>1. TypeOK'
    BY DEF TypeOK, EnqueueInv, DequeueInv
  <2>2. ListInv'
    BY DEF TypeOK, ListInv, EndsInv, TailBounds, EnqueueInv, DequeueInv
  <2>3. EndsInv'
    BY DEF TypeOK, ListInv, EndsInv, TailBounds, EnqueueInv, DequeueInv
  <2>4. ASSUME NEW u \in Thread PROVE EnqueueInv(u)'
    BY <2>4 DEF TypeOK, ListInv, EndsInv, TailBounds, EnqueueInv, DequeueInv
  <2>5. ASSUME NEW u \in Thread PROVE DequeueInv(u)'
    BY <2>5 DEF TypeOK, ListInv, EndsInv, TailBounds, EnqueueInv, DequeueInv
  <2> QED BY <2>1, <2>2, <2>3, <2>4, <2>5
<1>9. CASE DequeueSwingFails(t)
  <2> USE <1>9 DEF DequeueSwingFails
  <2>1. TypeOK'
    BY DEF TypeOK, EnqueueInv, DequeueInv
  <2>2. ListInv' /\ EndsInv'
    BY DEF ListInv, EndsInv, TailBounds
  <2>3. ASSUME NEW u \in Thread PROVE EnqueueInv(u)' /\ DequeueInv(u)'
    BY <2>3 DEF TypeOK, ListInv, EndsInv, TailBounds, EnqueueInv, DequeueInv
  <2> QED BY <2>1, <2>2, <2>3
<1>10. CASE DequeueReturn(t)
  <2> USE <1>10 DEF DequeueReturn, DequeueReturns
  <2>1. TypeOK'
    BY DEF TypeOK, EnqueueInv, DequeueInv
  <2>2. ListInv' /\ EndsInv'
    BY DEF ListInv, EndsInv, TailBounds
  <2>3. ASSUME NEW u \in Thread PROVE EnqueueInv(u)' /\ DequeueInv(u)'
    BY <2>3 DEF TypeOK, ListInv, EndsInv, TailBounds, EnqueueInv, DequeueInv
  <2> QED BY <2>1, <2>2, <2>3
<1> QED BY <1>1, <1>2, <1>3, <1>4, <1>5, <1>6, <1>7, <1>8, <1>9, <1>10
       DEF DequeueStep

LEMMA IInvInductive == IInv /\ [Next]_vars => IInv'
<1>1. ASSUME IInv, UNCHANGED vars PROVE IInv'
  BY <1>1 DEF vars, IInv, TypeOK, ListInv, EndsInv, TailBounds,
              EnqueueInv, DequeueInv
<1> QED BY <1>1, CallKeepsIInv, EnqueueStepKeepsIInv, DequeueStepKeepsIInv
        DEF Next

\* IInv holds of every reachable state.
THEOREM Invariance == Spec => []IInv
BY InitIInv, IInvInductive, PTL DEF Spec

\* Every variable keeps its type.
THEOREM TypeCorrect == Spec => []TypeOK
<1>1. IInv => TypeOK
  BY DEF IInv
<1> QED BY <1>1, Invariance, PTL

\* No thread follows a null pointer.
THEOREM NullSafety == Spec => []NoNullDereference
<1>1. IInv => NoNullDereference
  BY DEF IInv, TypeOK, NoNullDereference, EnqueueInv, DequeueInv
<1> QED BY <1>1, Invariance, PTL

\* head <= tail, and tail is at most one node behind the end of the list.
THEOREM TailNearTheEnd == Spec => []TailBounds
<1>1. IInv => TailBounds
  BY DEF IInv, EndsInv
<1> QED BY <1>1, Invariance, PTL

\* head and tail move along the links, one at a time; links are permanent.
THEOREM GrowOnly == Spec => ListOnlyGrows
<1>1. ASSUME IInv, [Next]_vars
      PROVE  [/\ head' # head => head' = next[head]
              /\ tail' # tail => tail' = next[tail]
              /\ \A n \in Node : next[n] # Null => next'[n] = next[n]]_vars
  <2> SUFFICES ASSUME NEW t \in Thread,
                      Call(t) \/ EnqueueStep(t) \/ DequeueStep(t)
               PROVE  /\ head' # head => head' = next[head]
                      /\ tail' # tail => tail' = next[tail]
                      /\ \A n \in Node : next[n] # Null => next'[n] = next[n]
    BY <1>1 DEF Next
  <2> USE <1>1 DEF IInv, TypeOK, ListInv, EnqueueInv, DequeueInv
  <2>1. CASE Call(t)
    BY <2>1 DEF Call, DequeueCall, EnqueueCall
  <2>2. CASE EnqueueStep(t)
    BY <2>2 DEF EnqueueStep, EnqueueLoadTail, EnqueueLoadNext,
       EnqueueCheckTail, EnqueueLink, EnqueueLinkFails, EnqueueHelpTail,
       EnqueueSwingTail
  <2>3. CASE DequeueStep(t)
    BY <2>3 DEF DequeueStep, DequeueLoadHead, DequeueLoadTail,
       DequeueLoadNext, DequeueCheckHead, DequeueEmpty, DequeueHelpTail,
       DequeueReadValue, DequeueSwingHead, DequeueSwingFails, DequeueReturn,
       DequeueReturns
  <2> QED BY <2>1, <2>2, <2>3
<1> QED BY <1>1, Invariance, PTL DEF Spec, ListOnlyGrows

-----------------------------------------------------------------------------
(* MSQueueNoFree implements FifoQueue: under the mapping queueBar,         *)
(* phaseBar, datumBar every step is a step of the abstract queue or leaves *)
(* it unchanged.                                                           *)

\* Ranks and nodes are in one-to-one correspondence.
LEMMA AtRank ==
  ASSUME ListInv, TypeOK
  PROVE  /\ \A i \in 1..linked : At(i) \in Node /\ pos[At(i)] = i
         /\ \A n \in Node : pos[n] > 0 => At(pos[n]) = n
<1>1. ASSUME NEW i \in 1..linked PROVE At(i) \in Node /\ pos[At(i)] = i
  <2>1. \E n \in Node : pos[n] = i
    BY DEF ListInv
  <2> QED BY <2>1 DEF At
<1>2. ASSUME NEW n \in Node, pos[n] > 0 PROVE At(pos[n]) = n
  <2>1. pos[n] \in 1..linked
    BY <1>2 DEF ListInv, TypeOK
  <2>2. At(pos[n]) \in Node /\ pos[At(pos[n])] = pos[n]
    BY <1>1, <2>1
  <2> QED BY <1>2, <2>2 DEF ListInv, TypeOK
<1> QED BY <1>1, <1>2

LEMMA TailAsFunction ==
  ASSUME NEW S, NEW s \in Seq(S), s # <<>>
  PROVE  Tail(s) = [i \in 1..(Len(s) - 1) |-> s[i + 1]]
<1>1. /\ Tail(s) \in Seq(S) /\ Len(Tail(s)) = Len(s) - 1
      /\ \A i \in 1..Len(Tail(s)) : Tail(s)[i] = s[i + 1]
  BY HeadTailProperties
<1>2. Tail(s) \in [1..(Len(s) - 1) -> S]
  BY <1>1, LenProperties
<1> QED BY <1>1, <1>2

LEMMA OnlyRank ==
  ASSUME NEW r, NEW i, NEW n \in Node, r[n] = i,
         \A m \in Node : r[m] = i => m = n
  PROVE  (CHOOSE m \in Node : r[m] = i) = n
OBVIOUS

\* The mapped queue is a sequence of values, of known length.
LEMMA QueueBarSeq ==
  ASSUME IInv
  PROVE  /\ queueBar \in Seq(Value)
         /\ Len(queueBar) = linked - pos[head]
         /\ \A i \in 1..(linked - pos[head]) :
              queueBar[i] = value[At(pos[head] + i)]
<1>1. linked - pos[head] \in Nat
  BY DEF IInv, TypeOK, EndsInv, TailBounds, ListInv
<1>2. ASSUME NEW i \in 1..(linked - pos[head])
      PROVE  value[At(pos[head] + i)] \in Value
  <2>1. pos[head] + i \in 1..linked /\ pos[head] + i > 1
    BY <1>1 DEF IInv, TypeOK, EndsInv
  <2> QED BY <2>1, AtRank DEF IInv, TypeOK, ListInv
<1>3. queueBar \in [1..(linked - pos[head]) -> Value]
  BY <1>2 DEF queueBar
<1>4. queueBar \in Seq(Value) /\ Len(queueBar) = linked - pos[head]
  BY <1>1, <1>3
<1> QED BY <1>4 DEF queueBar

\* A step that leaves head, the ranks and the values of the linked nodes
\* alone leaves the mapped queue alone.
LEMMA QueueFrame ==
  ASSUME IInv, IInv', UNCHANGED <<head, pos, linked>>,
         \A n \in Node : pos[n] > 0 => value'[n] = value[n]
  PROVE  queueBar' = queueBar
<1>1. \A i \in 1..linked : At(i)' = At(i)
  <2> SUFFICES ASSUME NEW i \in 1..linked PROVE At(i)' = At(i)
    OBVIOUS
  <2>1. At(i) \in Node /\ pos[At(i)] = i
    BY AtRank DEF IInv
  <2> QED BY <2>1 DEF At
<1>2. \A i \in 1..(linked - pos[head]) : pos[head] + i \in 1..linked
  BY DEF IInv, TypeOK, EndsInv
<1>3. \A i \in 1..(linked - pos[head]) :
        value'[At(pos[head] + i)'] = value[At(pos[head] + i)]
  BY <1>1, <1>2, AtRank DEF IInv
<1> QED BY <1>3 DEF queueBar

\* A step of t changes no other thread's phase.
LEMMA PhaseFrame ==
  ASSUME NEW t \in Thread, NEW p,
         \A u \in Thread \ {t} : pc'[u] = pc[u] /\ lnext'[u] = lnext[u],
         phaseBar'[t] = p
  PROVE  phaseBar' = [phaseBar EXCEPT ![t] = p]
<1>1. \A u \in Thread \ {t} : phaseBar'[u] = phaseBar[u]
  BY DEF phaseBar
<1>2. phaseBar = [u \in Thread |-> phaseBar[u]]
      /\ phaseBar' = [u \in Thread |-> phaseBar'[u]]
  BY DEF phaseBar
<1> QED BY <1>1, <1>2

\* Nor does it change another thread's datum.
LEMMA DatumFrame ==
  ASSUME NEW t \in Thread, NEW d,
         \A u \in Thread \ {t} :
           /\ pc'[u] = pc[u] /\ node'[u] = node[u]
           /\ ret'[u] = ret[u] /\ out'[u] = out[u]
           /\ pc[u] \in Inserting => value'[node[u]] = value[node[u]],
         datumBar'[t] = d
  PROVE  datumBar' = [datumBar EXCEPT ![t] = d]
<1>1. \A u \in Thread \ {t} : datumBar'[u] = datumBar[u]
  BY DEF datumBar
<1>2. datumBar = [u \in Thread |-> datumBar[u]]
      /\ datumBar' = [u \in Thread |-> datumBar'[u]]
  BY DEF datumBar
<1> QED BY <1>1, <1>2

-----------------------------------------------------------------------------
(* One case per action: the step of FifoQueue it is, or a stutter.         *)

LEMMA CallRefines ==
  ASSUME IInv, IInv', NEW t \in Thread, Call(t)
  PROVE  Queue!Next \/ UNCHANGED Queue!vars
<1>1. CASE DequeueCall(t)
  <2> USE <1>1 DEF DequeueCall
  <2>1. queueBar' = queueBar
    BY QueueFrame
  <2>2. phaseBar[t] = "idle" /\ phaseBar' = [phaseBar EXCEPT ![t] = "deq"]
    <3>1. phaseBar[t] = "idle" /\ phaseBar'[t] = "deq"
      BY DEF phaseBar, IInv, TypeOK
    <3>2. \A u \in Thread \ {t} : pc'[u] = pc[u] /\ lnext'[u] = lnext[u]
      BY DEF IInv, TypeOK
    <3> QED BY <3>1, <3>2, PhaseFrame
  <2>3. datumBar' = [datumBar EXCEPT ![t] = NoValue]
    <3>1. datumBar'[t] = NoValue
      BY DEF datumBar, IInv, TypeOK, EnqueueInv, DequeueInv
    <3>2. \A u \in Thread \ {t} :
            /\ pc'[u] = pc[u] /\ node'[u] = node[u]
            /\ ret'[u] = ret[u] /\ out'[u] = out[u]
            /\ pc[u] \in Inserting => value'[node[u]] = value[node[u]]
      BY DEF IInv, TypeOK, EnqueueInv
    <3> QED BY <3>1, <3>2, DatumFrame
  <2>4. Queue!CallDequeue(t)
    BY <2>1, <2>2, <2>3 DEF Queue!CallDequeue, Queue!Step
  <2> QED BY <2>4 DEF Queue!Next
<1>2. ASSUME NEW v \in Value, EnqueueCall(t, v)
      PROVE  Queue!Next
  <2> USE <1>2 DEF EnqueueCall
  <2>1. queueBar' = queueBar
    BY QueueFrame DEF IInv, TypeOK, ListInv
  <2>2. phaseBar[t] = "idle" /\ phaseBar' = [phaseBar EXCEPT ![t] = "enq"]
    <3>1. phaseBar[t] = "idle" /\ phaseBar'[t] = "enq"
      BY DEF phaseBar, IInv, TypeOK
    <3>2. \A u \in Thread \ {t} : pc'[u] = pc[u] /\ lnext'[u] = lnext[u]
      BY DEF IInv, TypeOK
    <3> QED BY <3>1, <3>2, PhaseFrame
  <2>3. datumBar' = [datumBar EXCEPT ![t] = v]
    <3>1. datumBar'[t] = v
      BY DEF datumBar, IInv, TypeOK, EnqueueInv, DequeueInv
    <3>2. \A u \in Thread \ {t} :
            /\ pc'[u] = pc[u] /\ node'[u] = node[u]
            /\ ret'[u] = ret[u] /\ out'[u] = out[u]
            /\ pc[u] \in Inserting => value'[node[u]] = value[node[u]]
      BY DEF IInv, TypeOK, EnqueueInv
    <3> QED BY <3>1, <3>2, DatumFrame
  <2>4. Queue!CallEnqueue(t, v)
    BY <2>1, <2>2, <2>3 DEF Queue!CallEnqueue, Queue!Step
  <2> QED BY <2>4 DEF Queue!Next
<1> QED BY <1>1, <1>2 DEF Call

LEMMA EnqueueStepRefines ==
  ASSUME IInv, IInv', NEW t \in Thread, EnqueueStep(t)
  PROVE  Queue!Next \/ UNCHANGED Queue!vars
<1>1. CASE EnqueueLoadTail(t)
  <2> USE <1>1 DEF EnqueueLoadTail
  <2>1. queueBar' = queueBar
    BY QueueFrame
  <2>2. phaseBar' = phaseBar /\ datumBar' = datumBar
    BY DEF phaseBar, datumBar, IInv, TypeOK, EnqueueInv, DequeueInv
  <2> QED BY <2>1, <2>2 DEF Queue!vars
<1>2. CASE EnqueueLoadNext(t)
  <2> USE <1>2 DEF EnqueueLoadNext
  <2>1. queueBar' = queueBar
    BY QueueFrame
  <2>2. phaseBar' = phaseBar /\ datumBar' = datumBar
    BY DEF phaseBar, datumBar, IInv, TypeOK, EnqueueInv, DequeueInv
  <2> QED BY <2>1, <2>2 DEF Queue!vars
<1>3. CASE EnqueueCheckTail(t)
  <2> USE <1>3 DEF EnqueueCheckTail
  <2>1. queueBar' = queueBar
    BY QueueFrame
  <2>2. phaseBar' = phaseBar /\ datumBar' = datumBar
    BY DEF phaseBar, datumBar, IInv, TypeOK, EnqueueInv, DequeueInv
  <2> QED BY <2>1, <2>2 DEF Queue!vars
<1>4. CASE EnqueueLinkFails(t)
  <2> USE <1>4 DEF EnqueueLinkFails
  <2>1. queueBar' = queueBar
    BY QueueFrame
  <2>2. phaseBar' = phaseBar /\ datumBar' = datumBar
    BY DEF phaseBar, datumBar, IInv, TypeOK, EnqueueInv, DequeueInv
  <2> QED BY <2>1, <2>2 DEF Queue!vars
<1>5. CASE EnqueueHelpTail(t)
  <2> USE <1>5 DEF EnqueueHelpTail
  <2>1. queueBar' = queueBar
    BY QueueFrame
  <2>2. phaseBar' = phaseBar /\ datumBar' = datumBar
    BY DEF phaseBar, datumBar, IInv, TypeOK, EnqueueInv, DequeueInv
  <2> QED BY <2>1, <2>2 DEF Queue!vars
<1>6. CASE EnqueueSwingTail(t)
  <2> USE <1>6 DEF EnqueueSwingTail
  <2>1. queueBar' = queueBar
    BY QueueFrame
  <2>2. phaseBar[t] = "enqueued" /\ phaseBar' = [phaseBar EXCEPT ![t] = "idle"]
    <3>1. phaseBar[t] = "enqueued" /\ phaseBar'[t] = "idle"
      BY DEF phaseBar, IInv, TypeOK
    <3>2. \A u \in Thread \ {t} : pc'[u] = pc[u] /\ lnext'[u] = lnext[u]
      BY DEF IInv, TypeOK
    <3> QED BY <3>1, <3>2, PhaseFrame
  <2>3. datumBar' = datumBar
    BY DEF datumBar, IInv, TypeOK, EnqueueInv, DequeueInv
  <2>4. Queue!ReturnEnqueue(t)
    BY <2>1, <2>2, <2>3 DEF Queue!ReturnEnqueue, Queue!Step
  <2> QED BY <2>4 DEF Queue!Next
<1>7. CASE EnqueueLink(t)
  <2> USE <1>7 DEF EnqueueLink
  <2>1. queueBar' = Append(queueBar, datumBar[t])
    <3>1. node[t] \in Node /\ pos[node[t]] = 0 /\ datumBar[t] = value[node[t]]
          /\ linked \in Nat /\ pos \in [Node -> Nat] /\ head \in Node
          /\ value[node[t]] \in Value
      BY DEF datumBar, IInv, TypeOK, EnqueueInv
    <3>2. pos'[head] = pos[head] /\ linked' = linked + 1
          /\ pos'[node[t]] = linked + 1 /\ head' = head
      BY <3>1 DEF IInv, EndsInv
    <3>3. ASSUME NEW i \in 1..linked PROVE At(i)' = At(i)
      <4>1. At(i) \in Node /\ pos[At(i)] = i
        BY AtRank DEF IInv
      <4>2. pos'[At(i)] = i
        BY <4>1, <3>1
      <4>3. \A m \in Node : pos'[m] = i => m = At(i)
        BY <4>1, <4>2 DEF IInv, ListInv
      <4> QED BY <4>1, <4>2, <4>3, OnlyRank DEF At
    <3>4. PICK b \in Nat, len \in Nat : b = pos[head] /\ len = linked - pos[head]
      BY <3>1 DEF IInv, EndsInv, TailBounds, ListInv, TypeOK
    <3>5. At(b + len + 1)' = node[t]
      <4> DEFINE k == b + len + 1
      <4>1. k = linked + 1
        BY <3>1, <3>4
      <4>2. \A m \in Node : pos'[m] = k => m = node[t]
        BY <3>1, <3>2, <4>1 DEF IInv, ListInv
      <4> QED BY <4>1, <4>2, <3>1, <3>2, OnlyRank DEF At
    <3>6. queueBar \in Seq(Value) /\ Len(queueBar) = len
          /\ \A i \in 1..len : queueBar[i] = value[At(b + i)]
      BY QueueBarSeq, <3>4
    <3>7. queueBar' = [i \in 1..(len + 1) |-> value[At(b + i)']]
      BY <3>1, <3>2, <3>4 DEF queueBar
    <3>8. \A i \in 1..len : value[At(b + i)'] = queueBar[i]
      <4> TAKE i \in 1..len
      <4>1. b + i \in 1..linked
        BY <3>1, <3>4
      <4> QED BY <4>1, <3>3, <3>6
    <3>9. value[At(b + (len + 1))'] = datumBar[t]
      BY <3>5, <3>1
    <3>10. \A i \in 1..(len + 1) :
             value[At(b + i)'] = IF i = len + 1 THEN datumBar[t] ELSE queueBar[i]
      BY <3>8, <3>9
    <3>11. queueBar' = [i \in 1..(len + 1) |->
                          IF i = len + 1 THEN datumBar[t] ELSE queueBar[i]]
      BY <3>7, <3>10
    <3> QED BY <3>6, <3>11, <3>1
  <2>2. phaseBar[t] = "enq" /\ phaseBar' = [phaseBar EXCEPT ![t] = "enqueued"]
    <3>1. phaseBar[t] = "enq" /\ phaseBar'[t] = "enqueued"
      BY DEF phaseBar, IInv, TypeOK
    <3>2. \A u \in Thread \ {t} : pc'[u] = pc[u] /\ lnext'[u] = lnext[u]
      BY DEF IInv, TypeOK
    <3> QED BY <3>1, <3>2, PhaseFrame
  <2>3. datumBar' = [datumBar EXCEPT ![t] = NoValue]
    <3>1. datumBar'[t] = NoValue
      BY DEF datumBar, IInv, TypeOK, EnqueueInv, DequeueInv
    <3>2. \A u \in Thread \ {t} :
            /\ pc'[u] = pc[u] /\ node'[u] = node[u]
            /\ ret'[u] = ret[u] /\ out'[u] = out[u]
            /\ pc[u] \in Inserting => value'[node[u]] = value[node[u]]
      BY DEF IInv, TypeOK, EnqueueInv
    <3> QED BY <3>1, <3>2, DatumFrame
  <2>4. Queue!Enqueue(t)
    BY <2>1, <2>2, <2>3 DEF Queue!Enqueue, Queue!Step
  <2> QED BY <2>4 DEF Queue!Next
<1> QED BY <1>1, <1>2, <1>3, <1>4, <1>5, <1>6, <1>7 DEF EnqueueStep

LEMMA DequeueStepRefines ==
  ASSUME IInv, IInv', NEW t \in Thread, DequeueStep(t)
  PROVE  Queue!Next \/ UNCHANGED Queue!vars
<1>1. CASE DequeueLoadHead(t)
  <2> USE <1>1 DEF DequeueLoadHead
  <2>1. queueBar' = queueBar
    BY QueueFrame
  <2>2. phaseBar' = phaseBar /\ datumBar' = datumBar
    BY DEF phaseBar, datumBar, IInv, TypeOK, EnqueueInv, DequeueInv
  <2> QED BY <2>1, <2>2 DEF Queue!vars
<1>2. CASE DequeueLoadTail(t)
  <2> USE <1>2 DEF DequeueLoadTail
  <2>1. queueBar' = queueBar
    BY QueueFrame
  <2>2. phaseBar' = phaseBar /\ datumBar' = datumBar
    BY DEF phaseBar, datumBar, IInv, TypeOK, EnqueueInv, DequeueInv
  <2> QED BY <2>1, <2>2 DEF Queue!vars
<1>3. CASE DequeueHelpTail(t)
  <2> USE <1>3 DEF DequeueHelpTail
  <2>1. queueBar' = queueBar
    BY QueueFrame
  <2>2. phaseBar' = phaseBar /\ datumBar' = datumBar
    BY DEF phaseBar, datumBar, IInv, TypeOK, EnqueueInv, DequeueInv
  <2> QED BY <2>1, <2>2 DEF Queue!vars
<1>4. CASE DequeueReadValue(t)
  <2> USE <1>4 DEF DequeueReadValue
  <2>1. queueBar' = queueBar
    BY QueueFrame
  <2>2. phaseBar' = phaseBar /\ datumBar' = datumBar
    BY DEF phaseBar, datumBar, IInv, TypeOK, EnqueueInv, DequeueInv
  <2> QED BY <2>1, <2>2 DEF Queue!vars
<1>5. CASE DequeueSwingFails(t)
  <2> USE <1>5 DEF DequeueSwingFails
  <2>1. queueBar' = queueBar
    BY QueueFrame
  <2>2. phaseBar' = phaseBar /\ datumBar' = datumBar
    BY DEF phaseBar, datumBar, IInv, TypeOK, EnqueueInv, DequeueInv
  <2> QED BY <2>1, <2>2 DEF Queue!vars
<1>6. CASE DequeueLoadNext(t)
  <2> USE <1>6 DEF DequeueLoadNext
  <2>1. queueBar' = queueBar
    BY QueueFrame
  <2>2. datumBar' = datumBar
    BY DEF datumBar, IInv, TypeOK
  <2>3. CASE lnext'[t] # Null
    <3>1. phaseBar' = phaseBar
      BY <2>3 DEF phaseBar, IInv, TypeOK
    <3> QED BY <2>1, <2>2, <3>1 DEF Queue!vars
  <2>4. CASE lnext'[t] = Null
    <3>1. phaseBar[t] = "deq" /\ phaseBar' = [phaseBar EXCEPT ![t] = "sawEmpty"]
      <4>1. phaseBar[t] = "deq" /\ phaseBar'[t] = "sawEmpty"
        BY <2>4 DEF phaseBar, IInv, TypeOK
      <4>2. \A u \in Thread \ {t} : pc'[u] = pc[u] /\ lnext'[u] = lnext[u]
        BY DEF IInv, TypeOK
      <4> QED BY <4>1, <4>2, PhaseFrame
    <3>2. pos[head] = linked
      BY <2>4 DEF IInv, TypeOK, ListInv, EndsInv, TailBounds, DequeueInv
    <3>3. queueBar = <<>>
      BY <3>2, QueueBarSeq, EmptySeq DEF IInv, TypeOK
    <3>4. Queue!ObserveEmpty(t)
      BY <2>1, <2>2, <3>1, <3>3 DEF Queue!ObserveEmpty, Queue!Step
    <3> QED BY <3>4 DEF Queue!Next
  <2> QED BY <2>3, <2>4
<1>7. CASE DequeueCheckHead(t)
  <2> USE <1>7 DEF DequeueCheckHead
  <2>1. queueBar' = queueBar
    BY QueueFrame
  <2>2. datumBar' = datumBar
    BY DEF datumBar, IInv, TypeOK
  <2>3. CASE lnext[t] # Null
    <3>1. phaseBar' = phaseBar
      BY <2>3 DEF phaseBar, IInv, TypeOK
    <3> QED BY <2>1, <2>2, <3>1 DEF Queue!vars
  <2>4. CASE lnext[t] = Null
    <3>1. phaseBar[t] = "sawEmpty" /\ phaseBar' = [phaseBar EXCEPT ![t] = "deq"]
      <4>1. phaseBar[t] = "sawEmpty" /\ phaseBar'[t] = "deq"
        BY <2>4 DEF phaseBar, IInv, TypeOK
      <4>2. \A u \in Thread \ {t} : pc'[u] = pc[u] /\ lnext'[u] = lnext[u]
        BY DEF IInv, TypeOK
      <4> QED BY <4>1, <4>2, PhaseFrame
    <3>2. Queue!Retry(t)
      BY <2>1, <2>2, <3>1 DEF Queue!Retry, Queue!Step
    <3> QED BY <3>2 DEF Queue!Next
  <2> QED BY <2>3, <2>4
<1>8. CASE DequeueEmpty(t)
  <2> USE <1>8 DEF DequeueEmpty, DequeueReturns
  <2>1. queueBar' = queueBar
    BY QueueFrame
  <2>2. phaseBar[t] = "sawEmpty" /\ phaseBar' = [phaseBar EXCEPT ![t] = "idle"]
    <3>1. phaseBar[t] = "sawEmpty" /\ phaseBar'[t] = "idle"
      BY DEF phaseBar, IInv, TypeOK
    <3>2. \A u \in Thread \ {t} : pc'[u] = pc[u] /\ lnext'[u] = lnext[u]
      BY DEF IInv, TypeOK
    <3> QED BY <3>1, <3>2, PhaseFrame
  <2>3. datumBar' = datumBar
    BY DEF datumBar, IInv, TypeOK, EnqueueInv, DequeueInv
  <2>4. Queue!ReturnEmpty(t)
    BY <2>1, <2>2, <2>3 DEF Queue!ReturnEmpty, Queue!Step
  <2> QED BY <2>4 DEF Queue!Next
<1>9. CASE DequeueSwingHead(t)
  <2> USE <1>9 DEF DequeueSwingHead
  <2>1. queueBar # <<>> /\ queueBar' = Tail(queueBar) /\ Head(queueBar) = out[t]
    <3> DEFINE len == linked - pos[head]
    <3>1. lnext[t] \in Node /\ pos[lnext[t]] = pos[head] + 1
          /\ out[t] = value[lnext[t]] /\ pos[head] + 1 <= linked
      BY DEF IInv, TypeOK, ListInv, DequeueInv
    <3>2. At(pos[head] + 1) = lnext[t]
      <4>1. At(pos[lnext[t]]) = lnext[t]
        BY <3>1, AtRank DEF IInv, TypeOK
      <4> QED BY <4>1, <3>1
    <3>3. queueBar \in Seq(Value) /\ Len(queueBar) = len /\ len \in Nat \ {0}
      BY QueueBarSeq, <3>1 DEF IInv, TypeOK
    <3>4. queueBar[1] = out[t]
      BY <3>1, <3>2, <3>3 DEF queueBar
    <3>5. At(pos[head] + 1 + 0) = At(pos[head] + 1)
          /\ \A i : At(i)' = At(i)
      BY <3>1 DEF At, IInv, TypeOK
    <3>6. queueBar' = [i \in 1..(len - 1) |-> value[At(pos[head] + 1 + i)]]
      BY <3>1, <3>5 DEF queueBar, IInv, TypeOK
    <3>7. \A i \in 1..(len - 1) :
            value[At(pos[head] + 1 + i)] = queueBar[i + 1]
      <4> TAKE i \in 1..(len - 1)
      <4>1. i + 1 \in 1..len /\ pos[head] + (i + 1) = pos[head] + 1 + i
        BY <3>3 DEF IInv, TypeOK
      <4> QED BY <4>1 DEF queueBar
    <3>8. queueBar' = [i \in 1..(len - 1) |-> queueBar[i + 1]]
      BY <3>6, <3>7
    <3>9. Tail(queueBar) = [i \in 1..(len - 1) |-> queueBar[i + 1]]
      <4>1. queueBar # <<>>
        BY <3>3
      <4> QED BY <3>3, <4>1, TailAsFunction
    <3> QED BY <3>3, <3>4, <3>8, <3>9
  <2>2. phaseBar[t] = "deq" /\ phaseBar' = [phaseBar EXCEPT ![t] = "dequeued"]
    <3>1. phaseBar[t] = "deq" /\ phaseBar'[t] = "dequeued"
      BY DEF phaseBar, IInv, TypeOK
    <3>2. \A u \in Thread \ {t} : pc'[u] = pc[u] /\ lnext'[u] = lnext[u]
      BY DEF IInv, TypeOK
    <3> QED BY <3>1, <3>2, PhaseFrame
  <2>3. datumBar' = [datumBar EXCEPT ![t] = out[t]]
    <3>1. datumBar'[t] = out[t]
      BY DEF datumBar, IInv, TypeOK, EnqueueInv, DequeueInv
    <3>2. \A u \in Thread \ {t} :
            /\ pc'[u] = pc[u] /\ node'[u] = node[u]
            /\ ret'[u] = ret[u] /\ out'[u] = out[u]
            /\ pc[u] \in Inserting => value'[node[u]] = value[node[u]]
      BY DEF IInv, TypeOK, EnqueueInv
    <3> QED BY <3>1, <3>2, DatumFrame
  <2>4. Queue!Dequeue(t)
    BY <2>1, <2>2, <2>3 DEF Queue!Dequeue, Queue!Step
  <2> QED BY <2>4 DEF Queue!Next
<1>10. CASE DequeueReturn(t)
  <2> USE <1>10 DEF DequeueReturn, DequeueReturns
  <2>1. queueBar' = queueBar
    BY QueueFrame
  <2>2. phaseBar[t] = "dequeued" /\ phaseBar' = [phaseBar EXCEPT ![t] = "idle"]
    <3>1. phaseBar[t] = "dequeued" /\ phaseBar'[t] = "idle"
      BY DEF phaseBar, IInv, TypeOK
    <3>2. \A u \in Thread \ {t} : pc'[u] = pc[u] /\ lnext'[u] = lnext[u]
      BY DEF IInv, TypeOK
    <3> QED BY <3>1, <3>2, PhaseFrame
  <2>3. datumBar' = datumBar
    BY DEF datumBar, IInv, TypeOK, EnqueueInv, DequeueInv
  <2>4. Queue!ReturnDequeue(t)
    BY <2>1, <2>2, <2>3 DEF Queue!ReturnDequeue, Queue!Step
  <2> QED BY <2>4 DEF Queue!Next
<1> QED BY <1>1, <1>2, <1>3, <1>4, <1>5, <1>6, <1>7, <1>8, <1>9, <1>10
       DEF DequeueStep

-----------------------------------------------------------------------------
LEMMA InitRefines == Init => Queue!Init
<1> SUFFICES ASSUME Init PROVE Queue!Init
  OBVIOUS
<1>1. IInv
  BY InitIInv
<1>2. linked - pos[head] = 0
  BY DEF Init
<1>3. queueBar = <<>>
  BY <1>1, <1>2, QueueBarSeq, EmptySeq
<1>4. phaseBar = [t \in Thread |-> "idle"] /\ datumBar = [t \in Thread |-> NoValue]
  BY DEF Init, phaseBar, datumBar
<1> QED BY <1>3, <1>4 DEF Queue!Init

LEMMA StutterRefines ==
  ASSUME IInv, IInv', UNCHANGED vars
  PROVE  UNCHANGED Queue!vars
<1>1. queueBar' = queueBar
  BY QueueFrame DEF vars
<1>2. phaseBar' = phaseBar /\ datumBar' = datumBar
  BY DEF vars, phaseBar, datumBar
<1> QED BY <1>1, <1>2 DEF Queue!vars

\* The queue is linearizable for any number of threads, nodes and values:
\* enqueue takes effect at its successful compare-and-swap of next, dequeue
\* at that of head, an unsuccessful dequeue at its load of next.
THEOREM Linearizability == Spec => Linearizable
<1>1. Init => Queue!Init
  BY InitRefines
<1>2. IInv /\ IInv' /\ [Next]_vars => [Queue!Next]_(Queue!vars)
  <2> SUFFICES ASSUME IInv, IInv', [Next]_vars
               PROVE  Queue!Next \/ UNCHANGED Queue!vars
    OBVIOUS
  <2>1. CASE UNCHANGED vars
    BY <2>1, StutterRefines
  <2>2. CASE Next
    BY <2>2, CallRefines, EnqueueStepRefines, DequeueStepRefines DEF Next
  <2> QED BY <2>1, <2>2
<1> QED BY <1>1, <1>2, Invariance, PTL DEF Spec, Linearizable, Queue!Spec
=============================================================================
