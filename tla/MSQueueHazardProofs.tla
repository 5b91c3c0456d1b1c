------------------------- MODULE MSQueueHazardProofs -------------------------
(***************************************************************************)
(* Proofs about MSQueueHazard and HazardScan, for every number of threads, *)
(* every memory and every threshold.  TypeCorrect and ScanSpares hold      *)
(* whatever memory reads as; the theorems about the queue hold of the      *)
(* behaviours whose every step satisfies ClearMemory: the allocator, not   *)
(* the constructor, leaves the next of a new node null.                    *)
(***************************************************************************)
EXTENDS HazardScan, SequenceTheorems, FiniteSetTheorems, TLAPS

-----------------------------------------------------------------------------
(* The sets of elements of the sequences the actions build.                *)

LEMMA EmptyFacts == ToSet(<<>>) = {} /\ IsInjective(<<>>)
BY DEF ToSet, IsInjective

LEMMA AppendFacts ==
  ASSUME NEW S, NEW s \in Seq(S), NEW x \in S
  PROVE  /\ Append(s, x) \in Seq(S)
         /\ ToSet(Append(s, x)) = ToSet(s) \cup {x}
         /\ IsInjective(s) /\ x \notin ToSet(s) => IsInjective(Append(s, x))
<1>1. /\ Append(s, x) \in Seq(S) /\ DOMAIN s = 1..Len(s)
      /\ DOMAIN Append(s, x) = 1..(Len(s) + 1) /\ Len(s) \in Nat
      /\ \A i \in 1..Len(s) : Append(s, x)[i] = s[i]
      /\ Append(s, x)[Len(s) + 1] = x
  OBVIOUS
<1>2. ToSet(Append(s, x)) = ToSet(s) \cup {x}
  <2> DEFINE a == Append(s, x)
  <2> HIDE DEF a
  <2> QED BY <1>1 DEF ToSet, a
<1>3. IsInjective(s) /\ x \notin ToSet(s) => IsInjective(Append(s, x))
  BY <1>1 DEF ToSet, IsInjective
<1> QED BY <1>1, <1>2, <1>3

LEMMA FrontFacts ==
  ASSUME NEW S, NEW s \in Seq(S), s # <<>>
  PROVE  /\ Front(s) \in Seq(S) /\ Last(s) \in S
         /\ Len(Front(s)) = Len(s) - 1
         /\ ToSet(s) = ToSet(Front(s)) \cup {Last(s)}
         /\ IsInjective(s) => IsInjective(Front(s)) /\ Last(s) \notin ToSet(Front(s))
<1>1. /\ Len(s) \in Nat \ {0} /\ Last(s) = s[Len(s)]
      /\ Front(s) \in Seq(S) /\ Len(Front(s)) = Len(s) - 1
      /\ DOMAIN Front(s) = 1..(Len(s) - 1)
      /\ \A i \in 1..(Len(s) - 1) : Front(s)[i] = s[i]
  <2>1. Len(s) \in Nat \ {0} /\ \A i \in 1..Len(s) : s[i] \in S
    OBVIOUS
  <2> DEFINE m == Len(s) - 1
  <2>2. m \in Nat /\ \A i \in 1..m : s[i] \in S
    BY <2>1
  <2>3. /\ SubSeq(s, 1, m) \in Seq(S)
        /\ Len(SubSeq(s, 1, m)) = IF 1 <= m THEN m - 1 + 1 ELSE 0
        /\ \A i \in 1..(m - 1 + 1) : SubSeq(s, 1, m)[i] = s[1 + i - 1]
    BY <2>2, SubSeqProperties
  <2>4. Front(s) = SubSeq(s, 1, m) /\ Last(s) = s[Len(s)]
    BY DEF Front, Last
  <2> HIDE DEF m
  <2>5. /\ Front(s) \in Seq(S) /\ Len(Front(s)) = m
        /\ DOMAIN Front(s) = 1..m
        /\ \A i \in 1..m : Front(s)[i] = s[i]
    BY <2>2, <2>3, <2>4
  <2> QED BY <2>1, <2>4, <2>5 DEF m
<1>2. ToSet(s) = ToSet(Front(s)) \cup {Last(s)}
  BY <1>1 DEF ToSet
<1>3. IsInjective(s) => IsInjective(Front(s)) /\ Last(s) \notin ToSet(Front(s))
  BY <1>1 DEF ToSet, IsInjective
<1> QED BY <1>1, <1>2, <1>3

LEMMA TailFacts ==
  ASSUME NEW S, NEW s \in Seq(S), s # <<>>
  PROVE  /\ Tail(s) \in Seq(S)
         /\ ToSet(s) = ToSet(Tail(s)) \cup {s[1]}
         /\ IsInjective(s) => IsInjective(Tail(s)) /\ s[1] \notin ToSet(Tail(s))
         /\ SubSeq(s, 2, Len(s)) = Tail(s)
         /\ Len(Tail(s)) = Len(s) - 1
         /\ \A i \in 1..(Len(s) - 1) : Tail(s)[i] = s[i + 1]
<1>1. /\ Len(s) \in Nat \ {0} /\ Tail(s) \in Seq(S)
      /\ DOMAIN Tail(s) = 1..(Len(s) - 1)
      /\ \A i \in 1..(Len(s) - 1) : Tail(s)[i] = s[i + 1]
  OBVIOUS
<1>2. ToSet(s) = ToSet(Tail(s)) \cup {s[1]}
  <2>1. \A x \in ToSet(s) : x = s[1] \/ x \in ToSet(Tail(s))
    <3> SUFFICES ASSUME NEW i \in 1..Len(s), i # 1
                 PROVE  s[i] \in ToSet(Tail(s))
      BY DEF ToSet
    <3>1. i - 1 \in 1..(Len(s) - 1) /\ Tail(s)[i - 1] = s[i]
      BY <1>1
    <3> QED BY <1>1, <3>1 DEF ToSet
  <2>2. ToSet(Tail(s)) \subseteq ToSet(s) /\ s[1] \in ToSet(s)
    BY <1>1 DEF ToSet
  <2> QED BY <2>1, <2>2
<1>3. IsInjective(s) => IsInjective(Tail(s)) /\ s[1] \notin ToSet(Tail(s))
  BY <1>1 DEF ToSet, IsInjective
<1>4. /\ SubSeq(s, 2, Len(s)) = Tail(s)
      /\ Len(Tail(s)) = Len(s) - 1
  OBVIOUS
<1> QED BY <1>1, <1>2, <1>3, <1>4

LEMMA ConcatFacts ==
  ASSUME NEW S, NEW r \in Seq(S), NEW s \in Seq(S)
  PROVE  /\ r \o s \in Seq(S) /\ Len(r \o s) = Len(r) + Len(s)
         /\ ToSet(r \o s) = ToSet(r) \cup ToSet(s)
         /\ IsInjective(r) /\ IsInjective(s) /\ ToSet(r) \cap ToSet(s) = {}
              => IsInjective(r \o s)
<1> DEFINE m == Len(r)
           n == Len(s)
           c == r \o s
<1>1. /\ m \in Nat /\ n \in Nat /\ c \in Seq(S) /\ Len(c) = m + n
      /\ DOMAIN c = 1..(m + n)
      /\ DOMAIN r = 1..m /\ DOMAIN s = 1..n
      /\ \A i \in 1..m : c[i] = r[i]
  OBVIOUS
<1>2. \A i \in 1..(m + n) : i > m => i - m \in 1..n /\ c[i] = s[i - m]
  OBVIOUS
<1>3. \A i \in 1..n : m + i \in 1..(m + n) /\ c[m + i] = s[i]
  BY <1>1, <1>2
<1> HIDE DEF m, n, c
<1>4. ToSet(c) = ToSet(r) \cup ToSet(s)
  <2>1. ASSUME NEW i \in 1..(m + n) PROVE c[i] \in ToSet(r) \cup ToSet(s)
    <3>1. CASE i > m
      <4>1. c[i] = s[i - m] /\ i - m \in DOMAIN s
        BY <1>1, <1>2, <3>1
      <4> QED BY <4>1 DEF ToSet
    <3>2. CASE ~(i > m)
      <4>1. i \in 1..m
        BY <1>1, <3>2
      <4> QED BY <1>1, <4>1 DEF ToSet
    <3> QED BY <3>1, <3>2
  <2>2. \A i \in 1..m : i \in 1..(m + n)
    BY <1>1
  <2>3. ToSet(r) \subseteq ToSet(c)
    BY <1>1, <2>2 DEF ToSet
  <2>4. ToSet(s) \subseteq ToSet(c)
    BY <1>1, <1>3 DEF ToSet
  <2>5. ToSet(c) \subseteq ToSet(r) \cup ToSet(s)
    BY <1>1, <2>1 DEF ToSet
  <2> QED BY <2>3, <2>4, <2>5
<1>5. ASSUME IsInjective(r), IsInjective(s), ToSet(r) \cap ToSet(s) = {}
      PROVE  IsInjective(c)
  <2> SUFFICES ASSUME NEW i \in 1..(m + n), NEW j \in 1..(m + n), c[i] = c[j]
               PROVE  i = j
    BY <1>1 DEF IsInjective
  <2>1. CASE i \in 1..m /\ j \in 1..m
    BY <1>1, <1>5, <2>1 DEF IsInjective
  <2>2. CASE i > m /\ j > m
    <3>1. /\ s[i - m] = s[j - m]
          /\ i - m \in DOMAIN s /\ j - m \in DOMAIN s
      BY <1>1, <1>2, <2>2
    <3>2. i - m = j - m
      BY <1>5, <3>1 DEF IsInjective
    <3> QED BY <1>1, <3>2
  <2>3. CASE i \in 1..m /\ j > m
    BY <1>1, <1>2, <1>5, <2>3 DEF ToSet
  <2>4. CASE i > m /\ j \in 1..m
    BY <1>1, <1>2, <1>5, <2>4 DEF ToSet
  <2> QED BY <1>1, <2>1, <2>2, <2>3, <2>4
<1> QED BY <1>1, <1>4, <1>5 DEF c, m, n

-----------------------------------------------------------------------------
(* Types, whatever memory holds.  A local that is stored in head, tail,    *)
(* next or a free list is not null: it comes from a shared variable that   *)
(* is not, or was tested.                                                  *)

USE NodeAssumption, ValueAssumption, ThreadAssumption
    DEF EnqueuePC, DequeuePC, Goto, NextAt, ValueAt, NewNode, CasTail, Protect,
        DequeueReturns, DequeueCallWith, shared, locals, caller, scanning,
        Linked

LocalsOK(t) ==
  /\ pc[t] \in EnqueuePC => node[t] # Null
  /\ pc[t] \in EnqueuePC \ {"e_tail"} => cur_tail[t] # Null
  /\ pc[t] \in {"e_help", "d_help", "d_swing"} => lnext[t] # Null
  /\ pc[t] \in DequeuePC \ {"d_head", "s_load", "s_free"} => cur_head[t] # Null
  /\ pc[t] = "s_load" => slot[t] < 2 * N

TypeInv == TypeOK /\ \A t \in Thread : LocalsOK(t)

LEMMA EnqueueTypes ==
  ASSUME TypeInv, NEW t \in Thread, Call(t) \/ EnqueueStep(t)
  PROVE  TypeInv'
<1> USE DEF TypeInv, TypeOK, LocalsOK
<1>1. ASSUME NEW v \in Value, EnqueueCall(t, v) PROVE TypeInv'
  <2>1. PICK n \in Node \ heap, old \in Node \cup {Null} :
          /\ heap' = heap \cup {n}
          /\ next' = [next EXCEPT ![n] = old]
          /\ value' = [value EXCEPT ![n] = v]
          /\ node' = [node EXCEPT ![t] = n]
    BY <1>1 DEF EnqueueCall
  <2> QED BY <1>1, <2>1 DEF EnqueueCall
<1>2. CASE DequeueCall(t)
  BY <1>2 DEF DequeueCall
<1>3. CASE EnqueueLoadTail(t)
  BY <1>3 DEF EnqueueLoadTail
<1>4. CASE EnqueueProtect(t)
  BY <1>4 DEF EnqueueProtect
<1>5. CASE EnqueueSafe(t)
  <2>1. /\ UNCHANGED <<shared, locals, caller, scanning, list>>
        /\ \E to \in {"e_next", "e_tail"} : pc' = [pc EXCEPT ![t] = to]
        /\ pc[t] = "e_safe"
    BY <1>5 DEF EnqueueSafe
  <2> QED BY <2>1
<1>6. CASE EnqueueLoadNext(t)
  <2>1. PICK n \in Node \cup {Null} : lnext' = [lnext EXCEPT ![t] = n]
    BY <1>6 DEF EnqueueLoadNext
  <2> QED BY <1>6, <2>1 DEF EnqueueLoadNext
<1>7. CASE EnqueueCheckTail(t)
  <2>1. /\ UNCHANGED <<shared, locals, caller, scanning, list>>
        /\ \E to \in {"e_link", "e_help", "e_tail"} :
             pc' = [pc EXCEPT ![t] = to] /\ (to = "e_help" => lnext[t] # Null)
        /\ pc[t] = "e_check"
    BY <1>7 DEF EnqueueCheckTail
  <2> QED BY <2>1
<1>8. CASE EnqueueLink(t)
  <2>1. /\ next' = [next EXCEPT ![cur_tail[t]] = node[t]]
        /\ list' \in Seq(Node) /\ cur_tail[t] \in Node /\ node[t] \in Node
    BY <1>8 DEF EnqueueLink
  <2> QED BY <1>8, <2>1 DEF EnqueueLink
<1>9. CASE EnqueueLinkFails(t)
  BY <1>9 DEF EnqueueLinkFails
<1>10. CASE EnqueueHelpTail(t)
  BY <1>10 DEF EnqueueHelpTail
<1>11. CASE EnqueueSwingTail(t)
  BY <1>11 DEF EnqueueSwingTail
<1> QED BY <1>1, <1>2, <1>3, <1>4, <1>5, <1>6, <1>7, <1>8, <1>9, <1>10, <1>11
        DEF Call, EnqueueStep

LEMMA DequeueTypes ==
  ASSUME TypeInv, NEW t \in Thread, DequeueStep(t)
  PROVE  TypeInv'
<1> USE DEF TypeInv, TypeOK, LocalsOK
<1>1. CASE DequeueLoadHead(t)
  BY <1>1 DEF DequeueLoadHead
<1>2. CASE DequeueProtect(t)
  BY <1>2 DEF DequeueProtect
<1>3. CASE DequeueSafe(t)
  <2>1. /\ UNCHANGED <<shared, locals, caller, scanning, list>>
        /\ \E to \in {"d_tail", "d_head"} : pc' = [pc EXCEPT ![t] = to]
        /\ pc[t] = "d_safe"
    BY <1>3 DEF DequeueSafe
  <2> QED BY <2>1
<1>4. CASE DequeueLoadTail(t)
  BY <1>4 DEF DequeueLoadTail
<1>5. CASE DequeueLoadNext(t)
  <2>1. PICK n \in Node \cup {Null} : lnext' = [lnext EXCEPT ![t] = n]
    BY <1>5 DEF DequeueLoadNext
  <2> QED BY <1>5, <2>1 DEF DequeueLoadNext
<1>6. CASE DequeueProtectNext(t)
  BY <1>6 DEF DequeueProtectNext
<1>7. CASE DequeueCheckHead(t)
  <2>1. /\ UNCHANGED <<shared, locals, caller, scanning, list>>
        /\ \E to \in {"d_head", "d_help", "d_value"} :
             pc' = [pc EXCEPT ![t] = to] /\ (to = "d_help" => lnext[t] # Null)
        /\ pc[t] = "d_check"
    BY <1>7 DEF DequeueCheckHead
  <2> QED BY <2>1
<1>8. CASE DequeueEmpty(t)
  BY <1>8 DEF DequeueEmpty
<1>9. CASE DequeueHelpTail(t)
  BY <1>9 DEF DequeueHelpTail
<1>10. CASE DequeueReadValue(t)
  <2>1. PICK v \in Value \cup {NoValue} : out' = [out EXCEPT ![t] = v]
    BY <1>10 DEF DequeueReadValue
  <2> QED BY <1>10, <2>1 DEF DequeueReadValue
<1>11. CASE DequeueSwingHead(t)
  <2>1. list' \in Seq(Node)
    <3>1. list' = SubSeq(list, 2, Len(list)) /\ list \in Seq(Node)
      BY <1>11 DEF DequeueSwingHead
    <3>2. \A i \in 2..Len(list) : list[i] \in Node
      BY <3>1
    <3> QED BY <3>1, <3>2, SubSeqProperties
  <2> QED BY <1>11, <2>1 DEF DequeueSwingHead
<1>12. CASE DequeueSwingFails(t)
  BY <1>12 DEF DequeueSwingFails
<1> QED BY <1>1, <1>2, <1>3, <1>4, <1>5, <1>6, <1>7, <1>8, <1>9, <1>10, <1>11,
           <1>12 DEF DequeueStep

LEMMA ReclaimTypes ==
  ASSUME TypeInv, NEW t \in Thread, ReclaimStep(t)
  PROVE  TypeInv'
<1>0. TypeOK /\ \A u \in Thread : LocalsOK(u)
  BY DEF TypeInv
<1>1. CASE RetireNode(t)
  <2> DEFINE retired == Append(free_list[t], cur_head[t])
  <2>1. retired \in Seq(Node)
    <3>1. pc[t] = "d_retire"
      BY <1>1 DEF RetireNode
    <3>2. free_list[t] \in Seq(Node) /\ cur_head[t] \in Node
      BY <1>0, <3>1 DEF TypeOK, LocalsOK
    <3> QED BY <3>2
  <2> HIDE DEF retired
  <2>2. CASE /\ pc' = [pc EXCEPT ![t] = "s_load"]
             /\ free_list' = [free_list EXCEPT ![t] = retired]
             /\ slot' = [slot EXCEPT ![t] = 0]
             /\ ptr_list' = [ptr_list EXCEPT ![t] = {}]
             /\ UNCHANGED <<shared, locals, caller, kept, list>>
    <3>1. TypeOK'
      BY <1>0, <2>1, <2>2 DEF TypeOK
    <3>2. ASSUME NEW u \in Thread PROVE LocalsOK(u)'
      <4>1. LocalsOK(u) /\ 0 < 2 * N
        BY <1>0
      <4> QED BY <1>0, <2>2, <4>1 DEF TypeOK, LocalsOK
    <3> QED BY <3>1, <3>2 DEF TypeInv
  <2>3. CASE /\ pc' = [pc EXCEPT ![t] = "idle"]
             /\ DequeueReturns(t, "true", retired)
             /\ UNCHANGED <<shared, slot, ptr_list, kept, list>>
    <3>1. TypeOK'
      BY <1>0, <2>1, <2>3 DEF TypeOK
    <3>2. ASSUME NEW u \in Thread PROVE LocalsOK(u)'
      BY <1>0, <2>3 DEF TypeOK, LocalsOK
    <3> QED BY <3>1, <3>2 DEF TypeInv
  <2> QED BY <1>1, <2>2, <2>3 DEF RetireNode, retired
<1>2. CASE ScanLoad(t)
  <2> DEFINE ptr == hp[slot[t] \div 2][slot[t] % 2]
  <2>1. pc[t] = "s_load" /\ slot[t] \in 0..(2 * N) /\ slot[t] < 2 * N
    BY <1>0, <1>2 DEF TypeOK, LocalsOK, ScanLoad
  <2>2. slot[t] \div 2 \in Thread /\ slot[t] % 2 \in 0..1
    BY <2>1 DEF Thread
  <2>3. ptr \in Node \cup {Null}
    BY <1>0, <2>2 DEF TypeOK
  <2>4. /\ pc' = [pc EXCEPT ![t] = IF slot[t] + 1 < 2 * N THEN "s_load" ELSE "s_free"]
        /\ slot' = [slot EXCEPT ![t] = slot[t] + 1]
        /\ ptr_list' = [ptr_list EXCEPT ![t] = ptr_list[t] \cup ({ptr} \ {Null})]
        /\ UNCHANGED <<shared, locals, caller, free_list, kept, list>>
    BY <1>0, <1>2 DEF TypeOK, ScanLoad
  <2> HIDE DEF ptr
  <2>5. slot[t] + 1 \in 0..(2 * N) /\ ptr_list[t] \cup ({ptr} \ {Null}) \subseteq Node
    BY <1>0, <2>1, <2>3 DEF TypeOK
  <2>6. TypeOK'
    <3>1. /\ pc' \in [Thread -> {"idle"} \cup EnqueuePC \cup DequeuePC]
          /\ slot' \in [Thread -> 0..(2 * N)]
          /\ ptr_list' \in [Thread -> SUBSET Node]
      BY <1>0, <2>4, <2>5 DEF TypeOK
    <3> QED BY <1>0, <2>4, <3>1 DEF TypeOK
  <2>7. ASSUME NEW u \in Thread PROVE LocalsOK(u)'
    <3>1. CASE u = t
      BY <1>0, <2>4, <3>1 DEF TypeOK, LocalsOK
    <3>2. CASE u # t
      BY <1>0, <2>4, <3>2 DEF TypeOK, LocalsOK
    <3> QED BY <3>1, <3>2
  <2> QED BY <2>6, <2>7 DEF TypeInv
<1>3. CASE ScanFree(t)
  <2> DEFINE n == Last(free_list[t])
             rest == Front(free_list[t])
  <2>1. rest \in Seq(Node) /\ n \in Node /\ Append(kept[t], n) \in Seq(Node)
    <3>1. free_list[t] \in Seq(Node) /\ free_list[t] # <<>> /\ kept[t] \in Seq(Node)
      BY <1>0, <1>3 DEF TypeOK, ScanFree
    <3>2. n \in Node /\ rest \in Seq(Node)
      BY <3>1, FrontFacts
    <3> HIDE DEF n
    <3> QED BY <3>1, <3>2
  <2>2. /\ pc[t] = "s_free" /\ pc' = [pc EXCEPT ![t] = "s_free"]
        /\ free_list' = [free_list EXCEPT ![t] = rest]
        /\ kept' \in {kept, [kept EXCEPT ![t] = Append(kept[t], n)]}
        /\ heap' \subseteq heap
        /\ UNCHANGED <<head, tail, next, value, hp, locals, caller, slot,
                       ptr_list, list>>
    BY <1>0, <1>3 DEF TypeOK, ScanFree
  <2> HIDE DEF n, rest
  <2>3. TypeOK'
    <3>1. /\ free_list' \in [Thread -> Seq(Node)] /\ kept' \in [Thread -> Seq(Node)]
          /\ pc' \in [Thread -> {"idle"} \cup EnqueuePC \cup DequeuePC]
      <4>1. /\ free_list \in [Thread -> Seq(Node)] /\ kept \in [Thread -> Seq(Node)]
            /\ pc \in [Thread -> {"idle"} \cup EnqueuePC \cup DequeuePC]
        BY <1>0 DEF TypeOK
      <4>2. kept' \in [Thread -> Seq(Node)]
        <5> DEFINE longer == Append(kept[t], n)
        <5>1. longer \in Seq(Node) /\ kept' \in {kept, [kept EXCEPT ![t] = longer]}
          BY <2>1, <2>2
        <5> HIDE DEF longer
        <5> QED BY <4>1, <5>1
      <4> QED BY <2>1, <2>2, <4>1, <4>2
    <3> QED BY <1>0, <2>2, <3>1 DEF TypeOK
  <2>4. ASSUME NEW u \in Thread PROVE LocalsOK(u)'
    BY <1>0, <2>2 DEF TypeOK, LocalsOK
  <2> QED BY <2>3, <2>4 DEF TypeInv
<1>4. CASE ScanEnd(t)
  <2>1. TypeOK'
    BY <1>0, <1>4 DEF TypeOK, ScanEnd
  <2>2. ASSUME NEW u \in Thread PROVE LocalsOK(u)'
    BY <1>0, <1>4 DEF TypeOK, LocalsOK, ScanEnd
  <2> QED BY <2>1, <2>2 DEF TypeInv
<1> QED BY <1>1, <1>2, <1>3, <1>4 DEF ReclaimStep

LEMMA TypesStay ==
  ASSUME TypeInv, NEW t \in Thread,
         Call(t) \/ EnqueueStep(t) \/ DequeueStep(t) \/ ReclaimStep(t)
  PROVE  TypeInv'
BY EnqueueTypes, DequeueTypes, ReclaimTypes

LEMMA TypeInvHolds == Spec => []TypeInv
<1>1. Init => TypeInv
  <2> SUFFICES ASSUME Init PROVE TypeInv
    OBVIOUS
  <2>1. TypeOK
    BY DEF Init, TypeOK
  <2>2. \A t \in Thread : LocalsOK(t)
    BY DEF Init, LocalsOK
  <2> QED BY <2>1, <2>2 DEF TypeInv
<1>2. TypeInv /\ [Next]_vars => TypeInv'
  <2> SUFFICES ASSUME TypeInv, [Next]_vars PROVE TypeInv'
    OBVIOUS
  <2>1. CASE UNCHANGED vars
    BY <2>1 DEF vars, TypeInv, TypeOK, LocalsOK
  <2>2. CASE Next
    BY <2>2, TypesStay DEF Next
  <2> QED BY <2>1, <2>2
<1> QED BY <1>1, <1>2, PTL DEF Spec

\* Every variable stays in its type, whatever memory reads as: a thread that
\* follows pointers into deleted memory still stores no null in head or tail.
THEOREM TypeCorrect == Spec => []TypeOK
BY TypeInvHolds, PTL DEF TypeInv

-----------------------------------------------------------------------------
(* What scan owes to the hazard pointers, whatever memory holds.           *)

\* The pointers that stand since u began to scan, and that it has loaded, are
\* in its list.
Collected(u) ==
  /\ standing[u] \subseteq Record
  /\ pc[u] = "s_free" => slot[u] = 2 * N
  /\ pc[u] \in {"s_load", "s_free"} =>
       \A s \in standing[u] :
         2 * s[1] + s[2] < slot[u] => hp[s[1]][s[2]] \in ptr_list[u] \cup {Null}

\* A step starts a scan, goes on with one, or leaves it as it was.
LEMMA ScanMoves ==
  ASSUME TypeInv, NEW t \in Thread, NEW u \in Thread,
         Call(t) \/ EnqueueStep(t) \/ DequeueStep(t) \/ ReclaimStep(t),
         pc'[u] \in {"s_load", "s_free"}
  PROVE  \/ pc[u] = "d_retire" /\ pc'[u] = "s_load" /\ slot'[u] = 0
         \/ u = t /\ ScanLoad(t)
         \/ pc'[u] = pc[u] /\ slot'[u] = slot[u] /\ ptr_list'[u] = ptr_list[u]
<1>0. TypeOK
  BY DEF TypeInv
<1>1. CASE Call(t)
  BY <1>0, <1>1 DEF Call, DequeueCall, EnqueueCall, TypeOK
<1>2. CASE EnqueueStep(t)
  BY <1>0, <1>2 DEF EnqueueStep, EnqueueLoadTail, EnqueueProtect, EnqueueSafe,
     EnqueueLoadNext, EnqueueCheckTail, EnqueueLink, EnqueueLinkFails,
     EnqueueHelpTail, EnqueueSwingTail, TypeOK
<1>3. CASE DequeueStep(t)
  BY <1>0, <1>3 DEF DequeueStep, DequeueLoadHead, DequeueProtect, DequeueSafe,
     DequeueLoadTail, DequeueLoadNext, DequeueProtectNext, DequeueCheckHead,
     DequeueEmpty, DequeueHelpTail, DequeueReadValue, DequeueSwingHead,
     DequeueSwingFails, TypeOK
<1>4. CASE ReclaimStep(t)
  <2>1. CASE RetireNode(t)
    BY <1>0, <2>1 DEF RetireNode, TypeOK
  <2>2. CASE ScanLoad(t)
    BY <1>0, <2>2 DEF ScanLoad, TypeOK
  <2>3. CASE ScanFree(t) \/ ScanEnd(t)
    BY <1>0, <2>3 DEF ScanFree, ScanEnd, TypeOK
  <2> QED BY <1>4, <2>1, <2>2, <2>3 DEF ReclaimStep
<1> QED BY <1>1, <1>2, <1>3, <1>4

LEMMA CollectedStays ==
  ASSUME TypeInv, NEW t \in Thread, NEW u \in Thread, Collected(u), StandingNext,
         Call(t) \/ EnqueueStep(t) \/ DequeueStep(t) \/ ReclaimStep(t)
  PROVE  Collected(u)'
<1>0. TypeOK /\ LocalsOK(u)
  BY DEF TypeInv
<1>1. standing'[u] = IF pc[u] = "d_retire" /\ pc'[u] = "s_load" THEN Record
                     ELSE {s \in standing[u] : /\ pc'[u] \in {"s_load", "s_free"}
                                               /\ hp'[s[1]][s[2]] = hp[s[1]][s[2]]}
  BY DEF StandingNext
<1>2. standing'[u] \subseteq Record
  BY <1>1 DEF Collected
<1>3. \A s \in Record : 2 * s[1] + s[2] \in 0..(2 * N - 1)
  BY DEF Record, Thread
<1>4. CASE pc'[u] \notin {"s_load", "s_free"}
  BY <1>2, <1>4 DEF Collected
<1>5. CASE pc[u] = "d_retire" /\ pc'[u] = "s_load" /\ slot'[u] = 0
  BY <1>2, <1>3, <1>5 DEF Collected
<1>6. CASE u = t /\ ScanLoad(t)
  <2> DEFINE ptr == hp[slot[t] \div 2][slot[t] % 2]
  <2>1. /\ pc[t] = "s_load" /\ slot[t] \in Nat /\ slot[t] < 2 * N
        /\ slot'[t] = slot[t] + 1 /\ hp' = hp
        /\ ptr_list'[t] = ptr_list[t] \cup ({ptr} \ {Null})
        /\ pc'[t] = IF slot[t] + 1 < 2 * N THEN "s_load" ELSE "s_free"
    BY <1>0, <1>6 DEF TypeOK, LocalsOK, ScanLoad
  <2>2. pc'[t] = "s_free" => slot'[t] = 2 * N
    BY <2>1
  <2>3. ASSUME NEW s \in standing'[u], 2 * s[1] + s[2] < slot'[t]
        PROVE  hp[s[1]][s[2]] \in ptr_list'[t] \cup {Null}
    <3>1. s \in standing[t] /\ s[1] \in Thread /\ s[2] \in 0..1
      BY <1>1, <1>2, <1>6, <2>1 DEF Record
    <3>2. CASE 2 * s[1] + s[2] < slot[t]
      BY <1>6, <2>1, <3>1, <3>2 DEF Collected
    <3>3. CASE ~(2 * s[1] + s[2] < slot[t])
      <4>1. slot[t] = 2 * s[1] + s[2]
        BY <2>1, <2>3, <3>1, <3>3 DEF Thread
      <4>2. slot[t] \div 2 = s[1] /\ slot[t] % 2 = s[2]
        BY <3>1, <4>1 DEF Thread
      <4> QED BY <2>1, <4>2
    <3> QED BY <3>2, <3>3
  <2> QED BY <1>2, <1>6, <2>1, <2>2, <2>3 DEF Collected
<1>7. CASE pc'[u] = pc[u] /\ slot'[u] = slot[u] /\ ptr_list'[u] = ptr_list[u]
  <2>1. \A s \in standing'[u] : s \in standing[u] /\ hp'[s[1]][s[2]] = hp[s[1]][s[2]]
    BY <1>1, <1>7
  <2> QED BY <1>2, <1>7, <2>1 DEF Collected
<1> QED BY <1>4, <1>5, <1>6, <1>7, ScanMoves

\* A hazard pointer that stands while a thread scans keeps its node from that
\* thread, for any number of threads and whatever memory reads as.  What is
\* left to the queue is to store the pointer before the node is retired.
THEOREM ScanSpares == ScanSpec => []ScanSparesNamed
<1> DEFINE Inv == TypeInv /\ \A u \in Thread : Collected(u)
<1>1. ScanInit => Inv
  <2> SUFFICES ASSUME ScanInit PROVE Inv
    OBVIOUS
  <2>1. TypeInv
    <3>1. TypeOK
      BY DEF ScanInit, Init, TypeOK
    <3>2. \A t \in Thread : LocalsOK(t)
      BY DEF ScanInit, Init, LocalsOK
    <3> QED BY <3>1, <3>2 DEF TypeInv
  <2>2. \A u \in Thread : Collected(u)
    BY DEF ScanInit, Init, Collected
  <2> QED BY <2>1, <2>2
<1>2. Inv /\ [Next /\ StandingNext]_scanVars => Inv'
  <2> SUFFICES ASSUME Inv, [Next /\ StandingNext]_scanVars PROVE Inv'
    OBVIOUS
  <2>1. CASE UNCHANGED scanVars
    BY <2>1 DEF scanVars, vars, TypeInv, TypeOK, LocalsOK, Collected
  <2>2. CASE Next /\ StandingNext
    BY <2>2, TypesStay, CollectedStays DEF Next
  <2> QED BY <2>1, <2>2
<1>3. Inv => ScanSparesNamed
  <2> SUFFICES ASSUME Inv, NEW u \in Thread, pc[u] = "s_free",
                      NEW s \in standing[u]
               PROVE  hp[s[1]][s[2]] \notin ToSet(free_list[u]) \ ptr_list[u]
    BY DEF ScanSparesNamed
  <2>1. s[1] \in Thread /\ s[2] \in 0..1 /\ slot[u] = 2 * N
    BY DEF Collected, Record
  <2>2. 2 * s[1] + s[2] < slot[u]
    BY <2>1 DEF Thread
  <2>3. hp[s[1]][s[2]] \in ptr_list[u] \cup {Null}
    BY <2>2 DEF Collected
  <2>4. Null \notin ToSet(free_list[u])
    <3>1. free_list[u] \in Seq(Node)
      BY DEF TypeInv, TypeOK
    <3> QED BY <3>1 DEF ToSet
  <2> QED BY <2>3, <2>4
<1> HIDE DEF Inv
<1> QED BY <1>1, <1>2, <1>3, PTL DEF ScanSpec

-----------------------------------------------------------------------------
(* IInv is inductive.  A step of t is described for the other threads by   *)
(* Evolves(t): what they rely on.                                          *)

ListInv == ListIntact /\ IsInjective(list)

OthersRest(t) ==
  \A u \in Thread \ {t} :
    /\ pc'[u] = pc[u] /\ node'[u] = node[u] /\ lnext'[u] = lnext[u]
    /\ cur_head'[u] = cur_head[u] /\ cur_tail'[u] = cur_tail[u]
    /\ hp'[u] = hp[u]

Evolves(t) ==
  /\ OthersRest(t)
  /\ \A n \in heap : next[n] # Null => next'[n] = next[n]
  /\ \A u \in Thread, k \in 0..1, n \in Node :
       Safe(u, k, n) /\ hp'[u][k] = n =>
         Safe(u, k, n)' /\ (n \in Linked' => n \in Linked)
  /\ head' = head \/ head \notin Linked'
  /\ tail' = tail \/ (next[tail] # Null /\ next[tail'] = Null)

LEMMA TypesOfIInv == IInv => TypeInv
<1> SUFFICES ASSUME IInv, NEW t \in Thread PROVE LocalsOK(t)
  BY DEF IInv, TypeInv
<1>1. ScanInv(t) /\ EnqueueInv(t) /\ DequeueInv(t)
  BY DEF IInv
<1>2. pc[t] \in {"e_help", "d_help", "d_swing"} => lnext[t] # Null
  BY <1>1 DEF EnqueueInv, DequeueInv
<1> QED BY <1>1, <1>2 DEF LocalsOK, ScanInv, EnqueueInv, DequeueInv

LEMMA ListFacts ==
  ASSUME TypeOK, ListInv
  PROVE  /\ list # <<>> /\ list[1] = head
         /\ {head, tail, Last(list)} \subseteq Linked
         /\ \A n \in Linked : n # Last(list) => next[n] # Null /\ next[n] \in Linked
         /\ next[Last(list)] = Null
         /\ tail # Last(list) => next[tail] = Last(list)
         /\ next[head] = Null => tail = head
<1>0. Len(list) \in Nat \ {0}
  <2>1. list \in Seq(Node) /\ list # <<>>
    BY DEF TypeOK, ListInv, ListIntact
  <2> QED BY <2>1
<1>1. /\ Len(list) \in Nat \ {0} /\ DOMAIN list = 1..Len(list)
      /\ \A i \in 1..Len(list) : list[i] \in Node
      /\ Last(list) = list[Len(list)] /\ list # <<>>
  <2>1. list \in Seq(Node) /\ list # <<>>
    BY DEF TypeOK, ListInv, ListIntact
  <2> QED BY <2>1 DEF Last
<1>2. \A i \in 1..Len(list) : list[i] \in Linked
  BY <1>1 DEF ToSet
<1>3. /\ head = list[1]
      /\ \A i \in 1..(Len(list) - 1) : next[list[i]] = list[i + 1]
      /\ next[Last(list)] = Null
      /\ (Len(list) > 1 /\ tail = list[Len(list) - 1]) \/ tail = list[Len(list)]
  <2>1. ListIntact
    BY DEF ListInv
  <2>2. head = list[1]
    BY <2>1 DEF ListIntact
  <2>3. \A i \in 1..(Len(list) - 1) : next[list[i]] = list[i + 1]
    BY <2>1 DEF ListIntact
  <2>4. next[Last(list)] = Null
    BY <2>1 DEF ListIntact, LastHasNoSuccessor
  <2>5. PICK i \in {Len(list) - 1, Len(list)} \ {0} : tail = list[i]
    BY <2>1 DEF ListIntact
  <2>6. (Len(list) > 1 /\ tail = list[Len(list) - 1]) \/ tail = list[Len(list)]
    BY <1>0, <2>5
  <2> QED BY <2>2, <2>3, <2>4, <2>6
<1> DEFINE L == Len(list)
<1>4. /\ L \in Nat \ {0} /\ Last(list) = list[L] /\ list[L] \in Linked
      /\ list[1] \in Linked /\ (L > 1 => list[L - 1] \in Linked)
  BY <1>1, <1>2
<1>5. \A n \in Linked : \E i \in 1..L : n = list[i]
  BY <1>1 DEF ToSet
<1>6. \A i \in 1..L : i # L => /\ next[list[i]] = list[i + 1]
                             /\ list[i + 1] \in Linked /\ list[i + 1] \in Node
  <2> SUFFICES ASSUME NEW i \in 1..L, i # L
               PROVE  /\ next[list[i]] = list[i + 1]
                      /\ list[i + 1] \in Linked /\ list[i + 1] \in Node
    OBVIOUS
  <2>1. i \in 1..(L - 1) /\ i + 1 \in 1..L
    BY <1>0
  <2> QED BY <1>1, <1>2, <1>3, <2>1
<1> HIDE DEF L
<1>7. \A n \in Linked : n # Last(list) => next[n] # Null /\ next[n] \in Linked
  BY <1>4, <1>5, <1>6
<1>8. tail # Last(list) => next[tail] = Last(list)
  BY <1>3, <1>4, <1>6 DEF L
<1>9. next[head] = Null => tail = head
  BY <1>3, <1>4, <1>6 DEF L
<1> QED BY <1>1, <1>3, <1>4, <1>7, <1>8, <1>9 DEF L

LEMMA ListStays ==
  ASSUME ListInv, head' = head, tail' = tail, next' = next, heap' = heap,
         list' = list
  PROVE  ListInv'
BY DEF ListInv, ListIntact, LastHasNoSuccessor, Last

LEMMA SafeKept ==
  ASSUME IInv, NEW t \in Thread, Evolves(t), NEW u \in Thread, NEW k \in 0..1,
         NEW n, Safe(u, k, n), hp'[u][k] = hp[u][k]
  PROVE  /\ n \in Node /\ Safe(u, k, n)' /\ (n \in Linked' => n \in Linked)
         /\ next[n] # Null => next'[n] = next[n]
<1>1. n \in Node /\ n \in heap /\ hp'[u][k] = n
  BY DEF IInv, TypeOK, Safe
<1> QED BY <1>1 DEF Evolves

LEMMA EndsEvolve ==
  ASSUME NEW t \in Thread, Evolves(t)
  PROVE  /\ head' = head \/ head \notin Linked'
         /\ tail' = tail \/ (next[tail] # Null /\ next[tail'] = Null)
BY DEF Evolves

LEMMA OthersKeep ==
  ASSUME IInv, TypeOK', NEW t \in Thread, Evolves(t), NEW u \in Thread, u # t
  PROVE  EnqueueInv(u)' /\ DequeueInv(u)'
<1>1. /\ pc'[u] = pc[u] /\ node'[u] = node[u] /\ lnext'[u] = lnext[u]
      /\ cur_head'[u] = cur_head[u] /\ cur_tail'[u] = cur_tail[u]
      /\ hp'[u][0] = hp[u][0] /\ hp'[u][1] = hp[u][1]
  BY DEF Evolves, OthersRest
<1>2. EnqueueInv(u)'
  <2>1. EnqueueInv(u)
    BY DEF IInv
  <2>2. Safe(u, 0, cur_tail[u]) =>
          /\ Safe(u, 0, cur_tail[u])'
          /\ next[cur_tail[u]] # Null => next'[cur_tail[u]] = next[cur_tail[u]]
    BY <1>1, SafeKept
  <2> QED BY <1>1, EndsEvolve, <2>1, <2>2 DEF EnqueueInv
<1>3. DequeueInv(u)'
  <2>1. DequeueInv(u)
    BY DEF IInv
  <2>2. Safe(u, 0, cur_head[u]) =>
          /\ Safe(u, 0, cur_head[u])'
          /\ cur_head[u] \in Linked' => cur_head[u] \in Linked
          /\ next[cur_head[u]] # Null => next'[cur_head[u]] = next[cur_head[u]]
    BY <1>1, SafeKept
  <2>3. Safe(u, 1, lnext[u]) => Safe(u, 1, lnext[u])'
    BY <1>1, SafeKept
  <2> QED BY <1>1, EndsEvolve, <2>1, <2>2, <2>3 DEF DequeueInv
<1> QED BY <1>2, <1>3

\* What IInv says, but for the locals of a thread.
NodesInv == /\ ListInv /\ HeldInv /\ PrivateInv /\ NoLeakInv
            /\ \A u \in Thread : ScanInv(u)

LEMMA Reassemble ==
  ASSUME IInv, TypeOK', NodesInv', NEW t \in Thread, Evolves(t),
         EnqueueInv(t)', DequeueInv(t)'
  PROVE  IInv'
<1>1. \A u \in Thread : EnqueueInv(u)' /\ DequeueInv(u)'
  BY OthersKeep
<1> QED BY <1>1 DEF IInv, NodesInv, ListInv

LEMMA InitIInv == Init => IInv
<1> SUFFICES ASSUME Init PROVE IInv
  OBVIOUS
<1> USE DEF Init
<1>1. TypeOK
  BY DEF TypeOK
<1>2. ListIntact /\ IsInjective(list) /\ ToSet(list) = {Fake}
  BY DEF ListIntact, LastHasNoSuccessor, Last, IsInjective, ToSet
<1>3. \A t \in Thread : Held(t) = {} /\ Private(t) = {}
  BY EmptyFacts DEF Held, Private
<1>4. HeldInv /\ PrivateInv /\ NoLeakInv
  BY <1>2, <1>3 DEF HeldInv, PrivateInv, NoLeakInv
<1>5. ASSUME NEW t \in Thread PROVE ScanInv(t) /\ EnqueueInv(t) /\ DequeueInv(t)
  BY <1>5, EmptyFacts DEF ScanInv, EnqueueInv, DequeueInv
<1> QED BY <1>1, <1>2, <1>4, <1>5 DEF IInv

(* A step that leaves the nodes alone: it moves t, not to or from the code *)
(* that retires nodes, and tail at most to the successor of the last but   *)
(* one.                                                                    *)
Quiet(t) ==
  /\ OthersRest(t)
  /\ UNCHANGED <<head, next, heap, free_list, slot, ptr_list, kept, list>>
  /\ tail' = tail \/ (next[tail] # Null /\ tail' = next[tail])
  /\ pc[t] \notin {"d_retire", "s_load", "s_free"}
  /\ pc'[t] \notin {"d_retire", "s_load", "s_free"}
  /\ Private(t)' = Private(t)

LEMMA QuietKeeps ==
  ASSUME IInv, NEW t \in Thread, Quiet(t)
  PROVE  NodesInv' /\ Evolves(t)
<1>0. /\ TypeOK /\ ListInv /\ HeldInv /\ PrivateInv /\ NoLeakInv
      /\ \A u \in Thread : ScanInv(u)
  BY DEF IInv, ListInv
<1>1. /\ head' = head /\ next' = next /\ heap' = heap /\ list' = list
      /\ free_list' = free_list /\ slot' = slot /\ ptr_list' = ptr_list
      /\ kept' = kept
      /\ \A u \in Thread : /\ pc'[u] = "s_load" <=> pc[u] = "s_load"
                           /\ pc'[u] = "s_free" <=> pc[u] = "s_free"
                           /\ pc'[u] = "d_retire" <=> pc[u] = "d_retire"
                           /\ pc[u] = "d_retire" => cur_head'[u] = cur_head[u]
  <2>1. ASSUME NEW u \in Thread
        PROVE  /\ pc'[u] = "s_load" <=> pc[u] = "s_load"
               /\ pc'[u] = "s_free" <=> pc[u] = "s_free"
               /\ pc'[u] = "d_retire" <=> pc[u] = "d_retire"
               /\ pc[u] = "d_retire" => cur_head'[u] = cur_head[u]
    BY DEF Quiet, OthersRest
  <2> QED BY <2>1 DEF Quiet
<1>2. \A u \in Thread : Held(u)' = Held(u) /\ Private(u)' = Private(u)
  BY <1>1 DEF Quiet, OthersRest, Held, Private
<1>3. tail' = tail \/ (next[tail] # Null /\ tail' = Last(list))
  BY <1>0, ListFacts DEF Quiet
<1>4. ListInv'
  <2>1. \E i \in {Len(list) - 1, Len(list)} \ {0} : tail' = list[i]
    BY <1>0, <1>3, ListFacts DEF ListInv, ListIntact, Last, TypeOK
  <2> QED BY <1>0, <1>1, <2>1 DEF ListInv, ListIntact, LastHasNoSuccessor, Last
<1>5. HeldInv' /\ PrivateInv' /\ NoLeakInv'
  BY <1>0, <1>1, <1>2 DEF HeldInv, PrivateInv, NoLeakInv
<1>6. ASSUME NEW u \in Thread PROVE ScanInv(u)'
  BY <1>0, <1>1 DEF ScanInv
<1>7. Evolves(t)
  <2>1. ASSUME NEW u \in Thread, NEW k \in 0..1, NEW n \in Node,
               Safe(u, k, n), hp'[u][k] = n
        PROVE  Safe(u, k, n)' /\ (n \in Linked' => n \in Linked)
    BY <1>1, <2>1 DEF Safe
  <2>2. next[Last(list)] = Null
    BY <1>0, ListFacts
  <2> QED BY <1>1, <1>3, <2>1, <2>2 DEF Quiet, Evolves
<1> QED BY <1>4, <1>5, <1>6, <1>7 DEF NodesInv

\* A thread that finds its hazard pointer on a node of the list is in time.
LEMMA LinkedIsSafe ==
  ASSUME IInv, NEW t \in Thread, NEW k \in 0..1, hp[t][k] \in Linked
  PROVE  Safe(t, k, hp[t][k])
BY DEF IInv, HeldInv, Held, Safe

-----------------------------------------------------------------------------
(* The steps of enqueue                                                    *)

LEMMA EnqueueQuietStepKeepsIInv ==
  ASSUME IInv, NEW t \in Thread,
         \/ EnqueueLoadTail(t) \/ EnqueueProtect(t) \/ EnqueueSafe(t)
         \/ EnqueueLoadNext(t) \/ EnqueueCheckTail(t) \/ EnqueueLinkFails(t)
         \/ EnqueueHelpTail(t) \/ EnqueueSwingTail(t)
  PROVE  IInv'
<1>0. TypeOK /\ EnqueueInv(t) /\ DequeueInv(t)
  BY DEF IInv
<1>1. CASE EnqueueLoadTail(t)
  <2> USE <1>1 DEF EnqueueLoadTail
  <2>1. TypeOK'
    BY <1>0 DEF TypeOK
  <2>2. Quiet(t)
    BY <1>0 DEF TypeOK, Quiet, OthersRest, Private
  <2>3. EnqueueInv(t)' /\ DequeueInv(t)'
    BY <1>0 DEF TypeOK, EnqueueInv, DequeueInv
  <2> QED BY <2>1, <2>2, <2>3, QuietKeeps, Reassemble
<1>2. CASE EnqueueProtect(t)
  <2> USE <1>2 DEF EnqueueProtect
  <2>1. TypeOK'
    BY <1>0 DEF TypeOK
  <2>2. Quiet(t)
    BY <1>0 DEF TypeOK, Quiet, OthersRest, Private
  <2>3. EnqueueInv(t)' /\ DequeueInv(t)'
    BY <1>0 DEF TypeOK, EnqueueInv, DequeueInv
  <2> QED BY <2>1, <2>2, <2>3, QuietKeeps, Reassemble
<1>3. CASE EnqueueSafe(t)
  <2> USE <1>3 DEF EnqueueSafe
  <2>1. TypeOK'
    BY <1>0 DEF TypeOK
  <2>2. Quiet(t)
    BY <1>0 DEF TypeOK, Quiet, OthersRest, Private
  <2>3. tail = cur_tail[t] => Safe(t, 0, cur_tail[t])
    BY <1>0, ListFacts, LinkedIsSafe DEF IInv, ListInv, EnqueueInv
  <2>4. tail = cur_tail[t] => Safe(t, 0, cur_tail[t])'
    BY <2>2, <2>3, QuietKeeps, SafeKept
  <2>5. EnqueueInv(t)' /\ DequeueInv(t)'
    BY <1>0, <2>4 DEF TypeOK, EnqueueInv, DequeueInv
  <2> QED BY <2>1, <2>2, <2>5, QuietKeeps, Reassemble
<1>4. CASE EnqueueLoadNext(t)
  <2> USE <1>4 DEF EnqueueLoadNext
  <2>0. Safe(t, 0, cur_tail[t]) /\ lnext' = [lnext EXCEPT ![t] = next[cur_tail[t]]]
    BY <1>0 DEF EnqueueInv, Safe
  <2>1. TypeOK'
    BY <1>0, <2>0 DEF TypeOK, EnqueueInv
  <2>2. Quiet(t)
    BY <1>0, <2>0 DEF TypeOK, EnqueueInv, Quiet, OthersRest, Private
  <2>3. Safe(t, 0, cur_tail[t])'
    BY <2>0, <2>2, QuietKeeps, SafeKept
  <2>4. EnqueueInv(t)' /\ DequeueInv(t)'
    BY <1>0, <2>0, <2>3 DEF TypeOK, EnqueueInv, DequeueInv
  <2> QED BY <2>1, <2>2, <2>4, QuietKeeps, Reassemble
<1>5. CASE EnqueueCheckTail(t)
  <2> USE <1>5 DEF EnqueueCheckTail
  <2>1. TypeOK'
    <3>1. /\ UNCHANGED <<shared, locals, caller, scanning, list>>
          /\ \E to \in {"e_link", "e_help", "e_tail"} :
               pc' = [pc EXCEPT ![t] = to]
      BY DEF EnqueueCheckTail
    <3> HIDE <1>5 DEF EnqueueCheckTail
    <3> QED BY <1>0, <3>1 DEF TypeOK
  <2>2. Quiet(t)
    BY <1>0 DEF TypeOK, EnqueueInv, Quiet, OthersRest, Private
  <2>3. Safe(t, 0, cur_tail[t]) => Safe(t, 0, cur_tail[t])'
    BY <2>2, QuietKeeps, SafeKept
  <2>4. EnqueueInv(t)' /\ DequeueInv(t)'
    BY <1>0, <2>3 DEF TypeOK, EnqueueInv, DequeueInv
  <2> QED BY <2>1, <2>2, <2>4, QuietKeeps, Reassemble
<1>6. CASE EnqueueLinkFails(t)
  <2> USE <1>6 DEF EnqueueLinkFails
  <2>1. TypeOK'
    BY <1>0 DEF TypeOK, EnqueueInv
  <2>2. Quiet(t)
    BY <1>0 DEF TypeOK, EnqueueInv, Quiet, OthersRest, Private
  <2>3. EnqueueInv(t)' /\ DequeueInv(t)'
    BY <1>0 DEF TypeOK, EnqueueInv, DequeueInv
  <2> QED BY <2>1, <2>2, <2>3, QuietKeeps, Reassemble
<1>7. CASE EnqueueHelpTail(t)
  <2> USE <1>7 DEF EnqueueHelpTail
  <2>1. TypeOK'
    BY <1>0 DEF TypeOK, EnqueueInv
  <2>2. Quiet(t)
    BY <1>0 DEF TypeOK, EnqueueInv, Quiet, OthersRest, Private
  <2>3. EnqueueInv(t)' /\ DequeueInv(t)'
    BY <1>0 DEF TypeOK, EnqueueInv, DequeueInv
  <2> QED BY <2>1, <2>2, <2>3, QuietKeeps, Reassemble
<1>8. CASE EnqueueSwingTail(t)
  <2> USE <1>8 DEF EnqueueSwingTail
  <2>1. TypeOK'
    BY <1>0 DEF TypeOK, EnqueueInv
  <2>2. Quiet(t)
    BY <1>0 DEF TypeOK, EnqueueInv, Quiet, OthersRest, Private
  <2>3. EnqueueInv(t)' /\ DequeueInv(t)'
    BY <1>0 DEF TypeOK, EnqueueInv, DequeueInv
  <2> QED BY <2>1, <2>2, <2>3, QuietKeeps, Reassemble
<1> QED BY <1>1, <1>2, <1>3, <1>4, <1>5, <1>6, <1>7, <1>8
-----------------------------------------------------------------------------
(* The steps of dequeue                                                    *)

LEMMA DequeueQuietStepKeepsIInv ==
  ASSUME IInv, NEW t \in Thread,
         \/ DequeueCall(t) \/ DequeueLoadHead(t) \/ DequeueProtect(t)
         \/ DequeueSafe(t) \/ DequeueLoadTail(t) \/ DequeueLoadNext(t)
         \/ DequeueProtectNext(t) \/ DequeueCheckHead(t) \/ DequeueEmpty(t)
         \/ DequeueHelpTail(t) \/ DequeueReadValue(t) \/ DequeueSwingFails(t)
  PROVE  IInv'
<1>0. TypeOK /\ ListInv /\ EnqueueInv(t) /\ DequeueInv(t)
  BY DEF IInv, ListInv
<1>1. CASE DequeueCall(t)
  <2> USE <1>1 DEF DequeueCall
  <2>1. TypeOK'
    BY <1>0 DEF TypeOK, DequeueInv
  <2>2. Quiet(t)
    BY <1>0 DEF TypeOK, DequeueInv, Quiet, OthersRest, Private
  <2>3. EnqueueInv(t)' /\ DequeueInv(t)'
    BY <1>0 DEF TypeOK, EnqueueInv, DequeueInv
  <2> QED BY <2>1, <2>2, <2>3, QuietKeeps, Reassemble
<1>2. CASE DequeueLoadHead(t)
  <2> USE <1>2 DEF DequeueLoadHead
  <2>1. TypeOK'
    BY <1>0 DEF TypeOK, DequeueInv
  <2>2. Quiet(t)
    BY <1>0 DEF TypeOK, DequeueInv, Quiet, OthersRest, Private
  <2>3. EnqueueInv(t)' /\ DequeueInv(t)'
    BY <1>0 DEF TypeOK, EnqueueInv, DequeueInv
  <2> QED BY <2>1, <2>2, <2>3, QuietKeeps, Reassemble
<1>3. CASE DequeueProtect(t)
  <2> USE <1>3 DEF DequeueProtect
  <2>1. TypeOK'
    BY <1>0 DEF TypeOK, DequeueInv
  <2>2. Quiet(t)
    BY <1>0 DEF TypeOK, DequeueInv, Quiet, OthersRest, Private
  <2>3. EnqueueInv(t)' /\ DequeueInv(t)'
    BY <1>0 DEF TypeOK, EnqueueInv, DequeueInv
  <2> QED BY <2>1, <2>2, <2>3, QuietKeeps, Reassemble
<1>4. CASE DequeueSafe(t)
  <2> USE <1>4 DEF DequeueSafe
  <2>1. TypeOK'
    BY <1>0 DEF TypeOK, DequeueInv
  <2>2. Quiet(t)
    BY <1>0 DEF TypeOK, DequeueInv, Quiet, OthersRest, Private
  <2>3. head = cur_head[t] => Safe(t, 0, cur_head[t])
    BY <1>0, ListFacts, LinkedIsSafe DEF DequeueInv
  <2>4. head = cur_head[t] => Safe(t, 0, cur_head[t])'
    BY <2>2, <2>3, QuietKeeps, SafeKept
  <2>5. EnqueueInv(t)' /\ DequeueInv(t)'
    BY <1>0, <2>4 DEF TypeOK, EnqueueInv, DequeueInv
  <2> QED BY <2>1, <2>2, <2>5, QuietKeeps, Reassemble
<1>5. CASE DequeueLoadTail(t)
  <2> USE <1>5 DEF DequeueLoadTail
  <2>1. TypeOK'
    BY <1>0 DEF TypeOK, DequeueInv
  <2>2. Quiet(t)
    BY <1>0 DEF TypeOK, DequeueInv, Quiet, OthersRest, Private
  <2>3. Safe(t, 0, cur_head[t]) /\ Safe(t, 0, cur_head[t])'
    BY <1>0, <2>2, QuietKeeps, SafeKept DEF DequeueInv
  <2>4. tail # cur_head[t] => next[cur_head[t]] # Null
    BY <1>0, <2>3, ListFacts DEF DequeueInv, Safe
  <2>5. EnqueueInv(t)' /\ DequeueInv(t)'
    BY <1>0, <2>3, <2>4 DEF TypeOK, EnqueueInv, DequeueInv
  <2> QED BY <2>1, <2>2, <2>5, QuietKeeps, Reassemble
<1>6. CASE DequeueLoadNext(t)
  <2> USE <1>6 DEF DequeueLoadNext
  <2>0. Safe(t, 0, cur_head[t]) /\ lnext' = [lnext EXCEPT ![t] = next[cur_head[t]]]
    BY <1>0 DEF DequeueInv, Safe
  <2>1. TypeOK'
    BY <1>0, <2>0 DEF TypeOK, DequeueInv
  <2>2. Quiet(t)
    BY <1>0, <2>0 DEF TypeOK, DequeueInv, Quiet, OthersRest, Private
  <2>3. Safe(t, 0, cur_head[t])'
    BY <2>0, <2>2, QuietKeeps, SafeKept
  <2>4. EnqueueInv(t)' /\ DequeueInv(t)'
    BY <1>0, <2>0, <2>3 DEF TypeOK, EnqueueInv, DequeueInv
  <2> QED BY <2>1, <2>2, <2>4, QuietKeeps, Reassemble
<1>7. CASE DequeueProtectNext(t)
  <2> USE <1>7 DEF DequeueProtectNext
  <2>1. TypeOK'
    BY <1>0 DEF TypeOK, DequeueInv
  <2>2. Quiet(t)
    BY <1>0 DEF TypeOK, DequeueInv, Quiet, OthersRest, Private
  <2>3. Safe(t, 0, cur_head[t]) => Safe(t, 0, cur_head[t])'
    BY <1>0, <2>2, QuietKeeps, SafeKept DEF TypeOK
  <2>4. EnqueueInv(t)' /\ DequeueInv(t)'
    BY <1>0, <2>3 DEF TypeOK, EnqueueInv, DequeueInv
  <2> QED BY <2>1, <2>2, <2>4, QuietKeeps, Reassemble
<1>8. CASE DequeueCheckHead(t)
  <2> USE <1>8 DEF DequeueCheckHead
  <2>1. TypeOK'
    BY <1>0 DEF TypeOK, DequeueInv
  <2>2. Quiet(t)
    BY <1>0 DEF TypeOK, DequeueInv, Quiet, OthersRest, Private
  <2>3. Safe(t, 0, cur_head[t]) => Safe(t, 0, cur_head[t])'
    BY <2>2, QuietKeeps, SafeKept
  <2>4. pc'[t] = "d_value" => Safe(t, 1, lnext[t])
    <3> SUFFICES ASSUME pc'[t] = "d_value" PROVE Safe(t, 1, lnext[t])
      OBVIOUS
    <3>1. pc[t] = "d_check" /\ head = cur_head[t] /\ cur_head[t] # cur_tail[t]
      BY <1>0 DEF TypeOK
    <3>2. /\ hp[t][1] = lnext[t] /\ lnext[t] = next[head]
          /\ next[head] # Null
      BY <1>0, <3>1 DEF DequeueInv
    <3>3. lnext[t] \in Linked
      BY <1>0, <3>2, ListFacts
    <3> QED BY <3>2, <3>3, LinkedIsSafe
  <2>5. pc'[t] = "d_value" => Safe(t, 1, lnext[t])'
    BY <2>2, <2>4, QuietKeeps, SafeKept
  <2>6. EnqueueInv(t)' /\ DequeueInv(t)'
    BY <1>0, <2>3, <2>5 DEF TypeOK, EnqueueInv, DequeueInv
  <2> QED BY <2>1, <2>2, <2>6, QuietKeeps, Reassemble
<1>9. CASE DequeueEmpty(t)
  <2> USE <1>9 DEF DequeueEmpty
  <2>1. TypeOK'
    BY <1>0 DEF TypeOK, DequeueInv
  <2>2. Quiet(t)
    BY <1>0 DEF TypeOK, DequeueInv, Quiet, OthersRest, Private
  <2>3. EnqueueInv(t)' /\ DequeueInv(t)'
    BY <1>0 DEF TypeOK, EnqueueInv, DequeueInv
  <2> QED BY <2>1, <2>2, <2>3, QuietKeeps, Reassemble
<1>10. CASE DequeueHelpTail(t)
  <2> USE <1>10 DEF DequeueHelpTail
  <2>1. TypeOK'
    BY <1>0 DEF TypeOK, DequeueInv
  <2>2. Quiet(t)
    BY <1>0 DEF TypeOK, DequeueInv, Quiet, OthersRest, Private
  <2>3. EnqueueInv(t)' /\ DequeueInv(t)'
    BY <1>0 DEF TypeOK, EnqueueInv, DequeueInv
  <2> QED BY <2>1, <2>2, <2>3, QuietKeeps, Reassemble
<1>11. CASE DequeueReadValue(t)
  <2> USE <1>11 DEF DequeueReadValue
  <2>1. TypeOK'
    <3>1. PICK v \in Value \cup {NoValue} : out' = [out EXCEPT ![t] = v]
      BY <1>0 DEF TypeOK
    <3> QED BY <1>0, <3>1 DEF TypeOK, DequeueInv
  <2>2. Quiet(t)
    BY <1>0 DEF TypeOK, DequeueInv, Quiet, OthersRest, Private
  <2>3. Safe(t, 0, cur_head[t]) => Safe(t, 0, cur_head[t])'
    BY <1>0, <2>2, QuietKeeps, SafeKept DEF TypeOK
  <2>4. Safe(t, 1, lnext[t]) => Safe(t, 1, lnext[t])'
    BY <1>0, <2>2, QuietKeeps, SafeKept DEF TypeOK
  <2>5. EnqueueInv(t)' /\ DequeueInv(t)'
    BY <1>0, <2>3, <2>4 DEF TypeOK, EnqueueInv, DequeueInv
  <2> QED BY <2>1, <2>2, <2>5, QuietKeeps, Reassemble
<1>12. CASE DequeueSwingFails(t)
  <2> USE <1>12 DEF DequeueSwingFails
  <2>1. TypeOK'
    BY <1>0 DEF TypeOK, DequeueInv
  <2>2. Quiet(t)
    BY <1>0 DEF TypeOK, DequeueInv, Quiet, OthersRest, Private
  <2>3. EnqueueInv(t)' /\ DequeueInv(t)'
    BY <1>0 DEF TypeOK, EnqueueInv, DequeueInv
  <2> QED BY <2>1, <2>2, <2>3, QuietKeeps, Reassemble
<1> QED BY <1>1, <1>2, <1>3, <1>4, <1>5, <1>6, <1>7, <1>8, <1>9, <1>10, <1>11,
          <1>12

-----------------------------------------------------------------------------
(* The steps that change the list, the heap or a free list.                *)

LEMMA EnqueueCallKeepsIInv ==
  ASSUME IInv, ClearMemory, NEW t \in Thread, NEW v \in Value,
         EnqueueCall(t, v)
  PROVE  IInv'
<1> USE DEF EnqueueCall
<1>0. /\ TypeOK /\ ListInv /\ HeldInv /\ PrivateInv /\ NoLeakInv
      /\ \A u \in Thread : ScanInv(u)
  BY DEF IInv, ListInv
<1>1. PICK n \in Node \ heap : /\ heap' = heap \cup {n}
                               /\ next' = [next EXCEPT ![n] = Null]
                               /\ value' = [value EXCEPT ![n] = v]
                               /\ node' = [node EXCEPT ![t] = n]
  <2>1. PICK n \in Node \ heap, old \in Node \cup {Null} :
          /\ heap' = heap \cup {n}
          /\ next' = [next EXCEPT ![n] = old]
          /\ value' = [value EXCEPT ![n] = v]
          /\ node' = [node EXCEPT ![t] = n]
    BY DEF NextAt
  <2>2. old = Null
    BY <1>0, <2>1 DEF TypeOK, ClearMemory
  <2> QED BY <2>1, <2>2
<1>2. TypeOK'
  BY <1>0, <1>1 DEF TypeOK
<1>3. /\ \A m \in heap : m # n /\ next'[m] = next[m]
      /\ next'[n] = Null /\ n \notin Linked /\ n # Null
  BY <1>0, <1>1 DEF TypeOK, HeldInv
<1>4. /\ \A u \in Thread : Held(u)' = Held(u)
      /\ Private(t)' = {n} /\ Private(t) = {}
      /\ \A u \in Thread \ {t} : Private(u)' = Private(u)
  BY <1>0, <1>1 DEF TypeOK, Held, Private
<1>5. ListInv'
  <2>1. \A i \in 1..Len(list) : list[i] \in heap
    BY <1>0 DEF TypeOK, HeldInv, ToSet
  <2>2. Last(list) \in heap
    BY <1>0, ListFacts DEF HeldInv
  <2>3. \A i \in 1..(Len(list) - 1) : next'[list[i]] = list[i + 1]
    <3>1. /\ Len(list) \in Nat
          /\ \A i \in 1..(Len(list) - 1) : next[list[i]] = list[i + 1]
      BY <1>0 DEF TypeOK, ListInv, ListIntact
    <3> QED BY <1>3, <2>1, <3>1
  <2>4. next'[Last(list)] = Null
    BY <1>0, <1>3, <2>2, ListFacts
  <2> QED BY <1>0, <1>1, <2>3, <2>4 DEF ListInv, ListIntact, LastHasNoSuccessor
<1>6. HeldInv'
  BY <1>0, <1>1, <1>3, <1>4 DEF HeldInv
<1>7. PrivateInv'
  BY <1>0, <1>1, <1>3, <1>4 DEF PrivateInv
<1>8. NoLeakInv'
  BY <1>0, <1>1, <1>4 DEF NoLeakInv
<1>9. ASSUME NEW u \in Thread PROVE ScanInv(u)'
  BY <1>0 DEF TypeOK, ScanInv
<1>10. Evolves(t)
  <2>1. OthersRest(t)
    BY <1>0, <1>1 DEF TypeOK, OthersRest
  <2>2. ASSUME NEW u \in Thread, NEW k \in 0..1, NEW m \in Node, Safe(u, k, m)
        PROVE  Safe(u, k, m)'
    BY <1>0, <1>1, <1>3, <2>2 DEF TypeOK, Safe
  <2> QED BY <1>3, <2>1, <2>2 DEF Evolves
<1>11. EnqueueInv(t)' /\ DequeueInv(t)'
  BY <1>0, <1>1, <1>3 DEF TypeOK, EnqueueInv, DequeueInv
<1> QED BY <1>2, <1>5, <1>6, <1>7, <1>8, <1>9, <1>10, <1>11, Reassemble DEF NodesInv

LEMMA EnqueueLinkKeepsIInv ==
  ASSUME IInv, NEW t \in Thread, EnqueueLink(t)
  PROVE  IInv'
<1> USE DEF EnqueueLink
<1> DEFINE c == cur_tail[t]
           n == node[t]
<1>0. /\ TypeOK /\ ListInv /\ HeldInv /\ PrivateInv /\ NoLeakInv
      /\ \A u \in Thread : ScanInv(u)
      /\ EnqueueInv(t)
  BY DEF IInv, ListInv
<1>1. TypeOK'
  <2>1. list' \in Seq(Node)
    BY <1>0 DEF TypeOK, EnqueueInv
  <2> QED BY <1>0, <2>1 DEF TypeOK, EnqueueInv
<1>2. /\ Safe(t, 0, c) /\ c \in Node /\ next[c] = Null
      /\ tail = c /\ c \in Linked /\ c = Last(list)
  <2>1. Safe(t, 0, c) /\ c \in Node /\ next[c] = Null /\ tail = c
    BY <1>0 DEF TypeOK, EnqueueInv, Safe
  <2> QED BY <1>0, <2>1, ListFacts DEF Safe
<1>3. /\ n \in Node /\ n \in heap /\ n \notin Linked /\ next[n] = Null
      /\ n # c /\ n # Null
      /\ \A u \in Thread \ {t} : n \notin Private(u)
  BY <1>0, <1>2 DEF TypeOK, PrivateInv, Private
<1>4. /\ next' = [next EXCEPT ![c] = n] /\ list' = Append(list, n)
      /\ head' = head /\ tail' = tail /\ heap' = heap
      /\ next'[c] = n /\ \A m : m # c => next'[m] = next[m]
  BY <1>0, <1>2 DEF TypeOK
<1>5. /\ \A u \in Thread : Held(u)' = Held(u)
      /\ Private(t)' = {} /\ Private(t) = {n}
      /\ \A u \in Thread \ {t} : Private(u)' = Private(u)
  BY <1>0 DEF TypeOK, Held, Private
<1>6. Linked' = Linked \cup {n} /\ IsInjective(list')
  BY <1>0, <1>3, <1>4, AppendFacts DEF TypeOK, ListInv
<1>7. ListInv'
  <2> DEFINE L == Len(list)
  <2>1. /\ L \in Nat \ {0} /\ Len(list') = L + 1 /\ DOMAIN list = 1..L
        /\ \A i \in 1..L : list'[i] = list[i]
        /\ list'[L + 1] = n /\ c = list[L]
    BY <1>0, <1>2, <1>3, <1>4, ListFacts DEF TypeOK, Last
  <2>2. /\ \A i \in 1..(L - 1) : next[list[i]] = list[i + 1]
        /\ IsInjective(list) /\ head = list[1]
    BY <1>0 DEF ListInv, ListIntact
  <2> HIDE DEF L
  <2>3. \A i \in 1..(L - 1) : list[i] # c
    <3>1. \A i, j \in 1..L : list[i] = list[j] => i = j
      BY <2>1, <2>2 DEF IsInjective
    <3> QED BY <2>1, <3>1
  <2>4. ASSUME NEW i \in 1..L PROVE next'[list'[i]] = list'[i + 1]
    <3>1. CASE i = L
      BY <1>4, <2>1, <3>1
    <3>2. CASE i # L
      <4>1. i \in 1..(L - 1) /\ i + 1 \in 1..L
        BY <2>1, <3>2
      <4> QED BY <1>4, <2>1, <2>2, <2>3, <4>1
    <3> QED BY <3>1, <3>2
  <2>5. \A i \in 1..(Len(list') - 1) : next'[list'[i]] = list'[i + 1]
    BY <2>1, <2>4
  <2>6. next'[list'[Len(list')]] = Null
    BY <1>3, <1>4, <2>1
  <2>7. tail' = list'[Len(list') - 1] /\ Len(list') - 1 # 0
    BY <1>2, <1>4, <2>1
  <2>8. ToSet(list') \subseteq heap'
    BY <1>0, <1>3, <1>4, <1>6 DEF HeldInv
  <2>9. head' = list'[1]
    BY <1>4, <2>1, <2>2
  <2>10. list' # <<>> /\ Last(list') = list'[Len(list')]
    BY <2>1 DEF Last
  <2>11. LastHasNoSuccessor'
    BY <2>6, <2>10 DEF LastHasNoSuccessor
  <2>12. ListIntact'
    BY <2>5, <2>7, <2>8, <2>9, <2>10, <2>11 DEF ListIntact
  <2> QED BY <1>6, <2>5, <2>9, <2>12 DEF ListInv
<1>8. HeldInv'
  BY <1>0, <1>2, <1>3, <1>4, <1>5, <1>6 DEF HeldInv
<1>9. PrivateInv'
  BY <1>0, <1>2, <1>3, <1>4, <1>5, <1>6 DEF PrivateInv
<1>10. NoLeakInv'
  BY <1>0, <1>4, <1>5, <1>6 DEF NoLeakInv
<1>11. ASSUME NEW u \in Thread PROVE ScanInv(u)'
  BY <1>0 DEF TypeOK, ScanInv
<1>12. Evolves(t)
  <2>1. OthersRest(t)
    BY <1>0 DEF TypeOK, OthersRest
  <2>2. ASSUME NEW u \in Thread, NEW k \in 0..1, NEW m \in Node, Safe(u, k, m)
        PROVE  Safe(u, k, m)' /\ (m \in Linked' => m \in Linked)
    BY <1>0, <1>2, <1>3, <1>4, <1>6, <2>2 DEF TypeOK, Safe
  <2> QED BY <1>2, <1>4, <2>1, <2>2 DEF Evolves
<1>13. EnqueueInv(t)' /\ DequeueInv(t)'
  <2>1. Safe(t, 0, c)'
    BY <1>2, <1>12, SafeKept
  <2> QED BY <1>0, <1>2, <1>3, <1>4, <2>1 DEF TypeOK, EnqueueInv, DequeueInv
<1> QED BY <1>1, <1>7, <1>8, <1>9, <1>10, <1>11, <1>12, <1>13, Reassemble DEF NodesInv

LEMMA DequeueSwingHeadKeepsIInv ==
  ASSUME IInv, NEW t \in Thread, DequeueSwingHead(t)
  PROVE  IInv'
<1> USE DEF DequeueSwingHead
<1>0. /\ TypeOK /\ ListInv /\ HeldInv /\ PrivateInv /\ NoLeakInv
      /\ \A u \in Thread : ScanInv(u)
      /\ DequeueInv(t)
  BY DEF IInv, ListInv
<1>1. /\ cur_head[t] = head /\ head' = next[head] /\ list' = Tail(list)
      /\ tail # head /\ next[head] # Null /\ head' \in Node
      /\ tail' = tail /\ next' = next /\ heap' = heap
  <2>1. list' = Tail(list)
    BY <1>0, ListFacts, TailFacts DEF TypeOK
  <2> QED BY <1>0, <2>1 DEF TypeOK, DequeueInv
<1>2. /\ Linked = Linked' \cup {head} /\ head \notin Linked'
      /\ IsInjective(list') /\ head \in Linked /\ list' \in Seq(Node)
  <2>1. list \in Seq(Node) /\ list # <<>> /\ list[1] = head /\ IsInjective(list)
    BY <1>0, ListFacts DEF TypeOK, ListInv
  <2> HIDE DEF DequeueSwingHead
  <2>2. /\ Linked = ToSet(Tail(list)) \cup {head} /\ head \notin ToSet(Tail(list))
        /\ IsInjective(Tail(list)) /\ Tail(list) \in Seq(Node)
    BY <2>1, TailFacts
  <2> QED BY <1>0, <1>1, <2>2, ListFacts
<1>3. /\ Held(t)' = Held(t) \cup {head}
      /\ \A u \in Thread \ {t} : Held(u)' = Held(u)
      /\ \A u \in Thread : Private(u)' = Private(u)
  BY <1>0, <1>1 DEF TypeOK, Held, Private
<1> HIDE DEF DequeueSwingHead
<1>4. ListInv' /\ list' # <<>>
  <2> DEFINE L == Len(list)
  <2>1. /\ L \in Nat \ {0} /\ Len(list') = L - 1
        /\ \A i \in 1..(L - 1) : list'[i] = list[i + 1]
    <3>1. list \in Seq(Node) /\ list # <<>> /\ list' = Tail(list)
      BY <1>0, <1>1, ListFacts DEF TypeOK
    <3>2. /\ Len(list) \in Nat \ {0} /\ Len(list') = Len(list) - 1
          /\ \A i \in 1..(Len(list) - 1) : list'[i] = list[i + 1]
      BY <3>1, TailFacts
    <3> QED BY <3>2
  <2>2. /\ \A i \in 1..(L - 1) : next[list[i]] = list[i + 1]
        /\ head = list[1] /\ next[list[L]] = Null
    BY <1>0, ListFacts DEF ListInv, ListIntact, Last
  <2>3. PICK i \in {L - 1, L} \ {0} : tail = list[i]
    BY <1>0 DEF ListInv, ListIntact
  <2> HIDE DEF L
  <2>4. L > 1
    BY <1>1, <2>1, <2>2
  <2>5. i - 1 \in {Len(list') - 1, Len(list')} \ {0} /\ tail' = list'[i - 1]
    BY <1>1, <2>1, <2>2, <2>3, <2>4
  <2>6. \A j \in 1..(Len(list') - 1) : next'[list'[j]] = list'[j + 1]
    BY <1>1, <2>1, <2>2
  <2>7. next'[list'[Len(list')]] = Null /\ head' = list'[1]
    BY <1>1, <2>1, <2>2, <2>4
  <2>8. ToSet(list') \subseteq heap'
    BY <1>0, <1>1, <1>2 DEF HeldInv
  <2>9. list' # <<>>
    BY <2>1, <2>4
  <2> QED BY <1>2, <2>5, <2>6, <2>7, <2>8, <2>9
          DEF ListInv, ListIntact, LastHasNoSuccessor, Last
<1>5. TypeOK'
  BY <1>0, <1>1, <1>2, <1>4 DEF TypeOK, DequeueSwingHead
<1>6. HeldInv'
  BY <1>0, <1>1, <1>2, <1>3 DEF HeldInv
<1>7. PrivateInv'
  BY <1>0, <1>1, <1>2, <1>3 DEF PrivateInv
<1>8. NoLeakInv'
  BY <1>0, <1>1, <1>2, <1>3 DEF NoLeakInv
<1>9. ASSUME NEW u \in Thread PROVE ScanInv(u)'
  <2>1. head \notin ToSet(free_list[u])
    BY <1>0, <1>2 DEF HeldInv, Held
  <2> QED BY <1>0, <1>1, <2>1 DEF TypeOK, ScanInv, DequeueSwingHead
<1>10. Evolves(t)
  <2>1. OthersRest(t)
    BY <1>0 DEF TypeOK, OthersRest, DequeueSwingHead
  <2>2. ASSUME NEW u \in Thread, NEW k \in 0..1, NEW m \in Node, Safe(u, k, m)
        PROVE  Safe(u, k, m)' /\ (m \in Linked' => m \in Linked)
    BY <1>0, <1>1, <1>2, <2>2 DEF TypeOK, Safe, DequeueSwingHead
  <2> QED BY <1>1, <1>2, <2>1, <2>2 DEF Evolves
<1>11. EnqueueInv(t)' /\ DequeueInv(t)'
  BY <1>0 DEF TypeOK, EnqueueInv, DequeueInv, DequeueSwingHead
<1> QED BY <1>4, <1>5, <1>6, <1>7, <1>8, <1>9, <1>10, <1>11, Reassemble DEF NodesInv

LEMMA RetireNodeKeepsIInv ==
  ASSUME IInv, NEW t \in Thread, RetireNode(t)
  PROVE  IInv'
<1> DEFINE n == cur_head[t]
           retired == Append(free_list[t], n)
<1>0. /\ TypeOK /\ ListInv /\ HeldInv /\ PrivateInv /\ NoLeakInv
      /\ \A u \in Thread : ScanInv(u)
      /\ DequeueInv(t)
  BY DEF IInv, ListInv
<1>1. /\ pc[t] = "d_retire" /\ n \in Node /\ n \in Held(t)
      /\ free_list' = [free_list EXCEPT ![t] = retired]
      /\ head' = head /\ tail' = tail /\ next' = next /\ heap' = heap
      /\ hp' = hp /\ list' = list /\ kept' = kept /\ node' = node
      /\ pc'[t] \in {"s_load", "idle"}
      /\ pc'[t] = "s_load" => slot'[t] = 0
  BY <1>0 DEF TypeOK, DequeueInv, Held, RetireNode
<1>a. \/ /\ pc' = [pc EXCEPT ![t] = "s_load"] /\ UNCHANGED <<locals, caller>>
         /\ slot' = [slot EXCEPT ![t] = 0]
         /\ ptr_list' = [ptr_list EXCEPT ![t] = {}]
      \/ /\ pc' = [pc EXCEPT ![t] = "idle"] /\ DequeueReturns(t, "true", retired)
         /\ slot' = slot /\ ptr_list' = ptr_list
  BY DEF RetireNode
<1>2. /\ retired \in Seq(Node) /\ ToSet(retired) = ToSet(free_list[t]) \cup {n}
      /\ IsInjective(retired)
  BY <1>0, <1>1, AppendFacts DEF TypeOK, ScanInv
<1>3. \A u \in Thread \ {t} :
        /\ pc'[u] = pc[u] /\ cur_head'[u] = cur_head[u]
        /\ free_list'[u] = free_list[u] /\ slot'[u] = slot[u]
        /\ ptr_list'[u] = ptr_list[u] /\ kept'[u] = kept[u]
  BY <1>0, <1>1, <1>a DEF TypeOK
<1>4. /\ free_list'[t] = retired /\ kept'[t] = <<>>
      /\ ToSet(kept[t]) = {}
  BY <1>0, <1>1, EmptyFacts DEF TypeOK, ScanInv
<1> HIDE DEF retired
<1>b. pc' = [pc EXCEPT ![t] = "s_load"] \/ pc' = [pc EXCEPT ![t] = "idle"]
  BY <1>a
<1>5. TypeOK'
  BY ReclaimTypes, TypesOfIInv DEF TypeInv, ReclaimStep
<1>6. \A u \in Thread : Held(u)' = Held(u) /\ Private(u)' = Private(u)
  BY <1>1, <1>2, <1>3, <1>4, EmptyFacts DEF Held, Private
<1>7. ListInv' /\ HeldInv' /\ PrivateInv' /\ NoLeakInv'
  <2>1. ListInv'
    BY <1>0, <1>1, ListStays
  <2> QED BY <1>0, <1>1, <1>6, <2>1 DEF HeldInv, PrivateInv, NoLeakInv
<1>8. ASSUME NEW u \in Thread PROVE ScanInv(u)'
  <2>1. CASE u = t
    <3>1. 0 < 2 * N
      OBVIOUS
    <3> QED BY <1>1, <1>2, <1>4, <2>1, <3>1, EmptyFacts DEF ScanInv
  <2>2. CASE u # t
    BY <1>0, <1>3, <2>2 DEF ScanInv
  <2> QED BY <2>1, <2>2
<1>9. Evolves(t)
  <2>1. OthersRest(t)
    BY <1>0, <1>1, <1>a DEF TypeOK, OthersRest
  <2>2. ASSUME NEW u \in Thread, NEW k \in 0..1, NEW m \in Node, Safe(u, k, m)
        PROVE  Safe(u, k, m)'
    <3>1. 0 <= 2 * u + k
      BY DEF Thread
    <3>2. ASSUME NEW w \in Thread, m \in ToSet(free_list'[w])
          PROVE  /\ pc'[w] = "s_load" => slot'[w] <= 2 * u + k \/ m \in ptr_list'[w]
                 /\ pc'[w] = "s_free" => m \in ptr_list'[w]
      <4>1. CASE w = t
        BY <1>1, <3>1, <4>1
      <4>2. CASE w # t
        BY <1>3, <2>2, <3>2, <4>2 DEF Safe
      <4> QED BY <4>1, <4>2
    <3> QED BY <1>1, <2>2, <3>2 DEF Safe
  <2> QED BY <1>1, <2>1, <2>2 DEF Evolves
<1>10. EnqueueInv(t)' /\ DequeueInv(t)'
  BY <1>1 DEF EnqueueInv, DequeueInv
<1> QED BY <1>5, <1>7, <1>8, <1>9, <1>10, Reassemble DEF NodesInv

LEMMA ScanLoadKeepsIInv ==
  ASSUME IInv, NEW t \in Thread, ScanLoad(t)
  PROVE  IInv'
<1> USE DEF ScanLoad
<1> DEFINE ptr == hp[slot[t] \div 2][slot[t] % 2]
<1>0. /\ TypeOK /\ ListInv /\ HeldInv /\ PrivateInv /\ NoLeakInv
      /\ \A u \in Thread : ScanInv(u)
  BY DEF IInv, ListInv
<1>1. /\ pc[t] = "s_load" /\ slot[t] \in 0..(2 * N) /\ slot[t] < 2 * N
      /\ head' = head /\ tail' = tail /\ next' = next /\ heap' = heap
      /\ hp' = hp /\ list' = list /\ kept' = kept /\ node' = node
      /\ cur_head' = cur_head /\ free_list' = free_list
      /\ slot'[t] = slot[t] + 1
      /\ ptr_list'[t] = ptr_list[t] \cup ({ptr} \ {Null})
      /\ pc'[t] = IF slot[t] + 1 < 2 * N THEN "s_load" ELSE "s_free"
  BY <1>0 DEF TypeOK, ScanInv
<1>2. \A u \in Thread \ {t} : /\ pc'[u] = pc[u] /\ slot'[u] = slot[u]
                              /\ ptr_list'[u] = ptr_list[u]
  BY <1>0 DEF TypeOK
<1>3. slot[t] \div 2 \in Thread /\ slot[t] % 2 \in 0..1
  BY <1>1 DEF Thread
<1>4. TypeOK'
  BY ReclaimTypes, TypesOfIInv DEF TypeInv, ReclaimStep
<1>5. \A u \in Thread : Held(u)' = Held(u) /\ Private(u)' = Private(u)
  BY <1>1, <1>2 DEF Held, Private
<1>6. ListInv' /\ HeldInv' /\ PrivateInv' /\ NoLeakInv'
  <2>1. ListInv'
    BY <1>0, <1>1, ListStays
  <2> QED BY <1>0, <1>1, <1>5, <2>1 DEF HeldInv, PrivateInv, NoLeakInv
<1>7. ASSUME NEW u \in Thread PROVE ScanInv(u)'
  BY <1>0, <1>1, <1>2 DEF ScanInv
<1>8. Evolves(t)
  <2>1. OthersRest(t)
    BY <1>0 DEF TypeOK, OthersRest
  <2>2. ASSUME NEW u \in Thread, NEW k \in 0..1, NEW m \in Node, Safe(u, k, m),
               m \in ToSet(free_list[t])
        PROVE  slot[t] + 1 <= 2 * u + k \/ m \in ptr_list'[t]
    <3>1. CASE slot[t] = 2 * u + k
      <4>1. slot[t] \div 2 = u /\ slot[t] % 2 = k
        BY <3>1 DEF Thread
      <4>2. ptr = m /\ m # Null
        BY <2>2, <4>1 DEF Safe
      <4> QED BY <1>1, <4>2
    <3>2. CASE slot[t] # 2 * u + k
      <4>1. slot[t] <= 2 * u + k \/ m \in ptr_list[t]
        BY <1>1, <2>2 DEF Safe
      <4>2. slot[t] <= 2 * u + k => slot[t] + 1 <= 2 * u + k
        BY <1>1, <3>2 DEF Thread
      <4> QED BY <1>1, <4>1, <4>2
    <3> QED BY <3>1, <3>2
  <2>3. \A u \in Thread, k \in 0..1 : 2 * u + k < 2 * N
    BY DEF Thread
  <2>4. ASSUME NEW u \in Thread, NEW k \in 0..1, NEW m \in Node, Safe(u, k, m)
        PROVE  Safe(u, k, m)'
    <3>1. ASSUME NEW w \in Thread, m \in ToSet(free_list'[w])
          PROVE  /\ pc'[w] = "s_load" => slot'[w] <= 2 * u + k \/ m \in ptr_list'[w]
                 /\ pc'[w] = "s_free" => m \in ptr_list'[w]
      <4>1. CASE w = t
        <5>1. m \in ptr_list'[t] \/ slot[t] + 1 <= 2 * u + k
          BY <1>1, <2>2, <2>4, <3>1, <4>1
        <5>2. pc'[t] = "s_free" => ~(slot[t] + 1 <= 2 * u + k)
          BY <1>1, <2>3 DEF Thread
        <5> QED BY <1>1, <4>1, <5>1, <5>2
      <4>2. CASE w # t
        BY <1>1, <1>2, <2>4, <3>1, <4>2 DEF Safe
      <4> QED BY <4>1, <4>2
    <3> QED BY <1>1, <2>4, <3>1 DEF Safe
  <2> QED BY <1>1, <2>1, <2>4 DEF Evolves
<1>9. EnqueueInv(t)' /\ DequeueInv(t)'
  <2>1. pc'[t] \in {"s_load", "s_free"}
    BY <1>1
  <2> QED BY <2>1 DEF EnqueueInv, DequeueInv
<1> QED BY <1>4, <1>6, <1>7, <1>8, <1>9, Reassemble DEF NodesInv

LEMMA ScanFreeKeepsIInv ==
  ASSUME IInv, NEW t \in Thread, ScanFree(t)
  PROVE  IInv'
<1> DEFINE n == Last(free_list[t])
           rest == Front(free_list[t])
           keep == n \in ptr_list[t]
<1>0. /\ TypeOK /\ ListInv /\ HeldInv /\ PrivateInv /\ NoLeakInv
      /\ \A u \in Thread : ScanInv(u)
  BY DEF IInv, ListInv
<1>1. /\ pc[t] = "s_free" /\ pc' = [pc EXCEPT ![t] = "s_free"]
      /\ free_list' = [free_list EXCEPT ![t] = rest] /\ free_list[t] # <<>>
      /\ heap' = IF keep THEN heap ELSE heap \ {n}
      /\ kept' = IF keep THEN [kept EXCEPT ![t] = Append(kept[t], n)] ELSE kept
      /\ head' = head /\ tail' = tail /\ next' = next /\ value' = value
      /\ hp' = hp /\ list' = list /\ node' = node /\ cur_head' = cur_head
      /\ cur_tail' = cur_tail /\ lnext' = lnext /\ out' = out /\ ret' = ret
      /\ slot' = slot /\ ptr_list' = ptr_list
  BY <1>0 DEF TypeOK, ScanFree
<1>2. /\ rest \in Seq(Node) /\ n \in Node
      /\ ToSet(free_list[t]) = ToSet(rest) \cup {n}
      /\ IsInjective(rest) /\ n \notin ToSet(rest)
  BY <1>0, <1>1, FrontFacts DEF TypeOK, ScanInv
<1>3. /\ n \notin ToSet(kept[t]) /\ Append(kept[t], n) \in Seq(Node)
      /\ ToSet(Append(kept[t], n)) = ToSet(kept[t]) \cup {n}
      /\ IsInjective(kept[t]) /\ IsInjective(Append(kept[t], n))
  BY <1>0, <1>2, AppendFacts DEF TypeOK, ScanInv
<1>4. n \in Held(t) /\ n \notin Linked /\ next[n] # Null
  BY <1>0, <1>2 DEF HeldInv, Held
<1> HIDE DEF n, rest
<1>5. /\ free_list'[t] = rest /\ pc'[t] = "s_free"
      /\ kept'[t] = IF keep THEN Append(kept[t], n) ELSE kept[t]
      /\ \A u \in Thread \ {t} : /\ pc'[u] = pc[u] /\ kept'[u] = kept[u]
                                 /\ free_list'[u] = free_list[u]
  BY <1>0, <1>1 DEF TypeOK
<1>6. TypeOK'
  BY ReclaimTypes, TypesOfIInv DEF TypeInv, ReclaimStep
<1>7. /\ Held(t)' = IF keep THEN Held(t) ELSE Held(t) \ {n}
      /\ \A u \in Thread \ {t} : Held(u)' = Held(u)
      /\ \A u \in Thread : Private(u)' = Private(u)
  <2>1. Held(t)' = IF keep THEN Held(t) ELSE Held(t) \ {n}
    BY <1>1, <1>2, <1>3, <1>5 DEF Held
  <2>2. \A u \in Thread \ {t} : Held(u)' = Held(u)
    BY <1>1, <1>5 DEF Held
  <2>3. \A u \in Thread : Private(u)' = Private(u)
    BY <1>1, <1>5 DEF Private
  <2> QED BY <2>1, <2>2, <2>3
<1>8. ListInv' /\ HeldInv'
  <2>1. Linked \subseteq heap'
    BY <1>0, <1>1, <1>4 DEF HeldInv
  <2>2. ListInv'
    BY <1>0, <1>1, <2>1 DEF ListInv, ListIntact, LastHasNoSuccessor, Last
  <2>3. HeldInv'
    BY <1>0, <1>1, <1>4, <1>7, <2>1 DEF HeldInv
  <2> QED BY <2>2, <2>3
<1>9. PrivateInv'
  BY <1>0, <1>1, <1>4, <1>7 DEF PrivateInv
<1>10. NoLeakInv'
  BY <1>0, <1>1, <1>7 DEF NoLeakInv
<1>11. ASSUME NEW u \in Thread PROVE ScanInv(u)'
  <2>1. CASE u = t
    <3>1. ToSet(free_list[t]) \cap ToSet(kept[t]) = {}
      BY <1>0 DEF ScanInv
    <3> QED BY <1>2, <1>3, <1>5, <2>1, <3>1 DEF ScanInv
  <2>2. CASE u # t
    BY <1>0, <1>1, <1>5, <2>2 DEF ScanInv
  <2> QED BY <2>1, <2>2
<1>12. Evolves(t)
  <2>1. OthersRest(t)
    BY <1>0, <1>1, <1>5 DEF OthersRest
  <2>2. ASSUME NEW u \in Thread, NEW k \in 0..1, NEW m \in Node, Safe(u, k, m)
        PROVE  Safe(u, k, m)'
    <3>1. m \in heap'
      BY <1>1, <1>2, <2>2 DEF Safe
    <3>2. ASSUME NEW w \in Thread, m \in ToSet(free_list'[w])
          PROVE  m \in ToSet(free_list[w]) /\ pc'[w] = pc[w]
      BY <1>1, <1>2, <1>5, <3>2
    <3> QED BY <1>1, <2>2, <3>1, <3>2 DEF Safe
  <2> QED BY <1>1, <2>1, <2>2 DEF Evolves
<1>13. EnqueueInv(t)' /\ DequeueInv(t)'
  BY <1>5 DEF EnqueueInv, DequeueInv
<1> QED BY <1>6, <1>8, <1>9, <1>10, <1>11, <1>12, <1>13, Reassemble DEF NodesInv

LEMMA ScanEndKeepsIInv ==
  ASSUME IInv, NEW t \in Thread, ScanEnd(t)
  PROVE  IInv'
<1>0. /\ TypeOK /\ ListInv /\ HeldInv /\ PrivateInv /\ NoLeakInv
      /\ \A u \in Thread : ScanInv(u)
  BY DEF IInv, ListInv
<1> USE DEF ScanEnd
<1>1. TypeOK'
  BY <1>0 DEF TypeOK
<1>2. /\ pc[t] = "s_free" /\ pc'[t] = "idle" /\ free_list[t] = <<>>
      /\ free_list'[t] = kept[t] /\ kept'[t] = <<>>
      /\ \A u \in Thread \ {t} :
           /\ pc'[u] = pc[u] /\ cur_head'[u] = cur_head[u]
           /\ free_list'[u] = free_list[u] /\ kept'[u] = kept[u]
           /\ slot'[u] = slot[u] /\ ptr_list'[u] = ptr_list[u]
      /\ head' = head /\ tail' = tail /\ next' = next /\ heap' = heap
      /\ hp' = hp /\ list' = list /\ node' = node
  BY <1>0 DEF TypeOK
<1>3. \A u \in Thread : Held(u)' = Held(u) /\ Private(u)' = Private(u)
  BY <1>2, EmptyFacts DEF Held, Private
<1>4. ListInv' /\ HeldInv' /\ PrivateInv' /\ NoLeakInv'
  <2>1. ListInv'
    BY <1>0, <1>2, ListStays
  <2> QED BY <1>0, <1>2, <1>3, <2>1 DEF HeldInv, PrivateInv, NoLeakInv
<1>5. ASSUME NEW u \in Thread PROVE ScanInv(u)'
  BY <1>0, <1>2, EmptyFacts DEF ScanInv
<1>6. Evolves(t)
  <2>1. OthersRest(t)
    BY <1>0 DEF TypeOK, OthersRest
  <2>2. ASSUME NEW u \in Thread, NEW k \in 0..1, NEW m \in Node, Safe(u, k, m)
        PROVE  Safe(u, k, m)'
    BY <1>2, <2>2 DEF Safe
  <2> QED BY <1>2, <2>1, <2>2 DEF Evolves
<1>7. EnqueueInv(t)' /\ DequeueInv(t)'
  BY <1>2 DEF EnqueueInv, DequeueInv
<1> QED BY <1>1, <1>4, <1>5, <1>6, <1>7, Reassemble DEF NodesInv

-----------------------------------------------------------------------------
(* The theorems                                                            *)

\* IInv holds in every state, however the threads interleave, as long as the
\* memory of new nodes reads as null: the constructor does not see to that.
THEOREM IInvHolds == Spec /\ [][ClearMemory]_vars => []IInv
<1>1. Init => IInv
  BY InitIInv
<1>2. IInv /\ [Next]_vars /\ [ClearMemory]_vars => IInv'
  <2> SUFFICES ASSUME IInv, [Next]_vars, [ClearMemory]_vars PROVE IInv'
    OBVIOUS
  <2>1. CASE UNCHANGED vars
    <3> USE <2>1 DEF IInv, vars
    <3>1. TypeOK' /\ ListIntact' /\ IsInjective(list)'
      BY DEF TypeOK, ListIntact, LastHasNoSuccessor
    <3>2. HeldInv' /\ PrivateInv' /\ NoLeakInv'
      BY DEF HeldInv, PrivateInv, NoLeakInv, Held, Private
    <3>3. ASSUME NEW t \in Thread PROVE ScanInv(t)'
      BY DEF ScanInv
    <3>4. ASSUME NEW t \in Thread PROVE EnqueueInv(t)'
      BY DEF EnqueueInv, Safe
    <3>5. ASSUME NEW t \in Thread PROVE DequeueInv(t)'
      BY DEF DequeueInv, Safe
    <3> QED BY <3>1, <3>2, <3>3, <3>4, <3>5
  <2>2. CASE Next /\ ClearMemory
    <3>1. PICK t \in Thread :
            Call(t) \/ EnqueueStep(t) \/ DequeueStep(t) \/ ReclaimStep(t)
      BY <2>2 DEF Next
    <3>2. CASE Call(t)
      BY <2>2, <3>2, EnqueueCallKeepsIInv, DequeueQuietStepKeepsIInv DEF Call
    <3>3. CASE EnqueueStep(t)
      BY <3>3, EnqueueQuietStepKeepsIInv, EnqueueLinkKeepsIInv DEF EnqueueStep
    <3>4. CASE DequeueStep(t)
      BY <3>4, DequeueQuietStepKeepsIInv, DequeueSwingHeadKeepsIInv DEF DequeueStep
    <3>5. CASE ReclaimStep(t)
      BY <3>5, RetireNodeKeepsIInv, ScanLoadKeepsIInv, ScanFreeKeepsIInv,
         ScanEndKeepsIInv DEF ReclaimStep
    <3> QED BY <3>1, <3>2, <3>3, <3>4, <3>5
  <2> QED BY <2>1, <2>2
<1> QED BY <1>1, <1>2, PTL DEF Spec

\* No operation reads or deletes a node that has been deleted, so that the
\* protocol of hazard_ptr.h and of the two loops of ms_queue_strong.h is enough.
THEOREM HazardPointersProtect ==
  Spec /\ [][ClearMemory]_vars => []ReadsLiveNodes
<1>1. IInv => ReadsLiveNodes
  <2> SUFFICES ASSUME IInv, NEW t \in Thread PROVE Dereferenced(t) \subseteq heap
    BY DEF ReadsLiveNodes
  <2>1. TypeOK /\ HeldInv /\ EnqueueInv(t) /\ DequeueInv(t)
    BY DEF IInv
  <2>2. ToSet(free_list[t]) \subseteq heap
    BY <2>1 DEF HeldInv, Held
  <2> QED BY <2>1, <2>2 DEF Dereferenced, EnqueueInv, DequeueInv, Safe
<1> QED BY <1>1, IInvHolds, PTL

\* The list is the one the operations built, of nodes that are allocated: no
\* compare-and-swap takes a node for another that had its address.
THEOREM ListStaysIntact == Spec /\ [][ClearMemory]_vars => []ListIntact
BY IInvHolds, PTL DEF IInv

LEMMA RetiredFacts ==
  ASSUME IInv, NEW t \in Thread
  PROVE  IsInjective(Retired(t)) /\ ToSet(Retired(t)) = Held(t)
<1> DEFINE last == IF pc[t] = "d_retire" THEN <<cur_head[t]>> ELSE <<>>
<1>1. /\ free_list[t] \in Seq(Node) /\ kept[t] \in Seq(Node)
      /\ ScanInv(t) /\ DequeueInv(t)
      /\ pc[t] = "d_retire" => cur_head[t] \in Node
  BY DEF IInv, TypeOK, DequeueInv
<1>2. /\ last \in Seq(Node) /\ IsInjective(last)
      /\ ToSet(last) = IF pc[t] = "d_retire" THEN {cur_head[t]} ELSE {}
  <2>1. CASE pc[t] = "d_retire"
    BY <1>1, <2>1 DEF IsInjective, ToSet
  <2>2. CASE pc[t] # "d_retire"
    BY <2>2, EmptyFacts
  <2> QED BY <2>1, <2>2
<1> HIDE DEF last
<1> DEFINE both == free_list[t] \o kept[t]
<1>3. /\ both \in Seq(Node) /\ IsInjective(both)
      /\ ToSet(both) = ToSet(free_list[t]) \cup ToSet(kept[t])
  BY <1>1, ConcatFacts DEF ScanInv
<1>4. pc[t] = "d_retire" => cur_head[t] \notin ToSet(both)
  BY <1>1, <1>3, EmptyFacts DEF ScanInv
<1>5. Retired(t) = both \o last
  BY DEF Retired, last
<1> HIDE DEF both
<1>6. /\ ToSet(both \o last) = ToSet(both) \cup ToSet(last)
      /\ IsInjective(both \o last)
  BY <1>2, <1>3, <1>4, ConcatFacts
<1> QED BY <1>2, <1>3, <1>5, <1>6 DEF Held

\* A node waits to be deleted in one place at most, and after it has left the
\* queue: it is deleted once.
THEOREM EveryNodeRetiredOnce ==
  Spec /\ [][ClearMemory]_vars => []RetiredOnce
<1>1. IInv => RetiredOnce
  BY RetiredFacts DEF IInv, HeldInv, RetiredOnce
<1> QED BY <1>1, IInvHolds, PTL

\* Threads that keep their free_list forget no node.
THEOREM NothingLeaks == Spec /\ [][ClearMemory]_vars => []NoLeak
<1>1. IInv => NoLeak
  <2> SUFFICES ASSUME IInv PROVE NoLeak
    OBVIOUS
  <2>1. HeldInv /\ PrivateInv /\ NoLeakInv
    BY DEF IInv
  <2>2. \A t \in Thread : ToSet(Retired(t)) = Held(t)
    BY RetiredFacts
  <2> DEFINE P == UNION {Private(t) : t \in Thread}
             H == UNION {Held(t) : t \in Thread}
             R == UNION {ToSet(Retired(t)) : t \in Thread}
  <2>3. heap = ToSet(list) \cup P \cup H
    <3>1. Linked \subseteq heap
      BY <2>1 DEF HeldInv
    <3>2. \A t \in Thread : Private(t) \subseteq heap /\ Held(t) \subseteq heap
      BY <2>1 DEF HeldInv, PrivateInv
    <3>3. \A n \in heap :
            n \in Linked \/ \E t \in Thread : n \in Private(t) \/ n \in Held(t)
      BY <2>1 DEF NoLeakInv
    <3>4. P \subseteq heap /\ H \subseteq heap
      BY <3>2
    <3>5. \A t \in Thread : Private(t) \subseteq P
      OBVIOUS
    <3>6. \A t \in Thread : Held(t) \subseteq H
      OBVIOUS
    <3> HIDE DEF P, H
    <3> QED BY <3>1, <3>3, <3>4, <3>5, <3>6
  <2>4. R = H
    BY <2>2
  <2>5. heap = ToSet(list) \cup P \cup R
    <3> HIDE DEF P, H, R
    <3> QED BY <2>3, <2>4
  <2> QED BY <2>5, Zenon DEF NoLeak
<1> QED BY <1>1, IInvHolds, PTL

-----------------------------------------------------------------------------
(* How much a thread holds back.  IInv does not say how many nodes a scan  *)
(* can keep: ptr_list has at most one node per hazard pointer, but 2 * N   *)
(* would be one too many, as the next node retired is added before the     *)
(* next scan.  The one to spare is the second hazard pointer of the thread *)
(* that scans.  It still holds the node that became head when the thread   *)
(* dequeued its predecessor; whoever retires it, this thread does not.     *)

\* pc values of a dequeue that has moved head
Reclaiming == {"d_retire", "s_load", "s_free"}

\* The bound of GarbageBound
Limit == IF Threshold > 2 * N THEN Threshold ELSE 2 * N

\* Once slot has passed the second hazard pointer of t, ptr_list has one node
\* less than hazard pointers have been read, not counting lnext.  Outside of a
\* scan there is room for one node more.
GarbageInv(t) ==
  /\ pc[t] \in Reclaiming => hp[t][1] = lnext[t] /\ lnext[t] \notin Held(t)
  /\ pc[t] \in {"s_load", "s_free"} =>
       /\ IsFiniteSet(ptr_list[t] \ {lnext[t]})
       /\ Cardinality(ptr_list[t] \ {lnext[t]})
            <= IF slot[t] > 2 * t + 1 THEN slot[t] - 1 ELSE slot[t]
       /\ Len(free_list[t]) + Len(kept[t]) <= Limit
  /\ pc[t] = "s_free" => slot[t] = 2 * N /\ ToSet(kept[t]) \subseteq ptr_list[t]
  /\ pc[t] \notin {"s_load", "s_free"} =>
       Len(free_list[t]) + Len(kept[t]) < Limit

\* A sequence without repetitions is as long as its set of elements is large.
LEMMA InjectiveCardinality ==
  ASSUME NEW S, NEW s \in Seq(S), IsInjective(s)
  PROVE  IsFiniteSet(ToSet(s)) /\ Cardinality(ToSet(s)) = Len(s)
<1>1. Len(s) \in Nat /\ DOMAIN s = 1..Len(s) /\ s \in [1..Len(s) -> ToSet(s)]
  BY DEF ToSet
<1>2. s \in Bijection(1..Len(s), ToSet(s))
  BY <1>1 DEF ToSet, IsInjective, Bijection, Injection, Surjection
<1>3. ExistsBijection(1..Len(s), ToSet(s))
  BY <1>2 DEF ExistsBijection
<1>4. IsFiniteSet(1..Len(s)) /\ Cardinality(1..Len(s)) = Len(s)
  BY <1>1, FS_Interval
<1> QED BY <1>3, <1>4, FS_Bijection

LEMMA LimitFacts == Limit \in Nat \ {0} /\ 2 * N <= Limit /\ Threshold <= Limit
BY DEF Limit

\* A step leaves what other threads hold back alone.
LEMMA OthersKeepGarbage ==
  ASSUME IInv, NEW t \in Thread, NEW u \in Thread, u # t, GarbageInv(u),
         Call(t) \/ EnqueueStep(t) \/ DequeueStep(t) \/ ReclaimStep(t)
  PROVE  GarbageInv(u)'
<1>1. TypeOK
  BY DEF IInv
<1>2. /\ pc'[u] = pc[u] /\ hp'[u] = hp[u] /\ lnext'[u] = lnext[u]
      /\ cur_head'[u] = cur_head[u] /\ free_list'[u] = free_list[u]
      /\ kept'[u] = kept[u] /\ slot'[u] = slot[u] /\ ptr_list'[u] = ptr_list[u]
  <2>1. CASE Call(t)
    BY <1>1, <2>1 DEF TypeOK, Call, DequeueCall, EnqueueCall
  <2>2. CASE EnqueueStep(t)
    BY <1>1, <2>2 DEF TypeOK, EnqueueStep, EnqueueLoadTail, EnqueueProtect,
       EnqueueSafe, EnqueueLoadNext, EnqueueCheckTail, EnqueueLink,
       EnqueueLinkFails, EnqueueHelpTail, EnqueueSwingTail
  <2>3. CASE DequeueStep(t)
    BY <1>1, <2>3 DEF TypeOK, DequeueStep, DequeueLoadHead, DequeueProtect,
       DequeueSafe, DequeueLoadTail, DequeueLoadNext, DequeueProtectNext,
       DequeueCheckHead, DequeueEmpty, DequeueHelpTail, DequeueReadValue,
       DequeueSwingHead, DequeueSwingFails
  <2>4. CASE ReclaimStep(t)
    BY <1>1, <2>4 DEF TypeOK, ReclaimStep, RetireNode, ScanLoad, ScanFree,
       ScanEnd
  <2> QED BY <2>1, <2>2, <2>3, <2>4
<1> QED BY <1>2 DEF GarbageInv, Held, Reclaiming

\* So does a step of t before it retires a node.
LEMMA QuietStepKeepsGarbage ==
  ASSUME IInv, NEW t \in Thread, GarbageInv(t),
         Call(t) \/ EnqueueStep(t) \/ (DequeueStep(t) /\ ~DequeueSwingHead(t))
  PROVE  GarbageInv(t)'
<1>1. TypeOK
  BY DEF IInv
<1>2. /\ pc[t] \notin Reclaiming /\ pc'[t] \notin Reclaiming
      /\ free_list'[t] = free_list[t] /\ kept'[t] = kept[t]
  <2>1. CASE Call(t)
    BY <1>1, <2>1 DEF TypeOK, Reclaiming, Call, DequeueCall, EnqueueCall
  <2>2. CASE EnqueueStep(t)
    BY <1>1, <2>2 DEF TypeOK, Reclaiming, EnqueueStep, EnqueueLoadTail,
       EnqueueProtect, EnqueueSafe, EnqueueLoadNext, EnqueueCheckTail,
       EnqueueLink, EnqueueLinkFails, EnqueueHelpTail, EnqueueSwingTail
  <2>3. CASE DequeueStep(t) /\ ~DequeueSwingHead(t)
    BY <1>1, <2>3 DEF TypeOK, Reclaiming, DequeueStep, DequeueLoadHead,
       DequeueProtect, DequeueSafe, DequeueLoadTail, DequeueLoadNext,
       DequeueProtectNext, DequeueCheckHead, DequeueEmpty, DequeueHelpTail,
       DequeueReadValue, DequeueSwingFails
  <2> QED BY <2>1, <2>2, <2>3
<1> QED BY <1>2 DEF GarbageInv, Reclaiming

\* The node that becomes head is in the list, so not among those retired.
LEMMA SwingKeepsGarbage ==
  ASSUME IInv, IInv', NEW t \in Thread, GarbageInv(t), DequeueSwingHead(t)
  PROVE  GarbageInv(t)'
<1>1. /\ pc[t] = "d_swing" /\ pc'[t] = "d_retire" /\ head' = lnext[t]
      /\ free_list' = free_list /\ kept' = kept /\ lnext' = lnext /\ hp' = hp
  BY DEF IInv, TypeOK, DequeueSwingHead
<1>2. hp[t][1] = lnext[t]
  BY <1>1 DEF IInv, DequeueInv, Safe
<1>3. head' \in Linked' /\ lnext'[t] \notin Held(t)'
  <2>1. list' \in Seq(Node) /\ list' # <<>> /\ head' = list'[1]
    BY DEF IInv, TypeOK, ListIntact
  <2>2. head' \in ToSet(list')
    BY <2>1 DEF ToSet
  <2>3. \A n \in Held(t)' : n \notin ToSet(list')
    BY DEF IInv, HeldInv
  <2> QED BY <1>1, <2>2, <2>3
<1> QED BY <1>1, <1>2, <1>3 DEF GarbageInv, Reclaiming

LEMMA RetireKeepsGarbage ==
  ASSUME IInv, NEW t \in Thread, GarbageInv(t), RetireNode(t)
  PROVE  GarbageInv(t)'
<1> DEFINE retired == Append(free_list[t], cur_head[t])
<1>1. /\ pc[t] = "d_retire" /\ kept' = kept /\ hp' = hp
      /\ free_list[t] \in Seq(Node) /\ cur_head[t] \in Node
      /\ free_list'[t] = retired /\ kept[t] = <<>>
  <2>1. TypeOK /\ ScanInv(t) /\ DequeueInv(t)
    BY DEF IInv
  <2>2. /\ pc[t] = "d_retire" /\ kept' = kept /\ hp' = hp
        /\ free_list'[t] = retired
    BY <2>1 DEF TypeOK, RetireNode
  <2> QED BY <2>1, <2>2 DEF TypeOK, ScanInv, DequeueInv
<1>2. /\ Len(free_list[t]) \in Nat /\ Len(retired) = Len(free_list[t]) + 1
      /\ ToSet(retired) = ToSet(free_list[t]) \cup {cur_head[t]}
      /\ Len(kept[t]) = 0
  BY <1>1, AppendFacts
<1>3. Len(free_list[t]) < Limit
  BY <1>1, <1>2, LimitFacts DEF GarbageInv
<1>4. CASE Len(retired) >= Threshold
  <2>1. /\ pc'[t] = "s_load" /\ slot'[t] = 0 /\ ptr_list'[t] = {}
        /\ lnext' = lnext
    BY <1>4 DEF IInv, TypeOK, RetireNode
  <2>2. Held(t)' = Held(t)
    BY <1>1, <1>2, <2>1 DEF Held
  <2>3. IsFiniteSet({}) /\ Cardinality({}) = 0 /\ {} \ {lnext[t]} = {}
    BY FS_EmptySet
  <2>4. t \in Nat
    BY DEF Thread
  <2>5. Len(free_list'[t]) + Len(kept'[t]) <= Limit
    BY <1>1, <1>2, <1>3, LimitFacts
  <2> HIDE DEF retired
  <2> QED BY <1>1, <2>1, <2>2, <2>3, <2>4, <2>5 DEF GarbageInv, Reclaiming
<1>5. CASE Len(retired) < Threshold
  <2>1. pc'[t] = "idle"
    BY <1>5 DEF IInv, TypeOK, RetireNode
  <2>2. Len(free_list'[t]) + Len(kept'[t]) < Limit
    BY <1>1, <1>2, <1>5, LimitFacts
  <2> QED BY <2>1, <2>2 DEF GarbageInv, Reclaiming
<1> QED BY <1>1, <1>2, <1>4, <1>5

\* A scan finds at most one node in each hazard pointer, and none in its own
\* second one that counts.
LEMMA ScanLoadKeepsGarbage ==
  ASSUME IInv, NEW t \in Thread, GarbageInv(t), ScanLoad(t)
  PROVE  GarbageInv(t)'
<1> DEFINE ptr == hp[slot[t] \div 2][slot[t] % 2]
           S == ptr_list[t] \ {lnext[t]}
<1>1. /\ pc[t] = "s_load" /\ slot[t] \in 0..(2 * N) /\ slot[t] < 2 * N
      /\ hp' = hp /\ kept' = kept /\ cur_head' = cur_head /\ lnext' = lnext
      /\ free_list' = free_list /\ slot'[t] = slot[t] + 1
      /\ ptr_list'[t] = ptr_list[t] \cup ({ptr} \ {Null})
      /\ pc'[t] = IF slot[t] + 1 < 2 * N THEN "s_load" ELSE "s_free"
      /\ kept[t] = <<>>
  BY DEF IInv, TypeOK, ScanInv, ScanLoad
<1>2. Held(t)' = Held(t) /\ pc'[t] \in {"s_load", "s_free"}
  BY <1>1 DEF Held
<1>3. /\ IsFiniteSet(S) /\ hp[t][1] = lnext[t]
      /\ Cardinality(S) <= IF slot[t] > 2 * t + 1 THEN slot[t] - 1 ELSE slot[t]
      /\ Cardinality(S) \in Nat
  BY <1>1, FS_CardinalityType DEF GarbageInv, Reclaiming
<1>4. ptr_list'[t] \ {lnext[t]} \in {S, S \cup {ptr}}
  BY <1>1
<1>5. /\ IsFiniteSet(S \cup {ptr}) /\ Cardinality(S \cup {ptr}) <= Cardinality(S) + 1
      /\ Cardinality(S \cup {ptr}) \in Nat
  <2> HIDE DEF S, ptr
  <2>1. /\ IsFiniteSet(S \cup {ptr})
        /\ Cardinality(S \cup {ptr}) = IF ptr \in S THEN Cardinality(S)
                                      ELSE Cardinality(S) + 1
    BY <1>3, FS_AddElement
  <2> QED BY <1>3, <2>1
<1>6. slot[t] = 2 * t + 1 => ptr_list'[t] \ {lnext[t]} = S
  <2> SUFFICES ASSUME slot[t] = 2 * t + 1 PROVE ptr = lnext[t]
    BY <1>1
  <2>1. slot[t] \div 2 = t /\ slot[t] % 2 = 1
    BY DEF Thread
  <2> QED BY <1>3, <2>1
<1>7. /\ IsFiniteSet(ptr_list'[t] \ {lnext'[t]})
      /\ Cardinality(ptr_list'[t] \ {lnext'[t]})
           <= IF slot'[t] > 2 * t + 1 THEN slot'[t] - 1 ELSE slot'[t]
  <2> DEFINE S2 == ptr_list'[t] \ {lnext'[t]}
  <2>1. t \in Int /\ S2 \in {S, S \cup {ptr}} /\ (slot[t] = 2 * t + 1 => S2 = S)
    <3>1. t \in Int
      BY DEF Thread
    <3> HIDE DEF S, ptr
    <3> QED BY <1>1, <1>4, <1>6, <3>1
  <2> HIDE DEF S, ptr, S2
  <2>2. /\ IsFiniteSet(S2) /\ Cardinality(S2) \in Nat
        /\ Cardinality(S2) <= Cardinality(S) + 1
        /\ slot[t] = 2 * t + 1 => Cardinality(S2) = Cardinality(S)
    <3>1. CASE S2 = S
      BY <1>3, <3>1
    <3>2. CASE S2 # S
      BY <1>3, <1>5, <2>1, <3>2
    <3> QED BY <3>1, <3>2
  <2>3. Cardinality(S2) <= IF slot[t] + 1 > 2 * t + 1 THEN slot[t] ELSE slot[t] + 1
    <3> DEFINE c == Cardinality(S)
               d == Cardinality(S2)
    <3>1. /\ c \in Nat /\ d \in Nat /\ d <= c + 1 /\ t \in Int /\ slot[t] \in Int
          /\ slot[t] = 2 * t + 1 => d = c
          /\ c <= IF slot[t] > 2 * t + 1 THEN slot[t] - 1 ELSE slot[t]
      BY <1>1, <1>3, <2>1, <2>2
    <3> HIDE DEF c, d
    <3>2. d <= IF slot[t] + 1 > 2 * t + 1 THEN slot[t] ELSE slot[t] + 1
      BY <3>1
    <3> QED BY <3>2 DEF d
  <2> QED BY <1>1, <2>1, <2>2, <2>3 DEF S2
<1>8. pc'[t] = "s_free" => slot'[t] = 2 * N /\ ToSet(kept'[t]) = {}
  BY <1>1, EmptyFacts
<1> HIDE DEF S, ptr
<1> QED BY <1>1, <1>2, <1>7, <1>8 DEF GarbageInv, Reclaiming

LEMMA ScanFreeKeepsGarbage ==
  ASSUME IInv, NEW t \in Thread, GarbageInv(t), ScanFree(t)
  PROVE  GarbageInv(t)'
<1> DEFINE n == Last(free_list[t])
<1>1. /\ pc[t] = "s_free" /\ pc'[t] = "s_free" /\ hp' = hp /\ lnext' = lnext
      /\ free_list[t] \in Seq(Node) /\ free_list[t] # <<>> /\ kept[t] \in Seq(Node)
      /\ free_list'[t] = Front(free_list[t])
      /\ slot' = slot /\ ptr_list' = ptr_list
      /\ \/ n \in ptr_list[t] /\ kept'[t] = Append(kept[t], n)
         \/ kept'[t] = kept[t]
  BY DEF IInv, TypeOK, ScanFree
<1>2. /\ n \in Node /\ Front(free_list[t]) \in Seq(Node)
      /\ ToSet(free_list[t]) = ToSet(Front(free_list[t])) \cup {n}
      /\ Len(Front(free_list[t])) = Len(free_list[t]) - 1
      /\ Len(free_list[t]) \in Nat /\ Len(kept[t]) \in Nat
  BY <1>1, FrontFacts
<1>3. /\ Len(Append(kept[t], n)) = Len(kept[t]) + 1
      /\ ToSet(Append(kept[t], n)) = ToSet(kept[t]) \cup {n}
  BY <1>1, <1>2, AppendFacts
<1> HIDE DEF n
<1>4. Held(t)' \subseteq Held(t)
  BY <1>1, <1>2, <1>3 DEF Held
<1>5. Len(free_list[t]) + Len(kept[t]) <= Limit /\ ToSet(kept[t]) \subseteq ptr_list[t]
  BY <1>1 DEF GarbageInv
<1>6. Len(free_list'[t]) = Len(free_list[t]) - 1
  BY <1>1, <1>2
<1>7. Len(free_list'[t]) + Len(kept'[t]) <= Limit
  <2>1. Len(kept'[t]) \in {Len(kept[t]), Len(kept[t]) + 1}
    BY <1>1, <1>3
  <2> DEFINE a == Len(free_list[t])
             b == Len(kept[t])
             b2 == Len(kept'[t])
  <2>2. /\ a \in Nat /\ b \in Nat /\ b2 \in {b, b + 1} /\ a + b <= Limit
        /\ Limit \in Nat
    BY <1>2, <1>5, <2>1, LimitFacts
  <2> HIDE DEF a, b, b2
  <2>3. (a - 1) + b2 <= Limit
    BY <2>2
  <2> QED BY <1>6, <2>3 DEF a, b2
<1>8. ToSet(kept'[t]) \subseteq ptr_list[t]
  <2>1. CASE kept'[t] = kept[t]
    BY <1>5, <2>1
  <2>2. CASE n \in ptr_list[t] /\ kept'[t] = Append(kept[t], n)
    BY <1>3, <1>5, <2>2
  <2> QED BY <1>1, <2>1, <2>2
<1> QED BY <1>1, <1>4, <1>7, <1>8 DEF GarbageInv, Reclaiming

\* What a scan keeps is in ptr_list, and leaves room for one node more.
LEMMA ScanEndKeepsGarbage ==
  ASSUME IInv, NEW t \in Thread, GarbageInv(t), ScanEnd(t)
  PROVE  GarbageInv(t)'
<1>1. /\ pc[t] = "s_free" /\ pc'[t] = "idle" /\ kept[t] \in Seq(Node)
      /\ free_list'[t] = kept[t] /\ kept'[t] = <<>> /\ IsInjective(kept[t])
  BY DEF IInv, TypeOK, ScanInv, ScanEnd
<1> DEFINE S == ptr_list[t] \ {lnext[t]}
<1>2. ToSet(kept[t]) \in SUBSET S
  BY <1>1 DEF GarbageInv, Reclaiming, Held
<1>3. IsFiniteSet(S) /\ Cardinality(S) <= 2 * N - 1
  BY <1>1 DEF GarbageInv, Thread
<1> HIDE DEF S
<1>4. /\ Cardinality(ToSet(kept[t])) <= Cardinality(S)
      /\ Cardinality(S) \in Nat
      /\ Cardinality(ToSet(kept[t])) = Len(kept[t]) /\ Len(kept[t]) \in Nat
  BY <1>1, <1>2, <1>3, FS_Subset, FS_CardinalityType, InjectiveCardinality
<1>5. Len(kept[t]) < Limit
  BY <1>3, <1>4, LimitFacts
<1> QED BY <1>1, <1>4, <1>5 DEF GarbageInv, Reclaiming

\* A thread that is stopped, or slow, holds back a bounded number of nodes,
\* whatever the others do: retired nodes cannot fill the memory.
THEOREM BoundedGarbage == Spec /\ [][ClearMemory]_vars => []GarbageBound
<1> DEFINE Inv == \A t \in Thread : GarbageInv(t)
<1>1. Init => Inv
  <2> SUFFICES ASSUME Init, NEW t \in Thread PROVE GarbageInv(t)
    OBVIOUS
  <2>1. pc[t] = "idle" /\ free_list[t] = <<>> /\ kept[t] = <<>>
    BY DEF Init
  <2> QED BY <2>1, LimitFacts DEF GarbageInv, Reclaiming
<1>2. IInv /\ IInv' /\ Inv /\ [Next]_vars => Inv'
  <2> SUFFICES ASSUME IInv, IInv', Inv, [Next]_vars, NEW u \in Thread
               PROVE  GarbageInv(u)'
    OBVIOUS
  <2>1. CASE UNCHANGED vars
    BY <2>1 DEF vars, GarbageInv, Held, Reclaiming
  <2>2. CASE Next
    <3>1. PICK t \in Thread :
            Call(t) \/ EnqueueStep(t) \/ DequeueStep(t) \/ ReclaimStep(t)
      BY <2>2 DEF Next
    <3>2. CASE u # t
      BY <3>1, <3>2, OthersKeepGarbage
    <3>3. CASE u = t
      BY <3>1, <3>3, QuietStepKeepsGarbage, SwingKeepsGarbage,
         RetireKeepsGarbage, ScanLoadKeepsGarbage, ScanFreeKeepsGarbage,
         ScanEndKeepsGarbage DEF ReclaimStep
    <3> QED BY <3>2, <3>3
  <2> QED BY <2>1, <2>2
<1>3. IInv /\ Inv => GarbageBound
  <2> SUFFICES ASSUME IInv, Inv, NEW t \in Thread
               PROVE  Len(Retired(t)) <= Limit
    BY DEF GarbageBound, Limit
  <2> DEFINE last == IF pc[t] = "d_retire" THEN <<cur_head[t]>> ELSE <<>>
  <2>1. /\ free_list[t] \in Seq(Node) /\ kept[t] \in Seq(Node)
        /\ pc[t] = "d_retire" => cur_head[t] \in Node
        /\ GarbageInv(t)
    <3>1. TypeOK /\ DequeueInv(t) /\ GarbageInv(t)
      BY DEF IInv
    <3> QED BY <3>1 DEF TypeOK, DequeueInv
  <2>2. /\ last \in Seq(Node)
        /\ Len(last) = IF pc[t] = "d_retire" THEN 1 ELSE 0
    BY <2>1
  <2>3. Retired(t) = (free_list[t] \o kept[t]) \o last
    BY DEF Retired
  <2> HIDE DEF last
  <2> DEFINE held == Len(free_list[t]) + Len(kept[t])
  <2>4. held \in Nat /\ Len(Retired(t)) = held + Len(last)
    <3> DEFINE both == free_list[t] \o kept[t]
    <3>1. both \in Seq(Node) /\ Len(both) = held /\ held \in Nat
      <4>1. both \in Seq(Node)
        BY <2>1
      <4>2. Len(free_list[t] \o kept[t]) = Len(free_list[t]) + Len(kept[t])
        BY <2>1, ConcatFacts
      <4>3. Len(both) \in Nat
        <5> HIDE DEF both
        <5> QED BY <4>1
      <4> QED BY <4>1, <4>2, <4>3
    <3> HIDE DEF both, held
    <3>2. Len(both \o last) = Len(both) + Len(last)
      BY <2>2, <3>1, ConcatFacts
    <3> QED BY <2>3, <3>1, <3>2 DEF both
  <2>5. pc[t] \in {"s_load", "s_free"} => held <= Limit
    BY <2>1 DEF GarbageInv
  <2>6. pc[t] \notin {"s_load", "s_free"} => held < Limit
    BY <2>1 DEF GarbageInv
  <2>7. held + Len(last) <= Limit
    <3> HIDE DEF held
    <3> QED BY <2>2, <2>4, <2>5, <2>6, LimitFacts
  <2> QED BY <2>4, <2>7
<1> HIDE DEF Inv
<1>4. Spec /\ [][ClearMemory]_vars => []Inv
  BY <1>1, <1>2, IInvHolds, PTL DEF Spec
<1> QED BY <1>3, <1>4, IInvHolds, PTL

-----------------------------------------------------------------------------
(* Refinement of FifoQueue: under queueBar, phaseBar and datumBar every     *)
(* step is a step of the abstract queue or leaves it unchanged, those of    *)
(* scan among the latter.                                                   *)

\* The values: every node linked but the dummy has one, and so has a node
\* that is about to be; what dequeue returns is read before head moves, from
\* a node that its hazard pointer keeps from coming back with another value.
ValueInv ==
  /\ \A n \in Linked \ {head} : value[n] \in Value
  /\ \A t \in Thread :
       /\ \A n \in Private(t) : value[n] \in Value
       /\ pc[t] \in EnqueuePC \cup DequeuePC => ret[t] = "void"
       /\ pc[t] = "d_swing" => out[t] = value[lnext[t]]

LEMMA InitValueInv == Init => ValueInv
<1> SUFFICES ASSUME Init PROVE ValueInv
  OBVIOUS
<1>1. ToSet(list) = {Fake}
  BY DEF Init, ToSet
<1> QED BY <1>1 DEF Init, ValueInv, Private

\* No step but the call of enqueue writes a value, and that to a new node.
LEMMA ValuesStay ==
  ASSUME IInv, NEW t \in Thread,
         Call(t) \/ EnqueueStep(t) \/ DequeueStep(t) \/ ReclaimStep(t)
  PROVE  \A n \in heap : value'[n] = value[n]
<1>1. CASE Call(t)
  BY <1>1 DEF Call, DequeueCall, EnqueueCall, IInv, TypeOK
<1>2. CASE EnqueueStep(t)
  BY <1>2 DEF EnqueueStep, EnqueueLoadTail, EnqueueProtect, EnqueueSafe,
     EnqueueLoadNext, EnqueueCheckTail, EnqueueLink, EnqueueLinkFails,
     EnqueueHelpTail, EnqueueSwingTail
<1>3. CASE DequeueStep(t)
  BY <1>3 DEF DequeueStep, DequeueLoadHead, DequeueProtect, DequeueSafe,
     DequeueLoadTail, DequeueLoadNext, DequeueProtectNext, DequeueCheckHead,
     DequeueEmpty, DequeueHelpTail, DequeueReadValue, DequeueSwingHead,
     DequeueSwingFails
<1>4. CASE ReclaimStep(t)
  BY <1>4 DEF ReclaimStep, RetireNode, ScanLoad, ScanFree, ScanEnd
<1> QED BY <1>1, <1>2, <1>3, <1>4

\* Nor does a step of t change what the others know of values.
LEMMA OtherLocalsStay ==
  ASSUME IInv, NEW t \in Thread,
         Call(t) \/ EnqueueStep(t) \/ DequeueStep(t) \/ ReclaimStep(t)
  PROVE  \A u \in Thread \ {t} :
           /\ pc'[u] = pc[u] /\ node'[u] = node[u] /\ lnext'[u] = lnext[u]
           /\ ret'[u] = ret[u] /\ out'[u] = out[u]
<1>0. TypeOK
  BY DEF IInv
<1>1. CASE Call(t)
  BY <1>0, <1>1 DEF Call, DequeueCall, EnqueueCall, TypeOK
<1>2. CASE EnqueueStep(t)
  BY <1>0, <1>2 DEF EnqueueStep, EnqueueLoadTail, EnqueueProtect, EnqueueSafe,
     EnqueueLoadNext, EnqueueCheckTail, EnqueueLink, EnqueueLinkFails,
     EnqueueHelpTail, EnqueueSwingTail, TypeOK
<1>3. CASE DequeueStep(t)
  BY <1>0, <1>3 DEF DequeueStep, DequeueLoadHead, DequeueProtect, DequeueSafe,
     DequeueLoadTail, DequeueLoadNext, DequeueProtectNext, DequeueCheckHead,
     DequeueEmpty, DequeueHelpTail, DequeueReadValue, DequeueSwingHead,
     DequeueSwingFails, TypeOK
<1>4. CASE ReclaimStep(t)
  <2>1. CASE RetireNode(t)
    BY <1>0, <2>1 DEF RetireNode, TypeOK
  <2>2. CASE ScanLoad(t) \/ ScanFree(t) \/ ScanEnd(t)
    BY <1>0, <2>2 DEF ScanLoad, ScanFree, ScanEnd, TypeOK
  <2> QED BY <1>4, <2>1, <2>2 DEF ReclaimStep
<1> QED BY <1>1, <1>2, <1>3, <1>4

\* What ValueInv says of one thread
ThreadValues(t) ==
  /\ \A n \in Private(t) : value[n] \in Value
  /\ pc[t] \in EnqueuePC \cup DequeuePC => ret[t] = "void"
  /\ pc[t] = "d_swing" => out[t] = value[lnext[t]]

LEMMA OwnValuesStay ==
  ASSUME IInv, NEW t \in Thread, ThreadValues(t),
         Call(t) \/ EnqueueStep(t) \/ DequeueStep(t) \/ ReclaimStep(t)
  PROVE  ThreadValues(t)'
<1>0. TypeOK
  BY DEF IInv
<1> USE DEF ThreadValues, Private
<1>1. CASE Call(t)
  BY <1>0, <1>1 DEF Call, DequeueCall, EnqueueCall, TypeOK
<1>2. CASE EnqueueStep(t)
  BY <1>0, <1>2 DEF EnqueueStep, EnqueueLoadTail, EnqueueProtect, EnqueueSafe,
     EnqueueLoadNext, EnqueueCheckTail, EnqueueLink, EnqueueLinkFails,
     EnqueueHelpTail, EnqueueSwingTail, TypeOK
<1>3. CASE DequeueStep(t)
  <2>1. CASE DequeueReadValue(t)
    <3>1. lnext[t] \in heap
      BY <2>1 DEF DequeueReadValue, IInv, DequeueInv, Safe
    <3> QED BY <1>0, <2>1, <3>1 DEF DequeueReadValue, TypeOK
  <2>2. CASE DequeueLoadNext(t)
    BY <1>0, <2>2 DEF DequeueLoadNext, TypeOK
  <2>3. CASE ~DequeueReadValue(t) /\ ~DequeueLoadNext(t)
    BY <1>0, <1>3, <2>3 DEF DequeueStep, DequeueLoadHead, DequeueProtect,
       DequeueSafe, DequeueLoadTail, DequeueProtectNext, DequeueCheckHead,
       DequeueEmpty, DequeueHelpTail, DequeueSwingHead, DequeueSwingFails, TypeOK
  <2> QED BY <2>1, <2>2, <2>3
<1>4. CASE ReclaimStep(t)
  <2>1. CASE RetireNode(t)
    BY <1>0, <2>1 DEF RetireNode, TypeOK
  <2>2. CASE ScanLoad(t) \/ ScanFree(t) \/ ScanEnd(t)
    <3>1. /\ pc[t] \in {"s_load", "s_free"} /\ value' = value
          /\ \/ pc'[t] \in {"s_load", "s_free"} /\ ret' = ret
             \/ pc'[t] = "idle"
      BY <1>0, <2>2 DEF ScanLoad, ScanFree, ScanEnd, TypeOK
    <3> QED BY <3>1
  <2> QED BY <1>4, <2>1, <2>2 DEF ReclaimStep
<1> QED BY <1>1, <1>2, <1>3, <1>4

\* The list changes at the linearization points only.
LEMMA ListMoves ==
  ASSUME IInv, NEW t \in Thread,
         Call(t) \/ EnqueueStep(t) \/ DequeueStep(t) \/ ReclaimStep(t)
  PROVE  \/ UNCHANGED <<list, head>>
         \/ EnqueueLink(t) \/ DequeueSwingHead(t)
<1>1. CASE Call(t)
  BY <1>1 DEF Call, DequeueCall, EnqueueCall
<1>2. CASE EnqueueStep(t)
  BY <1>2 DEF EnqueueStep, EnqueueLoadTail, EnqueueProtect, EnqueueSafe,
     EnqueueLoadNext, EnqueueCheckTail, EnqueueLinkFails, EnqueueHelpTail,
     EnqueueSwingTail
<1>3. CASE DequeueStep(t)
  BY <1>3 DEF DequeueStep, DequeueLoadHead, DequeueProtect, DequeueSafe,
     DequeueLoadTail, DequeueLoadNext, DequeueProtectNext, DequeueCheckHead,
     DequeueEmpty, DequeueHelpTail, DequeueReadValue, DequeueSwingFails
<1>4. CASE ReclaimStep(t)
  BY <1>4 DEF ReclaimStep, RetireNode, ScanLoad, ScanFree, ScanEnd
<1> QED BY <1>1, <1>2, <1>3, <1>4

LEMMA ListFactsOfIInv ==
  ASSUME IInv
  PROVE  /\ list \in Seq(Node) /\ list # <<>> /\ Linked \subseteq heap
         /\ list[1] = head /\ {head, tail, Last(list)} \subseteq Linked
         /\ IsInjective(list) /\ DOMAIN list = 1..Len(list)
         /\ next[head] = Null => tail = head /\ Len(list) = 1
         /\ next[head] # Null => Len(list) > 1 /\ next[head] = list[2]
<1>1. /\ TypeOK /\ ListInv /\ Linked \subseteq heap /\ IsInjective(list)
      /\ list \in Seq(Node) /\ list # <<>>
  BY DEF IInv, ListInv, ListIntact, HeldInv, TypeOK
<1>2. /\ \A i \in 1..(Len(list) - 1) : next[list[i]] = list[i + 1]
      /\ list[1] = head /\ next[list[Len(list)]] = Null
  BY <1>1, ListFacts DEF ListInv, ListIntact, Last
<1>3. Len(list) \in Nat \ {0} /\ \A i \in 1..Len(list) : list[i] \in Node
  BY <1>1
<1>4. next[head] = Null => Len(list) = 1
  <2> SUFFICES ASSUME Len(list) # 1 PROVE next[head] # Null
    OBVIOUS
  <2>1. 1 \in 1..(Len(list) - 1) /\ 2 \in 1..Len(list)
    BY <1>3
  <2>2. next[head] = list[2] /\ list[2] \in Node
    BY <1>2, <1>3, <2>1
  <2> QED BY <2>2
<1>5. next[head] # Null => Len(list) > 1 /\ next[head] = list[2]
  BY <1>2, <1>3
<1> QED BY <1>1, <1>2, <1>4, <1>5, ListFacts

LEMMA ValueInvStays ==
  ASSUME IInv, ValueInv, NEW t \in Thread,
         Call(t) \/ EnqueueStep(t) \/ DequeueStep(t) \/ ReclaimStep(t)
  PROVE  ValueInv'
<1>0. /\ TypeOK /\ \A n \in Linked \ {head} : value[n] \in Value
      /\ \A u \in Thread : ThreadValues(u)
  BY DEF IInv, ValueInv, ThreadValues
<1>1. ASSUME NEW u \in Thread \ {t} PROVE ThreadValues(u)'
  <2>1. \A n \in Private(u) : n \in heap
    BY DEF IInv, PrivateInv
  <2>2. pc[u] = "d_swing" => lnext[u] \in heap
    BY DEF IInv, DequeueInv, Safe
  <2> QED BY <1>0, <2>1, <2>2, ValuesStay, OtherLocalsStay DEF ThreadValues, Private
<1>2. ThreadValues(t)'
  BY <1>0, OwnValuesStay
<1>3. ASSUME NEW n \in Linked' \ {head'} PROVE value'[n] \in Value
  <2>1. CASE UNCHANGED <<list, head>>
    BY <1>0, <2>1, ListFactsOfIInv, ValuesStay
  <2>2. CASE EnqueueLink(t)
    <3>1. node[t] \in Private(t) /\ node[t] \in Node /\ head' = head
          /\ list' = Append(list, node[t]) /\ value' = value
      BY <1>0, <2>2 DEF EnqueueLink, IInv, TypeOK, EnqueueInv, Private
    <3>2. Linked' = Linked \cup {node[t]}
      BY <3>1, ListFactsOfIInv, AppendFacts
    <3> QED BY <1>0, <3>1, <3>2 DEF ThreadValues
  <2>3. CASE DequeueSwingHead(t)
    <3>1. list' = Tail(list) /\ value' = value
      BY <2>3, ListFactsOfIInv, TailFacts DEF DequeueSwingHead
    <3>2. Linked = Linked' \cup {head} /\ head \notin Linked'
      BY <3>1, ListFactsOfIInv, TailFacts
    <3> QED BY <1>0, <3>1, <3>2
  <2> QED BY <2>1, <2>2, <2>3, ListMoves
<1> QED BY <1>1, <1>2, <1>3 DEF ValueInv, ThreadValues

-----------------------------------------------------------------------------
(* The mapped variables                                                    *)

\* The mapped queue is a sequence of values, of known length.
LEMMA QueueBarSeq ==
  ASSUME IInv, ValueInv
  PROVE  /\ queueBar \in Seq(Value) /\ Len(queueBar) = Len(list) - 1
         /\ \A i \in 1..(Len(list) - 1) : queueBar[i] = value[list[i + 1]]
<1>1. Len(list) - 1 \in Nat
  BY ListFactsOfIInv
<1>2. ASSUME NEW i \in 1..(Len(list) - 1) PROVE value[list[i + 1]] \in Value
  <2>1. 1 \in DOMAIN list /\ i + 1 \in DOMAIN list /\ i + 1 # 1
    BY <1>1, ListFactsOfIInv
  <2>2. list[i + 1] \in Linked /\ list[i + 1] # list[1]
    BY <2>1, ListFactsOfIInv DEF ToSet, IsInjective
  <2> QED BY <2>2, ListFactsOfIInv DEF ValueInv
<1>3. queueBar \in [1..(Len(list) - 1) -> Value]
  BY <1>2 DEF queueBar
<1>4. queueBar \in Seq(Value) /\ Len(queueBar) = Len(list) - 1
  BY <1>1, <1>3
<1> QED BY <1>4 DEF queueBar

\* A step that leaves the list alone leaves the mapped queue alone.
LEMMA QueueFrame ==
  ASSUME IInv, list' = list, \A n \in heap : value'[n] = value[n]
  PROVE  queueBar' = queueBar
<1>1. ASSUME NEW i \in 1..(Len(list) - 1) PROVE list[i + 1] \in heap
  <2>1. i + 1 \in DOMAIN list
    BY ListFactsOfIInv
  <2> QED BY <2>1, ListFactsOfIInv DEF ToSet
<1> QED BY <1>1 DEF queueBar

\* A step of t changes no other thread's phase or datum.
LEMMA BarFrame ==
  ASSUME IInv, NEW t \in Thread, NEW p, NEW d,
         Call(t) \/ EnqueueStep(t) \/ DequeueStep(t) \/ ReclaimStep(t),
         phaseBar'[t] = p, datumBar'[t] = d
  PROVE  /\ phaseBar' = [phaseBar EXCEPT ![t] = p]
         /\ datumBar' = [datumBar EXCEPT ![t] = d]
<1>1. ASSUME NEW u \in Thread \ {t}
      PROVE  phaseBar'[u] = phaseBar[u] /\ datumBar'[u] = datumBar[u]
  <2>1. /\ pc'[u] = pc[u] /\ node'[u] = node[u] /\ lnext'[u] = lnext[u]
        /\ ret'[u] = ret[u] /\ out'[u] = out[u]
    BY OtherLocalsStay
  <2>2. pc[u] \in EnqueuePC \ {"e_swing"} => value'[node[u]] = value[node[u]]
    <3>1. pc[u] \in EnqueuePC \ {"e_swing"} => node[u] \in heap
      BY DEF IInv, PrivateInv, Private
    <3> QED BY <3>1, ValuesStay
  <2> QED BY <2>1, <2>2 DEF phaseBar, datumBar
<1>2. /\ phaseBar = [u \in Thread |-> phaseBar[u]]
      /\ phaseBar' = [u \in Thread |-> phaseBar'[u]]
      /\ datumBar = [u \in Thread |-> datumBar[u]]
      /\ datumBar' = [u \in Thread |-> datumBar'[u]]
  BY DEF phaseBar, datumBar
<1> QED BY <1>1, <1>2

LEMMA StepStutters ==
  ASSUME IInv, NEW t \in Thread,
         Call(t) \/ EnqueueStep(t) \/ DequeueStep(t) \/ ReclaimStep(t),
         list' = list, phaseBar'[t] = phaseBar[t], datumBar'[t] = datumBar[t]
  PROVE  UNCHANGED Queue!vars
<1>1. queueBar' = queueBar
  BY QueueFrame, ValuesStay
<1>2. phaseBar' = [phaseBar EXCEPT ![t] = phaseBar[t]]
  BY BarFrame
<1>3. datumBar' = [datumBar EXCEPT ![t] = datumBar[t]]
  BY BarFrame
<1>4. /\ phaseBar = [u \in Thread |-> phaseBar[u]]
      /\ datumBar = [u \in Thread |-> datumBar[u]]
  BY DEF phaseBar, datumBar
<1> QED BY <1>1, <1>2, <1>3, <1>4 DEF Queue!vars

\* A step that the abstract queue sees, but for what it does to the queue.
LEMMA StepShows ==
  ASSUME IInv, NEW t \in Thread, NEW p, NEW d,
         Call(t) \/ EnqueueStep(t) \/ DequeueStep(t) \/ ReclaimStep(t),
         list' = list, phaseBar'[t] = p, datumBar'[t] = d
  PROVE  /\ queueBar' = queueBar
         /\ phaseBar' = [phaseBar EXCEPT ![t] = p]
         /\ datumBar' = [datumBar EXCEPT ![t] = d]
         /\ d = datumBar[t] => datumBar' = datumBar
<1>1. queueBar' = queueBar
  BY QueueFrame, ValuesStay
<1>2. phaseBar' = [phaseBar EXCEPT ![t] = p] /\ datumBar' = [datumBar EXCEPT ![t] = d]
  BY BarFrame
<1>3. d = datumBar[t] => datumBar' = datumBar
  <2>1. datumBar = [u \in Thread |-> datumBar[u]]
    BY DEF datumBar
  <2> QED BY <1>2, <2>1
<1> QED BY <1>1, <1>2, <1>3

-----------------------------------------------------------------------------
(* One case per action: the step of FifoQueue it is, or a stutter.         *)

LEMMA CallRefines ==
  ASSUME IInv, ValueInv, NEW t \in Thread, Call(t)
  PROVE  Queue!Next
<1>0. TypeOK /\ ValueInv
  BY DEF IInv
<1>1. CASE DequeueCall(t)
  <2>1. /\ phaseBar[t] = "idle" /\ phaseBar'[t] = "deq" /\ datumBar'[t] = NoValue
        /\ list' = list
    BY <1>0, <1>1 DEF DequeueCall, TypeOK, phaseBar, datumBar
  <2>2. Queue!CallDequeue(t)
    BY <1>1, <2>1, StepShows DEF Call, Queue!CallDequeue, Queue!Step
  <2> QED BY <2>2 DEF Queue!Next
<1>2. ASSUME NEW v \in Value, t \in Producer, EnqueueCall(t, v) PROVE Queue!Next
  <2>1. /\ phaseBar[t] = "idle" /\ phaseBar'[t] = "enq" /\ datumBar'[t] = v
        /\ list' = list
    BY <1>0, <1>2 DEF EnqueueCall, TypeOK, phaseBar, datumBar
  <2>2. Queue!CallEnqueue(t, v)
    BY <1>2, <2>1, StepShows DEF Call, Queue!CallEnqueue, Queue!Step
  <2> QED BY <2>2 DEF Queue!Next
<1> QED BY <1>1, <1>2 DEF Call

LEMMA EnqueueStepRefines ==
  ASSUME IInv, ValueInv, NEW t \in Thread, EnqueueStep(t)
  PROVE  Queue!Next \/ UNCHANGED Queue!vars
<1>0. TypeOK /\ ThreadValues(t)
  BY DEF IInv, ValueInv, ThreadValues
<1>1. CASE \/ EnqueueLoadTail(t) \/ EnqueueProtect(t) \/ EnqueueSafe(t)
           \/ EnqueueLoadNext(t) \/ EnqueueCheckTail(t) \/ EnqueueLinkFails(t)
           \/ EnqueueHelpTail(t)
  <2>1. /\ list' = list /\ value' = value /\ node' = node
        /\ pc[t] \in EnqueuePC \ {"e_swing"} /\ pc'[t] \in EnqueuePC \ {"e_swing"}
    BY <1>0, <1>1 DEF EnqueueLoadTail, EnqueueProtect, EnqueueSafe,
       EnqueueLoadNext, EnqueueCheckTail, EnqueueLinkFails, EnqueueHelpTail,
       TypeOK
  <2>2. phaseBar'[t] = phaseBar[t] /\ datumBar'[t] = datumBar[t]
    BY <2>1 DEF phaseBar, datumBar
  <2> QED BY <2>1, <2>2, StepStutters
<1>2. CASE EnqueueSwingTail(t)
  <2>1. /\ phaseBar[t] = "enqueued" /\ phaseBar'[t] = "idle"
        /\ datumBar[t] = NoValue /\ datumBar'[t] = NoValue /\ list' = list
    BY <1>0, <1>2 DEF EnqueueSwingTail, TypeOK, ThreadValues, phaseBar, datumBar
  <2>2. Queue!ReturnEnqueue(t)
    BY <2>1, StepShows DEF Queue!ReturnEnqueue, Queue!Step
  <2> QED BY <2>2 DEF Queue!Next
<1>3. CASE EnqueueLink(t)
  <2>1. /\ phaseBar[t] = "enq" /\ phaseBar'[t] = "enqueued"
        /\ datumBar[t] = value[node[t]] /\ datumBar'[t] = NoValue
        /\ value[node[t]] \in Value /\ node[t] \in Node
        /\ list' = Append(list, node[t]) /\ value' = value
    BY <1>0, <1>3 DEF EnqueueLink, IInv, EnqueueInv, TypeOK, ThreadValues, Private,
       phaseBar, datumBar
  <2>2. queueBar' = Append(queueBar, datumBar[t])
    <3> DEFINE len == Len(list) - 1
    <3>1. /\ queueBar \in Seq(Value) /\ Len(queueBar) = len /\ len \in Nat
          /\ \A i \in 1..len : queueBar[i] = value[list[i + 1]]
      BY QueueBarSeq, ListFactsOfIInv
    <3>2. /\ Len(list') - 1 = len + 1 /\ list'[len + 2] = node[t]
          /\ \A i \in 1..len : list'[i + 1] = list[i + 1]
      BY <2>1, ListFactsOfIInv
    <3> HIDE DEF len
    <3>3. queueBar' = [i \in 1..(len + 1) |-> value[list'[i + 1]]]
      BY <2>1, <3>2 DEF queueBar
    <3>4. \A i \in 1..(len + 1) :
            value[list'[i + 1]] = IF i = len + 1 THEN datumBar[t] ELSE queueBar[i]
      BY <2>1, <3>1, <3>2
    <3>5. queueBar' = [i \in 1..(len + 1) |->
                         IF i = len + 1 THEN datumBar[t] ELSE queueBar[i]]
      BY <3>3, <3>4
    <3> QED BY <2>1, <3>1, <3>5
  <2>3. Queue!Enqueue(t)
    BY <2>1, <2>2, BarFrame DEF Queue!Enqueue, Queue!Step
  <2> QED BY <2>3 DEF Queue!Next
<1> QED BY <1>1, <1>2, <1>3 DEF EnqueueStep

\* The compare-and-swap of head takes the first value, the one dequeue read,
\* out of the mapped queue.
LEMMA SwingFacts ==
  ASSUME IInv, ValueInv, NEW t \in Thread, DequeueSwingHead(t)
  PROVE  queueBar # <<>> /\ out[t] = Head(queueBar) /\ queueBar' = Tail(queueBar)
<1> DEFINE len == Len(list) - 1
<1>1. /\ out[t] = value[next[head]] /\ next[head] # Null
      /\ list' = Tail(list) /\ value' = value
  <2>1. list' = Tail(list)
    BY ListFactsOfIInv, TailFacts DEF DequeueSwingHead
  <2> QED BY <2>1 DEF DequeueSwingHead, IInv, TypeOK, ValueInv, DequeueInv
<1>2. Len(list) > 1 /\ next[head] = list[2] /\ list \in Seq(Node)
  BY <1>1, ListFactsOfIInv
<1>3. /\ queueBar \in Seq(Value) /\ Len(queueBar) = len /\ len \in Nat \ {0}
      /\ \A i \in 1..len : queueBar[i] = value[list[i + 1]]
  BY <1>2, QueueBarSeq, ListFactsOfIInv
<1>4. Len(list') - 1 = len - 1 /\ \A i \in 1..len : list'[i] = list[i + 1]
  BY <1>1, <1>2
<1>5. 1 + 1 = 2
  OBVIOUS
<1> HIDE DEF len
<1>6. queueBar # <<>> /\ Head(queueBar) = out[t]
  <2>1. queueBar # <<>> /\ Head(queueBar) = queueBar[1] /\ 1 \in 1..len
    BY <1>3
  <2>2. queueBar[1] = value[list[2]]
    BY <1>3, <1>5, <2>1
  <2> QED BY <1>1, <1>2, <2>1, <2>2
<1>7. queueBar' = [i \in 1..(len - 1) |-> value[list'[i + 1]]]
  BY <1>1, <1>4 DEF queueBar
<1>8. \A i \in 1..(len - 1) : value[list'[i + 1]] = queueBar[i + 1]
  <2> TAKE i \in 1..(len - 1)
  <2>1. i + 1 \in 1..len
    BY <1>3
  <2> QED BY <1>3, <1>4, <2>1
<1>9. queueBar' = [i \in 1..(len - 1) |-> queueBar[i + 1]]
  BY <1>7, <1>8
<1>10. Tail(queueBar) = [i \in 1..(len - 1) |-> queueBar[i + 1]]
  <2>1. /\ Tail(queueBar) \in Seq(Value) /\ Len(Tail(queueBar)) = len - 1
        /\ \A i \in 1..(len - 1) : Tail(queueBar)[i] = queueBar[i + 1]
    BY <1>3, <1>6, HeadTailProperties
  <2>2. Tail(queueBar) \in [1..(len - 1) -> Value]
    BY <2>1, LenProperties
  <2> QED BY <2>1, <2>2
<1> QED BY <1>6, <1>9, <1>10

LEMMA DequeueStepRefines ==
  ASSUME IInv, ValueInv, NEW t \in Thread, DequeueStep(t)
  PROVE  Queue!Next \/ UNCHANGED Queue!vars
<1>0. TypeOK /\ ThreadValues(t) /\ DequeueInv(t)
  BY DEF IInv, ValueInv, ThreadValues
<1>1. CASE \/ DequeueLoadHead(t) \/ DequeueProtect(t) \/ DequeueSafe(t)
           \/ DequeueLoadTail(t) \/ DequeueProtectNext(t) \/ DequeueHelpTail(t)
           \/ DequeueReadValue(t) \/ DequeueSwingFails(t)
  <2>1. phaseBar'[t] = phaseBar[t] /\ datumBar'[t] = datumBar[t] /\ list' = list
    <3>1. CASE DequeueProtectNext(t)
      BY <1>0, <3>1 DEF DequeueProtectNext, TypeOK, phaseBar, datumBar
    <3>2. CASE ~DequeueProtectNext(t)
      <4>1. /\ list' = list /\ pc[t] # "idle" /\ pc'[t] # "idle"
            /\ {pc[t], pc'[t]} \subseteq {"d_head", "d_protect", "d_safe", "d_tail",
                                          "d_next", "d_help", "d_value", "d_swing"}
        BY <1>0, <1>1, <3>2 DEF DequeueLoadHead, DequeueProtect, DequeueSafe,
           DequeueLoadTail, DequeueHelpTail, DequeueReadValue, DequeueSwingFails,
           TypeOK
      <4> QED BY <4>1 DEF phaseBar, datumBar
    <3> QED BY <3>1, <3>2
  <2> QED BY <2>1, StepStutters
<1>2. CASE DequeueLoadNext(t)
  <2>1. /\ datumBar'[t] = datumBar[t] /\ list' = list /\ phaseBar[t] = "deq"
        /\ phaseBar'[t] = IF next[cur_head[t]] = Null THEN "sawEmpty" ELSE "deq"
    <3>1. cur_head[t] \in heap /\ pc[t] = "d_next"
      BY <1>0, <1>2 DEF DequeueLoadNext, DequeueInv, Safe
    <3> QED BY <1>0, <1>2, <3>1 DEF DequeueLoadNext, TypeOK, phaseBar, datumBar
  <2>2. CASE next[cur_head[t]] # Null
    BY <2>1, <2>2, StepStutters
  <2>3. CASE next[cur_head[t]] = Null
    <3>1. cur_head[t] = head
      BY <1>0, <1>2, <2>3 DEF DequeueLoadNext, DequeueInv, Safe
    <3>2. queueBar = <<>>
      BY <2>3, <3>1, ListFactsOfIInv, QueueBarSeq, EmptySeq
    <3>3. Queue!ObserveEmpty(t)
      BY <2>1, <2>3, <3>2, StepShows DEF Queue!ObserveEmpty, Queue!Step
    <3> QED BY <3>3 DEF Queue!Next
  <2> QED BY <2>2, <2>3
<1>3. CASE DequeueCheckHead(t)
  <2>1. /\ datumBar'[t] = datumBar[t] /\ list' = list /\ phaseBar'[t] = "deq"
        /\ phaseBar[t] = IF lnext[t] = Null THEN "sawEmpty" ELSE "deq"
    BY <1>0, <1>3 DEF DequeueCheckHead, TypeOK, phaseBar, datumBar
  <2>2. CASE lnext[t] # Null
    BY <2>1, <2>2, StepStutters
  <2>3. CASE lnext[t] = Null
    <3>1. Queue!Retry(t)
      BY <2>1, <2>3, StepShows DEF Queue!Retry, Queue!Step
    <3> QED BY <3>1 DEF Queue!Next
  <2> QED BY <2>2, <2>3
<1>4. CASE DequeueEmpty(t)
  <2>1. /\ datumBar[t] = NoValue /\ datumBar'[t] = NoValue /\ list' = list
        /\ phaseBar[t] = "sawEmpty" /\ phaseBar'[t] = "idle"
    BY <1>0, <1>4 DEF DequeueEmpty, TypeOK, phaseBar, datumBar
  <2>2. Queue!ReturnEmpty(t)
    BY <2>1, StepShows DEF Queue!ReturnEmpty, Queue!Step
  <2> QED BY <2>2 DEF Queue!Next
<1>5. CASE DequeueSwingHead(t)
  <2>1. /\ phaseBar[t] = "deq" /\ phaseBar'[t] = "dequeued" /\ datumBar'[t] = out[t]
    BY <1>0, <1>5 DEF DequeueSwingHead, TypeOK, phaseBar, datumBar
  <2>2. Queue!Dequeue(t)
    BY <1>5, <2>1, BarFrame, SwingFacts DEF Queue!Dequeue, Queue!Step
  <2> QED BY <2>2 DEF Queue!Next
<1> QED BY <1>1, <1>2, <1>3, <1>4, <1>5 DEF DequeueStep

LEMMA ReclaimStepRefines ==
  ASSUME IInv, ValueInv, NEW t \in Thread, ReclaimStep(t)
  PROVE  Queue!Next \/ UNCHANGED Queue!vars
<1>0. TypeOK
  BY DEF IInv
<1>1. /\ list' = list /\ out' = out
      /\ pc[t] \in {"d_retire", "s_load", "s_free"}
      /\ \/ pc'[t] \in {"s_load", "s_free"}
         \/ pc'[t] = "idle" /\ ret'[t] = "true"
  <2>1. CASE RetireNode(t)
    BY <1>0, <2>1 DEF RetireNode, TypeOK
  <2>2. CASE ScanLoad(t) \/ ScanFree(t) \/ ScanEnd(t)
    BY <1>0, <2>2 DEF ScanLoad, ScanFree, ScanEnd, TypeOK
  <2> QED BY <2>1, <2>2 DEF ReclaimStep
<1>2. phaseBar[t] = "dequeued" /\ datumBar[t] = out[t] /\ datumBar'[t] = out[t]
  BY <1>1 DEF phaseBar, datumBar
<1>3. CASE pc'[t] \in {"s_load", "s_free"}
  <2>1. phaseBar'[t] = "dequeued"
    BY <1>3 DEF phaseBar
  <2> QED BY <1>1, <1>2, <2>1, StepStutters
<1>4. CASE pc'[t] = "idle"
  <2>1. phaseBar'[t] = "idle"
    BY <1>4 DEF phaseBar
  <2>2. Queue!ReturnDequeue(t)
    BY <1>1, <1>2, <2>1, StepShows DEF Queue!ReturnDequeue, Queue!Step
  <2> QED BY <2>2 DEF Queue!Next
<1> QED BY <1>1, <1>3, <1>4

-----------------------------------------------------------------------------
LEMMA InitRefines == Init => Queue!Init
<1> SUFFICES ASSUME Init PROVE Queue!Init
  OBVIOUS
<1>1. IInv /\ ValueInv /\ Len(list) = 1
  BY InitIInv, InitValueInv DEF Init
<1>2. queueBar = <<>>
  BY <1>1, QueueBarSeq, EmptySeq
<1>3. phaseBar = [t \in Thread |-> "idle"] /\ datumBar = [t \in Thread |-> NoValue]
  BY DEF Init, phaseBar, datumBar
<1> QED BY <1>2, <1>3 DEF Queue!Init

\* The queue is linearizable for any number of threads, any memory and any
\* threshold: the deletion and reuse of nodes does not show, without counters
\* on the pointers.
THEOREM Linearizability == Spec /\ [][ClearMemory]_vars => Linearizable
<1>1. Init => Queue!Init /\ ValueInv
  BY InitRefines, InitValueInv
<1>2. IInv /\ ValueInv /\ [Next]_vars => ValueInv' /\ [Queue!Next]_(Queue!vars)
  <2> SUFFICES ASSUME IInv, ValueInv, [Next]_vars
               PROVE  ValueInv' /\ (Queue!Next \/ UNCHANGED Queue!vars)
    OBVIOUS
  <2>1. CASE UNCHANGED vars
    BY <2>1 DEF vars, ValueInv, Private, Queue!vars, queueBar, phaseBar, datumBar
  <2>2. CASE Next
    <3>1. PICK t \in Thread :
            Call(t) \/ EnqueueStep(t) \/ DequeueStep(t) \/ ReclaimStep(t)
      BY <2>2 DEF Next
    <3>2. ValueInv'
      BY <3>1, ValueInvStays
    <3> QED BY <3>1, <3>2, CallRefines, EnqueueStepRefines, DequeueStepRefines,
               ReclaimStepRefines
  <2> QED BY <2>1, <2>2
<1> QED BY <1>1, <1>2, IInvHolds, PTL DEF Spec, Linearizable, Queue!Spec
=============================================================================
