--------------------------- MODULE WorkloadsProofs ---------------------------
(***************************************************************************)
(* What the parallel test and the benchmark rely on, for any number of     *)
(* threads and elements, as long as no deleted address is allocated again. *)
(*                                                                         *)
(* The argument is one of counting, as in TestTasksProofs: a thread        *)
(* dequeues only after all its own enqueues, so as long as it has a        *)
(* dequeue to do, more nodes have been linked than head has passed.  Of    *)
(* the benchmark no more can be said, as its threads enqueue the same      *)
(* numbers; the test also needs that no number is linked twice.            *)
(***************************************************************************)
EXTENDS Workloads, MSQueueCountedRefinement, FiniteSetTheorems

\* pc values at which the node of an enqueue is still private to it
Inserting == EnqueuePC \ {"e_swing"}

\* The k-th number that t enqueues.
Number(t, k) == (IF program = "test" THEN n_elements * t ELSE 0) + (k - 1)

\* How many numbers each thread has linked into the list.
Put == [t \in Thread |-> IF pc[t] \in Inserting THEN sent[t] - 1 ELSE sent[t]]

\* What each thread has taken from the list, counting the number of a dequeue
\* that has moved head but not yet returned.
Got == [t \in Thread |->
          IF pc[t] = "d_return" THEN Append(output[t], out[t]) ELSE output[t]]

\* The enqueues and the dequeues that have taken effect: <<t, k>> is the k-th
\* of thread t.
Enqueued == {e \in Thread \X (1..n_elements) : e[2] <= Put[e[1]]}
Dequeued == {e \in Thread \X (1..n_elements) : e[2] <= Len(Got[e[1]])}

\* Where a thread is: first it enqueues, then it dequeues.
ThreadInv(t) ==
  /\ output[t] \in Seq(Value) /\ Len(Got[t]) <= n_elements
  /\ pc[t] # "idle" => ret[t] = "void"
  /\ sent[t] < n_elements \/ pc[t] \in EnqueuePC =>
       output[t] = <<>> /\ pc[t] \notin DequeuePC
  /\ pc[t] \in EnqueuePC => sent[t] >= 1
  /\ pc[t] \in Inserting => value[node[t]] = Number(t, sent[t])
  /\ pc[t] \in DequeuePC => Len(output[t]) < n_elements
  /\ pc[t] = "d_check" => lnext[t].ptr # Null
  /\ ret[t] # "false"

\* In the test the nodes behind the first dummy hold the numbers enqueued,
\* each of them once.
ListedInv ==
  program = "test" =>
    /\ \A n \in Node : pos[n] > 1 => \E e \in Enqueued : value[n] = Number(e[1], e[2])
    /\ \A e \in Enqueued : \E n \in Node : pos[n] > 1 /\ value[n] = Number(e[1], e[2])
    /\ \A m, n \in Node : pos[m] > 1 /\ pos[n] > 1 /\ value[m] = value[n] => m = n

\* The nodes head has passed are those whose numbers were taken.
TakenInv ==
  /\ \A t \in Thread : \A i \in 1..Len(Got[t]) :
       \E n \in Node : pos[n] > 1 /\ pos[n] <= pos[head.ptr] /\ value[n] = Got[t][i]
  /\ \A n \in Node : pos[n] > 1 /\ pos[n] <= pos[head.ptr] =>
       \E t \in Thread : \E i \in 1..Len(Got[t]) : Got[t][i] = value[n]
  /\ program = "test" =>
       \A t, u \in Thread : \A i \in 1..Len(Got[t]) : \A j \in 1..Len(Got[u]) :
         Got[t][i] = Got[u][j] => t = u /\ i = j

CountInv ==
  /\ IsFiniteSet(Enqueued) /\ Cardinality(Enqueued) = linked - 1
  /\ IsFiniteSet(Dequeued) /\ Cardinality(Dequeued) = pos[head.ptr] - 1

WorkType == /\ program \in {"test", "benchmark"}
            /\ sent \in [Thread -> 0..n_elements]

WorkInv == /\ IInv /\ WorkType
           /\ output \in [Thread -> Seq(Value)]
           /\ \A t \in Thread : ThreadInv(t)
           /\ ListedInv /\ TakenInv /\ CountInv

USE NodeAssumption, ValueAssumption, CountAssumption
    DEF EnqueuePC, DequeuePC, Inserting, Goto, NewNode, CasTail,
        shared, locals, caller, history

-----------------------------------------------------------------------------
(* The numbers                                                             *)

LEMMA Division ==
  ASSUME NEW e \in Nat, NEW p \in Nat \ {0}
  PROVE  /\ e \div p \in Nat /\ e % p \in 0..(p - 1)
         /\ e = p * (e \div p) + (e % p)
OBVIOUS

\* q shares of n, the first of them of q later ones.
LEMMA Multiples ==
  ASSUME NEW n \in Nat, NEW q \in Nat, NEW r \in Nat, q < r
  PROVE  n * q \in Nat /\ n * r \in Nat /\ n * q + n <= n * r
<1>1. r - q - 1 \in Nat
  OBVIOUS
<1>2. n * (r - q - 1) \in Nat
  BY <1>1
<1>3. n * r = n * q + n * (r - q - 1) + n
  OBVIOUS
<1> QED BY <1>2, <1>3

\* The threads' shares divide the numbers of the test among them.
LEMMA Shares ==
  /\ n_elements \in Nat /\ Thread \subseteq Nat /\ Value \subseteq Nat
  /\ \A t \in Thread, k \in 1..n_elements :
       n_elements * t + (k - 1) \in Value /\ k - 1 \in Value
  /\ \A t, u \in Thread, j, k \in 1..n_elements :
       n_elements * t + (j - 1) = n_elements * u + (k - 1) => t = u /\ j = k
  /\ \A v \in Value : \E t \in Thread, k \in 1..n_elements :
       v = n_elements * t + (k - 1)
<1>1. PICK p \in Nat \ {0}, e \in Nat :
        /\ e = Elements /\ Thread = 0..(p - 1) /\ Value = 0..(e - 1)
        /\ e % p = 0 /\ n_elements = e \div p
  BY WorkloadAssumption DEF n_elements
<1>2. n_elements \in Nat /\ Elements = p * n_elements
  <2>1. e \div p \in Nat /\ e = p * (e \div p) + (e % p)
    BY Division
  <2>2. e = p * n_elements + 0 /\ n_elements \in Nat
    BY <1>1, <2>1
  <2> QED BY <1>1, <2>2
<1>3. PICK n \in Nat : n = n_elements /\ Elements = n * p
  BY <1>1, <1>2
<1>4. \A t \in 0..(p - 1) : n * t \in Nat /\ n * t + n <= n * p
  BY <1>1, Multiples
<1>5. ASSUME NEW t \in Thread, NEW k \in 1..n
      PROVE  n * t + (k - 1) \in Value /\ k - 1 \in Value
  <2>1. n * t \in Nat /\ n * t + n <= Elements
    BY <1>1, <1>3, <1>4
  <2>2. \A m \in Nat, b \in Nat : m + n <= b =>
          m + (k - 1) \in 0..(b - 1) /\ k - 1 \in 0..(b - 1)
    OBVIOUS
  <2>3. /\ n * t + (k - 1) \in 0..(Elements - 1)
        /\ k - 1 \in 0..(Elements - 1)
    BY <1>1, <2>1, <2>2
  <2> QED BY <1>1, <2>3
<1>6. \A t, u \in Nat : \A j, k \in 1..n :
        t < u => n * t + (j - 1) < n * u + (k - 1)
  <2> SUFFICES ASSUME NEW t \in Nat, NEW u \in Nat, NEW j \in 1..n, NEW k \in 1..n,
                      t < u
               PROVE  n * t + (j - 1) < n * u + (k - 1)
    OBVIOUS
  <2> QED BY Multiples
<1>7. ASSUME NEW t \in Thread, NEW u \in Thread, NEW j \in 1..n, NEW k \in 1..n,
             n * t + (j - 1) = n * u + (k - 1)
      PROVE  t = u /\ j = k
  <2>1. t \in Nat /\ u \in Nat /\ n * t \in Nat /\ n * u \in Nat
    BY <1>1, <1>4
  <2>2. ~(t < u) /\ ~(u < t)
    BY <1>3, <1>6, <1>7, <2>1
  <2>3. t = u
    BY <2>1, <2>2
  <2> QED BY <1>3, <1>7, <2>1, <2>3
<1>8. ASSUME NEW v \in Value
      PROVE  \E t \in Thread, k \in 1..n : v = n * t + (k - 1)
  <2>1. v \in Nat /\ v < n * p
    BY <1>1, <1>3
  <2>2. n \in Nat \ {0}
    BY <1>1, <1>3, <2>1
  <2>3. PICK q \in Nat, r \in 0..(n - 1) : v = n * q + r
    <3>1. /\ v \div n \in Nat /\ v % n \in 0..(n - 1)
          /\ v = n * (v \div n) + (v % n)
      BY <2>1, <2>2, Division
    <3> QED BY <3>1
  <2>4. q < p
    <3> SUFFICES ASSUME p <= q PROVE FALSE
      BY <1>1
    <3>1. n * p <= n * q
      BY <1>1, <2>2, Multiples
    <3> QED BY <1>1, <2>1, <2>2, <2>3, <3>1
  <2>5. q \in 0..(p - 1) /\ q \in Thread
    BY <1>1, <2>4
  <2>6. r + 1 \in 1..n /\ (r + 1) - 1 = r
    BY <2>2
  <2> QED BY <2>3, <2>5, <2>6
<1> QED BY <1>1, <1>3, <1>5, <1>7, <1>8

-----------------------------------------------------------------------------
(* The programs only call the queue.                                       *)

LEMMA WorkTypeKept == WorkType /\ [WorkNext]_workVars => WorkType'
<1> SUFFICES ASSUME WorkType, [WorkNext]_workVars PROVE WorkType'
  OBVIOUS
<1>1. ASSUME NEW t \in Thread, WorkEnqueue(t) PROVE WorkType'
  BY <1>1, Shares DEF WorkEnqueue, WorkType
<1>2. ASSUME NEW t \in Thread, WorkDequeue(t) \/ WorkInQueue(t) PROVE WorkType'
  BY <1>2 DEF WorkDequeue, WorkInQueue, WorkType, work
<1>3. CASE UNCHANGED workVars
  BY <1>3 DEF workVars, work, WorkType
<1> QED BY <1>1, <1>2, <1>3 DEF WorkNext

LEMMA NumberTaken ==
  ASSUME WorkType, NEW t \in Thread, WorkEnqueue(t)
  PROVE  /\ sent[t] + 1 \in 1..n_elements /\ Number(t, sent[t] + 1) \in Value
         /\ EnqueueCall(t, Number(t, sent[t] + 1))
<1>1. sent[t] \in Nat /\ sent[t] < n_elements /\ t \in Nat
  BY Shares DEF WorkEnqueue, WorkType
<1>2. sent[t] + 1 \in 1..n_elements /\ (sent[t] + 1) - 1 = sent[t]
  BY <1>1, Shares
<1>3. Number(t, sent[t] + 1)
        = (IF program = "test" THEN n_elements * t ELSE 0) + sent[t]
  BY <1>2 DEF Number
<1>4. Number(t, sent[t] + 1) \in Value
  <2>1. CASE program = "test"
    BY <1>2, <2>1, Shares DEF Number
  <2>2. CASE program # "test"
    <3>1. Number(t, sent[t] + 1) = 0 + sent[t] /\ 0 + sent[t] = (sent[t] + 1) - 1
      BY <1>1, <1>3, <2>2
    <3> QED BY <1>2, <3>1, Shares
  <2> QED BY <2>1, <2>2
<1> QED BY <1>2, <1>3, <1>4 DEF WorkEnqueue

LEMMA StepIsNext ==
  ASSUME WorkType, NEW t \in Thread, WorkEnqueue(t) \/ WorkDequeue(t) \/ WorkInQueue(t)
  PROVE  Call(t) \/ EnqueueStep(t) \/ DequeueStep(t)
<1>1. WorkEnqueue(t) => Call(t)
  BY NumberTaken DEF Call
<1> QED BY <1>1 DEF WorkDequeue, WorkInQueue, Call

\* The test and the benchmark only call the queue: whatever is proved of it
\* holds of them.
THEOREM ProgramsUseTheQueue == WorkSpec => Spec
<1>1. WorkInit => WorkType /\ Init
  <2>1. 0 \in 0..n_elements
    BY Shares
  <2> QED BY <2>1 DEF WorkInit, WorkType
<1>2. WorkType /\ [WorkNext]_workVars => [Next]_vars
  BY StepIsNext DEF WorkNext, Next, workVars
<1> QED BY <1>1, <1>2, WorkTypeKept, PTL DEF WorkSpec, Spec

-----------------------------------------------------------------------------
(* The list, and what is in it                                             *)

\* What the invariant of MSQueueNoFree says of the list and the threads.
LEMMA ListFacts ==
  ASSUME IInv
  PROVE  /\ TypeOK /\ head.ptr \in Node
         /\ linked \in Nat \ {0} /\ pos[head.ptr] \in 1..linked
         /\ \A n \in Node : pos[n] \in 0..linked /\ (pos[n] > 0 => n \in used)
         /\ \A m, n \in Node : pos[m] = pos[n] /\ pos[m] > 0 => m = n
         /\ \A n \in Node : pos[n] > 0 => (next[n].ptr = Null <=> pos[n] = linked)
         /\ \A n \in Node : pos[n] > 1 => value[n] \in Value
         /\ \A t \in Thread : pc[t] \in Inserting => node[t] \in used /\ pos[node[t]] = 0
         /\ \A t \in Thread : pc[t] = "d_next" =>
              cur_head[t].ptr \in Node /\ pos[cur_head[t].ptr] \in 1..pos[head.ptr]
         /\ \A t \in Thread : pc[t] = "d_swing" /\ head = cur_head[t] =>
              /\ lnext[t].ptr \in Node /\ pos[lnext[t].ptr] = pos[head.ptr] + 1
              /\ out[t] = value[lnext[t].ptr]
<1>0. /\ TypeOK /\ NF!ListInv /\ NF!EndsInv
      /\ \A t \in Thread : NF!EnqueueInv(t) /\ NF!DequeueInv(t)
  BY DEF IInv, NF!IInv
<1>1. head.ptr \in Node /\ linked \in Nat \ {0} /\ pos[head.ptr] \in 1..linked
  BY <1>0 DEF TypeOK, NF!ListInv, NF!EndsInv, NF!TailBounds
<1>2. /\ \A n \in Node : pos[n] \in 0..linked /\ (pos[n] > 0 => n \in used)
      /\ \A m, n \in Node : pos[m] = pos[n] /\ pos[m] > 0 => m = n
      /\ \A n \in Node : pos[n] > 1 => value[n] \in Value
  BY <1>0, <1>1 DEF TypeOK, NF!ListInv
<1>3. \A n \in Node : Ptrs(next)[n] = next[n].ptr
  BY <1>0 DEF TypeOK, Ptrs
<1>4. ASSUME NEW n \in Node, pos[n] > 0
      PROVE  next[n].ptr = Null <=> pos[n] = linked
  <2>1. Ptrs(next)[n] # Null <=> pos[n] >= 1 /\ pos[n] < linked
    BY <1>0 DEF NF!ListInv
  <2> QED BY <1>1, <1>2, <1>3, <1>4, <2>1
<1>5. \A t \in Thread : pc[t] \in Inserting => node[t] \in used /\ pos[node[t]] = 0
  BY <1>0 DEF NF!EnqueueInv, NF!Inserting, NF!EnqueuePC
<1>6. ASSUME NEW t \in Thread, pc[t] = "d_next"
      PROVE  cur_head[t].ptr \in Node /\ pos[cur_head[t].ptr] \in 1..pos[head.ptr]
  <2>1. Ptrs(cur_head)[t] = cur_head[t].ptr
    BY SameComparisons
  <2>2. /\ cur_head[t].ptr \in Node
        /\ 1 <= pos[cur_head[t].ptr] /\ pos[cur_head[t].ptr] <= pos[head.ptr]
    BY <1>0, <1>6, <2>1 DEF NF!DequeueInv, NF!DequeuePC
  <2> QED BY <1>1, <1>2, <2>2
<1>7. ASSUME NEW t \in Thread, pc[t] = "d_swing", head = cur_head[t]
      PROVE  /\ lnext[t].ptr \in Node /\ pos[lnext[t].ptr] = pos[head.ptr] + 1
             /\ out[t] = value[lnext[t].ptr]
  <2>1. /\ Ptrs(cur_head)[t] = cur_head[t].ptr /\ Ptrs(lnext)[t] = lnext[t].ptr
        /\ head.ptr = Ptrs(cur_head)[t]
    BY <1>7, SameComparisons
  <2>2. /\ lnext[t].ptr # Null /\ lnext[t].ptr = Ptrs(next)[head.ptr]
        /\ out[t] = value[lnext[t].ptr]
    BY <1>0, <1>7, <2>1 DEF NF!DequeueInv
  <2>3. lnext[t].ptr \in Node
    BY <1>0, <2>2 DEF TypeOK, PointerType
  <2> QED BY <1>0, <1>1, <2>2, <2>3 DEF NF!ListInv
<1> QED BY <1>0, <1>1, <1>2, <1>4, <1>5, <1>6, <1>7

LEMMA Types ==
  ASSUME WorkInv
  PROVE  /\ IInv /\ TypeOK /\ n_elements \in Nat
         /\ \A t \in Thread : Put[t] \in 0..n_elements
         /\ \A t \in Thread : Got[t] \in Seq(Value \cup {NoValue}) /\ Len(Got[t]) \in Nat
         /\ \A e \in Enqueued : e = <<e[1], e[2]>> /\ e[1] \in Thread
                                /\ e[2] \in 1..n_elements /\ e[2] <= Put[e[1]]
<1>1. IInv /\ TypeOK /\ n_elements \in Nat /\ sent \in [Thread -> 0..n_elements]
  BY Shares, ListFacts DEF WorkInv, WorkType
<1>2. ASSUME NEW t \in Thread PROVE Put[t] \in 0..n_elements
  <2>1. pc[t] \in EnqueuePC => sent[t] >= 1
    BY DEF WorkInv, ThreadInv
  <2> QED BY <1>1, <2>1 DEF Put
<1>3. ASSUME NEW t \in Thread
      PROVE  Got[t] \in Seq(Value \cup {NoValue}) /\ Len(Got[t]) \in Nat
  <2>1. output[t] \in Seq(Value \cup {NoValue}) /\ out[t] \in Value \cup {NoValue}
    BY <1>1 DEF WorkInv, TypeOK
  <2>2. Got[t] \in Seq(Value \cup {NoValue})
    BY <2>1 DEF Got
  <2> QED BY <2>2
<1>4. \A e \in Enqueued : e = <<e[1], e[2]>> /\ e[1] \in Thread
                          /\ e[2] \in 1..n_elements /\ e[2] <= Put[e[1]]
  BY DEF Enqueued
<1> QED BY <1>1, <1>2, <1>3, <1>4

\* A step that neither links nor takes anything.
Quiet(t) ==
  /\ Put'[t] = Put[t] /\ Got'[t] = Got[t]
  /\ UNCHANGED <<head, linked>>
  /\ \A n \in Node : pos'[n] = pos[n] /\ (pos[n] > 0 => value'[n] = value[n])

\* A step of t leaves the other threads' variables alone.
Frame(t) ==
  /\ program' = program /\ WorkType' /\ output' \in [Thread -> Seq(Value)]
  /\ \A u \in Thread \ {t} :
       /\ pc'[u] = pc[u] /\ sent'[u] = sent[u] /\ output'[u] = output[u]
       /\ out'[u] = out[u] /\ ret'[u] = ret[u] /\ lnext'[u] = lnext[u]
       /\ node'[u] = node[u] /\ (pc[u] \in Inserting => value'[node[u]] = value[node[u]])

LEMMA PutFrame ==
  ASSUME NEW t \in Thread, Frame(t)
  PROVE  Put' = [Put EXCEPT ![t] = Put'[t]] /\ Got' = [Got EXCEPT ![t] = Got'[t]]
<1>1. \A u \in Thread \ {t} : Put'[u] = Put[u] /\ Got'[u] = Got[u]
  BY DEF Frame, Put, Got
<1>2. /\ Put = [u \in Thread |-> Put[u]] /\ Put' = [u \in Thread |-> Put'[u]]
      /\ Got = [u \in Thread |-> Got[u]] /\ Got' = [u \in Thread |-> Got'[u]]
  BY DEF Put, Got
<1> QED BY <1>1, <1>2

LEMMA QuietKeepsContent ==
  ASSUME WorkInv, NEW t \in Thread, Frame(t), Quiet(t)
  PROVE  ListedInv' /\ TakenInv' /\ CountInv'
<1>0. /\ ListedInv /\ TakenInv /\ CountInv /\ head.ptr \in Node
      /\ \A n \in Node : pos[n] \in Nat
  BY ListFacts DEF WorkInv, TypeOK
<1>1. Put' = Put /\ Got' = Got /\ program' = program /\ UNCHANGED <<head, linked>>
  <2>1. Put = [u \in Thread |-> Put[u]] /\ Got = [u \in Thread |-> Got[u]]
    BY DEF Put, Got
  <2>2. Put' = [Put EXCEPT ![t] = Put[t]] /\ Got' = [Got EXCEPT ![t] = Got[t]]
    BY PutFrame DEF Quiet
  <2>3. program' = program /\ UNCHANGED <<head, linked>>
    BY DEF Quiet, Frame
  <2> QED BY <2>1, <2>2, <2>3
<1>2. Enqueued' = Enqueued /\ Dequeued' = Dequeued
  BY <1>1 DEF Enqueued, Dequeued, n_elements
<1>3. \A n \in Node : pos'[n] = pos[n] /\ (pos[n] > 1 => value'[n] = value[n])
  BY <1>0 DEF Quiet
<1>4. \A a, k : Number(a, k)' = Number(a, k)
  BY <1>1 DEF Number, n_elements
<1>5. ListedInv'
  BY <1>0, <1>1, <1>2, <1>3, <1>4 DEF ListedInv
<1>6. TakenInv'
  <2>1. \A n \in Node : pos'[n] > 1 /\ pos'[n] <= pos'[head.ptr] =>
                          pos[n] > 1 /\ pos[n] <= pos[head.ptr] /\ value'[n] = value[n]
    BY <1>0, <1>3
  <2>2. \A n \in Node : pos[n] > 1 /\ pos[n] <= pos[head.ptr] =>
          pos'[n] > 1 /\ pos'[n] <= pos'[head.ptr] /\ value'[n] = value[n]
    BY <1>0, <1>3
  <2> QED BY <1>0, <1>1, <2>1, <2>2 DEF TakenInv
<1>7. CountInv'
  BY <1>0, <1>1, <1>2, <1>3 DEF CountInv
<1> QED BY <1>5, <1>6, <1>7

LEMMA LinkKeepsContent ==
  ASSUME WorkInv, NEW t \in Thread, Frame(t), EnqueueLink(t),
         sent' = sent, Got'[t] = Got[t]
  PROVE  ListedInv' /\ TakenInv' /\ CountInv'
<1>0. /\ ListedInv /\ TakenInv /\ CountInv /\ TypeOK /\ IInv /\ ThreadInv(t)
      /\ head.ptr \in Node /\ pos[head.ptr] \in 1..linked /\ linked \in Nat
      /\ \A n \in Node : pos[n] \in 0..linked
  BY Types, ListFacts DEF WorkInv
<1>1. PICK n \in Node, k \in 1..n_elements :
        /\ n = node[t] /\ k = sent[t] /\ pos[n] = 0 /\ value[n] = Number(t, k)
        /\ Put[t] = k - 1
  <2>1. pc[t] = "e_link"
    BY DEF EnqueueLink
  <2>2. node[t] \in Node /\ pos[node[t]] = 0
    BY <1>0, <2>1, ListFacts DEF TypeOK
  <2>3. sent[t] \in 1..n_elements
    BY <1>0, <2>1, Types DEF ThreadInv, WorkInv, WorkType
  <2> QED BY <1>0, <2>1, <2>2, <2>3 DEF ThreadInv, Put
<1>2. /\ pos' = [pos EXCEPT ![n] = linked + 1] /\ linked' = linked + 1
      /\ UNCHANGED <<head, value>>
  BY <1>1 DEF EnqueueLink
<1>3. Put' = [Put EXCEPT ![t] = k] /\ Got' = Got /\ program' = program
  <2>1. Put'[t] = k
    BY <1>0, <1>1 DEF EnqueueLink, Put, TypeOK
  <2>2. Got = [u \in Thread |-> Got[u]]
    BY DEF Got
  <2>3. Put' = [Put EXCEPT ![t] = k] /\ Got' = [Got EXCEPT ![t] = Got[t]]
    BY <2>1, PutFrame
  <2>4. program' = program
    BY DEF Frame
  <2> QED BY <2>2, <2>3, <2>4
<1>4. /\ pos'[n] = linked + 1
      /\ \A x \in Node \ {n} : pos'[x] = pos[x]
  BY <1>0, <1>2 DEF TypeOK
<1>5. /\ Enqueued' = Enqueued \cup {<<t, k>>} /\ <<t, k>> \notin Enqueued
      /\ <<t, k>>[1] = t /\ <<t, k>>[2] = k
  <2>1. DOMAIN Put = Thread
    BY DEF Put
  <2>2. \A e \in Thread \X (1..n_elements) : e[1] # t => Put'[e[1]] = Put[e[1]]
    BY <1>3, <2>1
  <2>3. Put'[t] = k
    BY <1>3, <2>1
  <2>4. ASSUME NEW e \in Thread \X (1..n_elements)
        PROVE  e[2] <= Put'[e[1]] <=> e[2] <= Put[e[1]] \/ e = <<t, k>>
    <3>1. e = <<e[1], e[2]>> /\ e[2] \in Nat /\ k \in Nat
      BY Types
    <3>2. CASE e[1] = t
      <4>1. Put'[e[1]] = k /\ Put[e[1]] = k - 1
        BY <1>1, <2>3, <3>2
      <4>2. e = <<t, k>> <=> e[2] = k
        BY <3>1, <3>2
      <4> QED BY <3>1, <4>1, <4>2
    <3>3. CASE e[1] # t
      <4>1. e # <<t, k>>
        BY <3>3
      <4> QED BY <2>2, <3>3, <4>1
    <3> QED BY <3>2, <3>3
  <2>5. <<t, k>> \in Thread \X (1..n_elements) /\ ~(k <= Put[t])
    BY <1>1
  <2> QED BY <2>4, <2>5 DEF Enqueued, n_elements
<1>6. \A a, j : Number(a, j)' = Number(a, j)
  BY <1>3 DEF Number, n_elements
<1>7. ListedInv'
  <2> SUFFICES ASSUME program = "test"
               PROVE  /\ \A x \in Node : pos'[x] > 1 =>
                           \E e \in Enqueued' : value[x] = Number(e[1], e[2])
                      /\ \A e \in Enqueued' : \E x \in Node :
                           pos'[x] > 1 /\ value[x] = Number(e[1], e[2])
                      /\ \A x, y \in Node :
                           pos'[x] > 1 /\ pos'[y] > 1 /\ value[x] = value[y] => x = y
    BY <1>2, <1>3, <1>6 DEF ListedInv
  <2>1. ASSUME NEW x \in Node, pos'[x] > 1
        PROVE  \E e \in Enqueued' : value[x] = Number(e[1], e[2])
    <3>1. CASE x = n
      BY <1>1, <1>5, <3>1
    <3>2. CASE x # n
      BY <1>0, <1>4, <1>5, <2>1, <3>2 DEF ListedInv
    <3> QED BY <3>1, <3>2
  <2>2. ASSUME NEW e \in Enqueued'
        PROVE  \E x \in Node : pos'[x] > 1 /\ value[x] = Number(e[1], e[2])
    <3>1. CASE e = <<t, k>>
      <4>1. pos'[n] > 1
        BY <1>0, <1>4
      <4> QED BY <1>1, <1>5, <3>1, <4>1
    <3>2. CASE e \in Enqueued
      <4>1. PICK x \in Node : pos[x] > 1 /\ value[x] = Number(e[1], e[2])
        BY <1>0, <3>2 DEF ListedInv
      <4> QED BY <1>1, <1>4, <4>1
    <3> QED BY <1>5, <3>1, <3>2
  <2>3. ASSUME NEW x \in Node \ {n}, pos[x] > 1 PROVE value[x] # Number(t, k)
    <3>1. PICK e \in Enqueued : value[x] = Number(e[1], e[2])
      BY <1>0, <2>3 DEF ListedInv
    <3>2. e[1] \in Thread /\ e[2] \in 1..n_elements /\ e = <<e[1], e[2]>>
      BY Types
    <3>3. Number(e[1], e[2]) = Number(t, k) => e = <<t, k>>
      BY <3>2, Shares DEF Number
    <3> QED BY <1>5, <3>1, <3>3
  <2>4. ASSUME NEW x \in Node, NEW y \in Node,
               pos'[x] > 1, pos'[y] > 1, value[x] = value[y]
        PROVE  x = y
    BY <1>0, <1>1, <1>4, <2>3, <2>4 DEF ListedInv
  <2> QED BY <2>1, <2>2, <2>4
<1>8. TakenInv'
  <2>1. head.ptr # n /\ pos'[head.ptr] = pos[head.ptr]
    BY <1>0, <1>1, <1>4
  <2>2. \A x \in Node : pos'[x] > 1 /\ pos'[x] <= pos[head.ptr] <=>
                          pos[x] > 1 /\ pos[x] <= pos[head.ptr]
    BY <1>0, <1>1, <1>4
  <2>3. \A u \in Thread : \A i \in 1..Len(Got[u]) : \E x \in Node :
          pos'[x] > 1 /\ pos'[x] <= pos'[head.ptr] /\ value[x] = Got[u][i]
    BY <1>0, <2>1, <2>2 DEF TakenInv
  <2>4. \A x \in Node : pos'[x] > 1 /\ pos'[x] <= pos'[head.ptr] =>
          \E u \in Thread : \E i \in 1..Len(Got[u]) : Got[u][i] = value[x]
    BY <1>0, <2>1, <2>2 DEF TakenInv
  <2>5. program = "test" =>
          \A u, w \in Thread : \A i \in 1..Len(Got[u]) : \A j \in 1..Len(Got[w]) :
            Got[u][i] = Got[w][j] => u = w /\ i = j
    BY <1>0 DEF TakenInv
  <2> QED BY <1>2, <1>3, <2>3, <2>4, <2>5 DEF TakenInv
<1>9. CountInv'
  <2>1. IsFiniteSet(Enqueued') /\ Cardinality(Enqueued') = Cardinality(Enqueued) + 1
    BY <1>0, <1>5, FS_AddElement DEF CountInv
  <2>2. Dequeued' = Dequeued
    BY <1>3 DEF Dequeued, n_elements
  <2>3. pos'[head.ptr] = pos[head.ptr]
    BY <1>0, <1>1, <1>4
  <2> QED BY <1>0, <1>2, <2>1, <2>2, <2>3 DEF CountInv
<1> QED BY <1>7, <1>8, <1>9

LEMMA SwingKeepsContent ==
  ASSUME WorkInv, NEW t \in Thread, Frame(t), DequeueSwingHead(t),
         sent' = sent, output' = output
  PROVE  ListedInv' /\ TakenInv' /\ CountInv'
<1>0. /\ ListedInv /\ TakenInv /\ CountInv /\ TypeOK /\ IInv /\ ThreadInv(t)
      /\ head.ptr \in Node /\ pos[head.ptr] \in 1..linked /\ linked \in Nat
      /\ \A n \in Node : pos[n] \in 0..linked
      /\ \A m, n \in Node : pos[m] = pos[n] /\ pos[m] > 0 => m = n
  BY Types, ListFacts DEF WorkInv
<1>1. PICK n \in Node, len \in Nat :
        /\ n = lnext[t].ptr /\ len = Len(Got[t]) /\ len < n_elements
        /\ pos[n] = pos[head.ptr] + 1 /\ out[t] = value[n]
        /\ Got[t] = output[t]
  <2>1. pc[t] = "d_swing" /\ head = cur_head[t]
    BY DEF DequeueSwingHead
  <2>2. /\ lnext[t].ptr \in Node /\ pos[lnext[t].ptr] = pos[head.ptr] + 1
        /\ out[t] = value[lnext[t].ptr]
    BY <1>0, <2>1, ListFacts
  <2>3. Got[t] = output[t] /\ Len(Got[t]) \in Nat /\ Len(output[t]) < n_elements
    BY <1>0, <2>1, Types DEF ThreadInv, Got
  <2> QED BY <2>2, <2>3
<1>2. /\ head'.ptr = n /\ UNCHANGED <<pos, linked, value>> /\ program' = program
  BY <1>1, PointerFacts DEF DequeueSwingHead, Frame
<1>3. Put' = Put /\ Got' = [Got EXCEPT ![t] = Append(Got[t], value[n])]
  <2>1. Put'[t] = Put[t] /\ Got'[t] = Append(Got[t], value[n])
    BY <1>0, <1>1 DEF DequeueSwingHead, Put, Got, TypeOK
  <2>2. Put = [u \in Thread |-> Put[u]]
    BY DEF Put
  <2>3. Put' = [Put EXCEPT ![t] = Put[t]] /\ Got' = [Got EXCEPT ![t] = Append(Got[t], value[n])]
    BY <2>1, PutFrame
  <2> QED BY <2>2, <2>3
<1>4. /\ Len(Got'[t]) = len + 1 /\ Got'[t][len + 1] = value[n]
      /\ \A i \in 1..len : Got'[t][i] = Got[t][i]
      /\ \A u \in Thread \ {t} : Got'[u] = Got[u]
      /\ \A u \in Thread : Len(Got[u]) \in Nat
  <2>1. Got[t] \in Seq(Value \cup {NoValue}) /\ value[n] \in Value \cup {NoValue}
    BY <1>0, Types DEF TypeOK
  <2>2. DOMAIN Got = Thread
    BY DEF Got
  <2>3. Got'[t] = Append(Got[t], value[n])
    BY <1>3, <2>2
  <2>4. \A u \in Thread : Len(Got[u]) \in Nat
    BY Types
  <2> QED BY <1>1, <1>3, <2>1, <2>2, <2>3, <2>4
<1>5. Enqueued' = Enqueued /\ \A a, k : Number(a, k)' = Number(a, k)
  BY <1>2, <1>3 DEF Enqueued, Number, n_elements
<1>6. Dequeued' = Dequeued \cup {<<t, len + 1>>} /\ <<t, len + 1>> \notin Dequeued
  <2>1. ASSUME NEW e \in Thread \X (1..n_elements)
        PROVE  e[2] <= Len(Got'[e[1]]) <=> e[2] <= Len(Got[e[1]]) \/ e = <<t, len + 1>>
    <3>1. e = <<e[1], e[2]>> /\ e[2] \in Nat /\ e[1] \in Thread
      BY Types
    <3>2. CASE e[1] = t
      <4>1. Len(Got'[e[1]]) = len + 1 /\ Len(Got[e[1]]) = len
        BY <1>1, <1>4, <3>2
      <4>2. e = <<t, len + 1>> <=> e[2] = len + 1
        BY <3>1, <3>2
      <4> QED BY <3>1, <4>1, <4>2
    <3>3. CASE e[1] # t
      <4>1. e # <<t, len + 1>>
        BY <3>3
      <4> QED BY <1>4, <3>1, <3>3, <4>1
    <3> QED BY <3>2, <3>3
  <2>2. <<t, len + 1>> \in Thread \X (1..n_elements) /\ ~(len + 1 <= Len(Got[t]))
    BY <1>1, Types
  <2> QED BY <2>1, <2>2 DEF Dequeued, n_elements
<1>7. ListedInv'
  BY <1>0, <1>2, <1>5 DEF ListedInv
<1>8. \A u \in Thread : \A i \in 1..Len(Got'[u]) :
        \/ i \in 1..Len(Got[u]) /\ Got'[u][i] = Got[u][i]
        \/ u = t /\ i = len + 1 /\ Got'[u][i] = value[n]
  <2> TAKE u \in Thread
  <2> TAKE i \in 1..Len(Got'[u])
  <2>1. CASE u = t
    <3>1. i \in 1..len \/ i = len + 1
      BY <1>4, <2>1
    <3> QED BY <1>1, <1>4, <2>1, <3>1
  <2>2. CASE u # t
    BY <1>4, <2>2
  <2> QED BY <2>1, <2>2
<1>9. \A u \in Thread : \A i \in 1..Len(Got[u]) :
        i \in 1..Len(Got'[u]) /\ Got'[u][i] = Got[u][i]
  <2> TAKE u \in Thread
  <2> TAKE i \in 1..Len(Got[u])
  <2>1. CASE u = t
    BY <1>1, <1>4, <2>1
  <2>2. CASE u # t
    BY <1>4, <2>2
  <2> QED BY <2>1, <2>2
<1>10. TakenInv'
  <2>1. ASSUME NEW u \in Thread, NEW i \in 1..Len(Got'[u])
        PROVE  \E x \in Node : pos[x] > 1 /\ pos[x] <= pos[n] /\ value[x] = Got'[u][i]
    <3>1. CASE i \in 1..Len(Got[u]) /\ Got'[u][i] = Got[u][i]
      <4>1. PICK x \in Node : pos[x] > 1 /\ pos[x] <= pos[head.ptr] /\ value[x] = Got[u][i]
        BY <1>0, <3>1 DEF TakenInv
      <4> QED BY <1>0, <1>1, <3>1, <4>1
    <3>2. CASE Got'[u][i] = value[n]
      BY <1>0, <1>1, <3>2
    <3> QED BY <1>8, <3>1, <3>2
  <2>2. ASSUME NEW x \in Node, pos[x] > 1, pos[x] <= pos[n]
        PROVE  \E u \in Thread : \E i \in 1..Len(Got'[u]) : Got'[u][i] = value[x]
    <3>1. CASE x = n
      <4>1. len + 1 \in 1..Len(Got'[t])
        BY <1>4
      <4> QED BY <1>4, <3>1, <4>1
    <3>2. CASE x # n
      <4>1. pos[x] <= pos[head.ptr]
        BY <1>0, <1>1, <2>2, <3>2
      <4>2. PICK u \in Thread : \E i \in 1..Len(Got[u]) : Got[u][i] = value[x]
        BY <1>0, <2>2, <4>1 DEF TakenInv
      <4> QED BY <1>9, <4>2
    <3> QED BY <3>1, <3>2
  <2>3. ASSUME program = "test", NEW u \in Thread, NEW i \in 1..Len(Got[u])
        PROVE  Got[u][i] # value[n]
    <3>1. PICK x \in Node : pos[x] > 1 /\ pos[x] <= pos[head.ptr] /\ value[x] = Got[u][i]
      BY <1>0 DEF TakenInv
    <3>2. pos[n] > 1 /\ x # n
      BY <1>0, <1>1, <3>1
    <3> QED BY <1>0, <2>3, <3>1, <3>2 DEF ListedInv
  <2>4. ASSUME program = "test", NEW u \in Thread, NEW w \in Thread,
               NEW i \in 1..Len(Got'[u]), NEW j \in 1..Len(Got'[w]),
               Got'[u][i] = Got'[w][j]
        PROVE  u = w /\ i = j
    <3>1. CASE i \in 1..Len(Got[u]) /\ Got'[u][i] = Got[u][i]
      <4>1. Got'[w][j] # value[n]
        BY <2>3, <2>4, <3>1
      <4>2. j \in 1..Len(Got[w]) /\ Got'[w][j] = Got[w][j]
        BY <1>8, <4>1
      <4>3. \A i1 \in 1..Len(Got[u]) : \A j1 \in 1..Len(Got[w]) :
              Got[u][i1] = Got[w][j1] => u = w /\ i1 = j1
        BY <1>0, <2>4 DEF TakenInv
      <4> QED BY <2>4, <3>1, <4>2, <4>3
    <3>2. CASE u = t /\ i = len + 1 /\ Got'[u][i] = value[n]
      BY <1>8, <2>3, <2>4, <3>2
    <3> QED BY <1>8, <3>1, <3>2
  <2>5. /\ \A u \in Thread : \A i \in 1..Len(Got'[u]) : \E x \in Node :
             pos'[x] > 1 /\ pos'[x] <= pos'[head'.ptr] /\ value'[x] = Got'[u][i]
        /\ \A x \in Node : pos'[x] > 1 /\ pos'[x] <= pos'[head'.ptr] =>
             \E u \in Thread : \E i \in 1..Len(Got'[u]) : Got'[u][i] = value'[x]
    BY <1>2, <2>1, <2>2
  <2> QED BY <1>2, <2>4, <2>5 DEF TakenInv
<1>11. CountInv'
  <2>1. IsFiniteSet(Dequeued') /\ Cardinality(Dequeued') = Cardinality(Dequeued) + 1
    BY <1>0, <1>6, FS_AddElement DEF CountInv
  <2>2. /\ Cardinality(Dequeued) = pos[head.ptr] - 1 /\ pos[head.ptr] \in Nat
        /\ IsFiniteSet(Enqueued) /\ Cardinality(Enqueued) = linked - 1
    BY <1>0 DEF CountInv
  <2>3. pos'[head'.ptr] = pos[head.ptr] + 1 /\ linked' = linked
    BY <1>1, <1>2
  <2>4. Cardinality(Dequeued') = pos'[head'.ptr] - 1
    BY <2>1, <2>2, <2>3
  <2> QED BY <1>5, <2>1, <2>2, <2>3, <2>4 DEF CountInv
<1> QED BY <1>7, <1>10, <1>11

\* A thread that has a dequeue to do finds a successor of head: it has itself
\* enqueued more than it has taken, and nobody has taken more than he enqueued.
LEMMA NeverEmpty ==
  ASSUME WorkInv, NEW t \in Thread, pc[t] = "d_next"
  PROVE  next[cur_head[t].ptr].ptr # Null
<1>0. /\ CountInv /\ IInv /\ ThreadInv(t) /\ n_elements \in Nat
      /\ pos[head.ptr] \in 1..linked /\ linked \in Nat
      /\ sent \in [Thread -> 0..n_elements]
  BY Types, ListFacts DEF WorkInv, WorkType
<1> SUFFICES ASSUME next[cur_head[t].ptr].ptr = Null PROVE FALSE
  OBVIOUS
<1>1. pos[head.ptr] = linked
  <2>1. cur_head[t].ptr \in Node /\ pos[cur_head[t].ptr] \in 1..pos[head.ptr]
    BY <1>0, ListFacts
  <2>2. pos[cur_head[t].ptr] = linked
    BY <1>0, <2>1, ListFacts
  <2> QED BY <1>0, <2>1, <2>2
<1>2. Dequeued \subseteq Enqueued
  <2> SUFFICES ASSUME NEW e \in Thread \X (1..n_elements), e[2] <= Len(Got[e[1]])
               PROVE  e[2] <= Put[e[1]]
    BY DEF Dequeued, Enqueued
  <2>1. PICK u \in Thread : u = e[1] /\ ThreadInv(u) /\ sent[u] \in 0..n_elements
    BY <1>0 DEF WorkInv
  <2>2. e[2] \in 1..n_elements /\ Len(Got[u]) \in Nat /\ Len(Got[u]) <= n_elements
    BY <2>1, Types DEF ThreadInv
  <2>3. Got[u] # <<>>
    <3>1. Len(Got[u]) >= 1
      BY <2>1, <2>2
    <3> QED BY <3>1
  <2>4. sent[u] = n_elements /\ pc[u] \notin EnqueuePC
    BY <1>0, <2>1, <2>3 DEF ThreadInv, Got
  <2>5. Put[u] = n_elements
    BY <2>4 DEF Put
  <2> QED BY <2>1, <2>2, <2>5
<1>3. Dequeued = Enqueued
  BY <1>0, <1>1, <1>2, FS_Subset DEF CountInv
<1>4. <<t, n_elements>> \in Enqueued /\ <<t, n_elements>> \notin Dequeued
  <2>1. sent[t] = n_elements /\ Len(output[t]) < n_elements
    BY <1>0 DEF ThreadInv
  <2>2. Put[t] = n_elements /\ Len(Got[t]) < n_elements /\ Len(Got[t]) \in Nat
    BY <1>0, <2>1, Types DEF Put, Got
  <2>3. n_elements \in 1..n_elements
    BY <1>0, <2>2
  <2> QED BY <2>2, <2>3 DEF Enqueued, Dequeued
<1> QED BY <1>3, <1>4

-----------------------------------------------------------------------------
(* The steps of a thread                                                   *)

LEMMA Assemble ==
  ASSUME WorkInv, NEW t \in Thread, Frame(t), IInv', ThreadInv(t)',
         ListedInv' /\ TakenInv' /\ CountInv'
  PROVE  WorkInv'
<1>1. ASSUME NEW u \in Thread \ {t} PROVE ThreadInv(u)'
  <2>1. ThreadInv(u)
    BY DEF WorkInv
  <2>2. /\ pc'[u] = pc[u] /\ sent'[u] = sent[u] /\ output'[u] = output[u]
        /\ ret'[u] = ret[u] /\ lnext'[u] = lnext[u] /\ node'[u] = node[u]
        /\ (pc[u] \in Inserting => value'[node[u]] = value[node[u]])
        /\ Got'[u] = Got[u] /\ \A k : Number(u, k)' = Number(u, k)
    BY DEF Frame, Got, Number, n_elements
  <2> QED BY <2>1, <2>2 DEF ThreadInv, n_elements
<1>2. \A u \in Thread : ThreadInv(u)'
  BY <1>1
<1> QED BY <1>2 DEF WorkInv, Frame

LEMMA EnqueueBegins ==
  ASSUME WorkInv, IInv', WorkType', Reuse = FALSE, NEW t \in Thread, WorkEnqueue(t)
  PROVE  WorkInv'
<1>0. /\ TypeOK /\ ThreadInv(t) /\ IInv /\ n_elements \in Nat /\ WorkType
      /\ sent \in [Thread -> 0..n_elements] /\ output \in [Thread -> Seq(Value)]
  BY Types DEF WorkInv, WorkType
<1>1. PICK k \in 1..n_elements, v \in Value :
        k = sent[t] + 1 /\ v = Number(t, k) /\ EnqueueCall(t, v)
  BY <1>0, NumberTaken
<1>2. PICK n \in Node \ used :
        /\ value' = [value EXCEPT ![n] = v] /\ node' = [node EXCEPT ![t] = n]
        /\ pos' = [pos EXCEPT ![n] = 0]
        /\ pc[t] = "idle" /\ pc' = [pc EXCEPT ![t] = "e_tail"]
        /\ ret' = [ret EXCEPT ![t] = "void"] /\ sent' = [sent EXCEPT ![t] = k]
        /\ UNCHANGED <<head, linked, lnext, out, program, output>>
  BY <1>1 DEF WorkEnqueue, EnqueueCall, Fresh
<1>3. /\ pc'[t] = "e_tail" /\ ret'[t] = "void" /\ sent'[t] = k /\ node'[t] = n
      /\ value'[n] = v /\ \A x \in Node \ {n} : value'[x] = value[x]
  BY <1>0, <1>2 DEF TypeOK
<1>4. \A x \in Node : pos'[x] = pos[x] /\ (pos[x] > 0 => x # n)
  <2>1. pos[n] = 0
    BY <1>0, <1>2, ListFacts
  <2> QED BY <1>0, <1>2, <2>1 DEF TypeOK
<1>5. Frame(t)
  <2>1. \A u \in Thread : pc[u] \in Inserting => node[u] \in used /\ node[u] \in Node
    BY <1>0, ListFacts DEF TypeOK
  <2>2. \A u \in Thread : pc[u] \in Inserting => value'[node[u]] = value[node[u]]
    BY <1>2, <1>3, <2>1
  <2> QED BY <1>0, <1>2, <2>2 DEF Frame, TypeOK
<1>6. Quiet(t)
  <2>1. Put'[t] = Put[t] /\ Got'[t] = Got[t]
    BY <1>0, <1>1, <1>2, <1>3 DEF Put, Got
  <2> QED BY <1>2, <1>3, <1>4, <2>1 DEF Quiet
<1>7. ListedInv' /\ TakenInv' /\ CountInv'
  BY <1>5, <1>6, QuietKeepsContent
<1>8. ThreadInv(t)'
  <2>1. output[t] = <<>>
    BY <1>0 DEF WorkEnqueue, ThreadInv
  <2>2. Got'[t] = <<>> /\ Len(<<>>) = 0 /\ output'[t] = <<>> /\ Number(t, k)' = Number(t, k)
    BY <1>0, <1>2, <1>3, <2>1 DEF Got, Number, n_elements
  <2> QED BY <1>0, <1>1, <1>3, <2>2 DEF ThreadInv, n_elements
<1> QED BY <1>5, <1>7, <1>8, Assemble

LEMMA DequeueBegins ==
  ASSUME WorkInv, IInv', WorkType', NEW t \in Thread, WorkDequeue(t)
  PROVE  WorkInv'
<1>0. /\ TypeOK /\ ThreadInv(t) /\ n_elements \in Nat
      /\ output \in [Thread -> Seq(Value)]
  BY Types DEF WorkInv
<1>1. /\ pc[t] = "idle" /\ pc' = [pc EXCEPT ![t] = "d_head"]
      /\ ret' = [ret EXCEPT ![t] = "void"] /\ out' = [out EXCEPT ![t] = NoValue]
      /\ sent[t] = n_elements /\ Len(output[t]) < n_elements
      /\ UNCHANGED <<shared, locals, history, work>>
  BY DEF WorkDequeue, DequeueCall
<1>2. pc'[t] = "d_head" /\ ret'[t] = "void"
  BY <1>0, <1>1 DEF TypeOK
<1>3. Frame(t)
  BY <1>0, <1>1 DEF Frame, TypeOK, work
<1>4. Quiet(t) /\ Got'[t] = output[t]
  BY <1>0, <1>1, <1>2 DEF Quiet, Put, Got, work
<1>5. ListedInv' /\ TakenInv' /\ CountInv'
  BY <1>3, <1>4, QuietKeepsContent
<1>6. ThreadInv(t)'
  BY <1>0, <1>1, <1>2, <1>4 DEF ThreadInv, n_elements, work
<1> QED BY <1>3, <1>5, <1>6, Assemble

LEMMA EnqueueGoesOn ==
  ASSUME WorkInv, IInv', WorkType', NEW t \in Thread, WorkInQueue(t), EnqueueStep(t)
  PROVE  WorkInv'
<1>0. /\ TypeOK /\ ThreadInv(t) /\ IInv /\ n_elements \in Nat
      /\ sent \in [Thread -> 0..n_elements] /\ output \in [Thread -> Seq(Value)]
  BY Types DEF WorkInv, WorkType
<1>1. /\ pc[t] \in EnqueuePC /\ pc'[t] \in EnqueuePC \cup {"idle"}
      /\ UNCHANGED <<head, value, out, ret>>
      /\ pc'[t] \in Inserting => pc[t] \in Inserting /\ node'[t] = node[t]
      /\ pc[t] \in Inserting => pc'[t] \in Inserting \/ EnqueueLink(t)
      /\ \A u \in Thread \ {t} :
           pc'[u] = pc[u] /\ lnext'[u] = lnext[u] /\ node'[u] = node[u]
  BY <1>0
     DEF TypeOK, EnqueueStep, EnqueueLoadTail, EnqueueLoadNext, EnqueueCheckTail,
         EnqueueLink, EnqueueLinkFails, EnqueueHelpTail, EnqueueSwingTail
<1>2. sent' = sent /\ output' = output /\ program' = program
  BY <1>0, <1>1 DEF WorkInQueue, ThreadInv
<1>3. Frame(t)
  BY <1>0, <1>1, <1>2 DEF Frame
<1>4. Got'[t] = Got[t]
  BY <1>0, <1>1, <1>2 DEF Got
<1>5. ListedInv' /\ TakenInv' /\ CountInv'
  <2>1. CASE EnqueueLink(t)
    BY <1>2, <1>3, <1>4, <2>1, LinkKeepsContent
  <2>2. CASE ~EnqueueLink(t)
    <3>1. Put'[t] = Put[t]
      BY <1>0, <1>1, <1>2, <2>2 DEF Put
    <3>2. UNCHANGED <<pos, linked>>
      BY <2>2
         DEF EnqueueStep, EnqueueLoadTail, EnqueueLoadNext, EnqueueCheckTail,
             EnqueueLinkFails, EnqueueHelpTail, EnqueueSwingTail
    <3>3. Quiet(t)
      BY <1>1, <1>4, <3>1, <3>2 DEF Quiet
    <3> QED BY <1>3, <3>3, QuietKeepsContent
  <2> QED BY <2>1, <2>2
<1>6. ThreadInv(t)'
  <2>1. \A k : Number(t, k)' = Number(t, k)
    BY <1>2 DEF Number, n_elements
  <2> QED BY <1>0, <1>1, <1>2, <1>4, <2>1 DEF ThreadInv, n_elements
<1> QED BY <1>3, <1>5, <1>6, Assemble

LEMMA DequeueGoesOn ==
  ASSUME WorkInv, IInv', WorkType', Reuse = FALSE, NEW t \in Thread,
         WorkInQueue(t), DequeueStep(t), ~DequeueReturn(t)
  PROVE  /\ WorkInv' /\ output' = output
<1>0. /\ TypeOK /\ ThreadInv(t) /\ IInv /\ n_elements \in Nat
      /\ output \in [Thread -> Seq(Value)]
  BY Types DEF WorkInv
<1>1. ~DequeueEmpty(t)
  BY <1>0 DEF ThreadInv, DequeueEmpty
<1>2. /\ pc[t] \in DequeuePC \ {"d_return"} /\ pc'[t] \in DequeuePC
      /\ pc'[t] = "d_return" => DequeueSwingHead(t)
      /\ pc'[t] = "d_check" => pc[t] = "d_next" /\ lnext'[t] = next[cur_head[t].ptr]
      /\ UNCHANGED <<value, ret, pos, linked>>
      /\ ~DequeueSwingHead(t) => head' = head
      /\ \A u \in Thread \ {t} : /\ pc'[u] = pc[u] /\ lnext'[u] = lnext[u]
                                 /\ node'[u] = node[u] /\ out'[u] = out[u]
  BY <1>0, <1>1, NextStays
     DEF TypeOK, DequeueStep, DequeueLoadHead, DequeueLoadTail, DequeueLoadNext,
         DequeueCheckHead, DequeueHelpTail, DequeueReadValue, DequeueSwingHead,
         DequeueSwingFails
<1>3. sent' = sent /\ output' = output /\ program' = program
  BY <1>2 DEF WorkInQueue
<1>4. Frame(t)
  BY <1>0, <1>2, <1>3 DEF Frame
<1>5. ListedInv' /\ TakenInv' /\ CountInv'
  <2>1. CASE DequeueSwingHead(t)
    BY <1>3, <1>4, <2>1, SwingKeepsContent
  <2>2. CASE ~DequeueSwingHead(t)
    <3>1. Put'[t] = Put[t] /\ Got'[t] = Got[t]
      BY <1>0, <1>2, <1>3, <2>2 DEF Put, Got
    <3>2. Quiet(t)
      BY <1>2, <2>2, <3>1 DEF Quiet
    <3> QED BY <1>4, <3>2, QuietKeepsContent
  <2> QED BY <2>1, <2>2
<1>6. pc'[t] = "d_check" => lnext'[t].ptr # Null
  BY <1>2, NeverEmpty
<1>7. Len(Got'[t]) <= n_elements /\ Len(output[t]) < n_elements
  <2>1. Len(output[t]) < n_elements /\ Len(output[t]) \in Nat
    BY <1>0, <1>2 DEF ThreadInv
  <2>2. \A v : Len(Append(output[t], v)) = Len(output[t]) + 1
    BY <1>0
  <2>3. Got'[t] = output[t] \/ Got'[t] = Append(output[t], out'[t])
    BY <1>0, <1>3 DEF Got
  <2> QED BY <1>0, <2>1, <2>2, <2>3
<1>8. ThreadInv(t)'
  BY <1>0, <1>2, <1>3, <1>6, <1>7 DEF ThreadInv, n_elements
<1> QED BY <1>3, <1>4, <1>5, <1>8, Assemble

LEMMA DequeueEnds ==
  ASSUME WorkInv, IInv', WorkType', NEW t \in Thread, WorkInQueue(t), DequeueReturn(t)
  PROVE  WorkInv'
<1>0. /\ TypeOK /\ ThreadInv(t) /\ IInv /\ TakenInv /\ n_elements \in Nat
      /\ output \in [Thread -> Seq(Value)]
  BY Types DEF WorkInv
<1>1. /\ pc[t] = "d_return" /\ pc'[t] = "idle" /\ ret'[t] = "true"
      /\ UNCHANGED <<head, value, node, out, history>>
      /\ \A u \in Thread \ {t} :
           pc'[u] = pc[u] /\ lnext'[u] = lnext[u] /\ ret'[u] = ret[u]
  BY <1>0 DEF TypeOK, DequeueReturn, DequeueReturns
<1>2. Got[t] = Append(output[t], out[t])
  BY <1>0, <1>1 DEF Got
<1>3. out[t] \in Value /\ out'[t] # NoValue
  <2>1. /\ Len(Got[t]) \in 1..Len(Got[t]) /\ Got[t][Len(Got[t])] = out[t]
    BY <1>0, <1>2
  <2>2. PICK n \in Node : pos[n] > 1 /\ value[n] = out[t]
    BY <1>0, <2>1 DEF TakenInv
  <2> QED BY <1>0, <1>1, <2>2, ListFacts
<1>4. /\ output' = [output EXCEPT ![t] = Append(output[t], out[t])]
      /\ sent' = sent /\ program' = program
  BY <1>1, <1>3 DEF WorkInQueue
<1>5. output' \in [Thread -> Seq(Value)] /\ output'[t] = Got[t]
  BY <1>0, <1>2, <1>3, <1>4
<1>6. Frame(t)
  BY <1>0, <1>1, <1>4, <1>5 DEF Frame
<1>7. Got'[t] = Got[t]
  BY <1>0, <1>1, <1>5 DEF Got
<1>8. Quiet(t)
  BY <1>0, <1>1, <1>4, <1>7 DEF Quiet, Put
<1>9. ListedInv' /\ TakenInv' /\ CountInv'
  BY <1>6, <1>8, QuietKeepsContent
<1>10. ThreadInv(t)'
  <2>1. ~(sent[t] < n_elements)
    BY <1>0, <1>1 DEF ThreadInv
  <2> QED BY <1>0, <1>1, <1>4, <1>5, <1>7, <2>1 DEF ThreadInv, n_elements
<1> QED BY <1>6, <1>9, <1>10, Assemble

LEMMA WorkNextKeepsInv ==
  ASSUME Reuse = FALSE, WorkInv, [WorkNext]_workVars
  PROVE  WorkInv'
<1>1. WorkType /\ WorkType' /\ IInv
  BY WorkTypeKept DEF WorkInv
<1>2. IInv'
  <2>1. [Next]_vars
    BY <1>1, StepIsNext DEF WorkNext, Next, workVars
  <2> QED BY <1>1, <2>1, IInvInductive
<1>3. ASSUME NEW t \in Thread, WorkEnqueue(t) \/ WorkDequeue(t) \/ WorkInQueue(t)
      PROVE  WorkInv'
  <2>1. CASE WorkInQueue(t)
    <3>1. EnqueueStep(t) \/ DequeueStep(t)
      BY <2>1 DEF WorkInQueue
    <3> QED BY <1>1, <1>2, <2>1, <3>1, EnqueueGoesOn, DequeueGoesOn, DequeueEnds
  <2> QED BY <1>1, <1>2, <1>3, <2>1, EnqueueBegins, DequeueBegins
<1>4. CASE UNCHANGED workVars
  <2>1. UNCHANGED <<program, sent, output, head, value, pc, node, lnext, out, ret, pos, linked>>
    BY <1>4 DEF workVars, work, vars
  <2>2. Put' = Put /\ Got' = Got /\ \A t, k : Number(t, k)' = Number(t, k)
    BY <2>1 DEF Put, Got, Number, n_elements
  <2>3. Enqueued' = Enqueued /\ Dequeued' = Dequeued
    BY <2>2 DEF Enqueued, Dequeued, n_elements
  <2>4. \A t \in Thread : ThreadInv(t)'
    BY <2>1, <2>2 DEF WorkInv, ThreadInv, n_elements
  <2>5. ListedInv'
    BY <2>1, <2>2, <2>3 DEF WorkInv, ListedInv
  <2>6. TakenInv'
    BY <2>1, <2>2 DEF WorkInv, TakenInv
  <2>7. CountInv'
    BY <2>1, <2>3 DEF WorkInv, CountInv
  <2> QED BY <1>1, <1>2, <2>1, <2>4, <2>5, <2>6, <2>7 DEF WorkInv
<1> QED BY <1>3, <1>4 DEF WorkNext

LEMMA InitWorkInv == WorkInit => WorkInv
<1> SUFFICES ASSUME WorkInit PROVE WorkInv
  OBVIOUS
<1>1. /\ n_elements \in Nat /\ program \in {"test", "benchmark"}
      /\ sent = [t \in Thread |-> 0] /\ output = [t \in Thread |-> <<>>]
      /\ \A t \in Thread : pc[t] = "idle" /\ ret[t] = "void"
      /\ head.ptr = Fake /\ pos[Fake] = 1 /\ linked = 1
      /\ \A n \in Node : pos[n] \in {0, 1}
  BY Shares, PointerFacts DEF WorkInit, Init
<1>2. \A t \in Thread : Put[t] = 0 /\ Got[t] = <<>> /\ Len(Got[t]) = 0
  BY <1>1 DEF Put, Got
<1>3. IInv
  BY InitIInv DEF WorkInit
<1>4. WorkType /\ output \in [Thread -> Seq(Value)]
  <2>1. 0 \in 0..n_elements
    BY <1>1
  <2> QED BY <1>1, <2>1 DEF WorkType
<1>5. Enqueued = {} /\ Dequeued = {}
  <2>1. \A e \in Thread \X (1..n_elements) : e[1] \in Thread /\ e[2] \in 1..n_elements
    OBVIOUS
  <2>2. \A e \in Thread \X (1..n_elements) :
          ~(e[2] <= Put[e[1]]) /\ ~(e[2] <= Len(Got[e[1]]))
    BY <1>1, <1>2, <2>1
  <2> QED BY <2>2 DEF Enqueued, Dequeued
<1>6. CountInv
  BY <1>1, <1>5, FS_EmptySet DEF CountInv
<1>7. ListedInv /\ TakenInv
  BY <1>1, <1>2, <1>5 DEF ListedInv, TakenInv
<1>8. \A t \in Thread : ThreadInv(t)
  <2> SUFFICES ASSUME NEW t \in Thread PROVE ThreadInv(t)
    OBVIOUS
  <2>1. /\ sent[t] = 0 /\ output[t] = <<>> /\ <<>> \in Seq(Value)
        /\ pc[t] = "idle" /\ ret[t] = "void" /\ Len(Got[t]) = 0
    BY <1>1, <1>2
  <2> QED BY <1>1, <2>1 DEF ThreadInv
<1> QED BY <1>3, <1>4, <1>6, <1>7, <1>8 DEF WorkInv

\* The invariant of the test and the benchmark, as long as no deleted address
\* comes back.
THEOREM WorkInvariance == Reuse = FALSE => (WorkSpec => []WorkInv)
<1>1. (Reuse = FALSE) /\ WorkInv /\ [WorkNext]_workVars => WorkInv'
  BY WorkNextKeepsInv
<1>2. CASE Reuse = FALSE
  BY <1>1, <1>2, InitWorkInv, PTL DEF WorkSpec
<1> QED BY <1>2

\* When all threads have been joined, as many nodes have been taken as linked.
LEMMA Joined ==
  ASSUME WorkInv, AllDone
  PROVE  /\ \A t \in Thread : Put[t] = n_elements /\ Got[t] = output[t]
                              /\ Len(output[t]) = n_elements
         /\ Enqueued = Thread \X (1..n_elements) /\ pos[head.ptr] = linked
<1>1. ASSUME NEW t \in Thread
      PROVE  Put[t] = n_elements /\ Got[t] = output[t] /\ Len(output[t]) = n_elements
  <2>1. /\ pc[t] = "idle" /\ Len(output[t]) = n_elements /\ n_elements \in Nat
        /\ sent[t] \in 0..n_elements /\ ThreadInv(t)
    BY Types DEF AllDone, Done, WorkInv, WorkType
  <2>2. sent[t] = n_elements
    <3> SUFFICES ASSUME sent[t] < n_elements PROVE FALSE
      BY <2>1
    <3>1. output[t] = <<>>
      BY <2>1 DEF ThreadInv
    <3> QED BY <2>1, <3>1
  <2> QED BY <2>1, <2>2 DEF Put, Got
<1>2. \A e \in Thread \X (1..n_elements) :
        e[2] <= Put[e[1]] /\ e[2] <= Len(Got[e[1]])
  BY <1>1
<1>3. Enqueued = Thread \X (1..n_elements) /\ Dequeued = Enqueued
  BY <1>2 DEF Enqueued, Dequeued
<1>4. linked \in Nat /\ pos[head.ptr] \in Nat
  BY Types, ListFacts
<1>5. pos[head.ptr] = linked
  BY <1>3, <1>4 DEF WorkInv, CountInv
<1> QED BY <1>1, <1>3, <1>5

\* The assertions of the parallel test after the join never fail: its output
\* is 0..n-1, each number once.
THEOREM TestAlwaysPasses == Reuse = FALSE => (WorkSpec => []TestPasses)
<1>1. ASSUME WorkInv PROVE TestPasses
  <2> SUFFICES ASSUME program = "test", AllDone, NEW v \in Value
               PROVE  Cardinality(Taken(v)) = 1
    BY DEF TestPasses
  <2>0. ListedInv /\ TakenInv /\ IInv
    BY <1>1 DEF WorkInv
  <2>1. PICK u \in Thread, k \in 1..n_elements : v = Number(u, k)
    BY Shares DEF Number
  <2>2. PICK n \in Node : pos[n] > 1 /\ value[n] = v
    <3>1. <<u, k>> \in Enqueued
      BY <1>1, Joined
    <3> QED BY <2>0, <2>1, <3>1 DEF ListedInv
  <2>3. pos[n] <= pos[head.ptr]
    BY <1>1, <2>0, Joined, ListFacts
  <2>4. PICK t \in Thread : \E i \in 1..Len(Got[t]) : Got[t][i] = v
    BY <2>0, <2>2, <2>3 DEF TakenInv
  <2>5. PICK i \in 1..Len(Got[t]) : Got[t][i] = v
    BY <2>4
  <2>6. /\ <<t, i>> \in Thread \X (1..n_elements) /\ output[t][i] = v
        /\ <<t, i>>[1] = t /\ <<t, i>>[2] = i
    BY <1>1, <2>5, Joined
  <2>7. ASSUME NEW e \in Thread \X (1..n_elements), output[e[1]][e[2]] = v
        PROVE  e = <<t, i>>
    <3>1. PICK w \in Thread, j \in 1..n_elements : e = <<w, j>> /\ e[1] = w /\ e[2] = j
      OBVIOUS
    <3>2. j \in 1..Len(Got[w]) /\ Got[w][j] = v
      BY <1>1, <2>7, <3>1, Joined
    <3>3. \A i1 \in 1..Len(Got[t]) : \A j1 \in 1..Len(Got[w]) :
            Got[t][i1] = Got[w][j1] => t = w /\ i1 = j1
      BY <2>0 DEF TakenInv
    <3>4. t = w /\ i = j
      BY <2>5, <3>2, <3>3
    <3> QED BY <3>1, <3>4
  <2>8. Taken(v) = {<<t, i>>}
    BY <2>6, <2>7 DEF Taken
  <2> QED BY <2>8, FS_Singleton
<1>2. CASE Reuse = FALSE
  BY <1>1, <1>2, WorkInvariance, PTL
<1> QED BY <1>2

\* The test's loop, which looks at val and not at what dequeue returned, ends
\* only on a dequeue that has succeeded.
THEOREM LoopEndsRight == Reuse = FALSE => (WorkSpec => LoopEndsOnSuccess)
<1>1. ASSUME WorkInv, [WorkNext]_workVars, WorkType', Reuse = FALSE
      PROVE  [\A t \in Thread : program = "test" /\ output'[t] # output[t] =>
                                  ret'[t] = "true"]_workVars
  <2> SUFFICES ASSUME WorkNext, NEW t \in Thread, output'[t] # output[t]
               PROVE  ret'[t] = "true"
    BY <1>1
  <2>0. TypeOK /\ output \in [Thread -> Seq(Value)] /\ WorkType /\ ThreadInv(t)
    BY <1>1, Types DEF WorkInv
  <2>1. WorkInQueue(t)
    BY <2>0 DEF WorkNext, WorkEnqueue, WorkDequeue, WorkInQueue, work
  <2>2. IInv'
    <3>1. [Next]_vars
      BY <1>1, <2>0, StepIsNext DEF WorkNext, Next, workVars
    <3> QED BY <1>1, <3>1, IInvInductive, Types
  <2>3. ~EnqueueStep(t)
    <3> SUFFICES ASSUME EnqueueStep(t) PROVE FALSE
      OBVIOUS
    <3>1. pc[t] \in EnqueuePC /\ ret' = ret
      BY DEF EnqueueStep, EnqueueLoadTail, EnqueueLoadNext, EnqueueCheckTail,
             EnqueueLink, EnqueueLinkFails, EnqueueHelpTail, EnqueueSwingTail
    <3> QED BY <2>0, <2>1, <3>1 DEF WorkInQueue, ThreadInv
  <2>4. DequeueReturn(t)
    BY <1>1, <2>1, <2>2, <2>3, DequeueGoesOn DEF WorkInQueue
  <2> QED BY <2>0, <2>4 DEF DequeueReturn, DequeueReturns, TypeOK
<1>2. WorkInv /\ [WorkNext]_workVars => WorkType'
  BY WorkTypeKept DEF WorkInv
<1>3. CASE Reuse = FALSE
  BY <1>1, <1>2, <1>3, WorkInvariance, PTL DEF WorkSpec, LoopEndsOnSuccess
<1> QED BY <1>3

\* Every dequeue the benchmark times takes a node out, and it ends with the
\* queue empty.
THEOREM BenchmarkAlwaysDrains == Reuse = FALSE => (WorkSpec => []BenchmarkDrains)
<1>1. ASSUME WorkInv PROVE BenchmarkDrains
  <2>1. \A t \in Thread : ret[t] # "false"
    BY <1>1 DEF WorkInv, ThreadInv
  <2>2. ASSUME AllDone PROVE next[head.ptr].ptr = Null
    BY <1>1, <2>2, Joined, ListFacts, Types
  <2> QED BY <2>1, <2>2 DEF BenchmarkDrains
<1>2. CASE Reuse = FALSE
  BY <1>1, <1>2, WorkInvariance, PTL
<1> QED BY <1>2
=============================================================================
