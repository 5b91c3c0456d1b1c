--------------------------- MODULE TestTasksProofs ---------------------------
(***************************************************************************)
(* What the test programs assert of the queue, for any number of threads   *)
(* and items: no dequeue finds the queue empty, what was enqueued is       *)
(* dequeued exactly once, and each producer's values come out in order.    *)
(*                                                                         *)
(* The argument is one of counting: a thread dequeues only after all its   *)
(* own enqueues, so as long as one is left to dequeue, more values have    *)
(* been linked than have been taken.                                       *)
(***************************************************************************)
EXTENDS TestTasks, MSQueueNoFreeProofs, FiniteSetTheorems

\* How many values each thread has linked into the list.
Put == [t \in Thread |-> IF pc[t] \in Inserting THEN sent[t] - 1 ELSE sent[t]]

\* What each thread has taken from the list, counting the value of a dequeue
\* that has moved head but not yet returned.
Got == [t \in Thread |->
          IF pc[t] = "d_return" THEN Append(received[t], out[t]) ELSE received[t]]

\* The k-th enqueue, the k-th dequeue of each thread that has taken effect.
Enqueued == {e \in program.threads \X (1..Items) : e[2] <= Put[e[1]]}
Dequeued == {e \in program.threads \X (1..Items) : e[2] <= Len(Got[e[1]])}

\* Where a task is: first it enqueues, then it dequeues.
TaskInv(t) ==
  /\ sent[t] \in 0..Items /\ received[t] \in Seq(Value) /\ Len(Got[t]) <= Items
  /\ pc[t] # "idle" => t \in program.threads /\ ret[t] = "void"
  /\ sent[t] < Items \/ pc[t] \in EnqueuePC =>
       received[t] = <<>> /\ pc[t] \notin DequeuePC
  /\ pc[t] \in EnqueuePC => sent[t] >= 1
  /\ pc[t] \in Inserting => value[node[t]] = <<t, sent[t]>>
  /\ pc[t] \in DequeuePC => Len(received[t]) < Items
  /\ pc[t] = "d_check" => lnext[t] # Null
  /\ ret[t] # "false"

\* The nodes behind the first dummy hold the values enqueued, each producer's
\* in the order it sent them.
ListedInv ==
  /\ \A n \in Node : pos[n] > 1 => value[n] \in Enqueued
  /\ \A e \in Enqueued : \E n \in Node : pos[n] > 1 /\ value[n] = e
  /\ \A m, n \in Node :
       pos[m] > 1 /\ pos[m] < pos[n] /\ value[m][1] = value[n][1] =>
         value[m][2] < value[n][2]

\* The nodes head has passed are those whose values were taken.
TakenInv ==
  /\ \A t \in Thread : \A i \in 1..Len(Got[t]) :
       \E n \in Node : pos[n] > 1 /\ pos[n] <= pos[head] /\ value[n] = Got[t][i]
  /\ \A n \in Node : pos[n] > 1 /\ pos[n] <= pos[head] =>
       \E t \in program.threads : \E i \in 1..Len(Got[t]) : Got[t][i] = value[n]
  /\ \A t \in Thread : \A i, j \in 1..Len(Got[t]) :
       i < j /\ Got[t][i][1] = Got[t][j][1] => Got[t][i][2] < Got[t][j][2]

CountInv ==
  /\ IsFiniteSet(Enqueued) /\ Cardinality(Enqueued) = linked - 1
  /\ IsFiniteSet(Dequeued) /\ Cardinality(Dequeued) = pos[head] - 1

TasksInv == /\ program \in Program
            /\ sent \in [Thread -> Nat] /\ received \in [Thread -> Seq(Value)]
            /\ IInv /\ \A t \in Thread : TaskInv(t)
            /\ ListedInv /\ TakenInv /\ CountInv

USE NodeAssumption, ValueAssumption
    DEF EnqueuePC, DequeuePC, Inserting, Goto, NewNode, CasTail,
        shared, locals, caller, history

-----------------------------------------------------------------------------
(* What was linked and what was taken                                      *)

LEMMA Types ==
  ASSUME TasksInv
  PROVE  /\ Items \in Nat \ {0} /\ program.threads \subseteq Thread
         /\ program.threads \X (1..Items) \subseteq Value
         /\ TypeOK /\ ListInv /\ pos[head] \in 1..linked
         /\ \A t \in Thread : Put[t] \in 0..Items
         /\ \A t \in Thread : Got[t] \in Seq(Value \cup {NoValue})
         /\ \A e \in Enqueued : e = <<e[1], e[2]>> /\ e[1] \in program.threads
                                /\ e[2] \in 1..Items /\ e[2] <= Put[e[1]]
<1>1. /\ Items \in Nat \ {0} /\ program.threads \subseteq Thread
      /\ program.threads \X (1..Items) \subseteq Value
  BY ProgramAssumption DEF TasksInv, Items
<1>2. TypeOK /\ ListInv /\ pos[head] \in 1..linked
  BY DEF TasksInv, IInv, EndsInv, TailBounds, TypeOK
<1>3. ASSUME NEW t \in Thread PROVE Put[t] \in 0..Items
  BY <1>1 DEF TasksInv, TaskInv, Put
<1>4. ASSUME NEW t \in Thread PROVE Got[t] \in Seq(Value \cup {NoValue})
  <2>1. received[t] \in Seq(Value \cup {NoValue}) /\ out[t] \in Value \cup {NoValue}
    BY <1>2 DEF TasksInv, TypeOK
  <2> QED BY <2>1 DEF Got
<1>5. \A e \in Enqueued : e = <<e[1], e[2]>> /\ e[1] \in program.threads
                          /\ e[2] \in 1..Items /\ e[2] <= Put[e[1]]
  BY DEF Enqueued
<1> QED BY <1>1, <1>2, <1>3, <1>4, <1>5

\* A step that neither links nor takes anything.
Quiet(t) ==
  /\ Put'[t] = Put[t] /\ Got'[t] = Got[t] /\ UNCHANGED <<head, pos, linked>>
  /\ \A n \in Node : pos[n] > 0 => value'[n] = value[n]

\* A step of t leaves the other threads' variables alone.
Frame(t) ==
  /\ program' = program
  /\ sent' \in [Thread -> Nat] /\ received' \in [Thread -> Seq(Value)]
  /\ \A u \in Thread \ {t} :
       /\ pc'[u] = pc[u] /\ sent'[u] = sent[u] /\ received'[u] = received[u]
       /\ out'[u] = out[u] /\ ret'[u] = ret[u] /\ lnext'[u] = lnext[u]
       /\ node'[u] = node[u] /\ (pc[u] \in Inserting => value'[node[u]] = value[node[u]])

LEMMA PutFrame ==
  ASSUME NEW t \in Thread, Frame(t)
  PROVE  Put' = [Put EXCEPT ![t] = Put'[t]] /\ Got' = [Got EXCEPT ![t] = Got'[t]]
<1>1. \A u \in Thread \ {t} : Put'[u] = Put[u] /\ Got'[u] = Got[u]
  BY DEF Frame, Put, Got
<1>2. /\ DOMAIN Put = Thread /\ DOMAIN Put' = Thread
      /\ DOMAIN Got = Thread /\ DOMAIN Got' = Thread
  BY DEF Put, Got
<1>3. /\ Put = [u \in Thread |-> Put[u]] /\ Put' = [u \in Thread |-> Put'[u]]
      /\ Got = [u \in Thread |-> Got[u]] /\ Got' = [u \in Thread |-> Got'[u]]
  BY DEF Put, Got
<1> QED BY <1>1, <1>3

LEMMA QuietKeepsContent ==
  ASSUME TasksInv, NEW t \in Thread, Frame(t), Quiet(t)
  PROVE  ListedInv' /\ TakenInv' /\ CountInv'
<1>0. ListedInv /\ TakenInv /\ CountInv /\ TypeOK
  BY Types DEF TasksInv
<1>1. Put' = Put /\ Got' = Got /\ program' = program /\ UNCHANGED <<head, pos, linked>>
  <2>1. Put = [u \in Thread |-> Put[u]] /\ Got = [u \in Thread |-> Got[u]]
    BY DEF Put, Got
  <2>2. Put' = [Put EXCEPT ![t] = Put[t]] /\ Got' = [Got EXCEPT ![t] = Got[t]]
    BY PutFrame DEF Quiet
  <2>3. program' = program /\ UNCHANGED <<head, pos, linked>>
    BY DEF Quiet, Frame
  <2> QED BY <2>1, <2>2, <2>3
<1>2. Enqueued' = Enqueued /\ Dequeued' = Dequeued
  BY <1>1 DEF Enqueued, Dequeued, Items
<1>3. \A n \in Node : pos[n] > 1 => value'[n] = value[n]
  BY <1>0 DEF Quiet, TypeOK
<1>4. ListedInv'
  BY <1>0, <1>1, <1>2, <1>3 DEF ListedInv, TypeOK
<1>5. TakenInv'
  BY <1>0, <1>1, <1>3 DEF TakenInv
<1>6. CountInv'
  BY <1>0, <1>1, <1>2 DEF CountInv
<1> QED BY <1>4, <1>5, <1>6

LEMMA LinkKeepsContent ==
  ASSUME TasksInv, NEW t \in Thread, Frame(t), EnqueueLink(t),
         sent' = sent, Got'[t] = Got[t]
  PROVE  ListedInv' /\ TakenInv' /\ CountInv'
<1>0. /\ ListedInv /\ TakenInv /\ CountInv /\ TypeOK /\ ListInv
      /\ pos[head] \in 1..linked /\ linked \in Nat
  BY Types DEF TasksInv, TypeOK
<1>1. PICK n \in Node, k \in 1..Items :
        /\ n = node[t] /\ k = sent[t] /\ pos[n] = 0 /\ value[n] = <<t, k>>
        /\ t \in program.threads /\ Put[t] = k - 1
  <2>1. pc[t] = "e_link" /\ EnqueueInv(t) /\ TaskInv(t)
    BY DEF EnqueueLink, TasksInv, IInv
  <2>2. node[t] \in Node /\ pos[node[t]] = 0
    BY <1>0, <2>1 DEF EnqueueInv, TypeOK
  <2>3. sent[t] \in 1..Items
    BY <2>1, Types DEF TaskInv
  <2> QED BY <2>1, <2>2, <2>3 DEF TaskInv, Put
<1>2. /\ pos' = [pos EXCEPT ![n] = linked + 1] /\ linked' = linked + 1
      /\ UNCHANGED <<head, value>>
  BY <1>1 DEF EnqueueLink
<1>3. Put' = [Put EXCEPT ![t] = k] /\ Got' = Got /\ program' = program
  <2>1. Put'[t] = k
    BY <1>0, <1>1 DEF EnqueueLink, Put, TypeOK
  <2>2. Got = [u \in Thread |-> Got[u]]
    BY DEF Got
  <2>3. Put' = [Put EXCEPT ![t] = k] /\ Got' = [Got EXCEPT ![t] = Got[t]]
    BY <2>1, PutFrame
  <2>4. program' = program
    BY DEF Frame
  <2> QED BY <2>2, <2>3, <2>4
<1>4. /\ pos'[n] = linked + 1 /\ pos' \in [Node -> Nat]
      /\ \A x \in Node \ {n} : pos'[x] = pos[x] /\ pos[x] <= linked
  BY <1>0, <1>2 DEF TypeOK, ListInv
<1>5. Enqueued' = Enqueued \cup {<<t, k>>} /\ <<t, k>> \notin Enqueued
  <2>1. DOMAIN Put = Thread /\ \A u \in program.threads : u \in Thread
    BY Types DEF Put
  <2>2. \A e \in program.threads \X (1..Items) : e[1] # t => Put'[e[1]] = Put[e[1]]
    BY <1>3, <2>1
  <2>3. Put'[t] = k
    BY <1>3, <2>1
  <2>4. ASSUME NEW e \in program.threads \X (1..Items)
        PROVE  e[2] <= Put'[e[1]] <=> e[2] <= Put[e[1]] \/ e = <<t, k>>
    <3>1. e = <<e[1], e[2]>> /\ e[2] \in Nat /\ k \in Nat
      BY Types
    <3>2. CASE e[1] = t
      <4>1. Put'[e[1]] = k /\ Put[e[1]] = k - 1
        BY <1>1, <2>3, <3>2
      <4>2. e = <<t, k>> <=> e[2] = k
        BY <3>1, <3>2
      <4> QED BY <3>1, <4>1, <4>2
    <3>3. CASE e[1] # t
      <4>1. e # <<t, k>>
        BY <3>3
      <4> QED BY <2>2, <3>3, <4>1
    <3> QED BY <3>2, <3>3
  <2>5. <<t, k>> \in program.threads \X (1..Items) /\ ~(k <= Put[t])
    BY <1>1
  <2> QED BY <1>3, <2>4, <2>5 DEF Enqueued, Items
<1>6. ListedInv'
  <2>1. \A x \in Node : pos'[x] > 1 => value[x] \in Enqueued'
    BY <1>0, <1>1, <1>4, <1>5 DEF ListedInv
  <2>2. ASSUME NEW e \in Enqueued' PROVE \E x \in Node : pos'[x] > 1 /\ value[x] = e
    <3>1. CASE e = <<t, k>>
      BY <1>0, <1>1, <1>4, <3>1
    <3>2. CASE e \in Enqueued
      <4>1. PICK x \in Node : pos[x] > 1 /\ value[x] = e
        BY <1>0, <3>2 DEF ListedInv
      <4> QED BY <1>1, <1>4, <4>1
    <3> QED BY <1>5, <3>1, <3>2
  <2>3. ASSUME NEW m \in Node, NEW x \in Node, pos'[m] > 1, pos'[m] < pos'[x],
               value[m][1] = value[x][1]
        PROVE  value[m][2] < value[x][2]
    <3>1. m # n /\ pos[m] > 1 /\ pos'[m] = pos[m]
      BY <1>0, <1>4, <2>3
    <3>2. CASE x = n
      <4>1. value[m] \in Enqueued /\ value[m][1] = t /\ value[x][2] = k
        BY <1>0, <1>1, <2>3, <3>1, <3>2 DEF ListedInv
      <4>2. value[m][2] \in Nat /\ value[m][2] <= Put[t]
        BY <4>1, Types
      <4> QED BY <1>1, <4>1, <4>2
    <3>3. CASE x # n
      BY <1>0, <1>4, <2>3, <3>1, <3>3 DEF ListedInv
    <3> QED BY <3>2, <3>3
  <2> QED BY <1>2, <2>1, <2>2, <2>3 DEF ListedInv
<1>7. TakenInv'
  <2>1. head # n /\ pos'[head] = pos[head]
    BY <1>0, <1>1, <1>4 DEF TypeOK
  <2>2. \A x \in Node : pos'[x] > 1 /\ pos'[x] <= pos[head] <=>
                          pos[x] > 1 /\ pos[x] <= pos[head]
    BY <1>0, <1>1, <1>4
  <2> QED BY <1>0, <1>2, <1>3, <2>1, <2>2 DEF TakenInv
<1>8. CountInv'
  <2>1. IsFiniteSet(Enqueued') /\ Cardinality(Enqueued') = Cardinality(Enqueued) + 1
    BY <1>0, <1>5, FS_AddElement DEF CountInv
  <2>2. Dequeued' = Dequeued
    BY <1>3 DEF Dequeued, Items
  <2>3. pos'[head] = pos[head]
    BY <1>0, <1>1, <1>4 DEF TypeOK
  <2> QED BY <1>0, <1>2, <2>1, <2>2, <2>3 DEF CountInv
<1> QED BY <1>6, <1>7, <1>8

LEMMA SwingKeepsContent ==
  ASSUME TasksInv, NEW t \in Thread, Frame(t), DequeueSwingHead(t),
         sent' = sent, received' = received
  PROVE  ListedInv' /\ TakenInv' /\ CountInv'
<1>0. /\ ListedInv /\ TakenInv /\ CountInv /\ TypeOK /\ ListInv
      /\ pos[head] \in 1..linked /\ linked \in Nat
  BY Types DEF TasksInv, TypeOK
<1>1. PICK n \in Node, len \in Nat :
        /\ n = lnext[t] /\ len = Len(Got[t]) /\ len < Items
        /\ pos[n] = pos[head] + 1 /\ out[t] = value[n] /\ t \in program.threads
        /\ Got[t] = received[t]
  <2>1. /\ pc[t] = "d_swing" /\ head = cur_head[t] /\ DequeueInv(t) /\ TaskInv(t)
    BY DEF DequeueSwingHead, TasksInv, IInv
  <2>2. lnext[t] # Null /\ lnext[t] = next[head] /\ out[t] = value[lnext[t]]
    BY <2>1 DEF DequeueInv
  <2>3. lnext[t] \in Node /\ pos[lnext[t]] = pos[head] + 1
    BY <1>0, <2>2 DEF ListInv, TypeOK
  <2>4. Got[t] = received[t] /\ Len(received[t]) \in Nat /\ Len(received[t]) < Items
    BY <2>1 DEF TaskInv, Got
  <2> QED BY <2>1, <2>2, <2>3, <2>4 DEF TaskInv
<1>2. head' = n /\ UNCHANGED <<pos, linked, value>> /\ program' = program
  BY <1>1 DEF DequeueSwingHead, Frame
<1>3. Put' = Put /\ Got' = [Got EXCEPT ![t] = Append(Got[t], value[n])]
  <2>1. Put'[t] = Put[t] /\ Got'[t] = Append(Got[t], value[n])
    BY <1>0, <1>1 DEF DequeueSwingHead, Put, Got, TypeOK
  <2>2. Put = [u \in Thread |-> Put[u]]
    BY DEF Put
  <2>3. Put' = [Put EXCEPT ![t] = Put[t]] /\ Got' = [Got EXCEPT ![t] = Append(Got[t], value[n])]
    BY <2>1, PutFrame
  <2> QED BY <2>2, <2>3
<1>4. /\ Len(Got'[t]) = len + 1 /\ Got'[t][len + 1] = value[n]
      /\ \A i \in 1..len : Got'[t][i] = Got[t][i]
      /\ \A u \in Thread \ {t} : Got'[u] = Got[u]
      /\ \A u \in Thread : Len(Got[u]) \in Nat
  <2>1. Got[t] \in Seq(Value \cup {NoValue}) /\ value[n] \in Value \cup {NoValue}
    BY <1>0, Types DEF TypeOK
  <2>2. DOMAIN Got = Thread
    BY DEF Got
  <2>3. Got'[t] = Append(Got[t], value[n])
    BY <1>3, <2>2
  <2>4. \A u \in Thread : Len(Got[u]) \in Nat
    BY Types
  <2> QED BY <1>1, <1>3, <2>1, <2>2, <2>3, <2>4
<1>5. Enqueued' = Enqueued
  BY <1>2, <1>3 DEF Enqueued, Items
<1>6. Dequeued' = Dequeued \cup {<<t, len + 1>>} /\ <<t, len + 1>> \notin Dequeued
  <2>1. ASSUME NEW e \in program.threads \X (1..Items)
        PROVE  e[2] <= Len(Got'[e[1]]) <=> e[2] <= Len(Got[e[1]]) \/ e = <<t, len + 1>>
    <3>1. e = <<e[1], e[2]>> /\ e[2] \in Nat /\ e[1] \in Thread
      BY Types
    <3>2. CASE e[1] = t
      <4>1. Len(Got'[e[1]]) = len + 1 /\ Len(Got[e[1]]) = len
        BY <1>1, <1>4, <3>2
      <4>2. e = <<t, len + 1>> <=> e[2] = len + 1
        BY <3>1, <3>2
      <4> QED BY <3>1, <4>1, <4>2
    <3>3. CASE e[1] # t
      <4>1. e # <<t, len + 1>>
        BY <3>3
      <4> QED BY <1>4, <3>1, <3>3, <4>1
    <3> QED BY <3>2, <3>3
  <2>2. <<t, len + 1>> \in program.threads \X (1..Items) /\ ~(len + 1 <= Len(Got[t]))
    BY <1>1, Types
  <2> QED BY <1>2, <2>1, <2>2 DEF Dequeued, Items
<1>7. ListedInv'
  BY <1>0, <1>2, <1>5 DEF ListedInv
<1>8. \A i \in 1..(len + 1) : i \in 1..len \/ i = len + 1
  BY <1>1
<1>9. \A u \in Thread : \A i \in 1..Len(Got'[u]) :
        \/ i \in 1..Len(Got[u]) /\ Got'[u][i] = Got[u][i]
        \/ u = t /\ i = len + 1 /\ Got'[u][i] = value[n]
  BY <1>1, <1>4, <1>8
<1>10. TakenInv'
  <2>1. ASSUME NEW u \in Thread, NEW i \in 1..Len(Got'[u])
        PROVE  \E x \in Node : pos[x] > 1 /\ pos[x] <= pos[n] /\ value[x] = Got'[u][i]
    <3>1. CASE i \in 1..Len(Got[u]) /\ Got'[u][i] = Got[u][i]
      <4>1. PICK x \in Node : pos[x] > 1 /\ pos[x] <= pos[head] /\ value[x] = Got[u][i]
        BY <1>0, <3>1 DEF TakenInv
      <4> QED BY <1>0, <1>1, <3>1, <4>1 DEF TypeOK
    <3>2. CASE Got'[u][i] = value[n]
      BY <1>0, <1>1, <3>2 DEF TypeOK
    <3> QED BY <1>9, <3>1, <3>2
  <2>2. ASSUME NEW x \in Node, pos[x] > 1, pos[x] <= pos[n]
        PROVE  \E u \in program.threads : \E i \in 1..Len(Got'[u]) : Got'[u][i] = value[x]
    <3>1. CASE x = n
      BY <1>1, <1>4, <3>1
    <3>2. CASE x # n
      <4>1. pos[x] <= pos[head]
        BY <1>0, <1>1, <2>2, <3>2 DEF TypeOK, ListInv
      <4>2. PICK u \in program.threads : \E i \in 1..Len(Got[u]) : Got[u][i] = value[x]
        BY <1>0, <2>2, <4>1 DEF TakenInv
      <4>3. PICK i \in 1..Len(Got[u]) : Got[u][i] = value[x]
        BY <4>2
      <4>4. i \in 1..Len(Got'[u]) /\ Got'[u][i] = Got[u][i]
        <5>1. CASE u = t
          <6>1. Len(Got[u]) = len /\ Len(Got'[u]) = len + 1
            BY <1>1, <1>4, <5>1
          <6>2. i \in 1..len
            BY <6>1
          <6>3. Got'[u][i] = Got[u][i]
            BY <1>4, <5>1, <6>2
          <6> QED BY <6>1, <6>2, <6>3
        <5>2. CASE u # t
          BY <1>4, <5>2, Types
        <5> QED BY <5>1, <5>2
      <4> QED BY <4>3, <4>4
    <3> QED BY <3>1, <3>2
  <2>3. ASSUME NEW u \in Thread, NEW i \in 1..Len(Got'[u]), NEW j \in 1..Len(Got'[u]),
               i < j, Got'[u][i][1] = Got'[u][j][1]
        PROVE  Got'[u][i][2] < Got'[u][j][2]
    <3>1. CASE j \in 1..Len(Got[u]) /\ Got'[u][j] = Got[u][j]
      <4>1. i \in 1..Len(Got[u])
        BY <1>4, <2>3, <3>1
      <4>2. Got'[u][i] = Got[u][i]
        BY <1>1, <1>4, <4>1
      <4> QED BY <1>0, <2>3, <3>1, <4>1, <4>2 DEF TakenInv
    <3>2. CASE u = t /\ j = len + 1 /\ Got'[u][j] = value[n]
      <4>1. i \in 1..len /\ Got'[u][i] = Got[t][i]
        BY <1>1, <1>4, <2>3, <3>2
      <4>2. PICK x \in Node : pos[x] > 1 /\ pos[x] <= pos[head] /\ value[x] = Got[t][i]
        BY <1>0, <1>1, <4>1 DEF TakenInv
      <4>3. pos[x] < pos[n]
        BY <1>0, <1>1, <4>2 DEF TypeOK
      <4>4. value[x][1] = value[n][1]
        BY <2>3, <3>2, <4>1, <4>2
      <4>5. value[x][2] < value[n][2]
        BY <1>0, <4>2, <4>3, <4>4 DEF ListedInv
      <4> QED BY <3>2, <4>1, <4>2, <4>5
    <3> QED BY <1>9, <3>1, <3>2
  <2> QED BY <1>2, <2>1, <2>2, <2>3 DEF TakenInv
<1>11. CountInv'
  <2>1. IsFiniteSet(Dequeued') /\ Cardinality(Dequeued') = Cardinality(Dequeued) + 1
    BY <1>0, <1>6, FS_AddElement DEF CountInv
  <2> QED BY <1>0, <1>1, <1>2, <1>5, <2>1 DEF CountInv
<1> QED BY <1>7, <1>10, <1>11

\* While a task has values left to dequeue, its dequeue finds a successor.
LEMMA NeverEmpty ==
  ASSUME TasksInv, NEW t \in Thread, pc[t] = "d_next"
  PROVE  next[cur_head[t]] # Null
<1>0. /\ CountInv /\ TypeOK /\ ListInv /\ pos[head] \in 1..linked
      /\ TaskInv(t) /\ DequeueInv(t)
  BY Types DEF TasksInv, IInv
<1> SUFFICES ASSUME next[cur_head[t]] = Null PROVE FALSE
  OBVIOUS
<1>1. pos[head] = linked
  <2>1. /\ cur_head[t] \in Node /\ 1 <= pos[cur_head[t]]
        /\ pos[cur_head[t]] <= pos[head]
    BY <1>0 DEF DequeueInv
  <2> QED BY <1>0, <2>1 DEF ListInv, TypeOK
<1>2. Dequeued \subseteq Enqueued
  <2> SUFFICES ASSUME NEW e \in program.threads \X (1..Items), e[2] <= Len(Got[e[1]])
               PROVE  e[2] <= Put[e[1]]
    BY DEF Dequeued, Enqueued
  <2>1. PICK u \in Thread : u = e[1] /\ u \in program.threads
    BY Types
  <2>2. e[2] \in 1..Items /\ Len(Got[u]) \in Nat /\ Len(Got[u]) <= Items
    <3>1. Got[u] \in Seq(Value \cup {NoValue})
      BY Types
    <3>2. Len(Got[u]) \in Nat
      BY <3>1
    <3> QED BY <3>2 DEF TasksInv, TaskInv
  <2>3. TaskInv(u) /\ Len(Got[u]) >= 1 /\ Items \in Nat
    BY <2>1, <2>2, Types DEF TasksInv
  <2>4. sent[u] = Items /\ pc[u] \notin EnqueuePC
    <3>1. sent[u] \in 0..Items /\ Got[u] # <<>>
      BY <2>3 DEF TaskInv
    <3> QED BY <2>3, <3>1 DEF TaskInv, Got
  <2>5. Put[u] = Items
    BY <2>4 DEF Put
  <2> QED BY <2>1, <2>2, <2>5
<1>3. Dequeued = Enqueued
  BY <1>0, <1>1, <1>2, FS_Subset DEF CountInv
<1>4. <<t, Items>> \in Enqueued /\ <<t, Items>> \notin Dequeued
  <2>1. t \in program.threads /\ sent[t] = Items /\ Len(received[t]) < Items
    <3>1. sent[t] \in 0..Items
      BY <1>0 DEF TaskInv
    <3> QED BY <1>0, <3>1, Types DEF TaskInv
  <2>2. Put[t] = Items /\ Len(Got[t]) < Items /\ Len(Got[t]) \in Nat
    BY <1>0, <2>1 DEF Put, Got, TaskInv
  <2> QED BY <2>1, <2>2, Types DEF Enqueued, Dequeued
<1> QED BY <1>3, <1>4

-----------------------------------------------------------------------------
(* The steps of a task                                                     *)

LEMMA TaskAssemble ==
  ASSUME TasksInv, NEW t \in program.threads, Frame(t), IInv', TaskInv(t)',
         ListedInv' /\ TakenInv' /\ CountInv'
  PROVE  TasksInv'
<1>1. t \in Thread
  BY Types
<1>2. ASSUME NEW u \in Thread \ {t} PROVE TaskInv(u)'
  <2>1. TaskInv(u)
    BY DEF TasksInv
  <2>2. /\ pc'[u] = pc[u] /\ sent'[u] = sent[u] /\ received'[u] = received[u]
        /\ ret'[u] = ret[u] /\ lnext'[u] = lnext[u] /\ node'[u] = node[u]
        /\ (pc[u] \in Inserting => value'[node[u]] = value[node[u]])
        /\ Got'[u] = Got[u] /\ program' = program
    BY DEF Frame, Got
  <2> QED BY <2>1, <2>2 DEF TaskInv, Items
<1>3. \A u \in Thread : TaskInv(u)'
  BY <1>1, <1>2
<1> QED BY <1>3 DEF TasksInv, Frame

LEMMA EnqueueBegins ==
  ASSUME TasksInv, NEW t \in program.threads, TaskEnqueue(t)
  PROVE  TasksInv'
<1>0. t \in Thread /\ TypeOK /\ ListInv /\ TaskInv(t) /\ IInv /\ Items \in Nat
      /\ sent \in [Thread -> Nat] /\ received \in [Thread -> Seq(Value)]
  BY Types DEF TasksInv
<1>1. PICK k \in 1..Items : k = sent[t] + 1 /\ <<t, k>> \in Value
  <2>1. sent[t] + 1 \in 1..Items
    BY <1>0 DEF TaskEnqueue, TaskInv
  <2> QED BY <2>1, Types
<1>2. PICK n \in Node \ heap :
        /\ value' = [value EXCEPT ![n] = <<t, k>>] /\ node' = [node EXCEPT ![t] = n]
        /\ pc[t] = "idle" /\ pc' = [pc EXCEPT ![t] = "e_tail"]
        /\ ret' = [ret EXCEPT ![t] = "void"] /\ sent' = [sent EXCEPT ![t] = k]
        /\ UNCHANGED <<head, pos, linked, lnext, out, program, received>>
  BY <1>1 DEF TaskEnqueue, EnqueueCall
<1>3. IInv'
  BY <1>0, <1>1, CallKeepsIInv DEF TaskEnqueue, Call
<1>4. /\ pc'[t] = "e_tail" /\ ret'[t] = "void" /\ sent'[t] = k /\ node'[t] = n
      /\ value'[n] = <<t, k>> /\ \A x \in Node \ {n} : value'[x] = value[x]
  BY <1>0, <1>2 DEF TypeOK
<1>5. Frame(t)
  <2>1. \A u \in Thread : pc[u] \in Inserting => node[u] \in heap /\ node[u] \in Node
    BY <1>0 DEF IInv, EnqueueInv, TypeOK
  <2>2. \A u \in Thread : pc[u] \in Inserting => value'[node[u]] = value[node[u]]
    BY <1>2, <1>4, <2>1
  <2>3. sent' \in [Thread -> Nat]
    BY <1>0, <1>2
  <2> QED BY <1>0, <1>2, <2>2, <2>3 DEF Frame, TypeOK
<1>6. Quiet(t)
  <2>1. Put'[t] = Put[t] /\ Got'[t] = Got[t]
    BY <1>0, <1>1, <1>2, <1>4 DEF Put, Got
  <2>2. \A x \in Node : pos[x] > 0 => value'[x] = value[x]
    BY <1>0, <1>2, <1>4 DEF ListInv
  <2> QED BY <1>2, <2>1, <2>2 DEF Quiet
<1>7. ListedInv' /\ TakenInv' /\ CountInv'
  BY <1>0, <1>5, <1>6, QuietKeepsContent
<1>8. TaskInv(t)'
  <2>1. received[t] = <<>>
    BY <1>0 DEF TaskEnqueue, TaskInv
  <2>2. Got'[t] = <<>> /\ Len(<<>>) = 0 /\ received'[t] = <<>> /\ program' = program
    BY <1>0, <1>2, <1>4, <2>1 DEF Got
  <2> QED BY <1>0, <1>4, <2>2 DEF TaskInv, Items
<1> QED BY <1>3, <1>5, <1>7, <1>8, TaskAssemble

LEMMA DequeueBegins ==
  ASSUME TasksInv, NEW t \in program.threads, TaskDequeue(t)
  PROVE  TasksInv'
<1>0. t \in Thread /\ TypeOK /\ TaskInv(t) /\ IInv
      /\ sent \in [Thread -> Nat] /\ received \in [Thread -> Seq(Value)]
  BY Types DEF TasksInv
<1>1. /\ pc[t] = "idle" /\ pc' = [pc EXCEPT ![t] = "d_head"]
      /\ ret' = [ret EXCEPT ![t] = "void"] /\ out' = [out EXCEPT ![t] = NoValue]
      /\ sent[t] = Items /\ Len(received[t]) < Items
      /\ UNCHANGED <<shared, locals, history, tasks>>
  BY DEF TaskDequeue, DequeueCall
<1>2. IInv'
  BY <1>0, CallKeepsIInv DEF TaskDequeue, Call
<1>3. pc'[t] = "d_head" /\ ret'[t] = "void"
  BY <1>0, <1>1 DEF TypeOK
<1>4. Frame(t)
  BY <1>0, <1>1 DEF Frame, TypeOK, tasks
<1>5. Quiet(t) /\ Got'[t] = received[t]
  BY <1>0, <1>1, <1>3 DEF Quiet, Put, Got, tasks
<1>6. ListedInv' /\ TakenInv' /\ CountInv'
  BY <1>0, <1>4, <1>5, QuietKeepsContent
<1>7. TaskInv(t)'
  BY <1>0, <1>1, <1>3, <1>5 DEF TaskInv, Items, tasks
<1> QED BY <1>2, <1>4, <1>6, <1>7, TaskAssemble

LEMMA EnqueueGoesOn ==
  ASSUME TasksInv, NEW t \in program.threads, TaskInQueue(t), EnqueueStep(t)
  PROVE  TasksInv'
<1>0. t \in Thread /\ TypeOK /\ TaskInv(t) /\ IInv
      /\ sent \in [Thread -> Nat] /\ received \in [Thread -> Seq(Value)]
  BY Types DEF TasksInv
<1>1. IInv'
  BY <1>0, EnqueueStepKeepsIInv
<1>2. /\ pc[t] \in EnqueuePC /\ pc'[t] \in EnqueuePC \cup {"idle"}
      /\ UNCHANGED <<head, value, out, ret>>
      /\ pc'[t] \in Inserting => pc[t] \in Inserting /\ node'[t] = node[t]
      /\ pc[t] \in Inserting => pc'[t] \in Inserting \/ EnqueueLink(t)
      /\ \A u \in Thread \ {t} :
           pc'[u] = pc[u] /\ lnext'[u] = lnext[u] /\ node'[u] = node[u]
  BY <1>0
     DEF TypeOK, EnqueueStep, EnqueueLoadTail, EnqueueLoadNext, EnqueueCheckTail,
         EnqueueLink, EnqueueLinkFails, EnqueueHelpTail, EnqueueSwingTail
<1>3. sent' = sent /\ received' = received /\ program' = program
  BY <1>0, <1>2 DEF TaskInQueue, TaskInv
<1>4. Frame(t)
  BY <1>0, <1>2, <1>3 DEF Frame
<1>5. Got'[t] = Got[t]
  BY <1>0, <1>2, <1>3 DEF Got
<1>6. ListedInv' /\ TakenInv' /\ CountInv'
  <2>1. CASE EnqueueLink(t)
    BY <1>0, <1>3, <1>4, <1>5, <2>1, LinkKeepsContent
  <2>2. CASE ~EnqueueLink(t)
    <3>1. Put'[t] = Put[t]
      BY <1>0, <1>2, <1>3, <2>2 DEF Put
    <3>2. UNCHANGED <<pos, linked>>
      BY <2>2
         DEF EnqueueStep, EnqueueLoadTail, EnqueueLoadNext, EnqueueCheckTail,
             EnqueueLinkFails, EnqueueHelpTail, EnqueueSwingTail
    <3>3. Quiet(t)
      BY <1>2, <1>5, <3>1, <3>2 DEF Quiet
    <3> QED BY <1>0, <1>4, <3>3, QuietKeepsContent
  <2> QED BY <2>1, <2>2
<1>7. TaskInv(t)'
  BY <1>0, <1>2, <1>3, <1>5 DEF TaskInv, Items
<1> QED BY <1>1, <1>4, <1>6, <1>7, TaskAssemble

LEMMA DequeueGoesOn ==
  ASSUME TasksInv, NEW t \in program.threads, TaskInQueue(t), DequeueStep(t),
         ~DequeueReturn(t)
  PROVE  TasksInv'
<1>0. t \in Thread /\ TypeOK /\ TaskInv(t) /\ IInv
      /\ sent \in [Thread -> Nat] /\ received \in [Thread -> Seq(Value)]
  BY Types DEF TasksInv
<1>1. IInv'
  BY <1>0, DequeueStepKeepsIInv
<1>2. ~DequeueEmpty(t)
  BY <1>0 DEF TaskInv, DequeueEmpty
<1>3. /\ pc[t] \in DequeuePC \ {"d_return"} /\ pc'[t] \in DequeuePC
      /\ pc'[t] = "d_return" => DequeueSwingHead(t)
      /\ pc'[t] = "d_check" => pc[t] = "d_next" /\ lnext'[t] = next[cur_head[t]]
      /\ UNCHANGED <<value, ret, pos, linked>>
      /\ ~DequeueSwingHead(t) => head' = head
      /\ \A u \in Thread \ {t} : /\ pc'[u] = pc[u] /\ lnext'[u] = lnext[u]
                                 /\ node'[u] = node[u] /\ out'[u] = out[u]
  BY <1>0, <1>2
     DEF TypeOK, DequeueStep, DequeueLoadHead, DequeueLoadTail, DequeueLoadNext,
         DequeueCheckHead, DequeueHelpTail, DequeueReadValue, DequeueSwingHead,
         DequeueSwingFails
<1>4. sent' = sent /\ received' = received /\ program' = program
  BY <1>0, <1>3 DEF TaskInQueue, TaskInv
<1>5. Frame(t)
  BY <1>0, <1>3, <1>4 DEF Frame
<1>6. ListedInv' /\ TakenInv' /\ CountInv'
  <2>1. CASE DequeueSwingHead(t)
    BY <1>0, <1>4, <1>5, <2>1, SwingKeepsContent
  <2>2. CASE ~DequeueSwingHead(t)
    <3>1. Put'[t] = Put[t] /\ Got'[t] = Got[t]
      BY <1>0, <1>3, <1>4, <2>2 DEF Put, Got
    <3>2. Quiet(t)
      BY <1>3, <2>2, <3>1 DEF Quiet
    <3> QED BY <1>0, <1>5, <3>2, QuietKeepsContent
  <2> QED BY <2>1, <2>2
<1>7. pc'[t] = "d_check" => lnext'[t] # Null
  BY <1>0, <1>3, NeverEmpty
<1>8. Len(Got'[t]) <= Items /\ Len(received[t]) < Items
  <2>1. Len(received[t]) < Items /\ Len(received[t]) \in Nat /\ Items \in Nat
    BY <1>0, <1>3, Types DEF TaskInv
  <2>2. \A v : Len(Append(received[t], v)) = Len(received[t]) + 1
    BY <1>0
  <2>3. Got'[t] = received[t] \/ Got'[t] = Append(received[t], out'[t])
    BY <1>0, <1>4 DEF Got
  <2> QED BY <2>1, <2>2, <2>3
<1>9. TaskInv(t)'
  BY <1>0, <1>3, <1>4, <1>7, <1>8 DEF TaskInv, Items
<1> QED BY <1>1, <1>5, <1>6, <1>9, TaskAssemble

LEMMA DequeueEnds ==
  ASSUME TasksInv, NEW t \in program.threads, TaskInQueue(t), DequeueReturn(t)
  PROVE  TasksInv'
<1>0. t \in Thread /\ TypeOK /\ TaskInv(t) /\ IInv /\ TakenInv /\ ListInv
      /\ sent \in [Thread -> Nat] /\ received \in [Thread -> Seq(Value)]
  BY Types DEF TasksInv
<1>1. IInv'
  BY <1>0, DequeueStepKeepsIInv DEF DequeueStep
<1>2. /\ pc[t] = "d_return" /\ pc'[t] = "idle" /\ ret'[t] = "true"
      /\ UNCHANGED <<shared, node, out, history>>
      /\ \A u \in Thread \ {t} :
           pc'[u] = pc[u] /\ lnext'[u] = lnext[u] /\ ret'[u] = ret[u]
  BY <1>0 DEF TypeOK, DequeueReturn, DequeueReturns
<1>3. /\ received' = [received EXCEPT ![t] = Append(received[t], out[t])]
      /\ sent' = sent /\ program' = program
  BY <1>2 DEF TaskInQueue
<1>4. Got[t] = Append(received[t], out[t])
  BY <1>0, <1>2 DEF Got
<1>5. out[t] \in Value
  <2>1. /\ Len(Got[t]) \in 1..Len(Got[t]) /\ Got[t][Len(Got[t])] = out[t]
    BY <1>0, <1>4
  <2>2. PICK n \in Node : pos[n] > 1 /\ value[n] = out[t]
    BY <1>0, <2>1 DEF TakenInv
  <2> QED BY <1>0, <2>2 DEF ListInv
<1>6. received' \in [Thread -> Seq(Value)] /\ received'[t] = Got[t]
  BY <1>0, <1>3, <1>4, <1>5
<1>7. Frame(t)
  BY <1>0, <1>2, <1>3, <1>6 DEF Frame
<1>8. Got'[t] = Got[t]
  BY <1>0, <1>2, <1>6 DEF Got
<1>9. Quiet(t)
  BY <1>0, <1>2, <1>3, <1>8 DEF Quiet, Put
<1>10. ListedInv' /\ TakenInv' /\ CountInv'
  BY <1>0, <1>7, <1>9, QuietKeepsContent
<1>11. TaskInv(t)'
  <2>1. ~(sent[t] < Items)
    BY <1>0, <1>2 DEF TaskInv
  <2> QED BY <1>0, <1>2, <1>3, <1>6, <1>8, <2>1 DEF TaskInv, Items
<1> QED BY <1>1, <1>7, <1>10, <1>11, TaskAssemble

LEMMA TaskNextKeepsInv == TasksInv /\ [TaskNext]_taskVars => TasksInv'
<1> SUFFICES ASSUME TasksInv, [TaskNext]_taskVars PROVE TasksInv'
  OBVIOUS
<1>1. ASSUME NEW t \in program.threads, TaskStep(t) PROVE TasksInv'
  <2>1. CASE TaskInQueue(t)
    <3>1. EnqueueStep(t) \/ DequeueStep(t)
      BY <2>1 DEF TaskInQueue
    <3> QED BY <2>1, <3>1, EnqueueGoesOn, DequeueGoesOn, DequeueEnds
  <2> QED BY <1>1, <2>1, EnqueueBegins, DequeueBegins DEF TaskStep
<1>2. CASE UNCHANGED taskVars
  <2>1. UNCHANGED vars /\ UNCHANGED <<program, sent, received>>
    BY <1>2 DEF taskVars, tasks
  <2>2. IInv'
    BY <2>1, IInvInductive DEF TasksInv
  <2>3. UNCHANGED <<head, value, pc, node, lnext, out, ret, pos, linked>>
    BY <2>1 DEF vars
  <2>4. Put' = Put /\ Got' = Got
    BY <2>1, <2>3 DEF Put, Got
  <2>5. Enqueued' = Enqueued /\ Dequeued' = Dequeued
    BY <2>1, <2>4 DEF Enqueued, Dequeued, Items
  <2>6. \A t \in Thread : TaskInv(t)'
    BY <2>1, <2>3, <2>4 DEF TasksInv, TaskInv, Items
  <2>7. ListedInv' /\ TakenInv' /\ CountInv'
    <3>1. ListedInv'
      BY <2>3, <2>5 DEF TasksInv, ListedInv
    <3>2. TakenInv'
      BY <2>1, <2>3, <2>4 DEF TasksInv, TakenInv
    <3>3. CountInv'
      BY <2>3, <2>5 DEF TasksInv, CountInv
    <3> QED BY <3>1, <3>2, <3>3
  <2> QED BY <2>1, <2>2, <2>6, <2>7 DEF TasksInv
<1> QED BY <1>1, <1>2 DEF TaskNext

LEMMA InitTasksInv == TaskInit => TasksInv
<1> SUFFICES ASSUME TaskInit PROVE TasksInv
  OBVIOUS
<1>1. /\ Items \in Nat \ {0} /\ program \in Program
      /\ sent = [t \in Thread |-> 0] /\ received = [t \in Thread |-> <<>>]
      /\ \A t \in Thread : pc[t] = "idle" /\ ret[t] = "void"
      /\ head = Fake /\ pos[Fake] = 1 /\ linked = 1
      /\ \A n \in Node : pos[n] \in {0, 1}
  BY ProgramAssumption DEF TaskInit, Init, Items
<1>2. \A t \in Thread : Put[t] = 0 /\ Got[t] = <<>> /\ Len(Got[t]) = 0
  BY <1>1 DEF Put, Got
<1>3. IInv
  BY InitIInv DEF TaskInit
<1>4. Enqueued = {} /\ Dequeued = {}
  <2>1. \A e \in program.threads \X (1..Items) :
          e[1] \in Thread /\ e[2] \in 1..Items
    BY <1>1, ProgramAssumption
  <2>2. \A e \in program.threads \X (1..Items) :
          ~(e[2] <= Put[e[1]]) /\ ~(e[2] <= Len(Got[e[1]]))
    BY <1>1, <1>2, <2>1
  <2> QED BY <2>2 DEF Enqueued, Dequeued
<1>5. CountInv
  BY <1>1, <1>4, FS_EmptySet DEF CountInv
<1>6. ListedInv /\ TakenInv
  BY <1>1, <1>2, <1>4 DEF ListedInv, TakenInv
<1>7. \A t \in Thread : TaskInv(t)
  <2> SUFFICES ASSUME NEW t \in Thread PROVE TaskInv(t)
    OBVIOUS
  <2>1. /\ sent[t] = 0 /\ received[t] = <<>> /\ <<>> \in Seq(Value)
        /\ pc[t] = "idle" /\ ret[t] = "void" /\ Len(Got[t]) = 0
    BY <1>1, <1>2
  <2>2. 0 \in 0..Items /\ 0 <= Items
    BY <1>1
  <2> QED BY <2>1, <2>2 DEF TaskInv
<1> QED BY <1>1, <1>3, <1>5, <1>6, <1>7 DEF TasksInv

\* The invariant of the test programs, whatever the scheduler does.
THEOREM TasksInvariance == TaskSpec => []TasksInv
BY InitTasksInv, TaskNextKeepsInv, PTL DEF TaskSpec

\* test_2threads asserts that its dequeues succeed: so does every dequeue of
\* every such program, with any number of threads and items.
THEOREM NoDequeueFails == TaskSpec => []EveryDequeueSucceeds
<1>1. TasksInv => EveryDequeueSucceeds
  BY Types DEF TasksInv, TaskInv, EveryDequeueSucceeds
<1> QED BY TasksInvariance, <1>1, PTL

\* Whoever takes them, the values of one producer come out in order.
THEOREM OrderKept == TaskSpec => []ProducerOrder
<1>1. ASSUME TasksInv PROVE ProducerOrder
  <2> SUFFICES ASSUME NEW t \in Thread, NEW i \in DOMAIN received[t],
                      NEW j \in DOMAIN received[t], i < j,
                      received[t][i][1] = received[t][j][1]
               PROVE  received[t][i][2] < received[t][j][2]
    BY DEF ProducerOrder
  <2>1. received[t] \in Seq(Value) /\ out[t] \in Value \cup {NoValue}
    BY <1>1, Types DEF TasksInv, TypeOK
  <2>2. /\ i \in 1..Len(Got[t]) /\ Got[t][i] = received[t][i]
        /\ j \in 1..Len(Got[t]) /\ Got[t][j] = received[t][j]
    <3>1. received[t] \in Seq(Value \cup {NoValue})
      BY <2>1
    <3> QED BY <2>1, <3>1 DEF Got
  <2> QED BY <1>1, <2>2 DEF TasksInv, TakenInv
<1> QED BY TasksInvariance, <1>1, PTL

\* sum(input) == sum(output): after the join every value enqueued has been
\* dequeued, by somebody, and each thread has as many as it asked for.
THEOREM SumsAgree == TaskSpec => []JoinBalanced
<1>1. ASSUME TasksInv PROVE JoinBalanced
  <2> SUFFICES ASSUME AllDone
               PROVE  /\ UNION {Received(t) : t \in program.threads}
                           = program.threads \X (1..Items)
                      /\ \A t \in program.threads : Len(received[t]) = Items
    BY DEF JoinBalanced
  <2>1. ASSUME NEW t \in program.threads
        PROVE  /\ t \in Thread /\ Put[t] = Items /\ Got[t] = received[t]
               /\ Len(received[t]) = Items /\ received[t] \in Seq(Value)
    BY <1>1, Types DEF AllDone, Done, Put, Got, TasksInv
  <2>2. Enqueued = program.threads \X (1..Items) /\ Dequeued = Enqueued
    <3>1. \A e \in program.threads \X (1..Items) :
            e[1] \in program.threads /\ e[2] \in 1..Items
      OBVIOUS
    <3>2. \A e \in program.threads \X (1..Items) :
            e[2] <= Put[e[1]] /\ e[2] <= Len(Got[e[1]])
      BY <2>1, <3>1
    <3> QED BY <3>2 DEF Enqueued, Dequeued
  <2>3. pos[head] = linked
    BY <1>1, <2>2, Types DEF TasksInv, CountInv, TypeOK
  <2>4. ASSUME NEW e \in program.threads \X (1..Items)
        PROVE  \E t \in program.threads : e \in Received(t)
    <3>1. PICK n \in Node : pos[n] > 1 /\ value[n] = e
      BY <1>1, <2>2 DEF TasksInv, ListedInv
    <3>2. pos[n] <= pos[head]
      BY <1>1, <2>3, Types DEF ListInv
    <3>3. PICK t \in program.threads : \E i \in 1..Len(Got[t]) : Got[t][i] = e
      BY <1>1, <3>1, <3>2 DEF TasksInv, TakenInv
    <3> QED BY <2>1, <3>3 DEF Received
  <2>5. ASSUME NEW t \in program.threads, NEW e \in Received(t)
        PROVE  e \in program.threads \X (1..Items)
    <3>1. PICK i \in 1..Len(Got[t]) : Got[t][i] = e
      BY <2>1 DEF Received
    <3>2. PICK n \in Node : pos[n] > 1 /\ value[n] = e
      BY <1>1, <2>1, <3>1 DEF TasksInv, TakenInv
    <3> QED BY <1>1, <2>2, <3>2 DEF TasksInv, ListedInv
  <2> QED BY <2>1, <2>4, <2>5
<1> QED BY TasksInvariance, <1>1, PTL

\* The tasks only call the queue: what is proved of it holds of them, its
\* linearizability included.
THEOREM TasksUseTheQueue == TaskSpec => Spec
<1>1. TaskInit => Init
  BY DEF TaskInit
<1>2. TasksInv /\ [TaskNext]_taskVars => [Next]_vars
  <2> SUFFICES ASSUME TasksInv, [TaskNext]_taskVars PROVE [Next]_vars
    OBVIOUS
  <2>1. ASSUME NEW t \in program.threads, TaskStep(t) PROVE Next
    <3>1. t \in Thread
      BY Types
    <3>2. TaskEnqueue(t) => Call(t)
      <4> SUFFICES ASSUME TaskEnqueue(t) PROVE Call(t)
        OBVIOUS
      <4>1. sent[t] + 1 \in 1..Items
        BY <3>1, Types DEF TaskEnqueue, TasksInv, TaskInv
      <4>2. <<t, sent[t] + 1>> \in Value
        BY <4>1, Types
      <4> QED BY <4>2 DEF TaskEnqueue, Call
    <3> QED BY <2>1, <3>1, <3>2 DEF TaskStep, TaskDequeue, TaskInQueue, Next, Call
  <2> QED BY <2>1 DEF TaskNext, taskVars
<1> QED BY <1>1, <1>2, TasksInvariance, PTL DEF TaskSpec, Spec
=============================================================================
