-------------------------- MODULE WeakTasksProofs --------------------------
(***************************************************************************)
(* What the test programs of ms-queue-weak-no-free assert, for any number  *)
(* of threads and items.                                                   *)
(*                                                                         *)
(* The argument is about the steps of LooseFifo that MSQueueWeakProofs     *)
(* shows the code to take.  A thread dequeues only after all its own       *)
(* enqueues.  Were the items it knows of all gone, they would have been    *)
(* taken by threads whose own items are among them: fewer dequeues than    *)
(* items, as one of those threads still has one to do.                     *)
(* The last part is about two threads: the same counting shows that where  *)
(* a dequeue reads a value, there is a next node.                          *)
(***************************************************************************)
EXTENDS WeakTasks, MSQueueWeakProofs, FiniteSetTheorems

Item == Thread \X (1..Items)
Taken == Len(seenBar)

\* How many values each thread has linked into the list.
Put == [t \in Thread |-> IF phaseBar[t] = "enq" THEN sent[t] - 1 ELSE sent[t]]

\* What each thread has taken from the list, counting the value of a dequeue
\* that has moved head but not yet returned.
Got == [t \in Thread |-> IF phaseBar[t] = "dequeued"
                         THEN Append(received[t], datumBar[t]) ELSE received[t]]

\* Where a task is: first it enqueues, then it dequeues.
TaskInv(t) ==
  /\ sent[t] \in 0..Items /\ received[t] \in Seq(Item) /\ Len(Got[t]) <= Items
  /\ phaseBar[t] = "enq" => sent[t] >= 1 /\ datumBar[t] = <<t, sent[t]>>
  /\ sent[t] < Items \/ phaseBar[t] \in {"enq", "enqueued"} =>
       received[t] = <<>> /\ phaseBar[t] \notin {"deq", "dequeued"}
  /\ phaseBar[t] = "deq" => Len(received[t]) < Items
  /\ phaseBar[t] # "foundEmpty" /\ ret[t] # "false"

\* The items are the values that have been linked, each once.
ListedInv ==
  /\ itemsBar \in Seq(Item)
  /\ \A i, j \in 1..Len(itemsBar) : itemsBar[i] = itemsBar[j] => i = j
  /\ \A i \in 1..Len(itemsBar) : itemsBar[i][2] <= Put[itemsBar[i][1]]
  /\ \A e \in Item : e[2] <= Put[e[1]] => \E i \in 1..Len(itemsBar) : itemsBar[i] = e

\* Those that head has passed are what the threads have got, each once.
TakenInv ==
  /\ Taken <= Len(itemsBar)
  /\ \A t \in Thread : \A i \in 1..Len(Got[t]) :
       \E k \in 1..Taken : itemsBar[k] = Got[t][i]
  /\ \A k \in 1..Taken :
       \E t \in Thread : \E i \in 1..Len(Got[t]) : Got[t][i] = itemsBar[k]
  /\ \A t, u \in Thread : \A i \in 1..Len(Got[t]) : \A j \in 1..Len(Got[u]) :
       Got[t][i] = Got[u][j] => t = u /\ i = j

\* A thread knows of all its own items.  It leaves that knowledge, and what
\* those before it have left, on head when it takes an item.
SeenInv ==
  /\ seenBar \in Seq(Nat)
  /\ \A j, k \in 1..Taken : j <= k => seenBar[j] <= seenBar[k]
  /\ \A t \in Thread : \A i \in 1..Len(itemsBar) :
       itemsBar[i][1] = t => i <= knownBar[t]
  /\ \A k \in 1..Taken : \A t \in Thread : \A i \in 1..Len(Got[t]) :
       Got[t][i] = itemsBar[k] =>
         \A j \in 1..Len(itemsBar) : itemsBar[j][1] = t => j <= seenBar[k]

TasksInv == /\ IInv /\ KnowInv
            /\ sent \in [Thread -> Nat] /\ received \in [Thread -> Seq(Item)]
            /\ \A t \in Thread : TaskInv(t)
            /\ ListedInv /\ TakenInv /\ SeenInv

-----------------------------------------------------------------------------
(* The abstract state                                                      *)

KnownOK == /\ knownBar \in [Thread -> Nat] /\ Len(itemsBar) \in Nat
           /\ \A t \in Thread : knownBar[t] <= Len(itemsBar)

LEMMA KnownTypes == IInv /\ KnowInv => KnownOK
<1> SUFFICES ASSUME IInv, KnowInv PROVE KnownOK
  OBVIOUS
<1>0. TypeOK /\ ViewInv /\ ListOpen
  BY LastIsOpen DEF IInv
<1>1. Len(itemsBar) = Len(list) - 1 /\ Len(list) \in Nat \ {0}
  BY <1>0, ItemsBar DEF ListOpen
<1>2. ASSUME NEW t \in Thread
      PROVE  knownBar[t] \in Nat /\ knownBar[t] <= Len(list) - 1
  <2>1. PICK w \in [Location -> Nat] : w = view[t]
    BY <1>0 DEF TypeOK
  <2>2. Bound(w) /\ w[tail] \in 1..Len(list)
    BY <1>0, <2>1, TailSeen DEF ViewInv
  <2>3. PICK last \in Node : last = list[w[tail]]
    BY <1>0, <2>2 DEF ListOpen
  <2>4. PICK m, x : m = Newest(next(last)) /\ x = w[next(last)]
    OBVIOUS
  <2>5. m \in 1..3 /\ (w[tail] = Len(list) => m = 2)
    BY <1>0, <2>2, <2>3, <2>4 DEF ListOpen
  <2>6. x \in Nat /\ x <= m
    BY <2>1, <2>2, <2>4, Locations DEF Bound
  <2>7. x <= 3 /\ (w[tail] = Len(list) => x # 3)
    BY <2>5, <2>6
  <2>8. knownBar[t] = IF x = 3 THEN w[tail] ELSE w[tail] - 1
    BY <2>1, <2>3, <2>4 DEF knownBar, KnownIn
  <2> QED BY <1>1, <2>2, <2>7, <2>8
<1>3. knownBar = [t \in Thread |-> knownBar[t]]
  BY DEF knownBar
<1> QED BY <1>1, <1>2, <1>3 DEF KnownOK

\* A step of t is a step of the abstract queue, and changes nothing of what
\* belongs to another thread.
LEMMA QueueStep ==
  ASSUME IInv, KnowInv, NEW t \in Thread,
         Call(t) \/ EnqueueStep(t) \/ DequeueStep(t)
  PROVE  /\ IInv' /\ KnowInv' /\ Queue!Next
         /\ \A u \in Thread \ {t} : phaseBar'[u] = phaseBar[u]
                                    /\ datumBar'[u] = datumBar[u] /\ ret'[u] = ret[u]
<1>1. Remembers(t) /\ IInv' /\ KnowInv'
  BY StepRemembers, CallKeepsIInv, EnqueueStepKeepsIInv, DequeueStepKeepsIInv, StepKeepsKnowInv
<1>2. Queue!Next
  BY <1>1, CallRefines, EnqueueStepRefines, DequeueStepRefines
<1>3. \A u \in Thread \ {t} : phaseBar'[u] = phaseBar[u] /\ datumBar'[u] = datumBar[u]
  <2>1. phaseBar' = [phaseBar EXCEPT ![t] = phaseBar'[t]]
    BY <1>1, PhaseFrame
  <2>2. datumBar' = [datumBar EXCEPT ![t] = datumBar'[t]]
    BY <1>1, DatumFrame
  <2>3. DOMAIN phaseBar = Thread /\ DOMAIN datumBar = Thread
    BY DEF phaseBar, datumBar
  <2> QED BY <2>1, <2>2, <2>3
<1> QED BY <1>1, <1>2, <1>3 DEF Remembers

\* Whose step of LooseFifo it is shows in the phases.
LEMMA WhoseStep ==
  ASSUME IInv, KnowInv, NEW t \in Thread, Queue!Next,
         \A u \in Thread \ {t} : phaseBar'[u] = phaseBar[u]
  PROVE  \/ /\ UNCHANGED <<itemsBar, seenBar, phaseBar, datumBar>>
            /\ \A u \in Thread : knownBar[u] <= knownBar'[u]
         \/ \E v \in Value : Queue!CallEnqueue(t, v)
         \/ Queue!Enqueue(t) \/ Queue!ReturnEnqueue(t)
         \/ Queue!CallDequeue(t) \/ Queue!Dequeue(t) \/ Queue!ReturnDequeue(t)
         \/ Queue!FindEmpty(t) \/ Queue!ReturnEmpty(t)
<1>0. DOMAIN phaseBar = Thread /\ knownBar \in [Thread -> Nat] /\ Len(itemsBar) \in Nat
  BY KnownTypes DEF KnownOK, phaseBar
<1>1. PICK u \in Thread :
        \/ Queue!Learn(u) \/ \E v \in Value : Queue!CallEnqueue(u, v)
        \/ Queue!Enqueue(u) \/ Queue!ReturnEnqueue(u)
        \/ Queue!CallDequeue(u) \/ Queue!Dequeue(u) \/ Queue!ReturnDequeue(u)
        \/ Queue!FindEmpty(u) \/ Queue!ReturnEmpty(u)
  BY DEF Queue!Next
<1>2. CASE Queue!Learn(u)
  <2>1. PICK k \in knownBar[u]..Len(itemsBar) : knownBar' = [knownBar EXCEPT ![u] = k]
    BY <1>2 DEF Queue!Learn, Queue!Learns
  <2>2. \A x \in Thread : knownBar[x] <= knownBar'[x]
    BY <1>0, <2>1
  <2> QED BY <1>2, <2>2 DEF Queue!Learn
<1>3. CASE ~Queue!Learn(u)
  <2>1. phaseBar'[u] # phaseBar[u]
    BY <1>0, <1>1, <1>3
       DEF Queue!Step, Queue!CallEnqueue, Queue!Enqueue, Queue!ReturnEnqueue,
           Queue!CallDequeue, Queue!Dequeue, Queue!ReturnDequeue, Queue!FindEmpty,
           Queue!ReturnEmpty
  <2>2. u = t
    BY <2>1
  <2> QED BY <1>1, <1>3, <2>2
<1> QED BY <1>2, <1>3

-----------------------------------------------------------------------------
(* What was linked and what was taken                                      *)

LEMMA Types ==
  ASSUME TasksInv
  PROVE  /\ Items \in Nat \ {0} /\ Item \subseteq Value
         /\ \A e \in Item : e[1] \in Thread /\ e[2] \in 1..Items /\ e = <<e[1], e[2]>>
         /\ \A t \in Thread : \A k \in 1..Items : <<t, k>> \in Item
         /\ Len(itemsBar) \in Nat /\ Taken \in Nat
         /\ \A i \in 1..Len(itemsBar) : itemsBar[i] \in Item
         /\ \A k \in 1..Taken : seenBar[k] \in Nat /\ k \in 1..Len(itemsBar)
         /\ \A t \in Thread : /\ Put[t] \in 0..Items /\ knownBar[t] \in Nat
                              /\ knownBar[t] <= Len(itemsBar)
                              /\ Len(Got[t]) \in 0..Items
                              /\ \A i \in 1..Len(Got[t]) : Got[t][i] \in Item
                              /\ Got[t] \in Seq(Item)
<1>1. Items \in Nat \ {0} /\ Item \subseteq Value
  BY TaskAssumption DEF Item
<1>2. \A e \in Item : e[1] \in Thread /\ e[2] \in 1..Items /\ e = <<e[1], e[2]>>
  BY DEF Item
<1>3. \A t \in Thread : \A k \in 1..Items : <<t, k>> \in Item
  BY DEF Item
<1>4. /\ Len(itemsBar) \in Nat /\ Taken \in Nat
      /\ \A i \in 1..Len(itemsBar) : itemsBar[i] \in Item
      /\ Taken <= Len(itemsBar) /\ \A k \in 1..Taken : seenBar[k] \in Nat
  BY DEF TasksInv, ListedInv, TakenInv, SeenInv, Taken
<1>5. ASSUME NEW t \in Thread
      PROVE  /\ Put[t] \in 0..Items /\ knownBar[t] \in Nat
             /\ knownBar[t] <= Len(itemsBar)
             /\ Len(Got[t]) \in 0..Items /\ Got[t] \in Seq(Item)
             /\ \A i \in 1..Len(Got[t]) : Got[t][i] \in Item
  <2>1. TaskInv(t) /\ received[t] \in Seq(Item)
    BY DEF TasksInv
  <2>2. Put[t] \in 0..Items
    BY <1>1, <2>1 DEF TaskInv, Put
  <2>3. knownBar[t] \in Nat /\ knownBar[t] <= Len(itemsBar)
    BY KnownTypes DEF KnownOK, TasksInv
  <2>4. Got[t] \in Seq(Item)
    <3>1. CASE phaseBar[t] = "dequeued"
      <4>1. Got[t] = Append(received[t], datumBar[t])
        BY <3>1 DEF Got
      <4>2. Len(Got[t]) = Len(received[t]) + 1 /\ Got[t][Len(Got[t])] = datumBar[t]
            /\ Len(received[t]) \in Nat
        BY <2>1, <4>1
      <4>3. PICK k \in 1..Taken : itemsBar[k] = datumBar[t]
        <5>1. Len(Got[t]) \in 1..Len(Got[t])
          BY <4>2
        <5> QED BY <4>2, <5>1 DEF TasksInv, TakenInv
      <4>4. datumBar[t] \in Item
        BY <1>4, <4>3
      <4> QED BY <2>1, <4>1, <4>4
    <3>2. CASE phaseBar[t] # "dequeued"
      BY <2>1, <3>2 DEF Got
    <3> QED BY <3>1, <3>2
  <2>5. Len(Got[t]) \in 0..Items
    BY <1>1, <2>1, <2>4 DEF TaskInv
  <2> QED BY <2>2, <2>3, <2>4, <2>5
<1> QED BY <1>1, <1>2, <1>3, <1>4, <1>5

\* The content of the queue stays what it is when nobody links or takes
\* anything, whatever the threads learn.
LEMMA QuietKeeps ==
  ASSUME TasksInv, Put' = Put, Got' = Got, UNCHANGED <<itemsBar, seenBar>>,
         KnowInv', IInv', \A t \in Thread : knownBar[t] <= knownBar'[t]
  PROVE  ListedInv' /\ TakenInv' /\ SeenInv'
<1>1. ListedInv'
  BY DEF TasksInv, ListedInv, Item
<1>2. Taken' = Taken
  BY DEF Taken
<1>3. TakenInv'
  BY <1>2 DEF TasksInv, TakenInv
<1>4. \A t \in Thread : \A i \in 1..Len(itemsBar) :
        itemsBar[i][1] = t => i <= knownBar'[t]
  <2> SUFFICES ASSUME NEW t \in Thread, NEW i \in 1..Len(itemsBar), itemsBar[i][1] = t
               PROVE  i <= knownBar'[t]
    OBVIOUS
  <2>1. i <= knownBar[t] /\ knownBar[t] \in Nat
    BY Types DEF TasksInv, SeenInv
  <2>2. IInv' /\ KnowInv' => KnownOK'
    BY KnownTypes, PTL
  <2>3. i \in Nat /\ knownBar'[t] \in Nat /\ knownBar[t] <= knownBar'[t]
    BY <2>2 DEF KnownOK
  <2> QED BY <2>1, <2>3
<1>5. SeenInv'
  BY <1>2, <1>4 DEF TasksInv, SeenInv
<1> QED BY <1>1, <1>3, <1>5

\* An enqueue takes effect.
LEMMA EnqueueKeeps ==
  ASSUME TasksInv, NEW t \in Thread, Queue!Enqueue(t), sent' = sent, received' = received,
         \A u \in Thread \ {t} : phaseBar'[u] = phaseBar[u] /\ datumBar'[u] = datumBar[u]
  PROVE  ListedInv' /\ TakenInv' /\ SeenInv'
<1>0. ListedInv /\ TakenInv /\ SeenInv /\ TaskInv(t)
  BY DEF TasksInv
<1>1. /\ phaseBar[t] = "enq" /\ phaseBar'[t] = "enqueued"
      /\ itemsBar' = Append(itemsBar, datumBar[t]) /\ seenBar' = seenBar
      /\ knownBar' = [knownBar EXCEPT ![t] = Len(itemsBar) + 1]
  BY DEF Queue!Enqueue, Queue!Step, phaseBar
<1>2. PICK k \in 1..Items, n \in Nat :
        /\ k = sent[t] /\ n = Len(itemsBar) /\ datumBar[t] = <<t, k>> /\ Put[t] = k - 1
        /\ Got[t] = <<>>
  BY <1>0, <1>1, Types DEF TaskInv, Put, Got
<1>3. /\ Len(itemsBar') = n + 1 /\ itemsBar'[n + 1] = <<t, k>>
      /\ \A i \in 1..n : itemsBar'[i] = itemsBar[i]
      /\ itemsBar' \in Seq(Item) /\ <<t, k>> \in Item
      /\ \A i \in 1..(n + 1) : i \in 1..n \/ i = n + 1
  BY <1>0, <1>1, <1>2, Types DEF ListedInv
<1>4. Put'[t] = k /\ \A u \in Thread \ {t} : Put'[u] = Put[u]
  BY <1>1, <1>2 DEF Put
<1>5. Got' = Got /\ Taken' = Taken
  BY <1>1 DEF Got, Taken
<1>6. \A i \in 1..n : itemsBar[i] \in Item /\ itemsBar[i] # <<t, k>>
  <2> TAKE i \in 1..n
  <2>1. itemsBar[i] \in Item /\ itemsBar[i][2] <= Put[itemsBar[i][1]]
    BY <1>0, <1>2, Types DEF ListedInv
  <2> QED BY <1>2, <2>1
<1>7. ListedInv'
  <2>1. ASSUME NEW i \in 1..(n + 1), NEW j \in 1..(n + 1), itemsBar'[i] = itemsBar'[j]
        PROVE  i = j
    BY <1>0, <1>2, <1>3, <1>6, <2>1 DEF ListedInv
  <2>2. ASSUME NEW i \in 1..(n + 1) PROVE itemsBar'[i][2] <= Put'[itemsBar'[i][1]]
    <3>1. CASE i = n + 1
      BY <1>3, <1>4, <3>1
    <3>2. CASE i \in 1..n
      <4>1. itemsBar[i][1] \in Thread /\ itemsBar[i][2] \in Nat
            /\ itemsBar[i][2] <= Put[itemsBar[i][1]]
        BY <1>0, <1>2, <1>6, <3>2, Types DEF ListedInv
      <4>2. CASE itemsBar[i][1] = t
        <5>1. itemsBar'[i] = itemsBar[i] /\ Put'[itemsBar[i][1]] = k
          BY <1>3, <1>4, <3>2, <4>2
        <5>2. itemsBar[i][2] <= k
          BY <1>2, <4>1, <4>2
        <5> QED BY <5>1, <5>2
      <4>3. CASE itemsBar[i][1] # t
        BY <1>3, <1>4, <3>2, <4>1, <4>3
      <4> QED BY <4>2, <4>3
    <3> QED BY <1>3, <3>1, <3>2
  <2>3. ASSUME NEW e \in Item, e[2] <= Put'[e[1]]
        PROVE  \E i \in 1..(n + 1) : itemsBar'[i] = e
    <3>0. e[1] \in Thread /\ e[2] \in 1..Items /\ e = <<e[1], e[2]>>
      BY Types
    <3>1. CASE e = <<t, k>>
      <4>1. n + 1 \in 1..(n + 1)
        OBVIOUS
      <4> QED BY <1>3, <3>1, <4>1
    <3>2. CASE e # <<t, k>>
      <4>1. e[2] <= Put[e[1]]
        <5>1. CASE e[1] = t
          <6>1. e[2] # k
            BY <3>0, <3>2, <5>1
          <6> QED BY <1>2, <1>4, <2>3, <3>0, <5>1, <6>1
        <5>2. CASE e[1] # t
          BY <1>4, <2>3, <3>0, <5>2
        <5> QED BY <5>1, <5>2
      <4>2. PICK i \in 1..n : itemsBar[i] = e
        BY <1>0, <1>2, <4>1 DEF ListedInv
      <4> QED BY <1>3, <4>2
    <3> QED BY <3>1, <3>2
  <2> QED BY <1>3, <2>1, <2>2, <2>3 DEF ListedInv, Item
<1>8. \A j \in 1..Taken : j \in 1..n /\ itemsBar'[j] = itemsBar[j]
  BY <1>2, <1>3, Types
<1>9. TakenInv'
  <2>1. Taken <= n + 1
    BY <1>0, <1>2, Types DEF TakenInv
  <2>2. \A u \in Thread : \A i \in 1..Len(Got[u]) : \E j \in 1..Taken : itemsBar'[j] = Got[u][i]
    BY <1>0, <1>8 DEF TakenInv
  <2>3. \A j \in 1..Taken :
          \E u \in Thread : \E i \in 1..Len(Got[u]) : Got[u][i] = itemsBar'[j]
    BY <1>0, <1>8 DEF TakenInv
  <2>4. Taken' <= Len(itemsBar')
    BY <1>3, <1>5, <2>1
  <2>5. \A u, v \in Thread : \A i \in 1..Len(Got[u]) : \A j \in 1..Len(Got[v]) :
          Got[u][i] = Got[v][j] => u = v /\ i = j
    BY <1>0 DEF TakenInv
  <2>6. Taken' = Taken /\ Got' = Got
    BY <1>5
  <2>7. \A u \in Thread : \A i \in 1..Len(Got'[u]) :
          \E j \in 1..Taken' : itemsBar'[j] = Got'[u][i]
    BY <2>2, <2>6
  <2>8. \A j \in 1..Taken' :
          \E u \in Thread : \E i \in 1..Len(Got'[u]) : Got'[u][i] = itemsBar'[j]
    BY <2>3, <2>6
  <2>9. \A u, v \in Thread : \A i \in 1..Len(Got'[u]) : \A j \in 1..Len(Got'[v]) :
          Got'[u][i] = Got'[v][j] => u = v /\ i = j
    BY <2>5, <2>6
  <2> QED BY <2>4, <2>7, <2>8, <2>9 DEF TakenInv
<1>10. SeenInv'
  <2>1. ASSUME NEW u \in Thread, NEW i \in 1..(n + 1), itemsBar'[i][1] = u
        PROVE  i <= knownBar'[u]
    <3>1. DOMAIN knownBar = Thread /\ knownBar'[t] = n + 1
      BY <1>1, <1>2 DEF knownBar
    <3>2. CASE u = t
      BY <3>1, <3>2
    <3>3. CASE u # t
      <4>1. i \in 1..n /\ itemsBar[i][1] = u
        BY <1>3, <2>1, <3>3
      <4> QED BY <1>0, <1>1, <1>2, <3>1, <3>3, <4>1 DEF SeenInv
    <3> QED BY <3>2, <3>3
  <2>2. ASSUME NEW j \in 1..Taken, NEW u \in Thread, NEW i \in 1..Len(Got[u]),
               Got[u][i] = itemsBar'[j],
               NEW x \in 1..(n + 1), itemsBar'[x][1] = u
        PROVE  x <= seenBar[j]
    <3>1. u # t
      <4>1. Len(Got[t]) = 0
        BY <1>2
      <4> QED BY <4>1
    <3>2. x \in 1..n /\ itemsBar[x][1] = u
      BY <1>3, <2>2, <3>1
    <3>3. Got[u][i] = itemsBar[j]
      BY <1>8, <2>2
    <3> QED BY <1>0, <1>2, <3>2, <3>3 DEF SeenInv
  <2> QED BY <1>0, <1>1, <1>3, <1>5, <2>1, <2>2 DEF SeenInv
<1> QED BY <1>7, <1>9, <1>10

\* A dequeue takes effect.
LEMMA DequeueKeeps ==
  ASSUME TasksInv, NEW t \in Thread, Queue!Dequeue(t), sent' = sent, received' = received,
         \A u \in Thread \ {t} : phaseBar'[u] = phaseBar[u] /\ datumBar'[u] = datumBar[u]
  PROVE  /\ ListedInv' /\ TakenInv' /\ SeenInv'
         /\ Len(Got'[t]) <= Items
<1>0. /\ ListedInv /\ TakenInv /\ SeenInv /\ TaskInv(t) /\ received[t] \in Seq(Item)
      /\ DOMAIN phaseBar = Thread /\ DOMAIN datumBar = Thread
  BY DEF TasksInv, phaseBar, datumBar
<1>1. PICK n, m \in Nat :
        /\ n = Taken /\ m = Len(itemsBar) /\ n < knownBar[t] /\ knownBar[t] \in Nat
        /\ n + 1 \in 1..m /\ (n > 0 => seenBar[n] <= knownBar[t])
  <2>1. Taken < knownBar[t] /\ (Taken > 0 => seenBar[Taken] <= knownBar[t])
    BY DEF Queue!Dequeue, Queue!taken, Taken
  <2> QED BY <2>1, Types
<1>2. PICK v \in Item : v = itemsBar[n + 1]
  BY <1>1, Types
<1>3. /\ phaseBar[t] = "deq" /\ phaseBar'[t] = "dequeued"
      /\ datumBar'[t] = v /\ itemsBar' = itemsBar /\ knownBar' = knownBar
      /\ seenBar' = Append(seenBar, knownBar[t])
  BY <1>0, <1>1, <1>2 DEF Queue!Dequeue, Queue!Step, Queue!taken, Taken
<1>4. PICK len \in Nat :
        len = Len(received[t]) /\ len < Items /\ Got[t] = received[t]
  BY <1>0, <1>3 DEF TaskInv, Got
<1>5. Put' = Put
  <2>1. \A u \in Thread : Put'[u] = Put[u]
    BY <1>3 DEF Put
  <2> QED BY <2>1 DEF Put
<1>6. /\ Got'[t] = Append(Got[t], v) /\ \A u \in Thread \ {t} : Got'[u] = Got[u]
      /\ DOMAIN Got' = Thread
  BY <1>3, <1>4 DEF Got
<1>7. /\ Len(Got[t]) = len /\ Len(Got'[t]) = len + 1 /\ Got'[t][len + 1] = v
      /\ \A i \in 1..len : Got'[t][i] = Got[t][i]
  BY <1>0, <1>4, <1>6
<1>8. \A u \in Thread : \A i \in 1..Len(Got'[u]) :
        \/ i \in 1..Len(Got[u]) /\ Got'[u][i] = Got[u][i]
        \/ u = t /\ i = len + 1 /\ Got'[u][i] = v
  <2> TAKE u \in Thread
  <2> TAKE i \in 1..Len(Got'[u])
  <2>1. CASE u = t
    <3>1. i \in 1..len \/ i = len + 1
      BY <1>7, <2>1
    <3> QED BY <1>7, <2>1, <3>1
  <2>2. CASE u # t
    BY <1>6, <2>2
  <2> QED BY <2>1, <2>2
<1>9. \A u \in Thread : \A i \in 1..Len(Got[u]) :
        i \in 1..Len(Got'[u]) /\ Got'[u][i] = Got[u][i]
  <2> TAKE u \in Thread
  <2> TAKE i \in 1..Len(Got[u])
  <2>1. CASE u = t
    BY <1>7, <2>1
  <2>2. CASE u # t
    BY <1>6, <2>2
  <2> QED BY <2>1, <2>2
<1>10. /\ Len(seenBar') = n + 1 /\ seenBar'[n + 1] = knownBar[t] /\ Taken' = n + 1
       /\ seenBar' \in Seq(Nat)
       /\ \A k \in 1..n : seenBar'[k] = seenBar[k] /\ seenBar[k] \in Nat
  BY <1>0, <1>1, <1>3 DEF SeenInv, Taken
<1>11. \A k \in 1..(n + 1) : k \in 1..n \/ k = n + 1
  BY <1>1
<1>12. \A u \in Thread : \A i \in 1..Len(Got[u]) : Got[u][i] # v
  <2> SUFFICES ASSUME NEW u \in Thread, NEW i \in 1..Len(Got[u]), Got[u][i] = v
               PROVE  FALSE
    OBVIOUS
  <2>1. PICK k \in 1..n : itemsBar[k] = v
    BY <1>0, <1>1 DEF TakenInv
  <2>2. k \in 1..m /\ k # n + 1
    BY <1>1, <2>1
  <2> QED BY <1>0, <1>1, <1>2, <2>1, <2>2 DEF ListedInv
<1>13. ListedInv'
  BY <1>0, <1>3, <1>5 DEF ListedInv, Item
<1>14. TakenInv'
  <2>1. Taken' <= Len(itemsBar')
    BY <1>1, <1>3, <1>10
  <2>2. ASSUME NEW u \in Thread, NEW i \in 1..Len(Got'[u])
        PROVE  \E k \in 1..(n + 1) : itemsBar[k] = Got'[u][i]
    <3>1. CASE i \in 1..Len(Got[u]) /\ Got'[u][i] = Got[u][i]
      <4>1. PICK k \in 1..n : itemsBar[k] = Got[u][i]
        BY <1>0, <1>1, <3>1 DEF TakenInv
      <4> QED BY <1>1, <3>1, <4>1
    <3>2. CASE Got'[u][i] = v
      BY <1>1, <1>2, <3>2
    <3> QED BY <1>8, <3>1, <3>2
  <2>3. ASSUME NEW k \in 1..(n + 1)
        PROVE  \E u \in Thread : \E i \in 1..Len(Got'[u]) : Got'[u][i] = itemsBar[k]
    <3>1. CASE k = n + 1
      <4>1. len + 1 \in 1..Len(Got'[t])
        BY <1>7
      <4> QED BY <1>2, <1>7, <3>1, <4>1
    <3>2. CASE k \in 1..n
      <4>1. PICK u \in Thread : \E i \in 1..Len(Got[u]) : Got[u][i] = itemsBar[k]
        BY <1>0, <1>1, <3>2 DEF TakenInv
      <4> QED BY <1>9, <4>1
    <3> QED BY <1>11, <3>1, <3>2
  <2>4. ASSUME NEW u \in Thread, NEW w \in Thread,
               NEW i \in 1..Len(Got'[u]), NEW j \in 1..Len(Got'[w]),
               Got'[u][i] = Got'[w][j]
        PROVE  u = w /\ i = j
    <3>1. CASE Got'[u][i] = v
      <4>1. u = t /\ i = len + 1
        BY <1>8, <1>12, <3>1
      <4>2. w = t /\ j = len + 1
        BY <1>8, <1>12, <2>4, <3>1
      <4> QED BY <4>1, <4>2
    <3>2. CASE Got'[u][i] # v
      <4>1. /\ i \in 1..Len(Got[u]) /\ j \in 1..Len(Got[w])
            /\ Got[u][i] = Got[w][j]
        BY <1>8, <2>4, <3>2
      <4> QED BY <1>0, <4>1 DEF TakenInv
    <3> QED BY <3>1, <3>2
  <2>5. /\ \A u \in Thread : \A i \in 1..Len(Got'[u]) :
             \E k \in 1..Taken' : itemsBar'[k] = Got'[u][i]
        /\ \A k \in 1..Taken' :
             \E u \in Thread : \E i \in 1..Len(Got'[u]) : Got'[u][i] = itemsBar'[k]
    BY <1>3, <1>10, <2>2, <2>3
  <2> QED BY <2>1, <2>4, <2>5 DEF TakenInv
<1>15. SeenInv'
  <2>1. ASSUME NEW j \in 1..(n + 1), NEW k \in 1..(n + 1), j <= k
        PROVE  seenBar'[j] <= seenBar'[k]
    <3>1. CASE j = n + 1
      <4>1. k = n + 1
        BY <1>1, <1>11, <2>1, <3>1
      <4> QED BY <1>1, <1>10, <3>1, <4>1
    <3>2. CASE j \in 1..n /\ k \in 1..n
      BY <1>0, <1>1, <1>10, <2>1, <3>2 DEF SeenInv
    <3>3. CASE j \in 1..n /\ k = n + 1
      <4>1. n \in 1..n /\ j <= n /\ n > 0
        BY <1>1, <3>3
      <4>2. seenBar[j] <= seenBar[n]
        BY <1>0, <1>1, <3>3, <4>1 DEF SeenInv
      <4>3. /\ seenBar[n] <= knownBar[t] /\ seenBar[n] \in Nat /\ seenBar[j] \in Nat
            /\ knownBar[t] \in Nat
        BY <1>1, <1>10, <3>3, <4>1
      <4> QED BY <1>10, <3>3, <4>2, <4>3
    <3> QED BY <1>11, <3>1, <3>2, <3>3
  <2>2. ASSUME NEW k \in 1..(n + 1), NEW u \in Thread, NEW i \in 1..Len(Got'[u]),
               Got'[u][i] = itemsBar[k],
               NEW j \in 1..Len(itemsBar), itemsBar[j][1] = u
        PROVE  j <= seenBar'[k]
    <3>1. CASE i \in 1..Len(Got[u]) /\ Got'[u][i] = Got[u][i]
      <4>1. k # n + 1
        BY <1>2, <1>12, <2>2, <3>1
      <4>2. k \in 1..n
        BY <1>11, <4>1
      <4> QED BY <1>0, <1>1, <1>10, <2>2, <3>1, <4>2 DEF SeenInv
    <3>2. CASE u = t /\ Got'[u][i] = v
      <4>1. k \in 1..m /\ n + 1 \in 1..m /\ itemsBar[k] = itemsBar[n + 1]
        BY <1>1, <1>2, <2>2, <3>2
      <4>2. k = n + 1
        BY <1>0, <1>1, <4>1 DEF ListedInv
      <4> QED BY <1>0, <1>10, <2>2, <3>2, <4>2 DEF SeenInv
    <3> QED BY <1>8, <3>1, <3>2
  <2> QED BY <1>0, <1>3, <1>10, <2>1, <2>2 DEF SeenInv
<1>16. Len(Got'[t]) <= Items
  BY <1>4, <1>7, Types
<1> QED BY <1>13, <1>14, <1>15, <1>16

\* The first k items taken do not use up those of t, which has a dequeue still to
\* do, and of the threads that took them: one of these items comes behind them.
LEMMA Beyond ==
  ASSUME TasksInv, NEW t \in Thread, phaseBar[t] = "deq", NEW k \in Nat, k <= Taken
  PROVE  \E u \in Thread : \E j \in 1..Len(itemsBar) :
           /\ j > k /\ itemsBar[j][1] = u
           /\ u = t \/ \E x \in 1..k : \E i \in 1..Len(Got[u]) : Got[u][i] = itemsBar[x]
<1> SUFFICES ASSUME \A u \in Thread : \A j \in 1..Len(itemsBar) :
                      /\ itemsBar[j][1] = u
                      /\ u = t \/ \E x \in 1..k : \E i \in 1..Len(Got[u]) :
                                    Got[u][i] = itemsBar[x]
                      => j <= k
             PROVE  FALSE
  <2>1. \A j \in 1..Len(itemsBar) : j \in Nat /\ (~(j > k) => j <= k)
    BY Types
  <2> QED BY <2>1
<1>0. ListedInv /\ TakenInv /\ SeenInv /\ \A u \in Thread : TaskInv(u)
  BY DEF TasksInv
<1>1. k \in Nat /\ k <= Taken /\ phaseBar[t] = "deq"
  OBVIOUS
<1>2. \A j \in 1..k : j \in 1..Taken /\ j \in 1..Len(itemsBar)
  BY <1>1, Types
<1> DEFINE D == {t} \cup {u \in Thread : \E i \in 1..Len(Got[u]) :
                                           \E j \in 1..k : Got[u][i] = itemsBar[j]}
           P == D \X (1..Items)
           last == <<t, Items>>
<1>3. ASSUME NEW u \in D PROVE Put[u] = Items /\ Len(Got[u]) <= Items /\ u \in Thread
  <2>1. u \in Thread /\ (u # t => Len(Got[u]) > 0)
    BY Types
  <2>2. sent[u] = Items /\ phaseBar[u] # "enq"
    <3>1. CASE u = t
      <4>1. ~(sent[t] < Items) /\ sent[t] \in 0..Items
        BY <1>0, <1>1 DEF TaskInv
      <4> QED BY <1>1, <3>1, <4>1, Types
    <3>2. CASE u # t
      <4>1. sent[u] < Items \/ phaseBar[u] = "enq" => Got[u] = <<>>
        BY <1>0, <2>1 DEF TaskInv, Got
      <4>2. Got[u] # <<>>
        BY <2>1, <3>2
      <4> QED BY <1>0, <2>1, <4>1, <4>2, Types DEF TaskInv
    <3> QED BY <3>1, <3>2
  <2> QED BY <1>0, <2>1, <2>2 DEF Put, TaskInv
<1>4. ASSUME NEW e \in P PROVE \E j \in 1..k : itemsBar[j] = e
  <2>1. e[1] \in D /\ e[2] \in 1..Items /\ e = <<e[1], e[2]>>
    OBVIOUS
  <2>2. e \in Item /\ e[2] <= Put[e[1]]
    BY <1>3, <2>1 DEF Item
  <2>3. PICK j \in 1..Len(itemsBar) : itemsBar[j] = e
    BY <1>0, <2>2 DEF ListedInv
  <2>4. j <= k
    <3>1. e[1] \in Thread /\ itemsBar[j][1] = e[1]
      BY <1>3, <2>1, <2>3
    <3>2. e[1] = t \/ \E x \in 1..k : \E i \in 1..Len(Got[e[1]]) : Got[e[1]][i] = itemsBar[x]
      BY <2>1
    <3> QED BY <3>1, <3>2
  <2> QED BY <1>1, <2>3, <2>4, Types
<1>5. ASSUME NEW j \in 1..k
      PROVE  \E p \in P \ {last} : Got[p[1]][p[2]] = itemsBar[j] /\ p[2] \in 1..Len(Got[p[1]])
  <2>1. PICK u \in Thread : \E i \in 1..Len(Got[u]) : Got[u][i] = itemsBar[j]
    BY <1>0, <1>2 DEF TakenInv
  <2>2. u \in D
    BY <2>1
  <2>3. PICK i \in 1..Items : i \in 1..Len(Got[u]) /\ Got[u][i] = itemsBar[j]
    <3>1. PICK i \in 1..Len(Got[u]) : Got[u][i] = itemsBar[j]
      BY <2>1
    <3>2. Len(Got[u]) \in 0..Items /\ Items \in Nat
      BY Types
    <3>3. i \in 1..Items
      BY <3>1, <3>2
    <3> QED BY <3>1, <3>3
  <2>4. <<u, i>> # last
    <3>1. Got[t] = received[t] /\ Len(received[t]) < Items /\ Len(received[t]) \in Nat
      BY <1>0, <1>1 DEF TaskInv, Got
    <3>2. u = t => i # Items
      BY <2>3, <3>1, Types
    <3> QED BY <3>2
  <2>5. <<u, i>> \in P \ {last}
    BY <2>2, <2>3, <2>4
  <2> QED BY <2>3, <2>5
<1> HIDE DEF P, last
<1>6. IsFiniteSet(1..k) /\ Cardinality(1..k) = k
  <2>1. 1 \in Int /\ k \in Int /\ (IF 1 > k THEN 0 ELSE k - 1 + 1) = k
    BY <1>1
  <2> QED BY <2>1, FS_Interval
<1>7. IsFiniteSet(P) /\ Cardinality(P) <= k
  <2>1. PICK g : g = [e \in P |-> CHOOSE j \in 1..k : itemsBar[j] = e]
    OBVIOUS
  <2>2. \A e \in P : g[e] \in 1..k /\ itemsBar[g[e]] = e
    BY <1>4, <2>1
  <2>3. g \in Injection(P, 1..k)
    BY <2>1, <2>2 DEF Injection, IsInjective
  <2> QED BY <1>6, <2>3, FS_Injection
<1>8. last \in P
  BY <1>0, Types DEF P, last
<1>9. /\ IsFiniteSet(P \ {last}) /\ Cardinality(P \ {last}) = Cardinality(P) - 1
      /\ Cardinality(P) \in Nat
  BY <1>7, <1>8, FS_RemoveElement, FS_CardinalityType
<1>10. k <= Cardinality(P \ {last})
  <2>1. PICK f : f = [j \in 1..k |-> CHOOSE p \in P \ {last} :
                        Got[p[1]][p[2]] = itemsBar[j] /\ p[2] \in 1..Len(Got[p[1]])]
    OBVIOUS
  <2>2. \A j \in 1..k : f[j] \in P \ {last} /\ Got[f[j][1]][f[j][2]] = itemsBar[j]
    BY <1>5, <2>1
  <2>3. \A i, j \in 1..k : f[i] = f[j] => i = j
    BY <1>0, <1>2, <2>2 DEF ListedInv
  <2>4. f \in Injection(1..k, P \ {last})
    BY <2>1, <2>2, <2>3 DEF Injection, IsInjective
  <2> QED BY <1>9, <1>6, <2>4, FS_Injection
<1> QED BY <1>1, <1>7, <1>9, <1>10

\* No task finds the queue empty.
LEMMA NeverEmpty ==
  ASSUME TasksInv, NEW t \in Thread, Queue!FindEmpty(t)
  PROVE  FALSE
<1>0. SeenInv
  BY DEF TasksInv
<1>1. PICK k \in Nat : /\ k = knownBar[t] /\ k <= Taken /\ phaseBar[t] = "deq"
                       /\ k > 0 => seenBar[k] <= k
  <2>1. /\ knownBar[t] <= Taken /\ phaseBar[t] = "deq"
        /\ knownBar[t] > 0 => seenBar[knownBar[t]] <= knownBar[t]
    BY DEF Queue!FindEmpty, Queue!Step, Queue!taken, Taken
  <2> QED BY <2>1, Types
<1>2. PICK u \in Thread, j \in 1..Len(itemsBar) :
        /\ j > k /\ itemsBar[j][1] = u
        /\ u = t \/ \E x \in 1..k : \E i \in 1..Len(Got[u]) : Got[u][i] = itemsBar[x]
  BY <1>1, Beyond
<1>3. CASE u = t
  <2>1. j <= k /\ j \in Nat
    BY <1>0, <1>1, <1>2, <1>3, Types DEF SeenInv
  <2> QED BY <1>2, <2>1
<1>4. CASE u # t
  <2>1. PICK x \in 1..k : \E i \in 1..Len(Got[u]) : Got[u][i] = itemsBar[x]
    BY <1>2, <1>4
  <2>2. /\ x \in 1..Taken /\ k \in 1..Taken /\ x <= k /\ k > 0
        /\ seenBar[x] \in Nat /\ seenBar[k] \in Nat /\ j \in Nat
    BY <1>1, <2>1, Types
  <2>3. j <= seenBar[x]
    BY <1>0, <1>2, <2>1, <2>2 DEF SeenInv
  <2>4. seenBar[x] <= seenBar[k]
    BY <1>0, <2>2 DEF SeenInv
  <2> QED BY <1>1, <1>2, <2>2, <2>3, <2>4
<1> QED BY <1>3, <1>4

-----------------------------------------------------------------------------
(* One lemma per action of a task                                          *)

\* A step of t changes nothing of the other tasks.
Frame(t) ==
  \A u \in Thread \ {t} :
    /\ phaseBar'[u] = phaseBar[u] /\ datumBar'[u] = datumBar[u] /\ ret'[u] = ret[u]
    /\ sent'[u] = sent[u] /\ received'[u] = received[u]

LEMMA ContentFrame ==
  ASSUME NEW t \in Thread, Frame(t), Put'[t] = Put[t], Got'[t] = Got[t]
  PROVE  Put' = Put /\ Got' = Got
<1>1. \A u \in Thread : Put'[u] = Put[u] /\ Got'[u] = Got[u]
  BY DEF Frame, Put, Got
<1>2. /\ Put = [u \in Thread |-> Put[u]] /\ Put' = [u \in Thread |-> Put'[u]]
      /\ Got = [u \in Thread |-> Got[u]] /\ Got' = [u \in Thread |-> Got'[u]]
  BY DEF Put, Got
<1> QED BY <1>1, <1>2

LEMMA TaskAssemble ==
  ASSUME TasksInv, NEW t \in Thread, Frame(t), IInv', KnowInv',
         sent' \in [Thread -> Nat], received' \in [Thread -> Seq(Item)], TaskInv(t)',
         ListedInv' /\ TakenInv' /\ SeenInv'
  PROVE  TasksInv'
<1>1. ASSUME NEW u \in Thread \ {t} PROVE TaskInv(u)'
  <2>1. Got'[u] = Got[u]
    BY DEF Frame, Got
  <2>2. TaskInv(u)
    BY DEF TasksInv
  <2> QED BY <2>1, <2>2 DEF Frame, TaskInv, Item
<1>2. \A u \in Thread : TaskInv(u)'
  BY <1>1
<1> QED BY <1>2 DEF TasksInv, Item

\* A call: the abstract queue does nothing yet.
LEMMA TaskCalls ==
  ASSUME TasksInv, NEW t \in Thread, Call(t), phaseBar[t] = "idle",
         phaseBar'[t] \in {"enq", "deq"}
  PROVE  /\ IInv' /\ KnowInv' /\ UNCHANGED <<itemsBar, seenBar, knownBar>>
         /\ \A u \in Thread \ {t} : phaseBar'[u] = phaseBar[u]
                                    /\ datumBar'[u] = datumBar[u] /\ ret'[u] = ret[u]
<1>1. /\ IInv' /\ KnowInv' /\ Queue!Next
      /\ \A u \in Thread \ {t} : phaseBar'[u] = phaseBar[u]
                                 /\ datumBar'[u] = datumBar[u] /\ ret'[u] = ret[u]
  BY QueueStep DEF TasksInv
<1>2. (\E v \in Value : Queue!CallEnqueue(t, v)) \/ Queue!CallDequeue(t)
  BY <1>1, WhoseStep
     DEF TasksInv, Queue!Step, Queue!Enqueue, Queue!ReturnEnqueue, Queue!Dequeue,
         Queue!ReturnDequeue, Queue!FindEmpty, Queue!ReturnEmpty
<1> QED BY <1>1, <1>2 DEF Queue!CallEnqueue, Queue!CallDequeue

LEMMA EnqueueBegins ==
  ASSUME TasksInv, NEW t \in Thread, TaskEnqueue(t)
  PROVE  TasksInv'
<1>0. /\ TaskInv(t) /\ TypeOK /\ sent \in [Thread -> Nat]
      /\ received \in [Thread -> Seq(Item)]
  BY DEF TasksInv, IInv
<1>1. PICK k \in 1..Items, v \in Value : k = sent[t] + 1 /\ v = <<t, k>>
  <2>1. sent[t] + 1 \in 1..Items
    BY <1>0, Types DEF TaskInv, TaskEnqueue
  <2> QED BY <2>1, Types
<1>2. /\ EnqueueCall(t, v) /\ received' = received
      /\ sent' = [sent EXCEPT ![t] = k]
  BY <1>1 DEF TaskEnqueue
<1>3. pc[t] = "idle" /\ pc'[t] = "e_tail" /\ ret'[t] = "void" /\ value'[node'[t]] = v
  BY <1>0, <1>2 DEF EnqueueCall, Goto, TypeOK
<1>4. phaseBar[t] = "idle" /\ phaseBar'[t] = "enq" /\ datumBar'[t] = v
  BY <1>3 DEF phaseBar, datumBar, EnqueuePC
<1>5. /\ IInv' /\ KnowInv' /\ UNCHANGED <<itemsBar, seenBar, knownBar>>
      /\ \A u \in Thread \ {t} : phaseBar'[u] = phaseBar[u]
                                 /\ datumBar'[u] = datumBar[u] /\ ret'[u] = ret[u]
  BY <1>2, <1>4, TaskCalls DEF Call
<1>6. Frame(t)
  BY <1>0, <1>2, <1>5 DEF Frame
<1>7. sent'[t] = k /\ received'[t] = received[t] /\ sent' \in [Thread -> Nat]
  BY <1>0, <1>1, <1>2
<1>8. Put' = Put /\ Got' = Got
  <2>1. Put'[t] = Put[t] /\ Got'[t] = Got[t]
    BY <1>0, <1>1, <1>4, <1>7 DEF Put, Got
  <2> QED BY <1>6, <2>1, ContentFrame
<1>9. ListedInv' /\ TakenInv' /\ SeenInv'
  <2>1. \A u \in Thread : knownBar[u] <= knownBar'[u]
    BY <1>5, Types
  <2> QED BY <1>5, <1>8, <2>1, QuietKeeps
<1>10. TaskInv(t)'
  <2>1. received[t] = <<>>
    BY <1>0, <1>1, Types DEF TaskInv, TaskEnqueue
  <2> QED BY <1>0, <1>1, <1>3, <1>4, <1>7, <1>8, <2>1 DEF TaskInv, Item
<1> QED BY <1>0, <1>2, <1>5, <1>6, <1>7, <1>9, <1>10, TaskAssemble

LEMMA DequeueBegins ==
  ASSUME TasksInv, NEW t \in Thread, TaskDequeue(t)
  PROVE  TasksInv'
<1>0. /\ TaskInv(t) /\ TypeOK /\ sent \in [Thread -> Nat]
      /\ received \in [Thread -> Seq(Item)]
  BY DEF TasksInv, IInv
<1>1. /\ DequeueCall(t) /\ received' = received /\ sent' = sent
      /\ sent[t] = Items /\ Len(received[t]) < Items
  BY DEF TaskDequeue
<1>2. pc[t] = "idle" /\ pc'[t] = "d_head" /\ ret'[t] = "void"
  BY <1>0, <1>1 DEF DequeueCall, Goto, TypeOK
<1>3. phaseBar[t] = "idle" /\ phaseBar'[t] = "deq"
  BY <1>2 DEF phaseBar, EnqueuePC
<1>4. /\ IInv' /\ KnowInv' /\ UNCHANGED <<itemsBar, seenBar, knownBar>>
      /\ \A u \in Thread \ {t} : phaseBar'[u] = phaseBar[u]
                                 /\ datumBar'[u] = datumBar[u] /\ ret'[u] = ret[u]
  BY <1>1, <1>3, TaskCalls DEF Call
<1>5. Frame(t)
  BY <1>1, <1>4 DEF Frame
<1>6. Put' = Put /\ Got' = Got
  <2>1. Put'[t] = Put[t] /\ Got'[t] = Got[t]
    BY <1>1, <1>3 DEF Put, Got
  <2> QED BY <1>5, <2>1, ContentFrame
<1>7. ListedInv' /\ TakenInv' /\ SeenInv'
  <2>1. \A u \in Thread : knownBar[u] <= knownBar'[u]
    BY <1>4, Types
  <2> QED BY <1>4, <1>6, <2>1, QuietKeeps
<1>8. TaskInv(t)'
  <2>1. ~(sent[t] < Items)
    BY <1>1, Types
  <2> QED BY <1>0, <1>1, <1>2, <1>3, <1>6, <2>1 DEF TaskInv, Item
<1> QED BY <1>0, <1>1, <1>4, <1>5, <1>7, <1>8, TaskAssemble

\* Inside the queue's code a task has a phase that says so, and true is
\* returned with the value that was taken.
LEMMA InQueue ==
  ASSUME TypeOK, NEW t \in Thread, EnqueueStep(t) \/ DequeueStep(t),
         phaseBar[t] # "foundEmpty", ret[t] # "false"
  PROVE  /\ phaseBar[t] # "idle" /\ ret'[t] # "false"
         /\ phaseBar[t] = "dequeued" <=> pc[t] = "d_return"
         /\ pc[t] = "d_return" => phaseBar'[t] = "idle" /\ datumBar[t] = out[t]
<1>1. pc[t] \in EnqueuePC \cup DequeuePC /\ pc[t] # "d_empty"
  <2>1. pc[t] # "d_empty"
    BY DEF phaseBar, EnqueuePC
  <2> QED BY <2>1
     DEF EnqueueStep, EnqueueLoadTail, EnqueueLoadNext, EnqueueCheckTail, EnqueueLink,
         EnqueueLinkFails, EnqueueHelpTail, EnqueueSwingTail, DequeueStep,
         DequeueLoadHead, DequeueLoadTail, DequeueLoadNext, DequeueCheckHead,
         DequeueHelpTail, DequeueReadValue, DequeueSwingHead, DequeueSwingFails,
         DequeueReturn, Goto, EnqueuePC, DequeuePC
<1>2. phaseBar[t] # "idle" /\ (phaseBar[t] = "dequeued" <=> pc[t] = "d_return")
  BY <1>1 DEF phaseBar, EnqueuePC, DequeuePC
<1>3. ret'[t] # "false" /\ (pc[t] = "d_return" => pc'[t] = "idle")
  <2>1. CASE DequeueReturn(t)
    BY <1>1, <2>1 DEF DequeueReturn, Goto, TypeOK
  <2>2. CASE ~DequeueReturn(t)
    BY <2>2
     DEF EnqueueStep, EnqueueLoadTail, EnqueueLoadNext, EnqueueCheckTail, EnqueueLink,
         EnqueueLinkFails, EnqueueHelpTail, EnqueueSwingTail, DequeueStep,
         DequeueLoadHead, DequeueLoadTail, DequeueLoadNext, DequeueCheckHead,
         DequeueHelpTail, HelpTail, DequeueReadValue, DequeueSwingHead,
         DequeueSwingFails, Goto, caller
  <2> QED BY <2>1, <2>2
<1>4. pc[t] = "d_return" => phaseBar'[t] = "idle" /\ datumBar[t] = out[t]
  BY <1>3 DEF phaseBar, datumBar, EnqueuePC
<1> QED BY <1>2, <1>3, <1>4

LEMMA InQueueKeeps ==
  ASSUME TasksInv, NEW t \in Thread, TaskInQueue(t)
  PROVE  TasksInv'
<1>0. /\ TaskInv(t) /\ TypeOK /\ sent \in [Thread -> Nat] /\ sent' = sent
      /\ received \in [Thread -> Seq(Item)] /\ DOMAIN phaseBar = Thread
      /\ EnqueueStep(t) \/ DequeueStep(t)
  BY DEF TasksInv, IInv, TaskInQueue, phaseBar
<1>1. /\ phaseBar[t] # "idle" /\ phaseBar[t] # "foundEmpty" /\ ret'[t] # "false"
      /\ phaseBar[t] = "dequeued" <=> pc[t] = "d_return"
      /\ pc[t] = "d_return" => phaseBar'[t] = "idle" /\ datumBar[t] = out[t]
  BY <1>0, InQueue DEF TaskInv
<1>2. /\ IInv' /\ KnowInv' /\ Queue!Next
      /\ \A u \in Thread \ {t} : phaseBar'[u] = phaseBar[u]
                                 /\ datumBar'[u] = datumBar[u] /\ ret'[u] = ret[u]
  BY <1>0, QueueStep DEF TasksInv
<1>3. /\ phaseBar[t] # "dequeued" => received' = received
      /\ phaseBar[t] = "dequeued" =>
           received' = [received EXCEPT ![t] = Got[t]]
  BY <1>1 DEF TaskInQueue, Got
<1>4. /\ received' \in [Thread -> Seq(Item)] /\ sent'[t] = sent[t]
      /\ \A u \in Thread \ {t} : received'[u] = received[u]
      /\ phaseBar[t] = "dequeued" => received'[t] = Got[t]
  <2>1. PICK q \in Seq(Item) : q = Got[t]
    BY Types
  <2>2. received' = received \/ received' = [received EXCEPT ![t] = q]
    BY <1>3, <2>1
  <2>3. received' \in [Thread -> Seq(Item)]
    BY <1>0, <2>1, <2>2
  <2>4. \A u \in Thread \ {t} : received'[u] = received[u]
    BY <1>0, <2>2
  <2>5. phaseBar[t] = "dequeued" => received'[t] = q
    BY <1>0, <1>3, <2>1
  <2> QED BY <1>0, <2>1, <2>3, <2>4, <2>5
<1>5. Frame(t)
  BY <1>0, <1>2, <1>4 DEF Frame
<1>6. ASSUME Put'[t] = Put[t], Got'[t] = Got[t], UNCHANGED <<itemsBar, seenBar>>,
             \A u \in Thread : knownBar[u] <= knownBar'[u]
      PROVE  ListedInv' /\ TakenInv' /\ SeenInv'
  BY <1>2, <1>5, <1>6, ContentFrame, QuietKeeps
<1>7. knownBar \in [Thread -> Nat] /\ Len(itemsBar) \in Nat
  BY KnownTypes DEF TasksInv, KnownOK
<1>8. CASE /\ UNCHANGED <<itemsBar, seenBar, phaseBar, datumBar>>
           /\ \A u \in Thread : knownBar[u] <= knownBar'[u]
  <2>1. received' = received
    BY <1>0, <1>1, <1>3, <1>8
  <2>2. Put'[t] = Put[t] /\ Got'[t] = Got[t]
    BY <1>0, <1>8, <2>1 DEF Put, Got
  <2>3. TaskInv(t)'
    BY <1>0, <1>1, <1>8, <2>1, <2>2 DEF TaskInv, Item
  <2> QED BY <1>0, <1>2, <1>4, <1>5, <1>6, <1>8, <2>2, <2>3, TaskAssemble
<1>9. CASE Queue!Enqueue(t)
  <2>1. phaseBar[t] = "enq" /\ phaseBar'[t] = "enqueued"
    BY <1>0, <1>9 DEF Queue!Enqueue, Queue!Step
  <2>2. received' = received /\ Got'[t] = Got[t]
    BY <1>3, <2>1 DEF Got
  <2>3. ListedInv' /\ TakenInv' /\ SeenInv'
    BY <1>0, <1>2, <1>9, <2>2, EnqueueKeeps
  <2>4. TaskInv(t)'
    BY <1>0, <1>1, <2>1, <2>2 DEF TaskInv, Item
  <2> QED BY <1>0, <1>2, <1>4, <1>5, <2>3, <2>4, TaskAssemble
<1>10. CASE Queue!ReturnEnqueue(t)
  <2>1. /\ phaseBar[t] = "enqueued" /\ phaseBar'[t] = "idle"
        /\ UNCHANGED <<itemsBar, seenBar>>
    BY <1>0, <1>10 DEF Queue!ReturnEnqueue, Queue!Step
  <2>2. received' = received /\ Put'[t] = Put[t] /\ Got'[t] = Got[t]
    BY <1>0, <1>3, <2>1 DEF Put, Got
  <2>3. \A u \in Thread : knownBar[u] <= knownBar'[u]
    BY <1>7, <1>10 DEF Queue!ReturnEnqueue, Queue!Learns
  <2>4. TaskInv(t)'
    BY <1>0, <1>1, <2>1, <2>2 DEF TaskInv, Item
  <2> QED BY <1>0, <1>2, <1>4, <1>5, <1>6, <2>1, <2>2, <2>3, <2>4, TaskAssemble
<1>11. CASE Queue!Dequeue(t)
  <2>1. phaseBar[t] = "deq" /\ phaseBar'[t] = "dequeued"
    BY <1>0, <1>11 DEF Queue!Dequeue, Queue!Step
  <2>2. received' = received
    BY <1>3, <2>1
  <2>3. ListedInv' /\ TakenInv' /\ SeenInv' /\ Len(Got'[t]) <= Items
    BY <1>0, <1>2, <1>11, <2>2, DequeueKeeps
  <2>4. TaskInv(t)'
    BY <1>0, <1>1, <2>1, <2>2, <2>3 DEF TaskInv, Item
  <2> QED BY <1>0, <1>2, <1>4, <1>5, <2>3, <2>4, TaskAssemble
<1>12. CASE Queue!ReturnDequeue(t)
  <2>1. /\ phaseBar[t] = "dequeued" /\ phaseBar'[t] = "idle"
        /\ UNCHANGED <<itemsBar, seenBar, knownBar>>
    BY <1>0, <1>12 DEF Queue!ReturnDequeue, Queue!Step
  <2>2. received'[t] = Got[t] /\ Put'[t] = Put[t] /\ Got'[t] = Got[t]
    <3>1. received'[t] = Got[t]
      BY <1>4, <2>1
    <3>2. Put'[t] = Put[t] /\ Got'[t] = received'[t]
      BY <1>4, <2>1 DEF Put, Got
    <3> QED BY <3>1, <3>2
  <2>3. \A u \in Thread : knownBar[u] <= knownBar'[u]
    BY <1>7, <2>1
  <2>4. TaskInv(t)'
    BY <1>0, <1>1, <1>4, <2>1, <2>2 DEF TaskInv, Item
  <2> QED BY <1>0, <1>2, <1>4, <1>5, <1>6, <2>1, <2>2, <2>3, <2>4, TaskAssemble
<1>13. ~Queue!FindEmpty(t)
  BY NeverEmpty
<1>14. ~Queue!ReturnEmpty(t) /\ ~Queue!CallDequeue(t) /\ ~\E v \in Value : Queue!CallEnqueue(t, v)
  BY <1>1 DEF Queue!ReturnEmpty, Queue!CallDequeue, Queue!CallEnqueue, Queue!Step
<1> QED BY <1>2, <1>8, <1>9, <1>10, <1>11, <1>12, <1>13, <1>14, WhoseStep DEF TasksInv

LEMMA TaskNextKeepsInv == TasksInv /\ [TaskNext]_taskVars => TasksInv'
<1> SUFFICES ASSUME TasksInv, [TaskNext]_taskVars PROVE TasksInv'
  OBVIOUS
<1>1. CASE TaskNext
  BY <1>1, EnqueueBegins, DequeueBegins, InQueueKeeps DEF TaskNext
<1>2. CASE UNCHANGED taskVars
  <2>1. UNCHANGED vars /\ sent' = sent /\ received' = received
    BY <1>2 DEF taskVars
  <2>2. IInv' /\ KnowInv' /\ UNCHANGED Queue!vars
    BY <2>1, NextKeepsIInv, NextKeepsKnowInv, StutterRefines DEF TasksInv
  <2>3. UNCHANGED <<itemsBar, seenBar, knownBar, phaseBar, datumBar, ret>>
    BY <2>1, <2>2 DEF vars, caller, Queue!vars
  <2>4. Put' = Put /\ Got' = Got
    BY <2>1, <2>3 DEF Put, Got
  <2>5. ListedInv' /\ TakenInv' /\ SeenInv'
    <3>1. \A u \in Thread : knownBar[u] <= knownBar'[u]
      BY <2>3, Types
    <3> QED BY <2>2, <2>3, <2>4, <3>1, QuietKeeps
  <2>6. \A t \in Thread : TaskInv(t)'
    BY <2>1, <2>3, <2>4 DEF TasksInv, TaskInv, Item
  <2> QED BY <2>1, <2>2, <2>5, <2>6 DEF TasksInv, Item
<1> QED BY <1>1, <1>2

LEMMA InitTasksInv == TaskInit => TasksInv
<1> SUFFICES ASSUME TaskInit PROVE TasksInv
  OBVIOUS
<1>1. /\ Init /\ sent = [t \in Thread |-> 0] /\ received = [t \in Thread |-> <<>>]
      /\ \A t \in Thread : ret[t] = "void"
  BY DEF TaskInit, Init
<1>2. IInv /\ KnowInv /\ Queue!Init
  BY <1>1, InitIInv, InitKnows, InitRefines
<1>3. /\ itemsBar = <<>> /\ seenBar = <<>>
      /\ phaseBar = [t \in Thread |-> "idle"]
  BY <1>2 DEF Queue!Init
<1>4. \A t \in Thread : Put[t] = 0 /\ Got[t] = <<>> /\ Len(Got[t]) = 0
  BY <1>1, <1>3 DEF Put, Got
<1>5. Len(itemsBar) = 0 /\ Taken = 0 /\ itemsBar \in Seq(Item) /\ seenBar \in Seq(Nat)
  BY <1>3 DEF Taken
<1>6. ListedInv
  <2>1. \A e \in Item : e[1] \in Thread /\ e[2] \in 1..Items
    BY DEF Item
  <2>2. \A e \in Item : ~(e[2] <= Put[e[1]])
    BY <1>4, <2>1, TaskAssumption
  <2> QED BY <1>5, <2>2 DEF ListedInv
<1>7. TakenInv /\ SeenInv
  BY <1>4, <1>5 DEF TakenInv, SeenInv
<1>8. ASSUME NEW t \in Thread PROVE TaskInv(t)
  <2>1. /\ sent[t] = 0 /\ received[t] = <<>> /\ <<>> \in Seq(Item)
        /\ phaseBar[t] = "idle" /\ ret[t] = "void" /\ Len(Got[t]) = 0
    BY <1>1, <1>3, <1>4
  <2>2. 0 \in 0..Items /\ 0 <= Items
    BY TaskAssumption
  <2> QED BY <2>1, <2>2 DEF TaskInv
<1> QED BY <1>1, <1>2, <1>6, <1>7, <1>8 DEF TasksInv

\* The invariant of the test programs, whatever stale values they read.
THEOREM TasksInvariance == TaskSpec => []TasksInv
BY InitTasksInv, TaskNextKeepsInv, PTL DEF TaskSpec

\* test_2threads asserts that its dequeues succeed: so does every dequeue of
\* every such program, with any number of threads and items, although the
\* queue for weak memory may return false when it is not empty.
THEOREM NoDequeueFails == TaskSpec => []EveryDequeueSucceeds
<1>1. TasksInv => EveryDequeueSucceeds
  BY DEF TasksInv, TaskInv, EveryDequeueSucceeds
<1> QED BY TasksInvariance, <1>1, PTL

\* in_sum == out_sum: no value is dequeued twice, and after the join each
\* value enqueued has been dequeued by somebody.
THEOREM SumsAgree == TaskSpec => []JoinBalanced
<1>1. ASSUME TasksInv PROVE JoinBalanced
  <2>0. ListedInv /\ TakenInv
    BY <1>1 DEF TasksInv
  <2>1. \A t, u \in Thread : \A i \in 1..Len(Got[t]) : \A j \in 1..Len(Got[u]) :
          Got[t][i] = Got[u][j] => t = u /\ i = j
    BY <2>0 DEF TakenInv
  <2>2. \A t \in Thread : \A i \in 1..Len(Got[t]) : \E k \in 1..Taken : itemsBar[k] = Got[t][i]
    BY <2>0 DEF TakenInv
  <2>3. ASSUME NEW t \in Thread
        PROVE  /\ received[t] \in Seq(Item)
               /\ \A i \in DOMAIN received[t] :
                    i \in 1..Len(Got[t]) /\ Got[t][i] = received[t][i]
    <3>1. received[t] \in Seq(Item) /\ Got[t] \in Seq(Item)
      BY <1>1, Types DEF TasksInv
    <3>2. CASE phaseBar[t] # "dequeued"
      BY <3>1, <3>2 DEF Got
    <3>3. CASE phaseBar[t] = "dequeued"
      <4>1. Got[t] = Append(received[t], datumBar[t])
        BY <3>3 DEF Got
      <4> QED BY <3>1, <4>1
    <3> QED BY <3>1, <3>2, <3>3
  <2>4. ASSUME NEW t \in Thread, NEW u \in Thread
        PROVE  /\ IsInjective(received[t])
               /\ t # u => ToSet(received[t]) \cap ToSet(received[u]) = {}
    <3>1. \A i, j \in DOMAIN received[t] : received[t][i] = received[t][j] => i = j
      BY <2>3, <2>1
    <3>2. \A i \in DOMAIN received[t] : \A j \in DOMAIN received[u] :
            received[t][i] = received[u][j] => t = u
      BY <2>3, <2>1
    <3>3. IsInjective(received[t])
      BY <3>1 DEF IsInjective
    <3>4. t # u => ToSet(received[t]) \cap ToSet(received[u]) = {}
      BY <3>2 DEF ToSet
    <3> QED BY <3>3, <3>4
  <2>5. ASSUME AllDone
        PROVE  UNION {ToSet(received[t]) : t \in Thread} = Item
    <3>1. \A t \in Thread : Put[t] = Items /\ Got[t] = received[t] /\ Len(Got[t]) = Items
      <4> TAKE t \in Thread
      <4>1. pc[t] = "idle" /\ Len(received[t]) = Items
        BY <2>5 DEF AllDone
      <4>2. phaseBar[t] = "idle"
        BY <4>1 DEF phaseBar, EnqueuePC
      <4>3. sent[t] = Items
        <5>1. Len(received[t]) # 0 /\ sent[t] \in 0..Items /\ Items \in Nat
          BY <1>1, <4>1, Types DEF TasksInv, TaskInv
        <5>2. ~(sent[t] < Items)
          BY <1>1, <5>1 DEF TasksInv, TaskInv
        <5> QED BY <5>1, <5>2
      <4> QED BY <4>1, <4>2, <4>3 DEF Put, Got
    <3>2. PICK n, m \in Nat : n = Len(itemsBar) /\ m = Taken
      BY <1>1, Types
    <3>3. IsFiniteSet(1..n) /\ Cardinality(1..n) = n /\ IsFiniteSet(1..m) /\ Cardinality(1..m) = m
      <4>1. \A k \in Nat : 1 \in Int /\ k \in Int /\ (IF 1 > k THEN 0 ELSE k - 1 + 1) = k
        OBVIOUS
      <4> QED BY <4>1, FS_Interval
    <3>4. IsFiniteSet(Item) /\ n <= Cardinality(Item)
      <4>1. \A e \in Item : \E i \in 1..n : itemsBar[i] = e
        BY <1>1, <2>0, <3>1, <3>2, Types DEF ListedInv
      <4>2. PICK g : g = [e \in Item |-> CHOOSE i \in 1..n : itemsBar[i] = e]
        OBVIOUS
      <4>3. \A e \in Item : g[e] \in 1..n /\ itemsBar[g[e]] = e
        BY <4>1, <4>2
      <4>4. g \in Injection(Item, 1..n)
        BY <4>2, <4>3 DEF Injection, IsInjective
      <4>5. IsFiniteSet(Item)
        BY <3>3, <4>4, FS_Injection
      <4>6. PICK h : h = [i \in 1..n |-> itemsBar[i]]
        OBVIOUS
      <4>7. h \in Injection(1..n, Item)
        BY <1>1, <2>0, <3>2, <4>6, Types DEF ListedInv, Injection, IsInjective
      <4> QED BY <3>3, <4>5, <4>7, FS_Injection
    <3>5. Cardinality(Item) <= m /\ Cardinality(Item) \in Nat
      <4>1. \A e \in Item : \E k \in 1..m : itemsBar[k] = Got[e[1]][e[2]]
        <5> TAKE e \in Item
        <5>1. e[1] \in Thread /\ e[2] \in 1..Len(Got[e[1]])
          BY <1>1, <3>1, Types
        <5> QED BY <2>2, <3>2, <5>1
      <4>2. PICK d : d = [e \in Item |-> CHOOSE k \in 1..m : itemsBar[k] = Got[e[1]][e[2]]]
        OBVIOUS
      <4>3. \A e \in Item : d[e] \in 1..m /\ itemsBar[d[e]] = Got[e[1]][e[2]]
        BY <4>1, <4>2
      <4>4. ASSUME NEW e \in Item, NEW f \in Item, d[e] = d[f] PROVE e = f
        <5>1. Got[e[1]][e[2]] = Got[f[1]][f[2]]
          BY <4>3, <4>4
        <5>2. /\ e[1] \in Thread /\ e[2] \in 1..Len(Got[e[1]]) /\ e = <<e[1], e[2]>>
              /\ f[1] \in Thread /\ f[2] \in 1..Len(Got[f[1]]) /\ f = <<f[1], f[2]>>
          BY <1>1, <3>1, Types
        <5>3. e[1] = f[1] /\ e[2] = f[2]
          BY <2>1, <5>1, <5>2
        <5> QED BY <5>2, <5>3
      <4>5. d \in Injection(Item, 1..m)
        BY <4>2, <4>3, <4>4 DEF Injection, IsInjective
      <4> QED BY <3>3, <3>4, <4>5, FS_Injection, FS_CardinalityType
    <3>6. \A i \in 1..n : i \in 1..Taken
      BY <3>2, <3>4, <3>5
    <3>7. ASSUME NEW e \in Item PROVE \E t \in Thread : e \in ToSet(received[t])
      <4>0. e[1] \in Thread /\ e[2] <= Put[e[1]]
        BY <1>1, <3>1, Types
      <4>1. PICK i \in 1..n : itemsBar[i] = e
        BY <2>0, <3>2, <4>0 DEF ListedInv
      <4>2. PICK t \in Thread : \E k \in 1..Len(Got[t]) : Got[t][k] = e
        BY <2>0, <3>6, <4>1 DEF TakenInv
      <4> QED BY <2>3, <3>1, <4>2 DEF ToSet
    <3>8. ASSUME NEW t \in Thread PROVE ToSet(received[t]) \subseteq Item
      BY <2>3 DEF ToSet
    <3> QED BY <3>7, <3>8
  <2> QED BY <2>4, <2>5 DEF JoinBalanced, Item
<1> QED BY TasksInvariance, <1>1, PTL

\* A task calls the queue, or takes a step in it.
LEMMA TaskSteps ==
  ASSUME TasksInv, NEW t \in Thread, TaskEnqueue(t) \/ TaskDequeue(t) \/ TaskInQueue(t)
  PROVE  Call(t) \/ EnqueueStep(t) \/ DequeueStep(t)
<1>1. ASSUME TaskEnqueue(t) PROVE Call(t)
  <2>1. sent[t] + 1 \in 1..Items
    BY <1>1, Types DEF TaskEnqueue, TasksInv, TaskInv
  <2>2. <<t, sent[t] + 1>> \in Value
    BY <2>1, Types
  <2> QED BY <1>1, <2>2 DEF TaskEnqueue, Call
<1> QED BY <1>1 DEF TaskDequeue, TaskInQueue, Call

\* The tasks only call the queue: what is proved of it holds of them.
THEOREM TasksUseTheQueue == TaskSpec => Spec
<1>1. TaskInit => Init
  BY DEF TaskInit
<1>2. TasksInv /\ [TaskNext]_taskVars => [Next]_vars
  <2> SUFFICES ASSUME TasksInv, [TaskNext]_taskVars PROVE [Next]_vars
    OBVIOUS
  <2>1. CASE TaskNext
    BY <2>1, TaskSteps DEF TaskNext, Next
  <2> QED BY <2>1 DEF taskVars
<1> QED BY <1>1, <1>2, TasksInvariance, PTL DEF TaskSpec, Spec

-----------------------------------------------------------------------------
(* Where a task finds a next                                               *)

USE DEF EnqueuePC, DequeuePC, Inserting, Goto, Newest, NewestVal

\* A thread sees its own items, and all that comes before them.
OwnSight ==
  \A t \in Thread : \A i \in 1..Len(itemsBar) : itemsBar[i][1] = t => Has(t, i + 1)

\* So does who acquires head from it.
TakenSight ==
  \A k \in 1..Taken : \A t \in Thread : \A i \in 1..Len(Got[t]) :
    Got[t][i] = itemsBar[k] =>
      \A j \in 1..Len(itemsBar) : itemsBar[j][1] = t =>
        Sees(memory[head][k + 1].view, memory[head][k + 1].view, list, j + 1)

\* What a dequeue has loaded from next is not the null of the constructor.
Found == \A t \in Thread :
           pc[t] \in {"d_check", "d_help", "d_value", "d_swing"} => lnext[t] \in Node

FoundInv == OwnSight /\ TakenSight /\ Found

\* Lengths, and the messages of head behind the items taken.
LEMMA Lengths ==
  ASSUME TasksInv
  PROVE  /\ Len(list) \in Nat \ {0} /\ Len(itemsBar) = Len(list) - 1
         /\ Newest(head) \in 1..Len(list) /\ Taken = Newest(head) - 1
         /\ \A i \in 1..Len(list) : list[i] \in Node
         /\ \A i \in 1..Newest(head) : memory[head][i].view \in [Location -> Nat]
         /\ \A i \in 1..Len(itemsBar) : itemsBar[i] = value[list[i + 1]]
<1>1. IInv /\ TypeOK
  BY DEF TasksInv, IInv
<1>2. /\ Len(list) \in Nat \ {0} /\ Newest(head) \in 1..Len(list)
      /\ \A i \in 1..Len(list) : list[i] \in Node
  BY <1>1, ListFacts
<1>3. /\ Len(itemsBar) = Len(list) - 1
      /\ \A i \in 1..Len(itemsBar) : itemsBar[i] = value[list[i + 1]]
  BY <1>2 DEF itemsBar
<1>4. Taken = Newest(head) - 1
  BY <1>2 DEF Taken, seenBar
<1>5. \A i \in 1..Newest(head) : memory[head][i].view \in [Location -> Nat]
  BY <1>1, LoadedPointer, Locations
<1> QED BY <1>2, <1>3, <1>4, <1>5

\* A dequeue that is about to load the next of its head sees that there is one.
LEMMA NextIsSeen ==
  ASSUME TasksInv, SightInv, OwnSight, TakenSight, NEW t \in Thread, pc[t] = "d_next"
  PROVE  \E i \in 1..Len(list) :
           cur_head[t] = list[i] /\ Has(t, i) /\ view[t][next(list[i])] >= 3
<1>0. IInv /\ KnowInv /\ DequeueKnows(t) /\ LocalSight(t) /\ TypeOK
  BY DEF TasksInv, KnowInv, SightInv, IInv
<1>1. PICK i \in 1..Newest(head) :
        /\ cur_head[t] = list[i]
        /\ \A k \in Location \ {head} : memory[head][i].view[k] <= view[t][k]
  BY <1>0 DEF DequeueKnows
<1>2. i \in 1..Len(list) /\ i \in Nat \ {0} /\ list[i] \in Node /\ Len(list) \in Nat
  BY Lengths
<1>3. Has(t, i)
  <2>1. PICK x \in 1..Newest(head) : cur_head[t] = list[x] /\ Has(t, x)
    BY <1>0 DEF LocalSight
  <2>2. x \in 1..Len(list)
    BY Lengths
  <2>3. x = i
    BY <1>0, <1>1, <1>2, <2>1, <2>2, ListFacts
  <2> QED BY <2>1, <2>3
<1>4. PICK p \in Nat : p = i - 1 /\ p <= Taken /\ Taken \in Nat
  <2>1. i - 1 \in Nat /\ i - 1 <= Taken /\ Taken \in Nat
    BY <1>2, Lengths
  <2> QED BY <2>1
<1>5. phaseBar[t] = "deq"
  BY DEF phaseBar
<1>6. PICK u \in Thread, j \in 1..Len(itemsBar) :
        /\ j > p /\ itemsBar[j][1] = u
        /\ u = t \/ \E x \in 1..p : \E y \in 1..Len(Got[u]) : Got[u][y] = itemsBar[x]
  BY <1>4, <1>5, Beyond
<1>7. i \in 1..(j + 1) /\ i < j + 1 /\ j \in Nat
  <2>1. j \in Nat
    BY Types
  <2> QED BY <1>2, <1>4, <1>6, <2>1
<1>8. PICK n \in Node : n = list[i] /\ next(n) \in Location /\ next(n) # head
  BY <1>2, Locations
<1>9. view[t][next(n)] >= 3
  <2>1. CASE u = t
    <3>1. Has(t, j + 1)
      BY <1>6, <2>1 DEF OwnSight
    <3> QED BY <1>7, <1>8, <3>1 DEF Has, Sees
  <2>2. CASE u # t
    <3>1. PICK x \in 1..p : \E y \in 1..Len(Got[u]) : Got[u][y] = itemsBar[x]
      BY <1>6, <2>2
    <3>2. x \in 1..Taken /\ x + 1 \in 1..Newest(head) /\ x + 1 <= i
      <4>1. x \in Nat /\ x <= p /\ 1 <= x
        BY <1>4
      <4> QED BY <1>2, <1>4, <4>1, Lengths
    <3>3. Sees(memory[head][x + 1].view, memory[head][x + 1].view, list, j + 1)
      BY <1>6, <3>1, <3>2 DEF TakenSight
    <3>4. memory[head][x + 1].view[next(n)] >= 3
      BY <1>7, <1>8, <3>3 DEF Sees
    <3>5. memory[head][x + 1].view[next(n)] <= memory[head][i].view[next(n)]
      BY <3>2 DEF SightInv, HeadSight
    <3>6. memory[head][i].view[next(n)] <= view[t][next(n)]
      BY <1>1, <1>8
    <3>7. PICK a, b, c \in Nat :
            /\ a = memory[head][x + 1].view[next(n)]
            /\ b = memory[head][i].view[next(n)] /\ c = view[t][next(n)]
      BY <1>0, <1>8, <3>2, Lengths DEF TypeOK
    <3>8. a >= 3 /\ a <= b /\ b <= c
      BY <3>4, <3>5, <3>6, <3>7
    <3>9. c >= 3
      BY <3>8
    <3> QED BY <3>7, <3>9
  <2> QED BY <2>1, <2>2
<1> QED BY <1>1, <1>2, <1>3, <1>8, <1>9

\* Only the compare-and-swap of head changes what a task has got.
LEMMA GotStays ==
  ASSUME TasksInv, NEW t \in Thread, ~DequeueSwingHead(t),
         TaskEnqueue(t) \/ TaskDequeue(t) \/ TaskInQueue(t)
  PROVE  Got' = Got
<1>0. /\ TypeOK /\ TaskInv(t) /\ received \in [Thread -> Seq(Item)]
      /\ Call(t) \/ EnqueueStep(t) \/ DequeueStep(t)
  BY TaskSteps DEF TasksInv, IInv
<1>1. \A u \in Thread \ {t} : phaseBar'[u] = phaseBar[u] /\ datumBar'[u] = datumBar[u]
  BY <1>0, QueueStep DEF TasksInv
<1>2. CASE TaskEnqueue(t) \/ TaskDequeue(t)
  <2>1. received' = received /\ pc[t] = "idle" /\ pc'[t] \in {"e_tail", "d_head"}
    BY <1>0, <1>2 DEF TaskEnqueue, TaskDequeue, EnqueueCall, DequeueCall, TypeOK
  <2>2. phaseBar[t] # "dequeued" /\ phaseBar'[t] # "dequeued"
    BY <2>1 DEF phaseBar
  <2>3. \A u \in Thread : Got'[u] = Got[u]
    BY <1>1, <2>1, <2>2 DEF Got
  <2> QED BY <2>3 DEF Got
<1>3. CASE TaskInQueue(t) /\ pc[t] = "d_return"
  <2>1. received' = [received EXCEPT ![t] = Append(received[t], out[t])]
    BY <1>3 DEF TaskInQueue
  <2>2. /\ received'[t] = Append(received[t], out[t])
        /\ \A u \in Thread \ {t} : received'[u] = received[u]
    BY <1>0, <2>1
  <2>3. phaseBar[t] = "dequeued" /\ phaseBar'[t] = "idle" /\ datumBar[t] = out[t]
    BY <1>0, <1>3, InQueue DEF TaskInv, TaskInQueue
  <2>4. \A u \in Thread : Got'[u] = Got[u]
    BY <1>1, <2>2, <2>3 DEF Got
  <2> QED BY <2>4 DEF Got
<1>4. CASE TaskInQueue(t) /\ pc[t] # "d_return"
  <2>1. received' = received /\ (EnqueueStep(t) \/ DequeueStep(t))
    BY <1>4 DEF TaskInQueue
  <2>2. pc'[t] # "d_return"
    BY <1>0, <2>1
     DEF EnqueueStep, EnqueueLoadTail, EnqueueLoadNext, EnqueueCheckTail, EnqueueLink,
         EnqueueLinkFails, EnqueueHelpTail, EnqueueSwingTail, DequeueStep,
         DequeueLoadHead, DequeueLoadTail, DequeueLoadNext, DequeueCheckHead,
         DequeueHelpTail, DequeueReadValue, DequeueSwingFails, DequeueReturn, TypeOK
  <2>3. phaseBar[t] # "dequeued" /\ phaseBar'[t] # "dequeued"
    BY <1>4, <2>2 DEF phaseBar
  <2>4. \A u \in Thread : Got'[u] = Got[u]
    BY <1>1, <2>1, <2>3 DEF Got
  <2> QED BY <2>4 DEF Got
<1> QED BY <1>2, <1>3, <1>4

\* Linking adds an item of the thread that links.
LEMMA Linked ==
  ASSUME TasksInv, IInv', NEW t \in Thread, Remembers(t), EnqueueLink(t)
  PROVE  /\ Len(itemsBar') = Len(itemsBar) + 1 /\ Got[t] = <<>>
         /\ itemsBar'[Len(itemsBar) + 1][1] = t
         /\ \A i \in 1..Len(itemsBar) : itemsBar'[i] = itemsBar[i]
         /\ pc'[t] = "e_swing" /\ node'[t] = list'[Len(list')]
<1>0. /\ IInv /\ TypeOK /\ list \in Seq(Node) /\ TaskInv(t)
  BY DEF TasksInv, IInv, TypeOK
<1>1. /\ pc[t] = "e_link" /\ pc'[t] = "e_swing" /\ list' = Append(list, node[t])
      /\ node' = node /\ value' = value /\ node[t] \in Node
  BY <1>0, LinkExchange DEF EnqueueLink, locals, TypeOK
<1>2. PICK len \in Nat \ {0} : /\ len = Len(list) /\ Len(itemsBar) = len - 1
                               /\ \A i \in 1..len : list[i] \in Node
  BY Lengths
<1>3. /\ Len(list') = len + 1 /\ list'[len + 1] = node[t]
      /\ \A i \in 1..len : list'[i] = list[i]
  BY <1>0, <1>1, <1>2
<1>4. itemsBar' = [i \in 1..len |-> value[list'[i + 1]]]
  BY <1>1, <1>2, <1>3 DEF itemsBar
<1>5. Len(itemsBar') = len /\ itemsBar'[len] = value[node[t]]
  BY <1>2, <1>3, <1>4
<1>6. \A i \in 1..(len - 1) : itemsBar'[i] = itemsBar[i]
  <2> TAKE i \in 1..(len - 1)
  <2>1. i \in 1..len /\ i + 1 \in 1..len
    BY <1>2
  <2>2. itemsBar[i] = value[list[i + 1]]
    BY <1>2, Lengths
  <2> QED BY <1>3, <1>4, <2>1, <2>2
<1>7. phaseBar[t] = "enq" /\ datumBar[t] = value[node[t]]
  BY <1>1 DEF phaseBar, datumBar
<1>8. value[node[t]] = <<t, sent[t]>> /\ Got[t] = <<>>
  BY <1>0, <1>7 DEF TaskInv, Got
<1>9. (len - 1) + 1 = len /\ value[node[t]][1] = t
  BY <1>2, <1>8
<1> QED BY <1>1, <1>2, <1>3, <1>5, <1>6, <1>8, <1>9

\* The items stay the same unless one is linked.
LEMMA ItemsStay ==
  ASSUME TasksInv, NEW t \in Thread, Remembers(t), ~EnqueueLink(t),
         Call(t) \/ EnqueueStep(t) \/ DequeueStep(t)
  PROVE  list' = list /\ itemsBar' = itemsBar
<1>1. list' = list
  BY DEF Call, DequeueCall, EnqueueCall, HelpTail,
         EnqueueStep, EnqueueLoadTail, EnqueueLoadNext, EnqueueCheckTail,
         EnqueueLinkFails, EnqueueHelpTail, EnqueueSwingTail, DequeueStep,
         DequeueLoadHead, DequeueLoadTail, DequeueLoadNext, DequeueCheckHead,
         DequeueHelpTail, DequeueReadValue, DequeueSwingHead, DequeueSwingFails,
         DequeueReturn
<1> QED BY <1>1, ItemsFrame DEF TasksInv

\* A thread goes on seeing its own items, and sees the one it links.
LEMMA OwnStays ==
  ASSUME TasksInv, SightInv, OwnSight, IInv', SightInv', NEW t \in Thread, Remembers(t),
         Call(t) \/ EnqueueStep(t) \/ DequeueStep(t)
  PROVE  OwnSight'
<1>1. /\ \A u \in Thread : \A m \in 0..Len(list) : Has(u, m) => Has(u, m)'
      /\ \A i \in 1..Len(itemsBar) : i + 1 \in 0..Len(list)
  <2>1. SightFrame(t)
    BY SightFrames DEF TasksInv, Remembers
  <2>2. \A i \in 1..Len(itemsBar) : i + 1 \in 0..Len(list)
    BY Lengths
  <2> QED BY <2>1, <2>2, KeepsHas
<1>2. \A u \in Thread : \A i \in 1..Len(itemsBar) : itemsBar[i][1] = u => Has(u, i + 1)'
  BY <1>1 DEF OwnSight
<1>3. CASE ~EnqueueLink(t)
  BY <1>2, <1>3, ItemsStay DEF OwnSight
<1>4. CASE EnqueueLink(t)
  <2>0. PICK n \in Nat : n = Len(itemsBar) /\ Len(list) = n + 1
    <3>1. Len(itemsBar) \in Nat /\ Len(list) = Len(itemsBar) + 1
      BY Lengths
    <3> QED BY <3>1
  <2>1. /\ Len(itemsBar') = n + 1 /\ itemsBar'[n + 1][1] = t
        /\ \A i \in 1..n : itemsBar'[i] = itemsBar[i]
        /\ pc'[t] = "e_swing" /\ node'[t] = list'[Len(list')]
        /\ Len(list') = n + 2
    <3>1. /\ Len(itemsBar') = n + 1 /\ itemsBar'[n + 1][1] = t
          /\ \A i \in 1..n : itemsBar'[i] = itemsBar[i]
          /\ pc'[t] = "e_swing" /\ node'[t] = list'[Len(list')]
      BY <1>4, <2>0, Linked
    <3>2. Len(list') = Len(list) + 1
      <4>1. list' = Append(list, node[t]) /\ list \in Seq(Node) /\ node[t] \in Node
        BY <1>4, LinkExchange DEF TasksInv, IInv, TypeOK
      <4> QED BY <4>1
    <3> QED BY <2>0, <3>1, <3>2
  <2>2. Has(t, n + 2)'
    <3>1. LocalSight(t)'
      BY DEF SightInv
    <3>2. PICK i \in 1..(Len(list') - 1) : node'[t] = list'[i + 1] /\ Has(t, i + 1)'
      BY <2>1, <3>1 DEF LocalSight
    <3>3. \A x, y \in 1..Len(list') : list'[x] = list'[y] => x = y
      <4>1. IsInjective(list)' /\ list' \in Seq(Node)
        BY DEF IInv, NextInv, TypeOK
      <4> QED BY <4>1 DEF IsInjective
    <3>4. i + 1 \in 1..Len(list') /\ Len(list') \in 1..Len(list')
      BY <2>1
    <3>5. i + 1 = n + 2
      BY <2>1, <3>2, <3>3, <3>4
    <3> QED BY <3>2, <3>5
  <2>3. ASSUME NEW u \in Thread, NEW i \in 1..Len(itemsBar'), itemsBar'[i][1] = u
        PROVE  Has(u, i + 1)'
    <3>1. CASE i \in 1..n
      BY <1>2, <2>0, <2>1, <2>3, <3>1
    <3>2. CASE i = n + 1
      <4>1. u = t /\ i + 1 = n + 2
        BY <2>1, <2>3, <3>2
      <4> QED BY <2>2, <4>1
    <3> QED BY <2>1, <3>1, <3>2
  <2> QED BY <2>3 DEF OwnSight
<1> QED BY <1>3, <1>4

\* What is seen of a list is seen of a longer one.
LEMMA SeesLonger ==
  ASSUME NEW w \in [Location -> Nat], NEW x \in [Location -> Nat], NEW m \in Nat,
         NEW old, NEW new, Sees(w, w, old, m),
         \A n \in Node : w[next(n)] <= x[next(n)],
         \A j \in 1..m : old[j] \in Node /\ new[j] = old[j]
  PROVE  Sees(x, x, new, m)
BY SeesMore

\* The items of a thread stay behind the message that carries what it sees.
LEMMA TakenStays ==
  ASSUME TasksInv, SightInv, TakenSight, IInv', NEW t \in Thread, Remembers(t),
         ~DequeueSwingHead(t), TaskEnqueue(t) \/ TaskDequeue(t) \/ TaskInQueue(t)
  PROVE  TakenSight'
<1>0. /\ Call(t) \/ EnqueueStep(t) \/ DequeueStep(t)
      /\ Got' = Got /\ IInv
  BY TaskSteps, GotStays DEF TasksInv
<1>1. Newest(head)' = Newest(head)
  BY <1>0, HeadStays
<1>2. Taken' = Taken
  BY <1>0, <1>1, SeenFrame DEF Taken
<1>3. \A k \in 1..Taken : memory'[head][k + 1] = memory[head][k + 1]
                          /\ memory[head][k + 1].view \in [Location -> Nat]
                          /\ k \in 1..Len(itemsBar)
  <2> TAKE k \in 1..Taken
  <2>1. k + 1 \in 1..Newest(head)
    BY Lengths
  <2> QED BY <2>1, Lengths, Types DEF Remembers
<1>4. \A i \in 1..Len(list) : list[i] \in Node /\ list'[i] = list[i]
  BY Lengths DEF Remembers, MemoryOK, Evolves
<1>5. \A i \in 1..Len(itemsBar) : itemsBar'[i] = itemsBar[i]
  BY <1>0, ItemsStay, Linked
<1> SUFFICES ASSUME NEW k \in 1..Taken, NEW u \in Thread, NEW i \in 1..Len(Got[u]),
                    Got[u][i] = itemsBar[k],
                    NEW j \in 1..Len(itemsBar'), itemsBar'[j][1] = u
             PROVE  Sees(memory[head][k + 1].view, memory[head][k + 1].view, list', j + 1)
  BY <1>0, <1>2, <1>3, <1>5 DEF TakenSight
<1>6. j \in 1..Len(itemsBar) /\ itemsBar[j][1] = u
  <2>1. CASE EnqueueLink(t)
    <3>1. u # t
      <4>1. Got[t] = <<>>
        BY <2>1, Linked
      <4> QED BY <4>1
    <3>2. j # Len(itemsBar) + 1 /\ Len(itemsBar') = Len(itemsBar) + 1
      BY <2>1, <3>1, Linked
    <3>3. Len(itemsBar) \in Nat
      BY Types
    <3>4. j \in 1..Len(itemsBar)
      BY <3>2, <3>3
    <3> QED BY <1>5, <3>4
  <2>2. CASE ~EnqueueLink(t)
    BY <1>0, <2>2, ItemsStay
  <2> QED BY <2>1, <2>2
<1>7. PICK w \in [Location -> Nat] : w = memory[head][k + 1].view
  BY <1>3
<1>8. Sees(w, w, list, j + 1)
  BY <1>6, <1>7 DEF TakenSight
<1>9. j + 1 \in Nat /\ \A x \in 1..(j + 1) : x \in 1..Len(list)
  BY <1>6, Lengths
<1>10. \A n \in Node : w[next(n)] <= w[next(n)]
  BY Locations
<1>11. Sees(w, w, list', j + 1)
  BY <1>4, <1>8, <1>9, <1>10, SeesLonger
<1> QED BY <1>7, <1>11

\* Who takes an item leaves on head what it sees, its own items included.
LEMMA TakenGrows ==
  ASSUME TasksInv, SightInv, TakenSight, IInv', OwnSight', NEW t \in Thread,
         Remembers(t), DequeueSwingHead(t), TaskInQueue(t)
  PROVE  TakenSight'
<1>0. /\ IInv /\ KnowInv /\ TypeOK /\ TaskInv(t) /\ ListedInv /\ TakenInv /\ list' = list
      /\ received[t] \in Seq(Item) /\ pc[t] = "d_swing" /\ received' = received
      /\ DequeueStep(t)
  BY DEF TasksInv, IInv, DequeueSwingHead, TaskInQueue, DequeueStep
<1>1. Queue!Dequeue(t) /\ itemsBar' = itemsBar
  BY <1>0, SwingsHead, ItemsFrame
<1>2. PICK h \in Nat : h = Newest(head) /\ Taken = h - 1 /\ h >= 1
  BY Lengths
<1>20. PICK v : v = itemsBar[h]
  OBVIOUS
<1>3. PICK w \in [Location -> Nat] :
        /\ Newest(head)' = h + 1 /\ memory'[head][h + 1].view = w
        /\ \A i \in 1..h : memory'[head][i] = memory[head][i]
        /\ \A k \in Location : view'[t][k] <= w[k]
  BY <1>0, <1>2, HeadMessage
<1>4. Taken' = h
  BY <1>2, <1>3 DEF Taken, seenBar
<1>5. /\ phaseBar[t] = "deq" /\ phaseBar'[t] = "dequeued" /\ datumBar'[t] = v
      /\ h \in 1..Len(itemsBar)
  <2>1. DOMAIN phaseBar = Thread /\ DOMAIN datumBar = Thread /\ (h - 1) + 1 = h
    BY <1>2 DEF phaseBar, datumBar
  <2>2. Taken < knownBar[t]
    BY <1>1 DEF Queue!Dequeue, Queue!taken, Taken
  <2>3. h \in 1..Len(itemsBar)
    BY <1>2, <2>2, Types
  <2> QED BY <1>1, <1>2, <1>20, <2>1, <2>3 DEF Queue!Dequeue, Queue!Step, Queue!taken, Taken
<1>6. \A u \in Thread \ {t} : phaseBar'[u] = phaseBar[u] /\ datumBar'[u] = datumBar[u]
  BY <1>0, QueueStep
<1>7. Got'[t] = Append(Got[t], v) /\ \A u \in Thread \ {t} : Got'[u] = Got[u]
  BY <1>0, <1>5, <1>6 DEF Got
<1>8. \A u \in Thread : \A i \in 1..Len(Got'[u]) :
        \/ i \in 1..Len(Got[u]) /\ Got'[u][i] = Got[u][i]
        \/ u = t /\ Got'[u][i] = v
  <2> TAKE u \in Thread
  <2> TAKE i \in 1..Len(Got'[u])
  <2>1. CASE u = t
    BY <1>0, <1>5, <1>7, <2>1 DEF Got
  <2>2. CASE u # t
    BY <1>7, <2>2
  <2> QED BY <2>1, <2>2
<1> SUFFICES ASSUME NEW k \in 1..h, NEW u \in Thread, NEW i \in 1..Len(Got'[u]),
                    Got'[u][i] = itemsBar[k],
                    NEW j \in 1..Len(itemsBar), itemsBar[j][1] = u
             PROVE  Sees(memory'[head][k + 1].view, memory'[head][k + 1].view, list, j + 1)
  BY <1>0, <1>1, <1>4 DEF TakenSight
<1>9. k \in 1..Len(itemsBar)
  BY <1>2, <1>5, Types
<1>10. CASE i \in 1..Len(Got[u]) /\ Got'[u][i] = Got[u][i]
  <2>1. PICK x \in 1..Taken : itemsBar[x] = Got[u][i]
    BY <1>0, <1>10 DEF TakenInv
  <2>2. x = k
    BY <1>0, <1>9, <1>10, <2>1, Types DEF ListedInv
  <2>3. k \in 1..Taken /\ k + 1 \in 1..h
    BY <1>2, <2>1, <2>2
  <2>4. Sees(memory[head][k + 1].view, memory[head][k + 1].view, list, j + 1)
    BY <1>10, <2>3 DEF TakenSight
  <2> QED BY <1>3, <2>3, <2>4
<1>11. CASE u = t /\ Got'[u][i] = v
  <2>1. k = h
    BY <1>0, <1>20, <1>5, <1>9, <1>11 DEF ListedInv
  <2>2. Has(t, j + 1)'
    BY <1>1, <1>11 DEF OwnSight
  <2>3. PICK x \in [Location -> Nat] : x = view'[t]
    BY DEF Remembers, MemoryOK
  <2>4. Sees(x, x, list, j + 1)
    BY <1>0, <2>2, <2>3 DEF Has
  <2>5. \A n \in Node : x[next(n)] <= w[next(n)]
    BY <1>3, <2>3, Locations
  <2>6. j + 1 \in Nat /\ \A y \in 1..(j + 1) : list[y] \in Node
    BY Lengths
  <2>7. Sees(w, w, list, j + 1)
    BY <2>4, <2>5, <2>6, SeesLonger
  <2> QED BY <1>3, <2>1, <2>7
<1> QED BY <1>8, <1>10, <1>11

\* A dequeue finds a next, as it sees that there is one.
LEMMA FoundStays ==
  ASSUME TasksInv, SightInv, OwnSight, TakenSight, Found, NEW t \in Thread,
         Remembers(t), Call(t) \/ EnqueueStep(t) \/ DequeueStep(t)
  PROVE  Found'
<1>0. TypeOK /\ IInv
  BY DEF TasksInv, IInv
<1>1. \A u \in Thread \ {t} : pc'[u] = pc[u] /\ lnext'[u] = lnext[u]
  BY DEF Remembers, LocalsOK
<1> SUFFICES ASSUME pc'[t] \in {"d_check", "d_help", "d_value", "d_swing"}
             PROVE  lnext'[t] \in Node
  BY <1>1 DEF Found
<1>2. DequeueStep(t)
  BY <1>0 DEF Call, DequeueCall, EnqueueCall, EnqueueStep, EnqueueLoadTail, EnqueueLoadNext,
              EnqueueCheckTail, EnqueueLink, EnqueueLinkFails, EnqueueHelpTail,
              EnqueueSwingTail, TypeOK
<1>3. CASE DequeueLoadNext(t)
  <2>1. pc[t] = "d_next"
    BY <1>3 DEF DequeueLoadNext
  <2>2. PICK i \in 1..Len(list) :
          cur_head[t] = list[i] /\ Has(t, i) /\ view[t][next(list[i])] >= 3
    BY <2>1, NextIsSeen
  <2>3. PICK x \in 1..Newest(next(list[i])) :
          /\ LoadAcquire(t, next(list[i]), x)
          /\ lnext' = [lnext EXCEPT ![t] = memory[next(list[i])][x].val]
    BY <1>3, <2>2 DEF DequeueLoadNext
  <2>4. PICK v : v = memory[next(list[i])][x].val
    OBVIOUS
  <2>5. lnext'[t] = v /\ list' = list
    BY <1>0, <1>3, <2>3, <2>4 DEF DequeueLoadNext, TypeOK
  <2>6. v \in Node
    BY <1>0, <2>2, <2>3, <2>4, <2>5, NextSight
  <2> QED BY <2>5, <2>6
<1>4. CASE ~DequeueLoadNext(t)
  <2>1. pc[t] \in {"d_check", "d_value"} /\ lnext' = lnext
    BY <1>0, <1>2, <1>4
       DEF DequeueStep, DequeueLoadHead, DequeueLoadTail, DequeueCheckHead, DequeueHelpTail,
           DequeueReadValue, DequeueSwingHead, DequeueSwingFails, DequeueReturn, locals, TypeOK
  <2> QED BY <2>1 DEF Found
<1> QED BY <1>3, <1>4

LEMMA NextKeepsFound ==
  ASSUME TasksInv, SightInv, FoundInv, TasksInv', SightInv', [TaskNext]_taskVars
  PROVE  FoundInv'
<1>0. IInv /\ KnowInv /\ IInv' /\ OwnSight /\ TakenSight /\ Found
  BY DEF TasksInv, FoundInv
<1>1. CASE TaskNext
  <2>1. PICK t \in Thread : TaskEnqueue(t) \/ TaskDequeue(t) \/ TaskInQueue(t)
    BY <1>1 DEF TaskNext
  <2>2. (Call(t) \/ EnqueueStep(t) \/ DequeueStep(t)) /\ Remembers(t)
    <3>1. Call(t) \/ EnqueueStep(t) \/ DequeueStep(t)
      BY <2>1, TaskSteps
    <3> QED BY <1>0, <3>1, StepRemembers
  <2>3. OwnSight'
    BY <1>0, <2>2, OwnStays
  <2>4. Found'
    BY <1>0, <2>2, FoundStays
  <2>5. TakenSight'
    <3>1. CASE DequeueSwingHead(t)
      <4>1. TaskInQueue(t)
        BY <2>1, <3>1 DEF TaskEnqueue, TaskDequeue, EnqueueCall, DequeueCall, DequeueSwingHead
      <4> QED BY <1>0, <2>2, <2>3, <3>1, <4>1, TakenGrows
    <3>2. CASE ~DequeueSwingHead(t)
      BY <1>0, <2>1, <2>2, <3>2, TakenStays
    <3> QED BY <3>1, <3>2
  <2> QED BY <2>3, <2>4, <2>5 DEF FoundInv
<1>2. CASE UNCHANGED taskVars
  <2>1. UNCHANGED <<memory, view, list, pc, lnext, received>> /\ UNCHANGED Queue!vars
    BY <1>0, <1>2, StutterRefines DEF taskVars, vars, locals
  <2>2. UNCHANGED <<itemsBar, seenBar, phaseBar, datumBar>>
    BY <2>1 DEF Queue!vars
  <2>3. Got' = Got /\ Taken' = Taken
    BY <2>1, <2>2 DEF Got, Taken
  <2> QED BY <1>0, <2>1, <2>2, <2>3 DEF FoundInv, OwnSight, TakenSight, Found, Has
<1> QED BY <1>1, <1>2

LEMMA InitFound == TaskInit => FoundInv
<1> SUFFICES ASSUME TaskInit PROVE FoundInv
  OBVIOUS
<1>1. TasksInv /\ \A t \in Thread : pc[t] = "idle"
  BY InitTasksInv DEF TaskInit, Init
<1>2. list = <<Fake>> /\ memory[head] = <<Initial(Fake)>>
  <2>1. Init
    BY DEF TaskInit
  <2> QED BY <2>1, Locations, NodeAssumption DEF Init
<1>3. Len(itemsBar) = 0 /\ Taken = 0
  <2>1. Len(list) = 1 /\ Newest(head) = 1
    BY <1>2
  <2> QED BY <1>1, <2>1, Lengths
<1> QED BY <1>1, <1>3 DEF FoundInv, OwnSight, TakenSight, Found

\* "Queue is not empty" (ms_queue_weak.h:82), for two threads that enqueue their
\* share first and compare-and-swaps that do not fail spuriously: where such a
\* thread reads next->value there is a next, whatever stale values it has loaded.
THEOREM TasksFindNext == TwoThreads => (TaskSpec => []TaskFindsNext)
<1> SUFFICES ASSUME TwoThreads PROVE TaskSpec => []TaskFindsNext
  OBVIOUS
<1>1. TaskSpec => []TasksInv /\ [](IInv /\ KnowInv /\ SightInv)
  BY TasksInvariance, TasksUseTheQueue, SightInvariance
<1>2. TasksInv /\ SightInv /\ FoundInv /\ TasksInv' /\ SightInv' /\ [TaskNext]_taskVars
        => FoundInv'
  BY NextKeepsFound
<1>3. FoundInv => TaskFindsNext
  BY NodeAssumption DEF FoundInv, Found, TaskFindsNext
<1> QED BY <1>1, <1>2, <1>3, InitFound, PTL DEF TaskSpec
=============================================================================
