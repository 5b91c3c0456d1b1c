----------------------------- MODULE MSQueueWeak -----------------------------
(***************************************************************************)
(* The Michael & Scott queue with relaxed, acquire and release atomics:    *)
(*   CDSChecker/ms-queue/ms-queue-weak-no-free/ms_queue_weak.h, node.h     *)
(* on the memory of WeakMemory.  The locations are head, tail and the two  *)
(* fields of each node: next(n), and data(n) for its value.                *)
(*                                                                         *)
(* One action per access, as in MSQueueNoFree, but a load may be served by *)
(* any message the thread's view allows.  A thread that is about to follow *)
(* a null or uninitialised pointer takes no further step: the program      *)
(* would fail there, and a property says whether it happens.               *)
(***************************************************************************)
EXTENDS Naturals, Sequences, SequencesExt

CONSTANTS Thread, Node, Value, Fake, Null, NoValue,  \* as in MSQueueNoFree
          Garbage,   \* what an atomic holds before its first store
          Spurious   \* may compare_exchange_weak fail on the expected value?

ASSUME NodeAssumption == /\ Fake \in Node /\ Null \notin Node
                         /\ Garbage \notin Node \cup {Null}
ASSUME ValueAssumption == NoValue \notin Value
ASSUME SpuriousAssumption == Spurious \in BOOLEAN

head == <<"head">>
tail == <<"tail">>
next(n) == <<"next", n>>
data(n) == <<"value", n>>
Location == {head, tail} \cup {next(n) : n \in Node}
              \cup {data(n) : n \in Node}

VARIABLES
  memory, view,  \* as in WeakMemory
  value,         \* value[n]: what the constructor wrote to it
  pc,            \* pc[t]: the access t makes next; "idle" between calls
  node,          \* enqueue's node: the one t is inserting
  cur_head, cur_tail, lnext,  \* the locals cur_head, cur_tail and next of t
  out, ret,      \* the caller's *value, and what t's last call returned
  list           \* HISTORY: all nodes ever linked, the dummy first

INSTANCE WeakMemory

locals == <<node, cur_head, cur_tail, lnext>>
caller == <<out, ret>>
vars == <<memory, view, value, pc, locals, caller, list>>

EnqueuePC == {"e_tail", "e_next", "e_check", "e_link", "e_help", "e_swing"}
DequeuePC == {"d_head", "d_tail", "d_next", "d_check", "d_help", "d_value",
              "d_swing", "d_return", "d_empty"}

Goto(t, from, to) == /\ pc[t] = from
                     /\ pc' = [pc EXCEPT ![t] = to]

Initial(v) == [val |-> v, view |-> Nowhere]

\* The threads are created after the constructor has run and see its stores.
Init ==
  /\ memory = [l \in Location |->
                 CASE l \in {head, tail} -> <<Initial(Fake)>>
                   [] l = next(Fake) -> <<Initial(Garbage), Initial(Null)>>
                   [] OTHER -> <<Initial(Garbage)>>]
  /\ view = [t \in Thread |-> [l \in Location |->
               CASE l \in {head, tail, data(Fake)} -> 1
                 [] l = next(Fake) -> 2
                 [] OTHER -> 0]]
  /\ value = [n \in Node |-> NoValue]
  /\ pc = [t \in Thread |-> "idle"]
  /\ node = [t \in Thread |-> Null]
  /\ cur_head = [t \in Thread |-> Null]
  /\ cur_tail = [t \in Thread |-> Null]
  /\ lnext = [t \in Thread |-> Null]
  /\ out = [t \in Thread |-> NoValue]
  /\ ret = [t \in Thread |-> "void"]
  /\ list = <<Fake>>

-----------------------------------------------------------------------------
(* enqueue(value)                                                          *)

Allocated(n) == Newest(next(n)) > 1

\* new Node(value): value is assigned, NULL is stored to next (relaxed).
EnqueueCall(t, v) ==
  /\ Goto(t, "idle", "e_tail")
  /\ \E n \in Node :
       /\ ~Allocated(n)
       /\ memory' = [memory EXCEPT ![next(n)] = Append(@, Initial(Null))]
       /\ view' = [view EXCEPT ![t][next(n)] = 2, ![t][data(n)] = 1]
       /\ value' = [value EXCEPT ![n] = v]
       /\ node' = [node EXCEPT ![t] = n]
  /\ ret' = [ret EXCEPT ![t] = "void"]
  /\ UNCHANGED <<cur_head, cur_tail, lnext, out, list>>

EnqueueLoadTail(t) ==
  /\ Goto(t, "e_tail", "e_next")
  /\ \E i \in 1..Newest(tail) :
       /\ LoadAcquire(t, tail, i)
       /\ cur_tail' = [cur_tail EXCEPT ![t] = memory[tail][i].val]
  /\ UNCHANGED <<value, node, cur_head, lnext, caller, list>>

EnqueueLoadNext(t) ==
  /\ Goto(t, "e_next", "e_check")
  /\ \E i \in 1..Newest(next(cur_tail[t])) :
       /\ LoadAcquire(t, next(cur_tail[t]), i)
       /\ lnext' = [lnext EXCEPT ![t] = memory[next(cur_tail[t])][i].val]
  /\ UNCHANGED <<value, node, cur_head, cur_tail, caller, list>>

\* if (tail.load(relaxed) == cur_tail)
EnqueueCheckTail(t) ==
  /\ lnext[t] # Garbage
  /\ \E i \in 1..Newest(tail) :
       /\ LoadRelaxed(t, tail, i)
       /\ LET same == memory[tail][i].val = cur_tail[t]
          IN \/ Goto(t, "e_check", "e_link") /\ same /\ lnext[t] = Null
             \/ Goto(t, "e_check", "e_help") /\ same /\ lnext[t] # Null
             \/ Goto(t, "e_check", "e_tail") /\ ~same
  /\ UNCHANGED <<value, locals, caller, list>>

\* MUTANT of EnqueueLink: relaxed instead of release.
EnqueueLinkRelaxed(t) ==
  /\ Goto(t, "e_link", "e_swing")
  /\ NewestVal(next(cur_tail[t])) = Null
  /\ RmwRelaxed(t, next(cur_tail[t]), node[t])
  /\ list' = Append(list, node[t])
  /\ UNCHANGED <<value, locals, caller>>

\* MUTANT of EnqueueLink: next is exchanged whatever it holds.
EnqueueLinksAnyway(t) ==
  /\ Goto(t, "e_link", "e_swing")
  /\ RmwRelease(t, next(cur_tail[t]), node[t])
  /\ list' = Append(list, node[t])
  /\ UNCHANGED <<value, locals, caller>>

\* The strong compare-and-swap of next, release on success
EnqueueLink(t) ==
  /\ Goto(t, "e_link", "e_swing")
  /\ NewestVal(next(cur_tail[t])) = Null
  /\ RmwRelease(t, next(cur_tail[t]), node[t])
  /\ list' = Append(list, node[t])
  /\ UNCHANGED <<value, locals, caller>>

EnqueueLinkFails(t) ==
  /\ Goto(t, "e_link", "e_tail")
  /\ CasFails(t, next(cur_tail[t]), Null)
  /\ UNCHANGED <<value, locals, caller, list>>

\* tail.compare_exchange_weak(cur_tail, lnext, relaxed, relaxed), by an
\* enqueue or a dequeue that found tail lagging
HelpTail(t) ==
  /\ \/ NewestVal(tail) = cur_tail[t] /\ RmwRelaxed(t, tail, lnext[t])
     \/ WeakCasFails(t, tail, cur_tail[t])
  /\ UNCHANGED <<value, locals, caller, list>>

EnqueueHelpTail(t) == Goto(t, "e_help", "e_tail") /\ HelpTail(t)

\* The last, release compare-and-swap of tail; then the call returns and its
\* locals are gone.
EnqueueSwingTail(t) ==
  /\ Goto(t, "e_swing", "idle")
  /\ \/ NewestVal(tail) = cur_tail[t] /\ RmwRelease(t, tail, node[t])
     \/ WeakCasFails(t, tail, cur_tail[t])
  /\ node' = [node EXCEPT ![t] = Null]
  /\ cur_tail' = [cur_tail EXCEPT ![t] = Null]
  /\ lnext' = [lnext EXCEPT ![t] = Null]
  /\ UNCHANGED <<value, cur_head, caller, list>>

-----------------------------------------------------------------------------
(* dequeue(value)                                                          *)

DequeueCall(t) ==
  /\ Goto(t, "idle", "d_head")
  /\ out' = [out EXCEPT ![t] = NoValue]
  /\ ret' = [ret EXCEPT ![t] = "void"]
  /\ UNCHANGED <<memory, view, value, locals, list>>

\* MUTANT of DequeueLoadHead: relaxed instead of acquire.
DequeueLoadHeadRelaxed(t) ==
  /\ Goto(t, "d_head", "d_tail")
  /\ \E i \in 1..Newest(head) :
       /\ LoadRelaxed(t, head, i)
       /\ cur_head' = [cur_head EXCEPT ![t] = memory[head][i].val]
  /\ UNCHANGED <<value, node, cur_tail, lnext, caller, list>>

DequeueLoadHead(t) ==
  /\ Goto(t, "d_head", "d_tail")
  /\ \E i \in 1..Newest(head) :
       /\ LoadAcquire(t, head, i)
       /\ cur_head' = [cur_head EXCEPT ![t] = memory[head][i].val]
  /\ UNCHANGED <<value, node, cur_tail, lnext, caller, list>>

DequeueLoadTail(t) ==
  /\ Goto(t, "d_tail", "d_next")
  /\ \E i \in 1..Newest(tail) :
       /\ LoadRelaxed(t, tail, i)
       /\ cur_tail' = [cur_tail EXCEPT ![t] = memory[tail][i].val]
  /\ UNCHANGED <<value, node, cur_head, lnext, caller, list>>

DequeueLoadNext(t) ==
  /\ Goto(t, "d_next", "d_check")
  /\ \E i \in 1..Newest(next(cur_head[t])) :
       /\ LoadAcquire(t, next(cur_head[t]), i)
       /\ lnext' = [lnext EXCEPT ![t] = memory[next(cur_head[t])][i].val]
  /\ UNCHANGED <<value, node, cur_head, cur_tail, caller, list>>

\* MUTANT of DequeueCheckHead: head = tail is taken for a lagging tail.
DequeueAlwaysHelps(t) ==
  /\ lnext[t] # Garbage
  /\ \E i \in 1..Newest(head) :
       /\ LoadRelaxed(t, head, i)
       /\ LET same == memory[head][i].val = cur_head[t]
          IN \/ Goto(t, "d_check", "d_head") /\ ~same
             \/ /\ Goto(t, "d_check", "d_help") /\ same
                /\ cur_head[t] = cur_tail[t]
             \/ /\ Goto(t, "d_check", "d_value") /\ same
                /\ cur_head[t] # cur_tail[t]
  /\ UNCHANGED <<value, locals, caller, list>>

\* if (head.load(relaxed) == cur_head), and what next says then
DequeueCheckHead(t) ==
  /\ lnext[t] # Garbage
  /\ \E i \in 1..Newest(head) :
       /\ LoadRelaxed(t, head, i)
       /\ LET same == memory[head][i].val = cur_head[t]
          IN \/ Goto(t, "d_check", "d_head") /\ ~same
             \/ /\ Goto(t, "d_check", "d_empty") /\ same
                /\ cur_head[t] = cur_tail[t] /\ lnext[t] = Null
             \/ /\ Goto(t, "d_check", "d_help") /\ same
                /\ cur_head[t] = cur_tail[t] /\ lnext[t] # Null
             \/ /\ Goto(t, "d_check", "d_value") /\ same
                /\ cur_head[t] # cur_tail[t]
  /\ UNCHANGED <<value, locals, caller, list>>

DequeueHelpTail(t) == Goto(t, "d_help", "d_head") /\ HelpTail(t)

DequeueReadValue(t) ==
  /\ Goto(t, "d_value", "d_swing")
  /\ lnext[t] \in Node
  /\ out' = [out EXCEPT ![t] = value[lnext[t]]]
  /\ UNCHANGED <<memory, view, value, locals, ret, list>>

\* MUTANT of DequeueSwingHead: head is exchanged whatever it holds.
DequeueSwingsAnyway(t) ==
  /\ Goto(t, "d_swing", "d_return")
  /\ RmwRelease(t, head, lnext[t])
  /\ UNCHANGED <<value, locals, caller, list>>

\* The strong compare-and-swap of head, release on success
DequeueSwingHead(t) ==
  /\ Goto(t, "d_swing", "d_return")
  /\ NewestVal(head) = cur_head[t]
  /\ RmwRelease(t, head, lnext[t])
  /\ UNCHANGED <<value, locals, caller, list>>

DequeueSwingFails(t) ==
  /\ Goto(t, "d_swing", "d_head")
  /\ CasFails(t, head, cur_head[t])
  /\ UNCHANGED <<value, locals, caller, list>>

DequeueReturn(t) ==
  /\ \/ Goto(t, "d_return", "idle") /\ ret' = [ret EXCEPT ![t] = "true"]
     \/ Goto(t, "d_empty", "idle") /\ ret' = [ret EXCEPT ![t] = "false"]
  /\ cur_head' = [cur_head EXCEPT ![t] = Null]
  /\ cur_tail' = [cur_tail EXCEPT ![t] = Null]
  /\ lnext' = [lnext EXCEPT ![t] = Null]
  /\ UNCHANGED <<memory, view, value, node, out, list>>

-----------------------------------------------------------------------------
EnqueueStep(t) ==
  \/ EnqueueLoadTail(t) \/ EnqueueLoadNext(t) \/ EnqueueCheckTail(t)
  \/ EnqueueLink(t) \/ EnqueueLinkFails(t)
  \/ EnqueueHelpTail(t) \/ EnqueueSwingTail(t)

DequeueStep(t) ==
  \/ DequeueLoadHead(t) \/ DequeueLoadTail(t) \/ DequeueLoadNext(t)
  \/ DequeueCheckHead(t) \/ DequeueHelpTail(t) \/ DequeueReadValue(t)
  \/ DequeueSwingHead(t) \/ DequeueSwingFails(t) \/ DequeueReturn(t)

Call(t) == DequeueCall(t) \/ \E v \in Value : EnqueueCall(t, v)

Next == \E t \in Thread : Call(t) \/ EnqueueStep(t) \/ DequeueStep(t)

Spec == Init /\ [][Next]_vars

-----------------------------------------------------------------------------
(* Properties                                                              *)

Pointer == Node \cup {Null}
Message == [val : Pointer \cup {Garbage}, view : [Location -> Nat]]

\* Every variable stays in its type.
TypeOK ==
  /\ memory \in [Location -> Seq(Message)]
  /\ \A l \in {head, tail} : \A i \in 1..Newest(l) : memory[l][i].val \in Node
  /\ view \in [Thread -> [Location -> Nat]]
  /\ value \in [Node -> Value \cup {NoValue}]
  /\ pc \in [Thread -> {"idle"} \cup EnqueuePC \cup DequeuePC]
  /\ node \in [Thread -> Pointer]
  /\ cur_head \in [Thread -> Pointer] /\ cur_tail \in [Thread -> Pointer]
  /\ lnext \in [Thread -> Pointer \cup {Garbage}]
  /\ out \in [Thread -> Value \cup {NoValue}]
  /\ ret \in [Thread -> {"void", "true", "false"}]
  /\ list \in Seq(Node)

\* "Queue is not empty" (line 82): where dequeue reads next->value, there is
\* a next.
NoNullDereference == \A t \in Thread : pc[t] = "d_value" => lnext[t] # Null

\* "All CAS should have a release memory ordering: the instructions before
\* them should not be ordered after the CAS or we could ... be in an
\* inconsistent state" (31-32): a thread that finds a node in the queue
\* finds the next its constructor stored, not what the memory held before.
NoUninitialisedRead == \A t \in Thread : lnext[t] # Garbage

\* The value of a node is not atomic: whoever reads it is ordered after the
\* constructor that wrote it.
NoDataRace ==
  \A t \in Thread :
    pc[t] = "d_value" /\ lnext[t] \in Node => view[t][data(lnext[t])] = 1

Rank(n) == CHOOSE i \in DOMAIN list : list[i] = n

\* Stale views or not, the nodes form one list: each is linked once, behind
\* the one that was last, and tail stays one of the last two.
ListIntact ==
  /\ IsInjective(list)
  /\ \A i \in 1..(Len(list) - 1) : NewestVal(next(list[i])) = list[i + 1]
  /\ NewestVal(next(Last(list))) = Null
  /\ NewestVal(tail) \in {list[i] : i \in {Len(list) - 1, Len(list)} \ {0}}

\* The comparison cur_head == cur_tail (74) is what keeps head from passing
\* a lagging tail, although tail is loaded relaxed: whoever acquires head
\* has a tail at least as far.
HeadBehindTail ==
  /\ Rank(NewestVal(head)) <= Rank(NewestVal(tail))
  /\ \A t \in Thread : pc[t] = "d_check" =>
       Rank(cur_head[t]) <= Rank(cur_tail[t])

-----------------------------------------------------------------------------
(* Refinement of LooseFifo.  Item k is the value of list[k + 1], as list   *)
(* starts with the dummy.  An enqueue takes effect when it links its node, *)
(* a dequeue when it swings head, or when it decides to return false.      *)

\* Who has the view w knows of the nodes that the messages of tail it has
\* seen point to, and of the one behind the last of them if it has seen that
\* link: no enqueue can link a node before its view includes the last one.
KnownIn(w) ==
  LET last == w[tail] IN IF w[next(list[last])] = 3 THEN last ELSE last - 1

itemsBar == [i \in 1..(Len(list) - 1) |-> value[list[i + 1]]]

seenBar == [i \in 1..(Newest(head) - 1) |-> KnownIn(memory[head][i + 1].view)]

knownBar == [t \in Thread |-> KnownIn(view[t])]

phaseBar ==
  [t \in Thread |->
     CASE pc[t] = "idle" -> "idle"
       [] pc[t] \in EnqueuePC \ {"e_swing"} -> "enq"
       [] pc[t] = "e_swing" -> "enqueued"
       [] pc[t] = "d_empty" -> "foundEmpty"
       [] pc[t] = "d_return" -> "dequeued"
       [] OTHER -> "deq"]

datumBar ==
  [t \in Thread |->
     IF pc[t] \in EnqueuePC \ {"e_swing"} THEN value[node[t]]
     ELSE IF pc[t] = "d_return" \/ (pc[t] = "idle" /\ ret[t] = "true")
     THEN out[t] ELSE NoValue]

Queue == INSTANCE LooseFifo
           WITH items <- itemsBar, seen <- seenBar, known <- knownBar,
                phase <- phaseBar, datum <- datumBar

\* Every behaviour of the code is one of a FIFO queue whose dequeue finds it
\* empty only if nothing it knows of is in it.
LooselyLinearizable == Queue!Spec
=============================================================================
