----------------------------- MODULE WeakMemory -----------------------------
(***************************************************************************)
(* The release/acquire memory under the queues for weak memory: what C++11 *)
(* promises of atomics that use no seq_cst access and no fence, without    *)
(* out-of-thin-air reads.  External: the program only calls it.            *)
(*                                                                         *)
(* Every location keeps the messages written to it, in modification order. *)
(* view[t][l] is the oldest message of l that t may still read.  A message *)
(* carries the view its reader gets if it acquires.  Locations that are    *)
(* not atomic are written once, by the constructor of their node: for them *)
(* the view says whether that write happens before what t does next.       *)
(***************************************************************************)
EXTENDS Naturals, Sequences

CONSTANTS Thread,
          Location,
          Spurious   \* may compare_exchange_weak fail on the expected value?

VARIABLES memory,    \* memory[l]: a sequence of messages [val, view]
          view       \* view[t]: a message number for every location

Nowhere == [l \in Location |-> 0]

Join(v, w) == [l \in Location |-> IF v[l] < w[l] THEN w[l] ELSE v[l]]

Newest(l) == Len(memory[l])
NewestVal(l) == memory[l][Newest(l)].val

\* t reads message i of l.
Reads(t, l, i) == i \in (IF view[t][l] = 0 THEN 1 ELSE view[t][l])..Newest(l)

LoadRelaxed(t, l, i) == /\ Reads(t, l, i)
                        /\ view' = [view EXCEPT ![t][l] = i]
                        /\ UNCHANGED memory

LoadAcquire(t, l, i) ==
  /\ Reads(t, l, i)
  /\ view' = [view EXCEPT ![t] = [Join(@, memory[l][i].view) EXCEPT ![l] = i]]
  /\ UNCHANGED memory

Passed(l) == memory[l][Newest(l)].view

After(t, l) == [view[t] EXCEPT ![l] = Newest(l) + 1]

\* A successful compare-and-swap reads the newest message and puts its own
\* right behind it.  That one passes on the view of the message read, as it
\* continues its release sequence, and with release also that of t.
Rmw(t, l, v, w) ==
  /\ view' = [view EXCEPT ![t] = After(t, l)]
  /\ memory' = [memory EXCEPT ![l] = Append(@, [val |-> v, view |-> w])]

RmwRelease(t, l, v) == Rmw(t, l, v, Join(After(t, l), Passed(l)))
RmwRelaxed(t, l, v) == Rmw(t, l, v, Passed(l))

\* A compare-and-swap that fails is a relaxed load of some other value; a
\* weak one may fail on any.
CasFails(t, l, expected) ==
  \E i \in 1..Newest(l) :
    memory[l][i].val # expected /\ LoadRelaxed(t, l, i)

WeakCasFails(t, l, expected) ==
  \/ CasFails(t, l, expected)
  \/ Spurious /\ \E i \in 1..Newest(l) : LoadRelaxed(t, l, i)
=============================================================================
