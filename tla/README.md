# Verification of weak_queue: the Michael & Scott queues

The repository holds six implementations of one algorithm, the non-blocking
FIFO queue of Michael and Scott: a linked list with a dummy node at its head,
two atomic pointers `head` and `tail`, and compare-and-swap (CAS) on `head`,
`tail` and the `next` field of nodes. They differ in memory order, in how (and
whether) nodes are reclaimed, and in the width of the pointers.

## 1. Inventory

| Component | Source (under `src/`) | State | Operations |
|---|---|---|---|
| Queue, sequentially consistent (SC), nothing freed | `CDSChecker/ms-queue/ms-queue-strong-no-free/{ms_queue_strong,node}.h` | `head`, `tail`, `Node::{value,next}` | constructor, `enqueue`, `dequeue` |
| Queue, SC, counted pointers, `delete` | `src/ms_queue_strong/{ms_queue_strong,node,pointer}.h` | the same, pointers are `(ptr, 32-bit count)` | constructor, `enqueue`, `dequeue` |
| Queue, SC, nothing freed, template | `src/ms_queue_strong_nofree/` | as the first | as the first |
| Queue, SC, hazard pointers | `src/ms_queue_strong_hazard/` | the same, `hp[N][2]`, a `free_list` per thread | `enqueue`, `dequeue`, `retire_node`, `scan`, the sequential interface |
| Queue, release/acquire, nothing freed | `CDSChecker/ms-queue/ms-queue-weak-no-free/` | as the first | `enqueue`, `dequeue` |
| Queue, release/acquire, counted, `delete` | `src/ms_queue_weak/` | as the second | `enqueue`, `dequeue` |
| CDSChecker tests | `test_2threads`, `test_nthreads`, `test_blocking_dequeue` | arrays of inputs and outputs | `main_task`, `user_main` |
| Template tests | `src/*/tests/{test_seq,test_par,test_cds}.cpp` | outputs of each thread | sequential and parallel tests with assertions |
| Benchmark | `src/benchmark.cpp` | timings | `enqueue_dequeue`, `bench` |
| CDSChecker headers | `CDSChecker/include/impatomic.h` (copied to `include/`) and others | one word per atomic object, kept by libmodel | load, store, exchange, compare-exchange, fetch-and-modify, operators |
| Scripts, logs, plots | `bench.sh`, `experiments.sh`, `bench.r`, ... | | |

Threads interact only through the shared atomics; there are no locks, messages
or callbacks. What is hard:

- *interleaving*: an operation is a loop of 4 to 6 accesses to shared memory;
  `dequeue` loads `head`, `tail` and `head->next` one after the other and must
  make the three consistent, while `tail` may lag behind the list;
- *staleness*: a thread can be delayed anywhere and then act on pointers it
  loaded long ago;
- *reclamation*: where nodes are deleted, that pointer may be dangling or, worse,
  valid again (ABA);
- *memory order*: in the weak variants two loads may disagree about the order of
  two stores;
- *conversions*: the headers carry every atomic type through 64-bit words, and
  make one read-modify-write of two calls;
- *progress*: a thread that stops between its two CASes must not block the
  others.

What makes each component correct: every queue must be a **linearizable FIFO
queue**, and **non-blocking**; no null or deleted node may be dereferenced; each
deleted node is deleted once; with hazard pointers the number of nodes waiting
to be freed is bounded; the tests' assertions hold on every schedule; each
object of `impatomic.h` is an atomic cell of its type.

## 2. Plan

Modules, in the order they were written.

| Module | What | Extends or refines |
|---|---|---|
| `FifoQueue` | abstract specification: an atomic FIFO queue with separate calls, effects and returns | |
| `MSQueueNoFree` | the SC queue without reclamation | refines `FifoQueue` |
| `MSQueueNoFreeProofs` | TLAPS proofs: inductive invariant, safety, linearizability | |
| `TestTasks` | the CDSChecker tests | `MSQueueNoFree` |
| `TestTasksProofs` | TLAPS proofs: the tests' assertions, from a counting invariant | `TestTasks` |
| `MSQueueCounted` | counted pointers over an explicit heap, with and without an allocator that uses deleted memory again | refines `FifoQueue` |
| `MSQueueCountedProofs`, `MSQueueCountedRefinement` | TLAPS proofs: memory safety with reuse; without it, linearizability | `MSQueueCounted`; the second refines `MSQueueNoFree` |
| `MSQueueStrongNoFree` | the template variant: two actions replaced | `MSQueueNoFree` |
| `MSQueueHazard` | hazard pointers, `retire_node`, `scan`, a free list per thread | refines `FifoQueue` |
| `HazardScan` | the same with a history of the hazard pointers, for what `scan` owes to them | `MSQueueHazard` |
| `MSQueueHazardProofs` | TLAPS proofs: what `scan` spares; inductive invariant, memory safety, no leak, bounded garbage, linearizability | `HazardScan` |
| `SequentialTests` | `test_seq.cpp` on the sequential interface | `MSQueueHazard` |
| `WeakMemory` | release/acquire memory: a history of messages per location, a view per thread | |
| `LooseFifo` | abstract specification: a FIFO queue whose dequeue may find it empty when it knows of nothing in it | |
| `MSQueueWeak` | the weak queue | `WeakMemory`, refines `LooseFifo` |
| `WeakTasks` | its CDSChecker tests | `MSQueueWeak` |
| `MSQueueWeakCounted` | the weak template: the same with `delete` | `MSQueueWeak` |
| `MSQueueWeakProofs` | TLAPS proofs: inductive invariants of both weak queues, their safety, the refinement, what two threads see | `MSQueueWeakCounted` |
| `WeakTasksProofs` | TLAPS proofs: the assertions of the weak tests | `WeakTasks`, `MSQueueWeakProofs` |
| `Workloads` | `test_par.cpp` and `benchmark.cpp` | `MSQueueCounted` |
| `WorkloadsProofs` | TLAPS proofs: the assertion of the test, no failed dequeue in the benchmark | `Workloads`, `MSQueueCountedRefinement` |
| `AtomicCell` | abstract specification: an object of an atomic type, on which every operation is one step | `AtomicTypes` |
| `AtomicTypes`, `Impatomic` | the types of `impatomic.h` and the way of each operation to libmodel | refines `AtomicCell` |

What is left: the tests of the weak queue when a thread finds a null or uninitialised `next` (it takes
more than two threads, as in `weak_help`, or spurious failures); counters that wrap.

## 3. How the modules correspond to the code

**One action per access to shared memory.** Each atomic load and each CAS of the
code is one step of one thread; `pc[t]` names the access `t` makes next
(`e_...` in `enqueue`, `d_...` in `dequeue`, `idle` between calls), and the
local computation up to the next access belongs to the step. That is the finest
interleaving sequential consistency allows. The two `.load()`s of a
re-check (`tail.load() == cur_tail`) are steps of their own (`EnqueueCheckTail`,
`DequeueCheckHead`, `DequeueEmpty`). `new Node(value)` is one step: no
other thread has the node's address. A failed CAS also writes its `expected`
argument; the code always assigns that variable before reading it again, so the
write is left out. Locals go back to `Null` at the return.

**`MSQueueNoFree`.** `Node` is the memory: a constant, so that TLC has a finite
heap; `EnqueueCall` takes any node not allocated yet and the proofs let `Node` be
any set. `out[t]` is the variable whose address the caller passes to `dequeue`;
it is written before the CAS on `head`, as in the code. `pos` and `linked` are
history: the rank of each node in the order the nodes were linked. The program
does not read them; the invariants and the refinement mapping do.

**`TestTasks`** wraps each thread in `main_task`: `Items` enqueues of the pairs
`<<t, 1>>, <<t, 2>>, ...`, then `Items` dequeues, each repeated until it returns true.
`test_2threads` and `test_nthreads` are the case of one item and one attempt:
`EveryDequeueSucceeds` shows there never is a second one (so that `DequeueCall` presetting
the caller's variable on every attempt, where the test sets it once per item,
makes no difference).

**`MSQueueCounted`.** Pointers are records `[ptr, count]`, counts are taken modulo
`CountMod` (2^32 in the code). `heap` holds the nodes allocated and not deleted;
`DequeueReturn` deletes. `Reuse` says whether the allocator uses deleted memory again.
With TRUE, which is what `operator new` and `delete` do, an address may be returned
again, and until then a load of the `next` of a deleted node (`NextAt`) gives anything
in `Residue`, and a CAS of it compares with that: a late enqueue may succeed in linking its node to a
deleted one. `Residue` is any set of pointers in the proofs. With FALSE the allocator
leaves deleted memory alone, which isolates what `delete` alone can break. In both, the `value` of a deleted node,
which lies where the first links of an allocator would go, reads as anything (`ValueAt`). What a
write to deleted memory does to the allocator itself is not modelled.

**`MSQueueStrongNoFree`** extends `MSQueueNoFree` and replaces the call of `enqueue` (the
constructor leaves `next` to what the memory held, `Garbage`) and the load of
`next` in `dequeue`. In this program nothing is ever deleted, so fresh memory is
the zeroed memory of the system: the runs take `Garbage = {Null}`.

**`MSQueueHazard`.** The same scheme on a heap whose allocator may return any freed
address at once. `hp[t][0..1]` are the records, `Protect` stores into one, and each
re-check of `tail` or `head` that follows is a step of its own. `scan` is one step per
load of a hazard pointer (`ScanLoad`, in the order of its two loops), one per node
it keeps or deletes (`ScanFree`, from the back of `free_list`) and one for the end of the call
(`ScanEnd`). `sort` and `binary_search` make a set of `ptr_list`. What unallocated memory holds is
anything (`NextAt`, `ValueAt`). The constructor `Node(val)` does not assign `next`, and nothing
stores it before the node is linked, so that a new node has whatever the memory holds: `CMakeLists.txt` builds for C++11, in which a
default-constructed atomic is indeterminate (it is NULL since C++20). `Spec` is that program. `ClearMemory` is
a condition on the allocator, not on the code: the memory that `new` hands out reads as null where `next`
lies. It holds of fresh pages of the system, not of recycled memory (the vectors of `free_list` are allocated and freed there
too). What is true of `Spec` and what is true only of `Spec /\ [][ClearMemory]_vars` are kept apart: types
(`TypeOK`) and what `scan` owes to the hazard pointers (`ScanSparesNamed`, below) need nothing; all else that is said of
this queue, its list, its memory, its garbage and its linearizability, needs `ClearMemory`, as the first node with a stale `next`
breaks the list (`hazard_stale`). The interface without thread ids (`SequentialDequeueCall`)
starts each call with an empty free list. `list` is history: the nodes from `head` on.

**`HazardScan`** adds to it, as history, the hazard pointers that have stood unchanged since a thread last began a
scan. `ScanSparesNamed` is the contract of `scan` with whoever publishes a pointer in time, whatever queue there is around it.

**`WeakMemory`, `MSQueueWeak`.** Memory is external, modelled after C++11 without `seq_cst`:
each location keeps all its messages in modification order, each thread a view, that
is the oldest message it may still read per location. A load takes any
message from there on; a store or a successful CAS adds one at the end; a message of a
release CAS carries the writer's view, one of a relaxed CAS the view that the message it replaces carried
(release sequence); an acquire load joins that view. A CAS reads the
newest message. A failed CAS is relaxed in the code and reads any message the thread may
still read that differs from the expected one; weak CASes may fail
spuriously if `Spurious`. `data` records which fields of which node a thread has seen
initialised, for `NoUninitialisedRead` and `NoDataRace`. Plain loads of `value` and construction have no
order of their own. Not covered: load buffering (a load that reads from a store later in program
order), which no pair of accesses of this program could show, as each
later store depends on the earlier loads.

**`LooseFifo`** is what the weak queue promises. A dequeue of it may return false although the queue
is not empty, so it does not implement `FifoQueue`; but how stale that answer may be is bounded by what its thread *knows*.
In the code that is how far the thread has seen `tail` move, and whether it has seen the link behind that (`KnownIn`).
Returning false takes effect at the decision in `DequeueCheckHead`, the rest as in `FifoQueue`.

**`WeakTasks`** is `TestTasks` for the weak queue. **`MSQueueWeakCounted`** adds the `delete` of
the template to it. The allocator leaves deleted memory alone there, so that a
`(ptr, count)` of head or tail comes once, and comparing pointers gives the answer that
comparing pairs does; what reuse does to the counters is the subject of `MSQueueCounted`.

**`Workloads`** runs the threads of `test_par.cpp` or of `benchmark.cpp` (`program`) on
`MSQueueCounted`. `val` is `out[t]` of the queue, which a failed `dequeue` may have written; the loop
`while (val == -1)` looks at nothing else. The test's threads enqueue disjoint ranges, the
benchmark's all enqueue 0, 1, ....

**`SequentialTests`** makes the calls of each function of `test_seq.cpp` in order on
`MSQueueHazard`, 10^6 items being cut to `Items`. Its queue has one record; how many there are
only scan sees, and scan never runs there.

**`Impatomic`.** An operation reaches one of the macros `_ATOMIC_LOAD_`, `_ATOMIC_STORE_`,
`_ATOMIC_MODIFY_`, `_ATOMIC_CMPSWP_` through an operator, a member and a function (C++) or a
macro (C). `AtomicTypes` has a record per struct: width, sign, the members it
declares, its operators, and whether `+=` and the like answer with the new value (`T` by value) or, as
`atomic<T*>` does, with what its member returned. `Macro` follows the way of an operation; `ToWord` and `FromWord` are
the casts. A read-modify-write is two steps, `Rmwr` and `Modify` or
`CmpSwpSucceeds`/`CmpSwpFails`, between which libmodel (external) schedules no other thread.
`AtomicCell` knows none of this: an operation there is one step on a value of the type.

Every mapped definition names its lines in `PROJECT.json`. Definitions whose comment starts
with `MUTANT` are not part of a specification: each is a plausible bug in the definition
that follows it, and the property it is paired with in `PROJECT.json` must fail under it.

The MC modules add the *client*: which program calls the queue. A run chooses it in the
initial state, so that one run covers the test programs and the threads that call what they
like. A program that has ended stutters (`Joined`, `TestEnds`), so that deadlock stays an error.

## 4. Runs

| Run | Question | Clients and bounds |
|---|---|---|
| `no_free` | List invariants, `IInv`, linearizability; in the tests nothing is lost or repeated, no dequeue fails, a producer's order is kept, every task ends though no thread is treated fairly. | any calls: 2 threads, 4 nodes, 2 values; tests: 2 threads with 3 items, 3 with 1 |
| `counted_no_reuse` | Is the queue with `delete` linearizable while the allocator leaves deleted memory alone, do the parallel test and the benchmark get what they expect? | any calls: 2 threads; programs: 3 threads, an element each; 4 nodes |
| `counted_reuse` | What the counters protect when addresses do come back: the ends are alive, each node is deleted once, only current dequeues succeed, whatever is linked to deleted nodes. | 3 threads, 3 nodes, `tail` moved 2 times before the last calls, two contents of deleted memory |
| `hazard` | With `ClearMemory`: is memory reclaimed safely, once, completely and soon enough, and is the queue linearizable without counters? Does `scan` spare what hazard pointers name? Do the sequential tests pass? | see below |
| `weak` | The same list under stale loads, loose linearizability, no data race, no early or double `delete`; the tests pass. | tests: 2 threads, 2 items; any calls: 2 threads, 3 nodes and spurious failures, or 4 without, no call beginning after the one that takes the fourth |
| `impatomic` | Is each object of each type an atomic cell, in C++ and in C? | 2 threads, one object, all types and operations, words of 4 bits, `char` of 2, `short` and `int` of 3 |
| `counted_aba`, `counted_dangling`, `strong_no_free`, `hazard_stale`, `weak_null`, `weak_help` | six statements of the repository the code does not keep (below) | 2 threads (3 in `weak_help`), 3 or 4 nodes |

Why the bounds are enough to be interesting. Two threads reach every pair of
accesses in every order; three nodes beside the dummy let `tail` lag, be helped and
be overtaken by a stale swing, and let a dequeue act on a head that has moved
twice. Three items each are what it takes for a consumer to see two values of
one producer in the wrong order. Lock-freedom needs a third thread: one stopped,
two still interfering. With reuse, three nodes make every address come back
while somebody still holds it. The counters stay below `CountMod = 16`: the runs
say nothing about a counter that wraps within one operation. `dequeue` can
always be called, so that deadlock is checked, but in `weak`: there a thread
that is about to follow a null or uninitialised pointer stops, as the program would.

Deleted memory in `counted_reuse` and the other runs with reuse reads as `(NULL, 0)`, the one content that lets a late link succeed,
or as a link to a node, which sends the thread to help or to dequeue (`MCResidue`); other
contents differ only in what a CAS that fails compares. `counted_no_reuse` needs none.

*The run `hazard`* is on memory that `new` hands out cleared: without that a list that leads back to itself is retired
and grows without end, and most of the properties fail (`TypeOK` and `ScanSparesNamed` do not: section 5). It has `Threshold = 2` for 5, two threads, and four clients. `any`: any calls,
3 nodes that the allocator returns in any order. `enqueuer`: one thread calls
anything, the other only enqueues, 4 nodes, which is what it takes to
delete the node an enqueue is about to use. `stopped`: thread 1 stops
for ever somewhere in a dequeue, thread 0 goes on with at most one value in the queue; the bound
`2 * N` of `GarbageBound` is reached there (it fails with `2 * N - 1`). `tests`: `test_seq.cpp`. In the last three the
allocator returns the first free node. The threads enqueue different values, so that
`Linearizable` sees their order.

`ThreadsForgetNoNode` is `NoLeak` for all clients but `tests`: the sequential interface forgets the nodes it retires.

*Reduced widths* in `impatomic` keep what matters: three widths below the word, each
signed and unsigned, `bool`, and operands that do not fit. The header handles no
width by number.

**Fairness.** Only `TaskSpec` (and `MCSpec` of `MCNoFree`) states any: weak fairness of the *whole program*
(`WF(TaskNext)`): a machine that can take a step takes one. No thread is
promised a step, so that `Nonblocking == <>AllDone` is lock-freedom: a
thread left out for ever cannot make the others loop for ever, and as tasks are
finite they all finish until only it can run.

**Findings.**

- `counted_aba`: `src/ms_queue_strong/README.md` says ABA is solved by the
  counters. The counter of `next` starts again at 0 whenever a node is constructed,
  so an enqueuer that read `next = (NULL, 0)` of a node before it was
  dequeued, deleted and allocated again succeeds with its CAS on the *new*
  node, which its owner has not linked. `enqueue` returns and its value is not
  in the queue. (That is also the one way for the sentinel loop of `test_par.cpp`
  to accept the value left by a dequeue that failed: `LoopEndsOnSuccess` holds without reuse.)
- `counted_dangling`: the comment on line 78 says the value is read before
  the CAS "to prevent another dequeue from freeing the same node"; the node may be
  deleted already. `SwingIsCurrent` shows the harm is confined: the CAS of such a dequeue fails.
- `strong_no_free`: `dequeue` of `src/ms_queue_strong_nofree` loads `next` from `head`,
  so that a dequeue that returns true has removed nothing.
- `hazard_stale`: "Create node with no successor" (`node.h:22`), but in recycled memory `next` may still
  hold the old successor; such a node is linked as the last one and leads somewhere. (There memory reads as what was last stored in it,
  an allocator that touches nothing.)
- `weak_null`: "Queue is not empty" (`ms_queue_weak.h:82`), but `tail` is loaded relaxed and may
  be newer than the `next` that the thread can see: `next` is null and is dereferenced. It takes a thread that has not enqueued
  what it dequeues; `TaskFindsNext` shows that two threads of the tests never do it (`TasksFindNext`).
- `weak_help`: "All CAS should have a release memory ordering" (`ms_queue_weak.h:31`), but the helping CAS is
  relaxed, and a third thread (two do not suffice: `TwoThreadsReadNoGarbage`) that reads `tail` from it may read `next` of a node before
  seeing it constructed.

## 5. Proofs

### The queue without reclamation

For *every* set of threads, nodes and values, under `NodeAssumption` (the dummy
is a node, `Null` is not) and `ValueAssumption` (`NoValue` is not a value):

- `Invariance`: `Spec => []IInv`. `TypeCorrect`, `NullSafety`, `TailNearTheEnd` follow from
  it, and `GrowOnly`, an action property.
- `Linearizability`: `Spec => Linearizable`, every behaviour of the code is one of `FifoQueue`.

*The inductive invariant.* `TailBounds` alone is not inductive: that
`tail` does not run past the list depends on what each thread remembers. `IInv` says
(`ListInv`) that ranks and linked nodes correspond one to one and `next` leads
from each rank to the following; (`EndsInv`) `head <= tail`, and `tail` is last
or last but one; (`EnqueueInv`, `DequeueInv`) what the locals of an operation
guarantee at each access: a private node is private; `cur_tail` is a linked
node not beyond `tail`; `cur_head <= cur_tail` because `head` is loaded first;
and a `next` that is not null is still the `next` of its node, because links are
permanent. That a null `next` rules out `cur_head # cur_tail` is why line 78 can
dereference `next` without testing it: when `cur_head` was loaded before a later `tail`,
it already had a successor.

*The refinement.* The abstract queue is the sequence of values of the nodes after
`head`. An enqueue takes effect at its successful CAS of `next`, a dequeue at that of
`head`. A dequeue that returns false took effect when it loaded `next`, if that was
null: then `cur_head` was the last node, so `head` was there too and the queue
was empty, although the decision comes two accesses later and may be
revoked by the re-check of `head` (`Retry` of `FifoQueue`). Each action is shown to
be a step of `FifoQueue` or a stutter; `PhaseFrame`, `DatumFrame` and `QueueFrame` say what a
step leaves alone.

### The queue with hazard pointers

For every `N`, memory, `Threshold` and set of values, under `ThreadAssumption`, `NodeAssumption`
and `ValueAssumption` of `MSQueueHazard`. In `Spec` each thread keeps its `free_list`.

Of the program as it is, whatever the `next` of a new node holds:

- `TypeCorrect`: `Spec => []TypeOK`;
- `ScanSpares`: `ScanSpec => []ScanSparesNamed`: no node that a scan is about to delete is named by a hazard pointer that has
  stood since the scan began. The invariant says where such a pointer is: in a record that the scan has not reached, or in
  `ptr_list` (`Collected`).

The others say `Spec /\ [][ClearMemory]_vars => []...`: they hold of the runs in which `new` hands out memory that reads as null
where `next` lies. That is an assumption on the allocator which this code should not need and does (`hazard_stale`):

- `IInvHolds`; `HazardPointersProtect`: no deleted node is read or deleted;
  `ListStaysIntact`: no CAS is deceived by an address that has come back;
  `EveryNodeRetiredOnce`; `NothingLeaks`; `BoundedGarbage`;
- `Linearizability`.

*The inductive invariant.* What a thread reads is in `heap`, but that is not inductive: why does no scan
delete it? A thread publishes a pointer and then finds it still in `head` or `tail`, so that the node is in the list *then*.
If it is retired later, then to the `free_list` of a thread whose next scan starts at slot 0
after that. `Safe(t, k, n)` says what remains true: the hazard pointer still holds `n`, `n` is
allocated, and a scan that has `n` in its free list either has not reached slot `2t + k`
or has found `n` (in `ptr_list`). For `next` (slot 1) the re-check is of `head`: its successor is in the list too.

That no CAS is deceived needs more: a node that has left the list has a successor, and keeps it while it is
allocated (`HeldInv`), so that a CAS of `next` from NULL can only hit the last node;
a `cur_head` that is still in the list is `head`; and `cur_tail # cur_head` means
that `cur_head` has a successor and `tail` has passed it (`DequeueInv`), which is
why `dequeue` may read `next->value`. This is where `ClearMemory` is needed: with a stale `next` a node has a successor before it is linked.

*The steps.* Most change nothing but the locals and the hazard pointers of one thread (`QuietKeeps`). For the others,
`Evolves` says how the shared state moves so that what other threads know survives (`OthersKeep`), and `Reassemble`
puts the invariant together: what the lemma of an action proves is about the thread that acts.
The first lemmas are about sequences (`AppendFacts`, `FrontFacts`, `TailFacts`, `ConcatFacts`).

*The refinement* adds `ValueInv`: the values that threads have read are those of
nodes, which do not change while they are protected. The abstract queue and the points
where operations take effect are as above.

*How much is held back.* `BoundedGarbage` counts: `ptr_list` has at most one node
per hazard pointer that the scan has read, so that a scan keeps `2 * N` nodes at most. That is one too many, as the next
dequeue adds a node before the next scan. The one to spare is the second
hazard pointer of the thread that scans (`GarbageInv`): it still holds what became `head` in this dequeue,
a node that some thread may have retired since, but not this one.

### The queue with counted pointers

For every set of threads, addresses and values, *whether or not deleted memory is used again* (`Reuse`), whatever it reads as then
(`Residue`), as long as no counter wraps: the hypothesis `[]NoWrap` of the theorems of `MSQueueCountedProofs` says that `tail.count`, the
largest counter, stays below `CountMod - 1`; with `CountMod = 2^32` that holds of any run of fewer than
2^32 - 1 enqueues. A counter of 32 bits gives no more than that (section 6).

- `Invariance`, `TypeCorrect`; `EndsStayAlive`, `NoDoubleDelete`; the action property `CurrentSwing` (a dequeue
  that succeeds returns the value of the live node it moves `head` to, although others may have read
  deleted memory).

*The inductive invariant.* With reuse, ranks mean nothing: a late CAS may add a link to a node that is not in the list
(finding `counted_aba`). What survives is the shape (`ChainInv`): among live nodes, those allocated and not dequeued,
no two have the same successor, none leads to `head` or to a private node, and a successor is live; and
(`PathInv`) `next` leads from `head` to `tail` in as many steps as their counters differ, through different nodes.
So `head` is not `tail` as long as its counter is smaller, and its successor is live. What a
thread has loaded holds only while `head`, or `tail`, still is the pair that it loaded; that
the pair cannot have come back is where `NoWrap` is needed. It is also what makes the contents of deleted memory harmless: who has
read them finds that `head`, or `tail`, has moved, except for the last CAS of `next`, which checks nothing else; but a link in deleted memory is in no chain
(`LateLinkKeepsList`).

If the allocator leaves deleted memory alone (`MSQueueCountedRefinement`) the queue is linearizable, and nothing is assumed of the counters:

- `Linearizability`: `Reuse = FALSE => (Spec => Linearizable)`; `LinkedLast`.

The proof does not repeat the argument: dropping the counters, and taking for the heap the
addresses ever used, maps each step to one of `MSQueueNoFree` or to a stutter, and `Linearizability` of
`MSQueueNoFreeProofs` does the rest, instantiated under that mapping. `LoadedInv` says that comparing pairs
gives the answer that comparing addresses does. One step differs, `*value = next.ptr->value` of a deleted node; `AliveInv`
shows that the CAS after it fails, so that what it read does not matter.

### The test programs

For any number of threads and items (`TestTasks`, on the queue without reclamation):

- `TasksInvariance`: `TaskSpec => []TasksInv`; `NoDequeueFails`, `OrderKept`, `SumsAgree`: what the tests assert;
- `TasksUseTheQueue`: `TaskSpec => Spec`, so that everything proved of the queue holds in the tests.

*The inductive invariant* counts. `Enqueued` and `Dequeued` are the items whose CAS has
succeeded; their cardinalities are the ranks of the last node and of `head`, less the dummy. A task enqueues all its items
before it dequeues any, and dequeues as many as it has enqueued. A task in a dequeue has therefore put
in more than it has taken out, no other has taken out more than it put in, and so the queue is not empty (`NeverEmpty`).

### The weak queue

For any threads, nodes and values, with or without spurious failures (`Spurious`), over the memory of `WeakMemory`:

- `Invariance` (`Spec => []IInv`), `TypeCorrect`, `ListStaysIntact`, `HeadBehind`, `RaceFree`;
- for the queue that deletes nodes, `CountedImplements` (`CountedSpec => Spec`), `CountedInvariance`, `ListStaysAlive`, `NoDoubleDelete`.

*The inductive invariant.* There is no current value to reason about, but the messages of each location are in an order:
those of `head` and of `tail` are the nodes of `list`, one after the other (`EndsInv`), which holds because a CAS reads the newest
message. A message of `next` is what the memory held, then null, then the successor (`NextInv`). What a thread
may conclude from a load is in the view of the message: the view of the `i`-th message
of `head` has seen as many of `tail`, and the view of a successor in `next` has seen its fields (`RaceFree`). `ViewInv`
keeps all views within the memory. `EnqueueInv` and `DequeueInv` say in which message a thread read its
locals. The lemma of each action proves these for the thread that acts (`LocalsOK`) and for the locations it writes (`MemoryOK`);
`Assemble` puts them together. `HeapInv` adds that whoever is about to delete a node
is alone in that, and that the node is before `head`.

That no null pointer is dereferenced is *not* a theorem here: it is false (`weak_null`).

*What two threads see.* Nor is it a theorem that nobody reads a `next` before its constructor's store (`weak_help`). It is one
under `TwoThreads`, at most two threads and no spurious failures: `SightInvariance`, `TwoThreadsReadNoGarbage`. The helping CAS of `tail`
is relaxed, so its message need not carry the node it points to. But the helper has acquired the link to that node,
and the only other thread is the one that linked it and has still to swing `tail`
(`LagSight`: while `tail` lags, an enqueue is before its last CAS; with a spurious failure it could be past it). So both know the node, and
nobody needs the message. `Sees` says that a view shows the first `m` nodes constructed and each linked to the next; `SightInv`, that this holds of
who acquires a link (`LinkSight`), of who acquires `head` or `tail`, given what he knows already (`EndsSight`), and of what a thread has in its locals (`LocalSight`);
later messages of `head` show no less than earlier ones (`HeadSight`). The hypothesis is the case of all three tests as they stand (`NTHREADS` is 2) on a
machine whose weak CAS is a strong one.

*The refinement.* `LooseLinearizability` (`Spec => LooselyLinearizable`) and `CountedLooseLinearizability`, for any threads, nodes
and values, spurious failures or not. It needs `KnowInv` besides `IInv`: an enqueue has seen `tail` reach the node that it links
behind, so that it knows of all items but its own; a dequeue has seen, at every location, at least
what the message of `head` it read carries, that is all that those who took the items before had seen. When it is about to return false,
its view of `tail` is exactly `cur_tail` and it has not seen the link behind, so that it knows of no item beyond those before `cur_head`.
The lemmas `KnownGrows` and `KnownStays` say that what is known never gets less.

### The tests of the weak queue

For any number of threads and items, any nodes, spurious failures or not (`WeakTasks`):

- `TasksInvariance`, `NoDequeueFails`, `SumsAgree`, `TasksUseTheQueue`, as for `TestTasks`.

The counting of `TestTasks` does not do here: a queue that is not empty may look empty. The proof is about the steps of `LooseFifo`
that the code takes. A thread knows all its own items, and whoever takes an item leaves on `head` what he knows
(`SeenInv`). Suppose a dequeue of `t` finds the queue empty: the items that `t` knows of are gone.
Those who took them have left their knowledge on `head`, so that `t` knows of all *their* items, and these are gone too.
Let `D` be `t` and the takers: all `Items` items of each thread in `D` have been taken by threads of `D`, each of which
has taken at most `Items`, and `t` fewer, as it is still in a dequeue. That cannot be (`NeverEmpty`).

`EveryDequeueSucceeds` says what is returned, not that every dequeue returns: one that finds a null or uninitialised `next` stops.
Under `TwoThreads` none does: `TwoThreadsReadNoGarbage` through `TasksUseTheQueue`, and `TasksFindNext`, which says that a dequeue never
takes the null of a constructor for a successor. It is the counting argument once more. Suppose `t` has acquired `head` at the `i`-th node: by `Beyond`, of which `NeverEmpty`
is a case too, the items from the `i`-th on include one of `t` or of somebody who has taken an earlier one. In both cases `t` sees that item, and so the link at the
`i`-th node: `OwnSight` says that a thread sees its own items and all that lies before them, `TakenSight` that so does who acquires
`head` from a taker. `NextIsSeen` draws the conclusion, and by coherence the load of `next` returns the successor.

### The parallel test and the benchmark

On the queue with counted pointers (`Workloads`), for any number of threads and elements:

- `ProgramsUseTheQueue`: `WorkSpec => Spec`;
- while the allocator leaves deleted memory alone (`Reuse = FALSE`, which the other theorems state): `WorkInvariance`; `TestAlwaysPasses`, the assertion of
  `test_par.cpp`; `LoopEndsRight`, its loop accepts only what a successful dequeue returned; `BenchmarkAlwaysDrains`.

With reuse they do not hold: an element may be lost (`counted_aba`). The invariant is that of `TestTasks`, over
the ranks of `MSQueueNoFree` to which the counted queue is mapped: `Dequeued` is contained in `Enqueued`, and properly while a dequeue is outstanding,
so that a dequeue always finds a successor. The ranges `n_elements * t + i` of the test's threads are disjoint and
cover `0 .. n - 1`; so different nodes hold different numbers, and each comes out once.

### Only model-checked

- Liveness (`Nonblocking`): the prover does not handle fairness.
- `Impatomic`: it needs the module `Bitwise`, which is recursive, and so cannot be proved about.
- `TestsPass` of `hazard`: a fixed sequence of calls, on one instance, is all there is to say.
- `ThreadsForgetNoNode` of `MCHazard`: its `NoLeak` is the theorem `NothingLeaks`, about `Spec`, in which there is no sequential interface.
- The properties of the runs that end in a violation: they do not hold.

## 6. Not modelled

- `impatomic.h`: the memory orders (they pass through; the order for failure is dropped by the macros), `atomic_flag` and the
  fences (defined in libmodel), `fetch_add`, `fetch_sub`, `++` and `--` of `atomic<T*>`, which return a
  `void*` as a `T*` and do not compile where used, and C calls nested in operands, which the macros evaluate where
  they expand.
- libmodel itself; `unrelacy.h` and `librace.h`, which the queues include and use nothing of.
- `test_cds.cpp` (its `main` returns at once), and the copies of `test_seq.cpp` and `test_par.cpp` for the other queues. The
  `thread_local` free list of the hazard-pointer `test_par.cpp` is lost when its thread ends, as
  the one of the sequential interface is lost at the end of the call: every node in it leaks. `ThreadsForgetNoNode`
  shows nothing else does.
- Counters that wrap within one operation (2^32 moves of `head`).
- In the benchmark: the clock, the busy loop `work` between operations, the command line. Scripts, logs and plots.
- Out-of-memory in `operator new`; the destruction of a queue (the classes have no destructor); the padding
  bytes a CAS on `Pointer` compares; word tearing (the atomics are the hardware's or libatomic's).
