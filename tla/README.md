# libcds in TLA+

libcds is a C++ library of concurrent containers and of the safe memory reclamation (SMR) they
need. This directory models parts of it in TLA+, translated from the source: model-checked on
small instances with TLC and, for the two reclamation schemes and for the stack, the three queues
and the ordered list without locks, proved for instances of any size with TLAPS. `PROJECT.json` maps
every definition to the lines it models.

## The system and its modules

A container is a template over a garbage collector. The collector promises that an object that was
unlinked and retired is freed only when no guard (hazard pointers) or read-side section (RCU)
protects it; the containers rely on that promise and on nothing else of the collector. The models
are cut at the same place:

```
 AtomicStack   AtomicQueue  BoundedQueue  AtomicSet            ClearableQueue    what is promised
      ^             ^            ^         ^     ^                    ^
 TreiberStack    MSQueue   VyukovQueue MichaelList LazyList     FlatCombining    the containers
      |             |            |         |     |
      +-------------+-----.      |   .-----+-----+          (an arrow up is a refinement,
                          v      |   v                       an arrow down "is built on")
                        SafeReclamation                                          the promise of SMR
                          ^      |   ^
                 HazardPointer   '-> GeneralRCU                                  the schemes
```

| module | source | what it models |
|---|---|---|
| `SafeReclamation` | (the interface of `cds/gc`, `cds/urcu`) | objects are free, linked or retired; a guard protects an object that is linked, or copies a guard; what is reclaimed is retired and unprotected |
| `HazardPointer` | `src/hp.cpp`, `cds/gc/hp.h`, `details/hp_common.h` | `gc::HP`: thread records, protect, retire, both scan functions, help_scan, destruct |
| `GeneralRCU` | `cds/urcu/details/{base,gp,gpi,gpb,gpt}.h`, `dispose_thread.h` | general-purpose RCU: sections, flip_and_wait, the instant, buffered and threaded schemes, the reclamation thread |
| `TreiberStack` | `cds/intrusive/treiber_stack.h` | push, pop, clear, elimination back-off |
| `MSQueue` | `cds/intrusive/msqueue.h`, `moir_queue.h` | the Michael-Scott queue and Moir's variant |
| `VyukovQueue` | `cds/container/vyukov_mpmc_cycle_queue.h` | the bounded queue of cells with sequence numbers, front() and pop_front() for a single consumer |
| `MichaelList` | `cds/intrusive/impl/michael_list.h` | the lock-free ordered list, which is also a bucket of MichaelHashSet |
| `LazyList` | `cds/intrusive/impl/lazy_list.h`, `cds/container/impl/lazy_list.h` | the ordered list with a lock per node and searches without locks |
| `FlatCombining` | `cds/algo/flat_combining/kernel.h`, `cds/container/fcqueue.h` | the publication list, combining and compaction, under FCQueue with elimination |
| `AtomicStack`, `AtomicQueue`, `BoundedQueue`, `ClearableQueue`, `AtomicSet` | | abstract specifications: an operation begins, takes effect in one step, and returns |
| `HazardPointerTypes`, `HazardPointerSafety` | | proofs about `HazardPointer` |
| `GeneralRCUSafety` | | proofs about `GeneralRCU` |
| `TreiberStackSafety` | | proofs about `TreiberStack` |
| `MSQueueSteps`, `MSQueueSafety` | | proofs about `MSQueue` |
| `VyukovQueueSafety` | | proofs about `VyukovQueue` |
| `MichaelListSafety` | | proofs about `MichaelList` |
| `MC*` | | instances for TLC |

## How the models correspond to the code

**Steps.** A step is one access to shared memory together with the private computation that
follows. `pc[t]` is the point of thread `t` between two accesses. Local variables keep their names
where TLA+ allows it (`pCur`, `nEpoch`, `it`), and are reset when they are dead, which changes
nothing but the number of states. `compare_exchange_weak` may fail spuriously. Item counters and
positions are unsigned integers modulo a constant.

**Memory.** Atomics are sequentially consistent. The weaker orders of the code (acquire, release,
relaxed) are not modelled: where the code pays for a fence, as `sync()` after a hazard pointer is
stored, the store and the fence are one step. Errors of memory order are outside these models.

**Objects** are addresses that are allocated, linked, retired, freed and allocated again, so that
ABA situations do occur.

**Program variants** (traits, which operations the clients call, which scheme is built) are
variables chosen in `Init` from a constant set and never changed: one run covers several programs.

### HazardPointer

Thread records are never unlinked from `thread_list_`, so a record is named by its distance from
the end of the list. The clients are threads that link an object into a shared pointer, retire what
a shared pointer leads to (unlinking and retiring are one step: nobody can tell), protect, clear
and copy guards. `AllocNew` pushes the record with one step for its CAS loop. The free list of a
thread's own guards is left out: a guard is a slot. On detach `hazards_.clear()` is one step; the
order of the stores is not observable, since the guards are no longer used. `Destruct` happens when
all threads have detached; that `destruct( true )` forcibly detaches them is not modelled, nor are the statistics and `set_memory_allocator`. `valid` is a history
variable: the slot's protect() has returned and its owner may dereference the pointer.

`push` stores to the retired array without a bound check, and its callers scan when the array has
become full. A push to an array that is still full writes past its end; what the program does then
is undefined, so the steps that push (`Retire`, `HelpMove`) have the guard `HasRoom`, and `RoomLeft`
says when it is no restriction: with a capacity larger than the number of hazard slots and no more
threads than configured, a scan of aligned pointers frees at least one cell. It is one if the
capacity equals the number of slots (`calc_retired_size` accepts that, `hp.cpp:114`), if more
threads attach than were configured, and, in any configuration, after a `classic_scan` that kept all
pointers of a full array because the first of them is guarded (finding 1). There the model stops.

### GeneralRCU

`m_nAccessControl` is its two fields, nest counter and control bit. A section begins when
`access_lock` stores the global word it loaded a step earlier. `synchronize` is a lock, two calls
of `flip_and_wait` that pass the records one by one, and an unlock; `general_buffered` takes its
epoch under the lock, `general_threaded` before it, as in the code. `m_Buffer` is a bounded FIFO
queue: that the default buffer is one is what `VyukovQueue` is checked for. The default buffer does
not count its items, so `size()` is 0 and synchronization starts only when `push` fails; `counting`
chooses between both. `unpushed` is the set of pointers that the nested calls of
`push_buffer`/`synchronize` free when they return, without the order of the frees. Retiring and
synchronizing happen outside the thread's own sections (`assert` in `gpi.h:157`). `batch_retire`
loads the epoch once, for a chain that is already unlinked, as all callers in the library do.
The reclamation thread of `dispose_thread` runs beside; `notify_one` wakes any one of the threads
that wait on `m_cvReady`, whichever of the two loops they are in. `lock` and `fetch_add` are one
step in the buffered scheme (the epoch is read by others only to compare), and so are free and
pop_front of the reclamation thread, which alone looks at the front. `Destruct` builds a new
instance in the same step.

### The containers

Over `SafeReclamation` a `Guard::protect` is one step, the load that confirms the pointer: that is
what the refinement of the schemes below justifies. Guards copied along with a position are copied
in the step that moves the position. So the results on the lists hold over the promise of
`SafeReclamation`. `gc::HP` keeps that promise under `SafeUse` (see "What is proved"); finding 2
shows that it does not for guards copied to a lower slot, and the searches of both lists make such
copies (`michael_list.h:1221`, `lazy_list.h:1211`). What the lists are over `gc::HP` with that
fault is not claimed.

- `TreiberStack`: the critical section of a collision slot is one step. A collision array of one
  slot makes collisions certain. `clear` resets the item counter beside operations that have not
  counted yet, so the counter is claimed exact only without it.
- `MSQueue`: the dummy node is never retired. `saw` records that the queue was empty at an instant
  of a dequeue, which is what an answer "empty" means. The destructor and a new construction are
  steps, taken when nobody is inside.
- `VyukovQueue`: positions wrap at `PosModulus`. `Window` bounds how far others may overtake a
  thread between its load of a position and its exchange; the code relies on the same with 2^64.
- `MichaelList`: insert, update (with and without insertion), erase (also extract and unlink),
  find (also get and contains) and clear. The constant `Bucket` allows several heads; the run uses
  one, because clear() of a whole table is not one atomic step and the documentation does not say
  it is.
- `LazyList`: the same interface. clear() does not validate the two nodes that it locks, so it is
  checked only while no other operation runs (`ClearAlone`).
- `FlatCombining`: record 1 is the one of the constructing thread and the head of both lists.
  Records are allocated at the lowest free address, so that addresses are reused as soon as
  possible. A thread enqueues its own name. Ages are modulo 4 with compaction every second pass.
  Executing a request and `operation_done` are one step; the two of `collide` are separate. The wait
  strategies return at any time. Threads end only while no combiner is at work (`ExitAlone`) in the
  passing run: the run `fc_exit` shows why.

## The runs

Times are for two workers; all passing runs check deadlock.

| run | instance | distinct states | what it shows |
|---|---|---|---|
| `hp_scan` | 2 threads, 2 records, 2 aligned objects, 2 slots, inplace scan, guards copied upwards | 487K | no guarded object is freed (`GuardedNotFreed`), the scheme implements `SafeReclamation`, every detach ends (`DetachEnds`) |
| `hp_detach` | 1 slot for each of 2 threads, retired arrays of 3 cells, 4 objects, one at an odd address, so that arrays fill up and both scan functions run | 1.0M | a push finds a cell (`RoomLeft`), a retired object is in exactly one cell until it is freed (`RetiredOnce`) and freed once (`DisposedOnce`), a record has one user (`OneUser`) and is empty when free (`FreeIsEmpty`) |
| `hp_classic`, `hp_copy_down` | as above; classic scan; guards copied downwards | | violations, see Findings |
| `ts_stack` | 3 threads with elimination in one slot, or 2 threads with clear; 2 nodes | 232K | linearizable stack, no use after free, no node lost or given out twice, exact counter |
| `mq_queue` | 3 threads, 2 nodes and the dummy, both queues | 87K | linearizable FIFO queue, no use after free, no leak, the tail never leads to a retired node (`TailLag`), exact counter |
| `vq_cycle` | 2 cells, positions modulo 16, both threads produce, both or one consume | 330K | linearizable bounded queue over several wrap-arounds, a cell has one user (`CellExclusive`), front() stays the front (`FrontStable`) |
| `ml_set` | 2 threads, 2 nodes, 2 keys, all operations | 203K | linearizable set, sorted, what is marked is never changed again (`MarkedFrozen`), no use after free, exact counter |
| `ll_set` | the same; clear alone | 170K | linearizable set, sorted, no use after free, a validated position is still linked (`StillLinked`); with the deadlock check, that no two threads wait for each other's node locks |
| `fc_queue` | 2 threads, 3 records; elimination, or clear and empty, or threads that end and come back | 389K | linearizable queue, no freed record in the publication list (`ListedNotFreed`), a combiner has its own answer when it stops (`CombinerAnswered`), no request is overlooked for ever (`RequestAnswered`) |
| `fc_exit` | threads that end at any time | | violation, see Findings |
| `gp_schemes` | 2 threads, 2 records, 2 objects, one buffer cell; instant, buffered (counting or not), threaded | 506K | nothing is freed under a reader (`ReadNotFreed`), a retired object is in one place (`RetiredOnce`), the schemes implement `SafeReclamation`, every grace period ends (`GraceEnds`) |

Linearizability is stated as refinement. The abstract module has one step per operation in which it
takes effect; the mapping gives the abstract state (the stack, the queue, the set of keys) from the
concrete one. Where an answer depends on a past instant ("the queue was empty", "the key was
absent"), the history variable `saw` records that such an instant lay within the operation.

Every property of a passing run has a mutant in `PROJECT.json`: a change of one mapped definition,
of the kind a slip in the code would be, that makes TLC find the property violated.

### Bounds, and why they are enough

In `hp_detach` the constraint `OddApart` keeps the number of states down: the object at the odd
address is in use only together with one other object. `RoomLeft` does not speak of arrays with an
odd pointer, and the other properties of that run are proved without the constraint. The threads
are symmetric there; symmetry is used only where no liveness is checked.

Two threads reach every pairwise interleaving; a third matters where a helper and two rivals meet,
so stack and queue have three. Two objects are enough for one that is freed, allocated again at the
same address and confused with its former self. A second record exists for help_scan and for the
record that flip_and_wait passes first. Larger instances were checked by hand with the same result
and are too slow to keep:

| model | larger instance | distinct states |
|---|---|---|
| HazardPointer | 3 records; 4 objects | 3.8M; 3.5M |
| MSQueue | 3 threads, 3 nodes; the same for MoirQueue | 579K; 357K |
| VyukovQueue | mixed producers and consumers | 1.0M |
| MichaelList, LazyList | 3 nodes | 640K, 491K |
| FlatCombining | 3 threads | 2.8M |
| GeneralRCU | buffered to the third epoch; threaded, 2 synchronizations, nested sections; threaded, counting | 2.3M (not exhausted); 2.75M; 1.2M |

`syncs` bounds the epoch after which the clients retire no more; `nests` the depth of sections;
`MaxRecords` the records ever linked; `MaxItems` the items of FCQueue.

### Fairness

- `DetachEnds` assumes weak fairness of the steps of scan and help_scan: a thread in them never
  waits for another.
- `RequestAnswered` assumes weak fairness of the threads inside an operation, and nothing about who
  wins the lock. It leaves out the two ways in which the code does let a thread wait for ever:
  others call empty() again and again (`invoke_exclusive` takes the lock and serves nobody), or the
  thread is so slow that its record is taken out as too old each time it has been published.
- `GraceEnds` assumes weak fairness of the steps of a grace period, and that no thread stays in its
  section for ever (`[]<>~InSection(t)`), which is the obligation RCU puts on its readers.

## What is proved

Twenty-nine theorems, with TLAPS, for every number of threads, records, slots, objects, cells, keys
and buckets and every width of the counters, from the named assumptions on the constants
(`ConstantsAssumption` of each module). Together they cover every safety property that the passing
runs check of these six modules, but for `RoomLeft`; the run shows it on a small instance, the
theorem for all.

### Hazard pointers (`HazardPointerSafety`)

| theorem | property | hypothesis |
|---|---|---|
| `TypeCorrect` | `TypeOK` | |
| `RecordsExclusive` | `OneUser` | |
| `FreeRecordsEmpty` | `FreeIsEmpty` | |
| `NoRetiredLost` | `RetiredOnce` | |
| `NoDoubleDispose` | `DisposedOnce` | |
| `GuardSafety` | `GuardedNotFreed` | `SafeUse` |
| `Refinement` | `ImplementsSMR` | `SafeUse` |

`SafeUse` is: the inplace scan, objects at even addresses, guards copied only to higher slots. Each
part is needed: `hp_classic` and `hp_copy_down` show what happens without it.

The invariant has three layers. The first, in `HazardPointerTypes`, is who owns a record through
attach, detach and help_scan, where the cursors of the loops can stand, which arrays are empty. The
second is that the live cells of the retired arrays hold the retired objects, each once, also in the
middle of a compaction and of a help_scan that moves them. The third is what is needed for the
guards. None of the properties is inductive by itself. `GuardedNotFreed` needs to know, of a scan
under way, that a guard of a retired object in the scanned array either has been seen (the object is
marked) or is in a slot that the scan has not read yet; a copy to a higher slot keeps that, a copy
to a lower one does not.

### General-purpose RCU (`GeneralRCUSafety`)

| theorem | property |
|---|---|
| `VariablesTyped` | `TypeOK` |
| `ReadersSafe` | `ReadNotFreed` |
| `RetiredKept` | `RetiredOnce` |
| `SchemesRefine` | `ImplementsSMR` |

There is no hypothesis beyond that on the constants. The proof first sorts the steps into a few
kinds (`StepKinds`) and states for each kind what it leaves alone, so that each part of the
invariant looks only at the steps that matter to it. The first parts are who owns a record (`Own`),
which sections are open (`Sections`), who holds the lock (`Control`), and that a retired object is
in the hands of one thread or in one buffer cell (`Placed`, `Hands`). The grace period follows:

- `Epochs`: the epoch of a synchronization under way is less than `m_nCurEpoch`, so an object
  retired after it was taken is not covered by it.
- `Staged`: while `synchronize` runs, whoever holds an object that it covers is where flip_and_wait
  will still find them. After the first flip those it has passed carry the new control bit; after
  the second flip that is the old bit again, and their records lie ahead.
- `Returned`: when the second flip_and_wait is over, nobody holds what it covers. Nor does anybody
  until it is freed, since a covered object is unlinked and cannot be read anew.
- `Passed`: the same for the epoch handed to the reclamation thread.

That two flips are needed, and one is not enough, is what `Staged` makes precise: a reader that has
loaded the control word before a flip and stores it after carries the old bit, unseen by the first
wait.

### Treiber's stack (`TreiberStackSafety`)

| theorem | property |
|---|---|
| `NodesSafe` | `NoUseAfterFree` |
| `NodesConserved` | `NodeConservation` |
| `StackLinearizable` | `ImplementsStack` |
| `CounterRight` | `CounterExact` |

The assumptions are finitely many threads and nodes, and fewer nodes than the item counter has
values. The theorems hold with and without elimination, and with clear(), except that
`CounterExact` is about stacks that are not cleared.

The invariant says what the program counter tells of
the locals and of the collision slots (`Typed`, `Control`); that the stack, and every list that a
clear() has cut off, is a list without a cycle (`Lists`); that a node in use is in the stack or in
the hands of one thread (`Placed`). The compare_exchange of pop needs two more facts. A node under
a guard is not free, nor one that a push is about to link (`Guarded`): a node that was popped does
not come back while somebody guards it. Therefore a pop that finds its node on top also has its
successor (`Confirmed`). This is the argument against ABA, and it is the guard that carries it.

`StackLinearizable` maps each step to a step of `AtomicStack` or to none. Push, pop and clear()
take effect at their compare_exchange, an empty pop at the load that it confirms; a pair that is
eliminated takes effect in one step, as a push and a pop in a row, when one finds the other waiting.

The counter is behind the stack by the operations that have linked or unlinked and not counted yet.
`Balance` says exactly that, modulo the width: counter plus the additions it has not seen is items
plus the removals it has not seen.

### Michael and Scott's queue, Moir's queue (`MSQueueSafety`)

| theorem | property |
|---|---|
| `NodesSafe` | `NoUseAfterFree` |
| `TailNear` | `TailLag` |
| `NodesConserved` | `NodeConservation` |
| `QueueLinearizable` | `ImplementsQueue` |
| `CounterRight` | `CounterExact` |

The assumptions are those of the stack (the dummy node is one of the nodes, so that there may be as
many of them as the counter has values). Both queues are proved at once: `moir` is a variable.

The invariant `Inv` of `MSQueueSteps` has a part for the queue (`Typed`, `Listed`, `Placed`,
`Tailed`) and one for each thread:

- `Reads`: a link that a thread has read from a guarded node and found not null is still there. A
  link changes from null only, once, until the node is freed.
- `Guarded`: the node under the first guard is not free, no enqueue is about to link it, and if it
  leads nowhere it is in the queue. So an enqueue whose compare_exchange finds null in its node
  links to the last node of the queue, although the tail may have moved. The second guard promises
  less: it is set on what the link of a former head leads to, and that node may have been freed and
  allocated again. Only if the first node is still the head is it the successor (`At`), which is
  what the check of MSQueue, and in MoirQueue the compare_exchange itself, makes sure of.
- `At`: a dequeue that has found no successor saw the queue empty; one that is about to swing the
  head of an MSQueue does not swing it past the tail.
- `Tailed`: the tail is the last node, or the one before it, and then the enqueue that linked the
  last one has not yet tried to advance it. In MoirQueue that node may have been dequeued already,
  but then its dequeuer still has to look at the tail and will not dispose of the node before: that
  is why the tail never leads to a retired node.

Enqueue takes effect when it links its node, dequeue when it swings the head, the answer "empty"
when the null link of the head is read. `Balance` is as for the stack, until the destructor runs.

### Vyukov's bounded queue (`VyukovQueueSafety`)

| theorem | property |
|---|---|
| `QueueLinearizable` | `ImplementsQueue` |
| `FrontStays` | `FrontStable` |
| `CellsExclusive` | `CellExclusive` |
| `CounterRight` | `CounterExact` |

The capacity is at least two and divides `PosModulus`; `2 * (Window + Capacity) < PosModulus`, so
that the signed difference of a sequence number and a position has the right sign. With 64 bits this
says that no thread is overtaken by 2^63 operations between two of its steps.

The invariant is about numbers that do not wrap: there are integers `e`, `d`, `p[t]` and `s[i]` of
which the two positions, the threads' positions and the sequence numbers are the remainders
(`View`). On these, `Cells` says that the cells from `d` to `e` are full or being filled, the others
free or being emptied, each by one thread, and `Threads` that what a thread has read is at most
`Window` behind and that its sequence number has only grown. A cell is then reserved by whoever
advances the position past it, and accessed by nobody else until its sequence number is stored.

Enqueue and dequeue take effect when they advance the position, front() when it reads the sequence
number, and the answers "full" and "empty" when the position is compared with the other one.

### Michael's list and hash set (`MichaelListSafety`)

| theorem | property | hypothesis |
|---|---|---|
| `NodesSafe` | `NoUseAfterFree` | |
| `ListSorted` | `Sorted` | |
| `DeletedFrozen` | `MarkedFrozen` | |
| `SetLinearizable` | `ImplementsSet` | `ClearsOneList` |
| `CounterRight` | `CounterExact` | |

The assumptions are finitely many threads and nodes, fewer nodes than the item counter has values,
keys that are integers, and a bucket for every key. The number of heads is arbitrary, so the
theorems are about MichaelHashSet too. `ClearsOneList` says that clear() is called on a single list
only, for the reason given above. Like the run, the theorems are about the list over the promise of
`SafeReclamation`; over `gc::HP` they leave finding 2 open.

The invariant does not speak of what the heads lead to, but of the nodes in use (status linked):

- `Ordered`: every link of a head or of a node in use, marked or not, leads to the node in use with
  the next greater key of the same bucket. Two nodes in use do not have the same key.
- `Kept`: the link of a removed node is marked and stays as it is until the node is freed. A thread
  that has such a node as its pPrev fails its compare_exchange, which expects no mark.
- `Guarded`, `At`: the nodes of a position are guarded and not free, and the key of pPrev is smaller
  than the one sought. The guard on pNext was set on a node in use, if pCur still is in use: this is
  what the search confirms when it reads pPrev again, before it moves on.
- `Fresh`: the node of an insertion is free, and its own.

A compare_exchange of pPrev that succeeds finds pPrev unmarked, so in use, and pCur its successor;
by `Ordered` nothing with the key lies between. A changed list is described by four kinds of step
(an insertion, a mark, an unlinking, a freeing; `Change`), each shown once to keep `Ordered` and
`Kept`, and each action is shown to be one of them. That the nodes in use are exactly those the
heads lead to (`AllReached`) then follows from `Ordered` alone.

Insertions take effect when they link the node, removals when they mark it. The other answers are
the difficult ones: when a find answers "absent" the key may have been there for long, and only a
past instant of the call justifies the answer. `Seen` keeps track of it (`saw` has the answers that
were right at some instant of the call). When the search ends before a greater key, that instant is
the second reading of pPrev: the key is not in the set then, by `Ordered`. When the key is found, or
the list ends behind pCur, it is the earlier reading of pNext, but only if pCur was in use then.
Whether it was is not known at that time; `Seen` is therefore conditional (if pCur is in use now,
the answer has been noted), and the second reading of pPrev shows that the condition holds.

### Induction, and what the stack, the queue and the list need it for

`Items` and `Nodes` are computed by walking the list through a recursive function (`Chain`) for at
most as many steps as there are nodes. The proofs work with lists as sequences (`IsList`) and use of
`Chain` one fact, `Walks`: if the nodes from `p` on are the sequence `s`, `Chain` finds `s`. It is
an assumption of the lemmas about the steps and proved before the theorems, from the least number principle: a list without repetitions is not longer than the number
of nodes, and a shortest one that `Chain` does not find would have a shorter tail that it does not
find. For `MichaelList`, where `Chain` yields the set of the nodes, the induction is on the number of
nodes between a link and the node it is to reach. The library's induction theorems take an operator as a parameter, which the provers cannot
instantiate, so the induction goes through the well-foundedness of the order on the naturals, as a
relation.

### Only model-checked

- `RoomLeft`, which counts the hazard slots of all records against the cells of an array.
- All liveness (`DetachEnds`, `GraceEnds`, `RequestAnswered`): TLAPS has no fairness or ENABLED.
- `LazyList`. Its safety would need an invariant of the same kind as that of `MichaelList`, with the
  locks of the nodes in it; it was not attempted.
- `FlatCombining`: its promises rest on ages that wrap and on who may end when (see Findings), and
  no invariant was worked out for them.

## Findings

1. `hp_classic`: `classic_scan` (`hp.cpp:414`) looks up `first_retired` instead of the pointer at
   hand, so all retired pointers of a record are kept or freed as the first one is. `hp.h:261-264`
   describes a lookup of each node. The inplace scan falls back to `classic_scan` when some retired
   pointer has its low bit set. When the first pointer is guarded, a full array stays full and the
   next `push` is out of bounds.
2. `hp_copy_down`: a guard copied from a higher to a lower slot, and then cleared in the higher one,
   can be missed by a scan that reads the slots in ascending order. `hp.h:537-539` allows `assign()`
   for any pointer that another guard protects, and the lists do copy downwards.
3. `fc_exit`: `compact_list` takes the removed records out of the publication list in a first loop
   and frees what is in state removed in a second one (`kernel.h:802`). A thread that ends in
   between has its record freed while the publication list still leads to it; the comments at
   `kernel.h:561` and `:696` say that it is excluded first. A related case is harmless: when a
   thread ends between the unlinking of its record and the store of `inactive`, that store
   overwrites `removed`, and the record is freed only with the kernel.

Three more things came up that no run is spent on:

- A wakeup can be lost in `dispose_thread.h:86`. Thread A posts work with `force_dispose` and waits;
  thread B calls `dispose()` and sleeps, since `m_bReady` is false. The reclamation thread finishes,
  sets `m_bReady` and calls `notify_one`, which wakes A. A returns. B sleeps on, although
  `m_bReady` holds, until another `dispose()` happens to end in a notification. The model has these
  steps, and a property that every `dispose()` returns fails in this way.
- `LazyList::clear` does not validate the nodes that it locks: beside an insert it can cut the new
  node off. Hence `ClearAlone`.
- The search of LazyList starts again on a deleted node, any number of times, so it is not wait-free
  as the description of the container has it (`cds/container/impl/lazy_list.h:27`).

## What is not modelled

`PROJECT.json` lists every part of the library with its status. Left out are:

- memory orders weaker than sequential consistency, and with them WeakRingBuffer and the
  signal-handling RCU, whose correctness is about little else;
- `gc::DHP`: the protocol of protect and scan is that of `gc::HP`; what differs is that guards and
  retired pointers are kept in linked blocks;
- BasketQueue, OptimisticQueue, SegmentedQueue, RWQueue, MSPriorityQueue; FCStack, FCDeque and
  FCPriorityQueue, which put other sequential containers under the kernel modelled here;
- IterableList, SplitListSet, SkipListSet, EllenBinTree, BronsonAVLTreeMap, FeldmanHashSet,
  StripedSet, CuckooSet and the maps over them; iterators, and the RCU and no-GC specialisations of
  the lists;
- clear() of a whole MichaelHashSet; `FCQueue::apply`, which runs any functor of the client under
  `invoke_exclusive` (modelled with the functor of empty());
- free lists, memory pools and monitors; spin locks, taken as atomic;
- disposers that retire further objects from within a scan;
- statistics, back-off, allocators, options, operating system and compiler layers, which have no
  state these properties depend on.

The models cover a small share of the library's lines: most of it is one of the containers above,
or a specialisation of a modelled one for another garbage collector.
