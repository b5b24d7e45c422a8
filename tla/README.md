# doost in TLA+

This directory holds TLA+ models of the doost library, TLC configurations that
check them on small instances, and TLAPS proofs for every value of the
constants. The reference is the C++ code; a line number below is a line of it.

## 1. The system

doost is a collection of four small C++ libraries for POSIX.

| Component | State | Operations | Interacts with |
|---|---|---|---|
| `String` (`string.hpp`, `string.cpp`) | per object: tagged block pointer (low bit = "unique"), `previous_`, `next_`; per block: `first` and the text | constructors, destructor, the four assignments, `reset`, `swap`; private `attach`, `detach`, `move_from`, `replace_owner` | other `String`s of the same block, through the owner list; the heap |
| `ParallelMemcpyPool` (`parallel_memcpy.*`) | `start_generation`, `stopping`, one `WorkerState` (slot, `completed_generation`) and one thread per worker | constructor, `copy`, destructor, `worker_loop`; `parallel_memcpy` on a process-wide pool | caller and workers share the atomics and the slots, wake each other with `atomic::wait/notify` |
| Pool storage (`detail/downward_pool_storage.*`) | one `mmap` with a guard at its low end | make, release, usable and used bytes, cursor alignment | `mmap`, `mprotect`, `munmap`; the guard registry |
| `DownwardPool`, `MutexDownwardPool`, `NonblockingDownwardPool` | storage, `cursor_` (plain, plain behind a `std::mutex`, atomic) | constructor, `allocate`, `reset`, `release`, moves (not the mutex pool) | threads of the program; a block below the usable area is noticed by the MMU only |
| Guard registry and overflow handler (`downward_pool_storage.cpp:71-210, 307-337`) | 1024 slots of atomic `guard_begin`, `guard_end`; saved signal actions | register, unregister, find, the `SIGSEGV`/`SIGBUS` handler, its installation | every pool's construction and release; signals |
| `safe_read_uint8` (`safe_memory.*`) | jump buffer, active flag, saved signal actions | one read under temporary handlers | signals; the overflow handler |
| `List` (`list.hpp`) | `head_`, `size_`, `allocator_`; per node: `next` and the value | constructors, destructor, both assignments, `emplace_front`, `push_front`, `pop_front`, `clear`, `release_nodes` | an allocator, element constructors that may throw |
| Allocators (`downward_pool_allocator.hpp`) | a pool pointer | allocate, deallocate (a no-op), equality | pools, `List` |
| Benchmarks, tests, build | - | - | the use of the library that fixes what programs do |

What is hard to test here, and therefore what the models are for:

* `String` has no count. Whether an owner is unique, and when a block is freed,
  is recomputed from one or two neighbours in a list that copies, moves and
  swaps relink. A slip shows only after a particular sequence of calls.
* `ParallelMemcpyPool` is lock-free handshaking: plain slots guarded by two
  generation counters that are only compared for equality (and may wrap), a
  wait that must not miss a notification, a destructor that may run while a
  worker has still to call `notify_one`, a constructor that fails half-way.
* The pools never check how much is left. Several threads can overflow at once,
  and the constructor's `max_alloc_size` has to make the guard large enough for
  the lowest of them to still hit it. `NonblockingDownwardPool` takes a
  reservation first and aligns afterwards, inside what it took.
* The registry is written by several constructors at once, and read by a signal
  handler in between.
* `safe_read_uint8` and the overflow handler both save and restore signal
  dispositions.

`PROJECT.json` lists these hazards one by one, each at its line, with the
properties that cover it or the reason why none does.

### What makes each component correct

* `String`: the unique bit is true of exactly the sole owners; a block is freed
  with its last owner, no sooner and no later; every owner is on its block's
  list; every operation does to ownership what its name says.
* `ParallelMemcpyPool`: the workers touch slots and destination only while
  `copy` waits for them; a returned copy is complete and wrote nothing else;
  nothing is freed that a worker can still touch; every copy and every
  shutdown ends.
* Pools: blocks are disjoint and aligned; an overflow touches the guard before
  it touches memory below the mapping, if the guard was bought large enough;
  `used_bytes` never reports too little; a mapping is unmapped once, and never
  under a thread that is in the pool's code.
* Lifetime of a pool: a mapping has one owner, is unmapped once, and stays in the
  registry from construction to then, wherever the pool is moved; no move loses a
  block or hands it out again.
* Registry and handler: the table names only memory that is mapped; the handler
  finds every pool that has a slot, unless constructors race for it.
* `safe_read_uint8` and the installation of the handler: after every return the
  dispositions are those the program should have; a read never ends the
  process; any other fault is answered by the pools' handler or by what was
  there before the library.
* `List`: chain and size agree after every call, also one whose element
  constructor throws; every node is freed once, by the allocator that made it;
  a call that throws changes nothing.

## 2. Modules

```
SharedBlocks          what String promises                     (abstract)
  ^ OwnedString       the owner lists                  MCOwnedString

CopyService           what copy promises                       (abstract)
  ^ ParallelMemcpy    caller, workers, atomics         MCParallelMemcpy

Arena                 what every pool promises                 (abstract)
  ^ PoolClients       storage, threads, blocks, reset, release
      |- PoolLayout                 address arithmetic
      |- NonblockingDownwardPool    fetch_sub          MCNonblockingPool
      |- MutexDownwardPool          lock, plain cursor MCMutexPool

SharedBlocks          what a unique owner promises             (abstract)
  ^ PoolLifetime      moves, release, failures         MCPoolLifetime
PoolRegistry          the table and its readers        MCPoolRegistry
SignalHandlers        who answers a fault              MCSignalHandlers

ListService           what List promises               (abstract)
  ^ OwnedList         nodes, exceptions, allocators    MCOwnedList

OwnedStringProofs                                      about OwnedString
ParallelMemcpyProofs                                   about ParallelMemcpy
NonblockingPoolProofs                                  about NonblockingDownwardPool
MutexPoolProofs                                        about MutexDownwardPool
PoolLifetimeProofs                                     about PoolLifetime
PoolRegistryProofs                                     about PoolRegistry
SignalHandlersProofs                                   about SignalHandlers
OwnedListProofs                                        about OwnedList
```

`^` means: the module below states, as a property, that it implements the one
above, through `INSTANCE ... WITH`.

Some modules contain operators whose comment starts with "Mistake:". Each is a
plausible slip in the operation next to it. They are used nowhere; replacing
the operation by the slip makes the property it is paired with in
`PROJECT.json` ("mutants") fail, which shows that the property depends on it.

### OwnedString and SharedBlocks

A String object is a member of `Objects`: the program's `Handles` and the local
variable `replacement` of `operator=(string_view)`. `graph` is the heap picture
as a record of functions, one per field: `block`, `unique` (the tag bit),
`previous`, `next`, `first` (of each block), and `heap`, the allocated blocks.
The private operations are functions from a graph to a graph, with the
reads and writes of the code; a store through a null pointer, guarded by an
`if` in the code, is a store outside the function's domain. A public operation
composes them as its body does: `AssignValue` builds the replacement, swaps and
detaches the replacement, `AssignMove` detaches before it moves. The library is
single-threaded (`src/README.md:129`), so each public operation is one step.
Abstracted: the text (a block's identity stands for it), allocation failure
(when no block is left no operation that allocates is enabled: the code throws
before it changes anything), printing, comparison, the debug trace.

`SharedBlocks` knows only who owns what. It *computes* `unique` and the set of
live blocks from ownership in every step, so the refinement says that the bit
and the lifetimes the list surgery produces are right after every operation,
and that the operation had the right effect on ownership.

### ParallelMemcpy and CopyService

`mpc` and `wpc` are program counters of the caller and of the workers. A step
is one access to a shared atomic, or one block of accesses to plain memory
between two of them; loads, stores and notifications of `copy`
(`parallel_memcpy.cpp:86-133`), `stop_workers` and `worker_loop` (148-177) are
steps of their own. `wait(old)` compares and blocks in one step, as
`std::atomic::wait` promises; `notify` sends a blocked thread back to the
comparison. Workers are spawned one at a time, any spawn may fail
(`SpawnFails`), and workers that exist already run meanwhile. `copied` is the
set of destination bytes written; the bytes themselves carry no information.
The generation counters have `GenMod` values instead of 2^64.

Only one thread calls `copy` and the destructor: `copy` has no lock, so two
simultaneous calls would be a misuse, and no use in the repository makes them.
Sequential consistency is assumed of the atomics: the code uses acquire/release
pairs on exactly the two counters, `stopping` is published by the bump of
`start_generation` that follows it, and the plain slots are ordered by the
counters.

### PoolLayout, PoolClients, NonblockingDownwardPool, MutexDownwardPool, Arena

`PoolLayout` is the arithmetic with its word size: `& ~(a - 1)` for a power of
two is `x - x % a`, sums and differences wrap at `Word`.

`PoolClients` holds a pool's storage, cursor and constructor argument, and the
threads that use it. `allocate` does not fail, so a block a thread has been
given is `pending` until it uses it: `Use` touches every byte, `UseOverflow` is
the use of a block that reaches below the usable area. It ends the process at
the guard (`crashed`), or, when the block begins below the whole mapping, touches
memory that is not the pool's (`lost`). Between the two any number of other threads
may allocate, which is what makes the required guard depend on the number of
threads. `reset` and `release` are called with no block pending; that is the
caller's duty in every pool (the address handed out is the program's to keep).

`NonblockingDownwardPool` adds the lock-free `allocate`. Its single access to
shared memory is `fetch_sub`, the alignment happens to a local value, so one
step is exact. `MutexDownwardPool` adds `lock`, the three accesses to the plain
cursor in `DownwardPool::allocate` (read, write, read again for `return`) and
`unlock`, each a step. With one thread it is `DownwardPool`.

`Arena` is what a program sees of any of them: disjoint aligned blocks within
the area, or death; `Lose` is allowed only if the guard does not suffice
for the program's requests. `GuardSuffices` is one largest reservation for
every thread, plus one when a request asks for an alignment above
`alignof(std::max_align_t)`: the padding of a strict alignment can push the
cursor below the usable area without the block reaching there, which dooms no
thread. The runs show both sides of that boundary: sizes that suffice exactly
and the next smaller ones, for which `lost` is reached.

### PoolLifetime

The two pools that can be moved have the same constructors, moves, `release` and
destructor. A pool belongs to one thread when it is moved or destroyed, so each
public operation is one step, composed of `ReleaseStorage`, `MoveFrom`, `Mmap`, ...
as its body is. The addresses are abstracted: a mapping is a model value and the
cursor is the number of blocks above it, `held` the number the program holds.
That each mapping is unmapped once needs no property of its own: the module refines `SharedBlocks`,
with mappings for blocks and every owner unique, and a step of that
specification unmaps what has lost its owner and nothing else.

### PoolRegistry

Each access to a `guard_begin` or `guard_end`, and each system call, is a step of a
thread in `Builders` (construction, release) or `Users` (a fault and the search for
it). `Rivals` and the history variable `raced` say when another thread is about to
store into the slot a constructor takes; `unlisted` holds the pools that found the
table full. `register_pool_guard`'s two loads and two stores, and the search of
`unregister_pool_guard`, are kept in the order of the code. Atomics are taken as
sequentially consistent. A user overflows only a pool that nobody is
constructing or releasing, and a fault ends the process, whatever the
handler does then.

### SignalHandlers

`disposition` is the one table of handlers all threads share; a step is one
`sigaction`, or what lies between two. `Answering` follows the delegation of
`pool_signal_handler` to what it has replaced, `Outcome` says what the handler
that answers does: return to `sigsetjmp` (the only outcome after which the process
goes on), report, call the program's handler, or exit. Any `sigaction` may
fail, except those that put back what was there. `sigaction` is taken as atomic,
the copy of the old handler included. `safe_read_uint8` may not be called by two
threads at once (`src/README.md:160`); `MayOverlap` says whether a program may install
the handler of the pools while a thread reads, which no document excludes.

### OwnedList and ListService

A call of a `List` is the sequence of steps `todo`; a loop takes one node per step, so
that an allocation or an element constructor may throw at each. The `Throw` of a loop
leaves the clean-up of the `catch` block in `todo`. `Temp` is the local list of an
assignment. `kind` is the type of the allocators: whether they propagate on move
assignment and whether `deallocate` does something, as compile-time properties that
hold for a whole program; pools (`DownwardPoolAllocator`, `SequentialPoolAllocator`)
propagate, and their `deallocate` does nothing. For these `release_nodes` and the reset of the pool
(`ResetArena`) are operations, and `Room` keeps the program from exhausting
the pool, which ends the process and is the subject of `PoolClients`. `Chain` is what a
loop from `begin()` to `end()` meets, as a recursive function of the number of turns.

`ListService` is a list as a sequence of values and a call as one that either has its
effect or throws and has none; a move assignment that throws may have
moved some elements of its source. A constructor that throws is assumed to
leave its argument as it was.

## 3. Runs

| Run | Instance | What it shows |
|---|---|---|
| `string` | 4 handles, 3 blocks, the replacement | `TypeOK`, `UniqueBitExact`, `ReleasedWithLastOwner`, `OwnersOnOneList`, `ImplementsSharedBlocks` for every sequence of operations |
| `memcpy` | 0-3 workers (explicit and default sizes), copies of 1-4 bytes, `GenMod` 2 | `TypeOK`, `WorkersTouchMemoryOnlyDuringCall`, `ReturnedCopyIsComplete`, `FreedAfterLastWorker`, `ImplementsCopyService`, for any number of calls, a shutdown at any time and a constructor that fails after any spawn; `CopyReturns`, `StopEnds`: no wakeup is lost, under weak fairness |
| `memcpy_small_copies` | as `memcpy` | finding: `SmallCopiesStayInline` is violated |
| `nonblocking_pool` | 3 threads, alignments up to twice the page, guards that suffice and that do not | `TypeOK`, `BlocksDisjoint`, `OverflowHitsGuard`, `UsedBytesCoverBlocks`, `ImplementsArena` |
| `nonblocking_pool_usable` | 3 threads, natural alignments | finding: `UsableBytesExact` is violated |
| `mutex_pool` | 3 threads, one mutex | `TypeOK`, `MappedWhileInUse`, `NothingWasted`, and `ImplementsArena`, which says that blocks are disjoint and overflows caught |
| `pool_lifetime` | 3 pools, 3 mappings, a registry for 2 | `TypeOK`, `CursorFollowsMapping`, `ListedWhileOwned`, `StaysListed`, `AssignmentKeepsSource`, `ImplementsSharedBlocks` for every sequence of operations |
| `registry` | 2 builders, 1 user, 3 pools, 2 slots | `TypeOK`, `ListedGuardsMapped`, and `OnlyRacesMislead`: which interleavings make the handler miss or misname a pool, and that there are no others |
| `registry_lost` | as `registry` | finding: `OverflowIsReported` is violated |
| `signals` | 2 threads that read and install, one of which faults; any `sigaction` may fail | `TypeOK`, `HandlersInForce`, `StrayFaultsDelegated`, `GuardHitsReported`, `ReadReturns`, when no installation overlaps a read |
| `signals_lost` | one thread reads, another installs | finding: `GuardHitsReported` is violated when they may overlap |
| `list` | 2 lists, 2 allocators of each of 3 kinds, up to 6 nodes | `TypeOK`, `NodesOfOwnAllocator`, `ChainsDisjoint`, `NoNodeLost`, `ImplementsListService` |

### Why the bounds are enough

* `string`: the surgery of one step reads an owner and its two neighbours in at
  most two lists. Four handles give a list with a first, two middle and a last
  owner, or two lists of two; with the replacement there is a fifth object.
  Three blocks are the most an assignment of a new text to one of two shared
  blocks needs.
* `memcpy`: 4 bytes and 3 workers give an empty chunk, an even split, a remainder
  and a chunk of everything. Three workers give a first, a middle and a last one
  in each loop. `GenMod` 2 is the harshest counter: any two calls apart have
  equal generations, so if equality were ever compared across two calls,
  the properties would fail; a wider counter has fewer coincidences.
* pools: pages of 8 bytes and a `max_align_t` of 4 leave room for sizes below,
  at and above each; the usable area is of none or a few pages (3 in the
  nonblocking run, 1 in the one with the mutex) so that every run overflows;
  `Word` is the least power of two with room for the mapping, so the mapping
  ends near the top of the address space.
* `pool_lifetime`: an operation touches two pools; the third is the bystander that
  must not notice, and the registry has a place for two of the three.
* `registry`: a slot is written by two constructors or by a constructor and a
  release; three pools fill the table of two and reuse its slots, at
  three addresses so that a torn range can span a pool in the middle.
* `signals`: two signals; a read fails, faults and follows another, with another
  thread in any of the parts. Threads are as many as the roles that can meet.
* `list`: lists of three elements (first, middle, last in every loop) for allocators
  that stay, of two for the others; six nodes hold a list of three and its copy. Pools
  have room for three nodes, of which those a failure or a `pop` has lost are some;
  a copy of two elements, which needs four, is left to the other kinds, whose loops are the
  same, and to the proof.

### Fairness

`ParallelMemcpy` and `SignalHandlers` have liveness. `WF_vars(CallerStep)` and
`WF_vars(WorkerStep(i))` for each worker say that the operating system does not
starve a runnable thread; a blocked thread has no step. `BeginCopy` and
`BeginDestroy` are calls the program may never make and are not fair. No
strong fairness is needed: a step of a thread stays enabled until that
thread takes it, since nothing but a notification changes a thread's position
from outside. In `SignalHandlers` a thread in the middle of `safe_read_uint8` or of an
installation goes on while the process lives (`FairSpec`); to call either, or to
touch memory, is up to the program.

Deadlock is checked in every run: a pool that crashed and a destroyed copy pool
stutter explicitly (`Ended`, `Gone`), as does a process that a signal has ended;
any other state without a step is an error.

### Findings

* `memcpy_small_copies`. `src/README.md:170` promises that copies of at most
  `parallel_memcpy_min_parallel_bytes` use `std::memcpy` in the caller. No such
  constant exists; `copy` (`parallel_memcpy.cpp:91`) hands every non-empty copy to
  the workers as soon as there is one.
* `nonblocking_pool_usable`. `downward_pool_usable_bytes`
  (`downward_pool_storage.cpp:279-291`) subtracts one page, but the guard is
  `max_alloc_size` rounded up to pages. For a guard of several pages the result is
  too large, for `max_alloc_size` 0 it is a page too small. `src/README.md:424` calls
  the printed value the usable size rounded up to a page.
* `registry_lost`. `register_pool_guard` (`downward_pool_storage.cpp:73-83`) looks for an
  empty slot and stores into it in separate steps, without a compare-exchange. Two
  pools constructed at once can take the same slot, as the threads of
  `benchmark/thread_local_pool_benchmark.cpp:23-24` may; the overflow of one of them is
  then not reported. A release may clear a slot that another pool has just taken,
  and a handler that reads begin and end of a slot that changes may name the
  wrong pool. `OnlyRacesMislead` in the passing run shows that these are all.
* `signals_lost`. `safe_read_uint8` puts back what it found (`safe_memory.cpp:88`). When
  another thread installs the handler of the pools meanwhile, that handler is gone
  for good: the flag says it is installed. `src/README.md:36` promises the report,
  and line 160 excludes concurrent calls of `safe_read_uint8` only. A second
  conflict of the same kind is exempted from the passing run (`Interferes`): while a
  thread reads, the fault of another is answered by the handler of the read.

## 4. Proofs

Eight components are proved about. Each has an inductive invariant, `Inv` unless
another name is given (checked by TLC on the instances of section 3 before it was
proved), an `Invariance` theorem (`Spec => []Inv`), and the theorems below, which
follow from it. Besides the assumptions named below nothing is assumed.

### String

`OwnedStringProofs`, for every set of handles and of blocks, finite or not:

| Theorem | States |
|---|---|
| `TypeCorrect` | `Spec => []TypeOK` |
| `UniqueBit` | `Spec => []UniqueBitExact` |
| `NoLeakNoDangling` | `Spec => []ReleasedWithLastOwner` |
| `WellFormedLists` | `Spec => []OwnersOnOneList` |
| `Refinement` | `Spec => ImplementsSharedBlocks` |

Assumption: `StringAssumption` (nullptr is no object and no block, the
replacement is none of the program's handles).

None of the properties is inductive alone: `detach` finds the remaining sole
owner through `first` and `next`, so the bit is right only if the list is; it
frees the block when `first` becomes null, so the heap is right only if
`first` is null of ownerless blocks alone. `Good` is the conjunction of the
three: `Linked` (links agree and no set of owners is closed under `previous`),
`BitsExact`, `HeapExact`. That no set is closed under `previous` is the acyclicity
of the lists without recursion, and gives what the argument needs: a block with
an owner has a first one (`HasFirst`), and the first owner is alone exactly if
nobody is next to it (`AloneIffNoNext`). `DetachGood`, `AttachGood` and
`AttachFreshGood` show that two of the private operations keep a graph good.
`MoveExchanged` and `SwapExchanged` show that the other two only exchange two
objects everywhere in the graph, and `ExchangedGood` that such a renaming
cannot make a good graph bad. Each public operation is then a composition
(`...Owned` lemmas), which also say what happens to ownership; with
`Outputs` that is the step of `SharedBlocks`.

### ParallelMemcpyPool

`ParallelMemcpyProofs`, for any number of workers, any sizes, any set of
constructor arguments and any number of generation values above one:

| Theorem | States |
|---|---|
| `TypeCorrect` | `Spec => []TypeOK` |
| `NoStrayAccess` | `Spec => []WorkersTouchMemoryOnlyDuringCall` |
| `CopyComplete` | `Spec => []ReturnedCopyIsComplete` |
| `NoUseAfterFree` | `Spec => []FreedAfterLastWorker` |
| `Refinement` | `Spec => ImplementsCopyService` |

Assumption: `PoolAssumption` (the bounds are natural numbers and bound the pool
sizes; a generation counter has at least two values).

`Handshake` carries the argument. While the caller is between calls or fills
slots, every worker is out of its slot and has observed and completed the
current generation. Publishing the next value, which differs from the
current one however few there are (`FollowingFacts`), makes `observed` and
`startGeneration` differ; a worker then is either out of its slot with
`observed = completed`, or in it with `observed = startGeneration # completed`.
The caller leaves its loop only when all workers have completed the generation it
published. So generations are never ordered and may wrap.
`Births` and `Counts` say which workers exist (what a half-way constructor needs),
`Filled` and `Progress` that the slots hold the chunks of the request and that
`copied` is the union of the chunks of those who have stored. That the chunks
cover the request (`ChunkInside`, `ChunksCover`, `ChunksMakeWhole`) then gives a complete copy.

### NonblockingDownwardPool

`NonblockingPoolProofs` proves of `NonblockingDownwardPool`, for every word size,
page size, set of threads, requests and constructor arguments:

| Theorem | States | 
|---|---|
| `TypeCorrect` | `Spec => []TypeOK`: no value leaves the address space |
| `NoByteTwice` | `Spec => []BlocksDisjoint` |
| `EveryOverflowCaught` | `Spec => []OverflowHitsGuard` |
| `UsedBytesSuffice` | `Spec => []UsedBytesCoverBlocks` |
| `Refinement` | `Spec => ImplementsArena` |

Assumptions (each evaluated by TLC on every run): `LayoutAssumption` (a page is a
multiple of `max_align_t`, a word of a page), `ClientAssumption` (finitely many
threads; alignments divide or are multiples of `max_align_t`, as powers of two do;
`max_alloc_size` does not wrap when rounded up; mappings lie at pages, far enough
from address 0 that the threads' overflow cannot wrap) and
`ReservationAssumption` (the sum of a request's size and padding fits in a
word, and `MaxTake` bounds it).

The properties are not inductive: that a new block is disjoint from the others
needs to know where all others are, and that an overflow hits the guard needs
to know how deep the cursor can be. `Inv` adds

* `Within`: everything handed out lies between the cursor and the end of the
  mapping. The new block is placed between the new cursor and the old one, so
  it meets no other (`ReservationFacts` is the arithmetic of that);
* `Mapped`: the cursor is aligned, not above the end, and not below the usable
  area by more than `(Cardinality(Doomed) + Slack) * MaxTake`, where a *doomed*
  thread holds a block that reaches below the usable area. A step that lowers the
  cursor below that area adds a doomed thread (or is the one padding `Slack` pays
  for), a doomed thread's `Use` ends the process, and there are at most as many
  doomed threads as threads;
* `Aligned`: every pending block is one of the requests, aligned.

`AllocateInv` is the core of the argument; `Refinement` maps `Use` of a non-empty
block to the arena's `Issue`, `UseOverflow` to `Crash` or `Lose`, and `allocate` to
a stutter. The module begins with the facts about `div`, `mod`, `AlignDown` and
`RoundUp` the argument rests on; `MutexPoolProofs` has those of them it uses.

### MutexDownwardPool

`MutexPoolProofs`, for any number of threads, any requests and any sizes:

| Theorem | States |
|---|---|
| `TypeCorrect` | `Spec => []TypeOK`: the cursor is an address also when it wraps |
| `NoReleaseInBetween` | `Spec => []MappedWhileInUse` |
| `EveryByteAccounted` | `Spec => [](EmptyUnaligned => NothingWasted)` |
| `NoByteTwice` | `Spec => [](EmptyUnaligned => BlocksDisjoint)` |
| `EveryOverflowCaught` | `Spec => []OverflowHitsGuard` |
| `Refinement` | `Spec => (EmptyUnaligned => ImplementsArena)` |

Assumptions: `LayoutAssumption` and `ClientAssumption` as above, and `TakeAssumption`
(`MaxTake` bounds what one request can take off the cursor). `EmptyUnaligned` is a
hypothesis of three theorems: requests of no bytes ask for alignment 1. The
alignment of an empty block would be padding above a block with no last byte, which
`NothingWasted` does not look for; and a program that never touches empty blocks could
ask for aligned ones until the cursor has gone below the mapping, and wraps, with no
guard touched. `MCMutexPool` fulfils it; `OverflowHitsGuard` has it in its premise.

`MappedWhileInUse` is not inductive, since a thread at the last step of `allocate`
could be joined by another that has the mutex and releases. `Exclusive` says that
whoever is in the pool's code holds the mutex and has no block. `NothingWasted` speaks of
the moments when nobody is in the pool; `Accounted` extends it to the ones in
between, where the block that is about to be returned (`Returning`) is in no variable but
the cursor. `CursorDistance` is the arithmetic: an allocation takes the bytes and less
than the alignment off the cursor, or wraps and leaves nothing to account for.

`Safe` is what `Mapped`, `Within`, `BlocksDisjoint` and `Aligned` are for the nonblocking
pool, about the block a thread has from the moment the cursor is written (`Hand`),
before it is returned: `Depth` again counts the threads that are going to touch the
guard, so the cursor cannot wrap. The refinement maps `LockedReset` and
`LockedRelease` to the arena's `Reset` and `Close`; locking and the steps of `allocate`
are stutters.

### PoolLifetime

`PoolLifetimeProofs`, for every set of pools and of mappings, finite or not, and a
registry of any size:

| Theorem | States |
|---|---|
| `TypeCorrect` | `Spec => []TypeOK` |
| `CursorMoves` | `Spec => []CursorFollowsMapping` |
| `NothingListedInVain` | `Spec => []ListedWhileOwned` |
| `Listed` | `Spec => StaysListed` |
| `SourceKept` | `Spec => AssignmentKeepsSource` |
| `Refinement` | `Spec => ImplementsSharedBlocks` |

Assumption: `LifetimeAssumption`.

`Sound(s, h)` is a predicate on a record of pools and the blocks held, so that it can
be carried through the private operations a public one is composed of: no two pools
have the same mapping, mapped is what some pool has, guarded is what is mapped, and the
cursor agrees with the blocks held. Unique ownership is what makes the rest
inductive: `MoveFrom` may overwrite the target only because `ReleasePool` has emptied it,
and `ReleasePool` may unmap only because nobody else has the mapping. One lemma for
each private operation (`ReleaseSound` and its like) gives one for each action.

### PoolRegistry

`PoolRegistryProofs`, for any number of builders, users, pools and slots:

| Theorem | States |
|---|---|
| `TypeCorrect` | `Spec => []TypeOK` |
| `NothingUnmappedListed` | `Spec => []ListedGuardsMapped` |
| `OnlyRaces` | `Spec => []OnlyRacesMislead` |

Assumption: `RegistryAssumption` (threads that build and threads that use are
different, there is a slot, guards are not empty).

The first two follow from `Table`. A release clears a slot in two steps and a
constructor fills one in two, and either may write the slot of another pool in between,
so `ListedGuardsMapped` needs to say where the table is stale by intention: a pool under
construction is in no slot yet, one that is released is in none below the place its
search has come to (`Listing`), and two builders never work on the same pool
(`Positions`). `DistinctBegins` (mappings are apart, so guards begin at different
addresses) is what makes `guard_begin` an identity.

`OnlyRaces` needs `Handled`, which adds two parts. `Settled`: the slot a pool has, or is
about to write, has no other writer unless the pool is in `raced`, so its end fits its
begin and nobody clears it; and a pool that is constructed has a slot unless it is in
`unlisted`. `Search`: a handler has not passed the slot of the pool that has
overflowed, and what it has loaded there is that pool's begin. `Bystander` shows that
no builder disturbs this for a pool it does not build, `Passed` that no step of the
search does, and `UserVerdict` reads off how a search may end.

### SignalHandlers

`SignalHandlersProofs`, for any sets of threads that read, install or fault, in any
overlap of these roles, and any handlers the program starts with:

| Theorem | States |
|---|---|
| `TypeCorrect` | `Spec => (~MayOverlap => []TypeOK)`: the pools' handler never calls itself, either |
| `HandlersPutBack` | `Spec => (~MayOverlap => []HandlersInForce)` |
| `StrayFaultsPassedOn` | `Spec => (~MayOverlap => []StrayFaultsDelegated)` |
| `EveryGuardHitReported` | `Spec => (~MayOverlap => []GuardHitsReported)` |

Assumption: `SignalsAssumption`. `~MayOverlap` (nobody installs the pools' handler
while a thread reads) is needed: `signals_lost` shows what happens without it. It
does not keep two threads from installing at the same time, nor any thread from
faulting at any time.

What is checked between calls or at the end of the process follows from what holds in
their middle. `Apart` says that a thread in a call is the only one in a call, which
for installations the flag has to bring about. `ReadsBorrow`: while nobody installs,
every disposition is the one that should rest there (`Resting`: the pools' or the
program's, by the flag) or that of a read which has saved exactly this one.
`InstallationSwaps` says how far an installation has come, so that its undoing, and
a fault in its middle, find the program's handler. `JumpsHome`: a fault of a read comes
back to the thread that reads, with no signal blocked. One lemma per action rests on
four about what a reader or an installer finds and has to leave behind (`ReaderFinds`,
`ReaderKeeps`, `InstallerFinds`, `InstallerKeeps`); `InWhoseHands` and `NoRecursion`
give the verdict of `FaultInv`.

### List

`OwnedListProofs`, for any sets of lists, of values and of allocators, any finite number
of nodes and allocators of any kind:

| Theorem | States |
|---|---|
| `TypeCorrect` | `Spec => []TypeOK` |
| `OwnNodes` | `Spec => []NodesOfOwnAllocator` |
| `NoSharedNode` | `Spec => []ChainsDisjoint` |
| `NothingLeaks` | `Spec => []NoNodeLost` |
| `Refinement` | `Spec => ImplementsListService` |

Assumption: `ListAssumption` (null is nothing else, the local list is none of the
program's, there are finitely many nodes).

`Chain` is what a loop over `next` meets. `Path(m, p, s)` says, without recursion, that
`s` leads from `p` to null and meets no node twice; `TraversalFindsPath` shows that a loop
meets exactly the path, by a least counterexample (`Least`, from the well-foundedness of
`<`), since the prover cannot use the induction theorems. `PathPush`, `PathAppend` and
`PathTail` are the ways a path changes; from them come the lemmas about each way
a step changes the heap: heads are exchanged (`HeadsMoved`: swap, steal), a
head is dropped (`HeadDropped`: pop, clear), a node comes in front or at the end
(`NodePushed`, `NodeAppended`).

`Inv` has two halves. `Heap` and `Sized` are about the memory, in the middle of a
call as well: every object is the head of a path of its own, through nodes its own
allocator has made, and what is on no path is free (or of an arena). `Resting` and
`Somewhere` are about the call: for each place where one can be (`AtPush`, `AtCopyFill`,
`AtMoveSwap`, ...) what is left in `todo`, which lists it has not touched, and
that a half-filled list has the first values of its source. Without the second half
neither the first is inductive (a `swap` may only exchange heads of lists with the
same allocator; `steal` overwrites a head, which is right only because the `clear` before
it has been completed) nor does the effect of the last step follow. `Done` and
`Thrown` say which of the two outcomes of `ListService` the call will have. There is one
lemma per action, each with two conclusions: `Inv'` and `ServiceStep`, the step of
`ListService` (the step that begins a call, the one that returns or throws, or a stutter).

### Model-checked only

Liveness (`CopyReturns`, `StopEnds`, `ReadReturns`): fairness and `ENABLED` are out of
the prover's reach. All safety properties and refinements of the runs that pass are
theorems, for every value of the constants that fulfils the assumptions (and, where a
theorem names one, its hypothesis). The runs with a
violation are about one instance, as a counterexample has to be.

## 5. What is not modelled

* Two threads in `copy` at once, and `String` on several threads: misuse.
* Sizes within a page of `SIZE_MAX`, for which `round_up` wraps before the length check
  sees it, so that a pool is made that is smaller than was asked for instead of a
  `length_error`: `max_alloc_size` is kept below by `ClientAssumption`, usable sizes by
  the instances. `n * sizeof(T)` in the allocators: `List` asks for one node at a time.
* The bytes an allocator gets for a node: `OwnedList` knows nodes, `PoolClients` bytes.
  `NothingWasted` is what connects them.
* What the handler writes, and the window inside `sigaction` between the new handler
  and the copy of the old one.
* Texts, comparison, printing, the debug trace, benchmarks: they change none of
  the state above.
* Weak memory beyond the acquire/release pairs described above.

## 6. Plan

Done: the core (`OwnedString`, `ParallelMemcpy`, the pools), `PoolLifetime`,
`PoolRegistry`, `SignalHandlers` and `OwnedList`, with the proofs of section 4.

Left: the general case of what `signals_lost` and `registry_lost` refute, that is which
weaker promises survive when installations overlap reads or constructors race, and
the arithmetic of the pools for sizes within a page of `SIZE_MAX`.
