# Verification of DAM-Alloc

TLA+ modules, TLC configurations and machine-checked proofs for the DAM
allocator (`src/src/core`, `src/src/util`, `src/include/dam`). Paths below are
relative to the directory that holds `src/` and `tla/`.

## The system

DAM serves `malloc`/`realloc`/`free` from three layers chosen by size, plus
tracing, validation with quarantine, statistics and C++ wrappers.

| Component | State it keeps | Operations | Interacts with |
|---|---|---|---|
| General layer (`general.c`) | pools with a doubly linked block list and a free list; block headers inside the memory | malloc (first fit, split, grow by a pool), free (coalesce), realloc (shrink, grow in place, move), validate + quarantine | its own lock; pool list; moves call `dam_trace_malloc` and `dam_free`, so other layers |
| Small layer (`small.c`) | per size class a central free list; block headers | malloc and free (thread cache first, then central), realloc, pool creation | its own lock; thread caches; pool list |
| Thread caches (`thread.c`) | per thread and class a free list and its count | lazy creation, destroy/flush | small layer |
| Direct layer (`direct.c`) | one mapping per allocation, with its own pool header | malloc, free (munmap), realloc | its own lock; pool list |
| Pool registry (`util.c`) | `dam_pool_list`, all pools of all layers | register, unregister, find the pool of a pointer | written under three different locks, read under none |
| Dispatch (`core.c`) | `initialized` | init, malloc, realloc, free, calloc, trace and uaf variants, `dam_validate_ptr`, snapshots | everything |
| C++ wrappers (`dam_ptr.hpp`) | a pointer and a size | reset, release, move, resize | `dam_free`, `dam_realloc` |

What is hard: the general layer rewrites linked headers in place in many orders;
a moving realloc spans three critical sections; the quarantine flag is read
outside the lock; pools of one layer influence the growth of another; thread
caches move blocks between threads without any lock; the pool list is shared by
three layers without a common lock; mmap may fail anywhere. `PROJECT.json` lists
every hazard at its line with the properties that address it.

What makes each component correct:

- general layer: the blocks of a pool tile it; its free list is exactly its set of
  free blocks; every used block has one owner; a fresh pool serves the request it
  was made for; quarantined memory is not handed out; every call returns and
  leaves the lock free; clients see disjoint allocations that never move unasked;
- small layer and caches: every block is in exactly one place; counts match lists;
  the block of a request is large enough; caches give their blocks back;
- registry: no pool is lost, no walker reads an unmapped pool;
- direct layer: sizes do not overflow; every mapping is released once;
- public calls: a pointer has room for what was asked, whichever layer serves it;
  contents survive a change of layer; no call writes or reads past its allocation;
- wrappers: every allocation has one owner, who frees it once.

## Modules

| Module | Content |
|---|---|
| `DamConfig` | the constants of `dam_config.h`, the static assertions of `dam_invariants.h` as `ConfigAssumption`, `align_up`, the layer of a size |
| `AbstractHeap` | what any layer promises: a map from pointers to sizes of disjoint live allocations |
| `AbstractContents` | what the public calls promise of the bytes: a map from pointers to a size and how many bytes hold what they should |
| `GeneralAllocator` | the general layer and `general_lock`; implements `AbstractHeap` |
| `FreeListLinks` | the free list of a pool in memory, prev and next pointers in the payloads; represents the sequence of `GeneralAllocator` |
| `SmallAllocator` | the small layer and the thread caches; implements `AbstractHeap` |
| `PoolRegistry` | `dam_pool_list` as pointers in memory, the three locks, `dam_init`, and the calls of all layers as far as they touch these |
| `Dispatch` | the public calls and the direct layer: sizes, headers and copies across layers; implements `AbstractContents` |
| `DamPtr` | the C++ wrappers, on top of `Dispatch` |
| `MCGeneralAllocator`, `MCSmallAllocator`, `MCPoolRegistry`, `MCDamPtr` | their instances for TLC |
| `DamLemmas` | arithmetic of alignment, minima, ranges; used by all proofs |
| `GeneralLemmas`, `GeneralOperations`, `GeneralAllocatorProofs` | the general layer: facts about its state, one lemma per helper of `general.c`, the theorems |
| `SmallAllocatorProofs` | the small layer's lemmas and theorems |
| `DispatchProofs`, `DamPtrProofs` | the public calls' and the wrappers' |
| `PoolRegistryProofs` | the pool registry's |

### GeneralAllocator

`heap` is everything the general lock protects: `heap.pools` is `dam_pool_list`,
`heap.pool` the pool headers, `heap.hdr` the headers of the blocks linked into
block lists, both keyed by address. Each C helper is an operator from heap to
heap (`RemoveFromFreeList`, `AddToFreeList`, `Split`, `Coalesce`, `FreeInternal`,
...); the free list is the sequence its pointers spell out, which `FreeListLinks` makes
precise: `Spells(l, s)` says that memory `l` holds the pointers of list `s`, and
`LinkFirst`, `UnlinkBlock` and `Current` are the pointer writes and reads of
`add_to_free_list`, `remove_from_free_list` and `search_in_free_list`. A critical section is
one action, because everything in it is done under the lock; what the code does
outside is an action of its own:

| Action | Code |
|---|---|
| `Malloc`, `Free` | `dam_general_malloc`, `dam_general_free` |
| `ReallocEnter` | the read of `read_only` before the lock (general.c:218) |
| `ReallocShrink`, `ReallocGrow`, `ReallocUnlock` | the critical section: cases 1, 2 and 3 |
| `ReallocMove`, `ReallocMoveOut` | `dam_trace_malloc` of the replacement, in this layer or in another |
| `ReallocFree` | the copy, `dam_free(ptr)` and the return |
| `ReallocRejected` | the magic check that returns without unlocking |
| `Validate` | `dam_validate_ptr(ptr, 1, 0)` |
| `Overrun`, `RegisterOther`, `UnregisterDirect` | the environment: client writes past the end, pools of other layers |

`live` is what the clients hold, `Misuse` which mistakes they make (a late free or
realloc, an overrun). Not modelled: payload bytes other than the canary, traced
blocks, a pointer into memory that has been merged away (its header bytes may
hold anything).

### SmallAllocator

| Variable | Code |
|---|---|
| `small.hdr` | the `size_class_header_t` of every carved block, keyed by address (fields `next`, `is_free`, `magic`, `size_class_index`) |
| `small.free_class_list`, `small.mapped` | `size_classes[c].free_class_list`; the mapped pools and their sizes |
| `tc_bins` | `tc_bins[c]` of every thread: head of the list and count |
| `thread_cache` | the thread-local pointer: NULL, MAP_FAILED or a cache |
| `live` | what the clients hold, with the request each block answers |
| `fault` | the process dereferenced an invalid pointer and died |

The lists are pointers through the headers, as in the code, so that a block linked
twice, or to itself, is a state of the model and not excluded by its data type.

| Action | Code |
|---|---|
| `CacheHit`, `MallocCentral` | `dam_small_malloc`, fast and slow path, with `dam_small_malloc_internal` and `create_small_pool` |
| `FreeCached`, `FreeCentral` | `dam_small_free`, fast and slow path, with `dam_small_free_internal` |
| `ReallocInPlace`, `ReallocGrow`, `ReallocOut` | `dam_small_realloc` |
| `CacheFault` | any call through a `thread_cache` that is MAP_FAILED |
| `Snapshot` | `dam_snapshot_small`'s reads of the cache |
| `Exit` | a thread ends and another starts under its name |

A call is one action. Outside `small_lock` it touches only the calling thread's
cache and the header of the block it is given; inside there is one critical
section, `ReallocGrow` included. Two threads that free the same block at the same
time are left out: mistaken calls (`Calls` has "free" or "realloc") run to the end
one after the other. `ReallocOut` covers both outcomes of the other layer: a
replacement, after which the block is freed, or none, which is a stutter. A live traced
block is never freed or reallocated here: `dam_free` would look for its header in front
of the trace (core.c:111), which is `Dispatch`'s subject.

### PoolRegistry

The grain is one memory access: a thread reads one header, or writes one cell, per
step, and others run in between. `dam_pool_list` and `pool` are memory;
`registered` is a history variable, the list as it should be. A thread's program
counter names the function it is in.

| Action | Code |
|---|---|
| `Malloc`, `FreeOrRealloc`, `Snapshot` | a client calls, as far as the first access to shared state |
| `Check`, `InitLocks`, `Ready` | `dam_init`, without a lock |
| `Acquire` | `dam_small_lock`, `dam_general_lock`, `dam_direct_lock` |
| `Search`, `Count`, `Size` | the walks of `find_free_block_in_pools`, `create_general_pool` and `calculate_next_pool_size` |
| `Map`, `Unmap` | mmap, which may refuse, and munmap |
| `Link`, `Publish` | the two statements of `dam_register_pool` |
| `Again` | the read of the head (general.c:150) that begins the search once the pool is published |
| `Lookup`, `Foreign`, `Find` | `dam_pool_from_ptr`, unlocked to route a call, under `direct_lock` to free |
| `Scan`, `Unlink` | the loop and the write of `dam_unregister_pool` |
| `Tally` | the walks of `dam_snapshot` |
| `Dangling` | any of the walks on a pool that is not mapped: the process dies |

How the code may be called safely depends on the program, so a behaviour begins by
choosing one (`program`): the layers it uses, whether it takes snapshots, whether its
threads take turns, whether it makes its first call before it starts threads, and whether
it runs on pages of `PAGE_SIZE` bytes. Where it does not, `dam_init` fails (core.c:29) and
`dam_malloc` goes on all the same (core.c:55): `initialized` stays 0 and the registry is
used as it is. This module alone models such a process. Blocks are `GeneralAllocator`'s
and `SmallAllocator`'s: here a malloc that reaches the list is one for which no listed
pool of its class has room, and a pool of those layers stays in use.

### Dispatch and DamPtr

An allocation is an entry of `allocs`: the layer that serves it, the room behind its
header, the size the header records, whether it is traced; and, of the client's view,
what was asked for and how many bytes are intact. A call is one step, which yields a
set of outcomes: a layer may refuse, a general block may have more room than needed
(`Slacks`), a block behind may be free to grow into. Arithmetic on client sizes is
modulo `SIZE_MAX + 1`. A call that reads a header where there is none, or writes
outside its allocation, sets `harm`, and the behaviour ends there.

| Definition | Code |
|---|---|
| `Places`, `SmallPlaces`, `GeneralPlaces`, `DirectPlaces` | where and with how much room a request is served, traced or not |
| `MallocOutcomes`, `CallocOutcomes`, `FreeOutcome`, `ReallocOutcomes`, `UafFreeOutcome` | the public calls and their traced variants |
| `SmallRealloc`, `GeneralRealloc`, `DirectRealloc` | the layers' reallocs: in place or `Moved`, with how many bytes are copied (`Copy`) |
| `MakeUnique`, `MakeUniqueArray`, `Adopt`, `MoveConstruct`, `MoveAssign`, `Release`, `Reset`, `Resize`, `Destroy` | the members of `dam::unique_ptr` |
| `CCall` | the rest of the program, with the raw pointers it holds (`raw`) |

`make_unique` constructs its elements in the memory it got. When a constructor throws, no
object comes to be and nothing frees the memory (dam_ptr.hpp:59, :129): `Construct` has this
outcome too, and the history variable `abandoned` keeps the allocations so lost.

`unique_ptr<T>` and `unique_ptr<T[]>` share the actions, since they differ in the
size field, which nothing reads, and in `resize`, which only arrays have.

## What is hard to see, and the properties for it

| Property | Says | Run |
|---|---|---|
| `TypeOK` (each layer) | types; counters stay in `size_t`, block sizes above zero | GeneralGrowth, SmallCalls |
| `BlocksTile` | the blocks of a pool tile it in the order of its list, both ways | GeneralGrowth |
| `FreeListsExact` | a pool's free list is exactly its set of free blocks | GeneralGrowth |
| `EveryBlockOwned` | every used block has one holder, a client or a thread inside realloc | GeneralGrowth, GeneralThreads |
| `FreshPoolServes` | a new pool serves the request it was made for | GeneralGrowth |
| `QuarantineExcludes` | a pool in quarantine gives out no byte it had free | GeneralGrowth, GeneralQuarantineRace |
| `ReallocReturns` | a realloc that entered comes back | GeneralThreads |
| `LockNotLeaked` | a thread outside the layer does not hold its lock | GeneralLock |
| `ListsSound` | no list of the small layer leads to a held block, to another class's block, or to a block of another list | SmallThreads |
| `NothingLost` | every block that is not held can still be handed out | SmallThreads, SmallThreadExit |
| `BinsCounted` | a bin's count is its list's length, within the limit | SmallThreads |
| `RequestsFit` | no client has a block too small for its request, trace included | SmallCalls, SmallThreads |
| `MallocGivesFreshBlocks` | a malloc answers with a block no client holds, whichever list it came from; the abstract heap cannot tell such a malloc from a resize | SmallThreads |
| `BlocksApart` | small blocks do not overlap and lie in a pool, behind its header | SmallThreads |
| `ImplementsAbstractHeap` (each layer) | the layer refines `AbstractHeap`: live allocations are disjoint, aligned, and keep their place and size until their own call | GeneralThreads, SmallThreads |
| `AllPoolsListed` | the pointers in memory are the list of the registered pools, whole, and every pool in use is on it | PoolRegistry, RegistryRace |
| `LookupsSafe` | no walk of the list reads an unmapped pool, none misses the pool of a pointer in use | PoolRegistry |
| `LocksReleased` | a lock that is taken is released, whichever return the call takes | PoolRegistry |
| `AllocFit` | every pointer has room for what was asked, after any chain of reallocs across layers | PublicCalls |
| `NoHarm` | no canary or copy leaves its allocation, no call reads a header that is none | PublicCalls, TracedCanary |
| `KeepsContents` | the calls refine `AbstractContents`: realloc keeps the smaller of the two sizes, calloc's bytes are zero | PublicCalls |
| `OwnedOnce` | every allocation has one owner, object or raw pointer, but for those whose constructor threw, which have none; no object owns what is freed | PublicCalls, PtrResize |

## The runs and their bounds

Every run scales `dam_config.h` down to one scale and keeps the relations between
the constants: `ALIGNMENT`, headers and list pointers take 2 bytes, the canary 1.
Addresses are numbers below `ADDRESS_SPACE`; mmap picks one of `MmapBases` that
is free, or fails when none is. `MaxLive` bounds how many allocations the clients
keep, `MaxOther` how many pools other layers register. The largest passing runs,
GeneralGrowth and SmallCalls, visit some 0.9 million states each.

| Run | Bounds | Why they are enough |
|---|---|---|
| GeneralGrowth | 1 thread, `MAX_POOLS` 2, two places to map of which one is too small for a large pool, first pool of 8 bytes, sizes 3 and 30, 3 allocations, late frees and reallocs, overruns, a pool of another layer, with which `MAX_POOLS` is reached | a first pool too small for the larger request; growth that mmap refuses and that `MAX_POOLS` refuses; in the grown pool three blocks and a rest, so splits with and without a rest, merges to both sides, growth in place and moves; a pool in quarantine next to a healthy one |
| GeneralThreads | 2 threads, 1 pool, 3 allocations, sizes 3, 9 and 11 (the last another layer's) | both threads can be in the middle of a move at once, and memory runs out at each step of it |
| SmallCalls | 2 threads, 2 classes (2 and 4 bytes), 2 places to map, 1 block a pool, bins of 1, every call, sizes 2, 3 and 5, traces of 1 byte | every action, correct or mistaken, in every state that follows; a traced request of each class's size or below, of which one needs the larger class for its trace |
| SmallThreads | 2 threads, 2 classes, pools of 3 blocks, bins of 2, sizes 1, 3 and 5 (the last another layer's), caches that mmap refuses | lists of up to three blocks, bins that fill and spill, blocks that go from one thread's bin by way of the centre to the other's, a class without a pool |
| PoolRegistry | 2 threads, 3 places for pools, `MAX_POOLS` 2; programs that use all layers, snapshots included, one call at a time, on pages of either size, and programs that use one layer, its calls at any time | lists of up to three pools: removal of the head, the middle and the last one, an address mapped again, growth refused by the count and by mmap; two threads in the same layer wait for each other's lock while a third walk, unlocked, is on the list |
| PublicCalls | 2 allocations, 2 arrays and 1 single object, classes 2 and 4, `DAM_GENERAL_MAX` 10, pages of 8 bytes, `SIZE_MAX` 4095, sizes 0, 3, 6, 12, 15, 30 and 4088, traced sizes 14 and 18 | every pair of layers for a realloc, both sides of the shrink threshold, in place with and without a split, a size whose rounding wraps; an object that is moved, released, reset, adopted and resized while another holds an allocation |

GeneralLock, GeneralQuarantineRace, SmallThreadExit, RegistryRace, TracedCanary and
PtrResize end in a counterexample of a few steps; each checks one property and its
finding is below. `CHECK_DEADLOCK FALSE` stands where the system really stops: a
leaked lock (GeneralGrowth and GeneralLock, whose clients make mistakes), a fault
(the Small runs) or harm (PublicCalls, TracedCanary, PtrResize). The two threads of
SmallCalls and SmallThreads are symmetric, and so are the pointers and the arrays of
the DamPtr runs, which is sound since these check safety only.

**What the runs assume of clients.** GeneralThreads, SmallThreads and PublicCalls model
programs that free what they hold, once. PublicCalls has traced allocations of the direct
layer only, with sizes whose last page has room for the trace (the layer does not add it,
direct.c:14), products that do not wrap, and `dam_uaf_free` only where it finds its
header. `OrdinaryCalls` says this of the constants, which satisfy it: with others `NoHarm`
or `AllocFit` fails, see below. Its objects adopt no traced pointer. SmallCalls keeps its
traced pointers for good, and their sizes leave room for the trace in the largest class
(`TracesFit`). PoolRegistry claims `AllPoolsListed` of programs whose threads take turns,
or use one layer and make their first call before they start threads (on pages of
`PAGE_SIZE`); RegistryRace shows two layers are enough to break it. `LookupsSafe` is
claimed where, besides, nothing is unmapped while another thread walks; programs that use
the direct layer from two threads take no snapshots (a walk that stands on a pool which is
unmapped and mapped again may go round for ever). So `LookupsSafe` covers pools being
linked under a walk, and not the case in which one is unmapped under it: there it fails.

The sizes of GeneralGrowth are larger than `DAM_SMALL_MAX`. A realloc of a general block to
less rounds otherwise than malloc does (general.c:215); a third, tiny size is beyond what TLC
can search here, so that `BlocksTile` for such sizes rests on its proof alone.

**Fairness.** `FairSpec` of GeneralAllocator assumes weak fairness of
`ReallocStep(t)`: a thread inside `dam_general_realloc` keeps running and gets the
lock whenever it is free for it continually. The code blocks there on
`pthread_mutex_lock` only; the other calls of the layer are single actions that leave
the lock free, so weak fairness is enough. `FairSpec` of PoolRegistry assumes weak
fairness of `Continue(t)`, the steps of a thread inside a call: the scheduler does not
stop a thread for ever. It does not promise the lock to a thread that waits while
others take it in turn, and `LocksReleased` does not need it. Clients are never
obliged to call anything.

## What is proved

For every value of the constants that satisfies `ConfigAssumption` and the assumption of
the layer, `GeneralAssumption`, `SmallAssumption`, `RegistryAssumption`,
`DispatchAssumption` or `DamPtrAssumption` (each checked by TLC on the instances, and true
of the values in `dam_config.h`), any number of threads (but where the table says
otherwise), pools, blocks, pointers and objects:

| Theorem | Statement |
|---|---|
| `Invariance` | general layer: `Spec => []IInv` |
| `TypeCorrect`, `BlocksAlwaysTile`, `FreeListsAlwaysExact`, `BlocksAlwaysOwned` | general layer: the four parts of `IInv`, mistaken calls included |
| `FreshPoolAlwaysServes` | general layer: `Spec => []FreshPoolServes` |
| `ImplementsHeap` (`GeneralAllocatorProofs`) | general layer: `Spec => ImplementsAbstractHeap`, mistaken calls included |
| `QuarantineAlwaysExcludes` | general layer, mistaken calls included, with one thread: `Spec => QuarantineExcludes` |
| `AddLinksFirst`, `RemoveUnlinks`, `SearchFindsFirst` (`GeneralLemmas`) | for any heap whose free lists are in order, whatever the other payloads hold: the pointer operations of general.c:130-198 spell the lists `AddToFreeList` and `RemoveFromFreeList` give, and the search stops at the block of `FirstFit` |
| `SmallTypeCorrect` | small layer: `Spec => []TypeOK`, double frees and reallocs of freed pointers included; live traced pointers are kept |
| `BlocksAlwaysApart` | small layer, for the same clients: `Spec => []BlocksApart` |
| `RequestsAlwaysFit` | the same, if traces fit (`TracesFit`): `Spec => []RequestsFit` |
| `ListsAlwaysSound`, `BinsAlwaysCounted` | small layer, for clients that free only what they hold (`Careful`, in `SmallAllocatorProofs`): `Spec => []ListsSound`, `Spec => []BinsCounted` |
| `NothingEverLost` | the same, while no thread ends: `Spec => []NothingLost` |
| `MallocAlwaysGivesFreshBlocks` | small layer, `Careful` clients: `Spec => MallocGivesFreshBlocks` |
| `ImplementsHeap` (`SmallAllocatorProofs`) | small layer, `Careful` clients, `TracesFit`: `Spec => ImplementsAbstractHeap` |
| `AllocationsFit`, `CallsDoNoHarm` | public calls, for programs of `OrdinaryCalls`: `Spec => []AllocFit`, `Spec => []NoHarm` |
| `ContentsKept` | the same: `Spec => KeepsContents`, the refinement of `AbstractContents` |
| `ListsWhole` | pool registry, for programs that take turns, or use one layer and initialise first on pages of `PAGE_SIZE` (`DisciplinedPrograms`, in `PoolRegistryProofs`): `Spec => []AllPoolsListed` |
| `LookupsAlwaysSafe` | the same: `Spec => []LookupsSafe` |
| `OwnersUnique`, `ObjectsFit`, `ObjectsKeepContents` | programs with `unique_ptr`s that resize none to nothing (`NoEmptyResize`, in `DamPtrProofs`): `PtrSpec => []OwnedOnce`, and the three above for `PtrSpec` |

**General layer.** The inductive invariant is
`IInv == TypeOK /\ BlocksTile /\ FreeListsExact /\ EveryBlockOwned`. None of the
four is inductive alone: removing a block from a free list needs it to be there
once (`FreeListsExact`), which needs the pool pointers of `BlocksTile`; merging
needs the neighbour's links; a move needs that nobody else can free the block the
thread holds (`EveryBlockOwned`). Inside a critical section the invariant is
broken and repaired, so `GeneralOperations` states what each helper of `general.c`
does to a heap in which a named set of free blocks is off the lists
(`FreeLists(h, X)`): `RemoveFromFreeList` adds one to `X`, `AddToFreeList` takes one
away, `Split` and `Coalesce` keep the tiling. `GeneralAllocatorProofs` composes them,
one lemma per action. `FreshPoolServes` follows from what `Grown` adds: a pool whose
block is free, listed and large enough, so that first fit finds it or one before it.

**Linked lists.** The theorems are about one operation each, from any memory that spells
the list. A block's neighbours in the list are the targets of its two pointers because no
block is listed twice (`IsInjective`, part of `FreeListsExact`), so that each write changes
the pointer of one neighbour and no other. `search_in_free_list` is a loop: `Follows` says
what it does round by round, `CurrentIs` that this has one solution (a least round at
which two differ cannot exist), and `CurrentFits` gives it: block `i + 1` of the list until
the first that fits. TLC checks the same three statements (`LinksAgree`, an assumption of
`MCGeneralAllocator`) on all lists of up to three blocks and all contents of the other
payloads, before it runs the model.

**Quarantine.** `Covered(h, g, p)`: the bytes of every free block of pool `p` lie in one
free block of it in the later heap. Each operation keeps it for a pool in quarantine, and
the lemmas say why: `OccupyKeeps` and `ResizedKeeps`, every block but the one handed out or
resized stays as it is; `FirstFitPool`, that one is in no quarantined pool; `MergeCovers`
and `FreeCovers`, coalescing only joins. What remains is the growth in place, which goes by
the flag read before the lock: `StepExcludes` holds for any number of threads and says
that no step but the growth of a thread whose flag is stale (`FlagFresh` fails) can give
out such bytes. With one thread no flag goes stale (`FlagFreshNext`); with two one does,
which is GeneralQuarantineRace.

**The abstract heap.** A step of a layer is one of the abstract heap on its allocations
(`Allocs`). `Gains`, `Loses`, `Resizes` and `Stays` of the general layer, `AllocsAfter` and
its users of the small layer say what a block more, less or resized is there; that the
bytes of two allocations are disjoint (`OwnBytes`) follows from the blocks being apart and
each having room for its request. The general layer needs `SizesKept` besides: a thread
inside realloc still has the size it was called with.

**Small layer.** `PlacesInv` is `TypeOK` and `BlocksApart`, with every list pointer
leading to a carved block or to NULL. The step that matters is `NewPoolGood`: the carving
loop keeps the blocks apart and inside the pool, and mmap keeps pools apart. All other
steps leave the blocks where they are. `SmallAssumption` states of `BlockSize` that it is
a positive multiple of `ALIGNMENT` and reaches `DAM_SMALL_MAX` in the last class; with
`DAM_SMALL_MIN = ALIGNMENT` this follows from its definition by induction, which is out of
the provers' reach. `RequestsInv` adds that every list pointer leads to a block of the
list's class, and that requests fit; it holds of mistaken clients too. Its hypothesis,
`TracesFit`, is one on the constants: dam_malloc picks the layer before it adds
`TRACE_SIZE`, so with a traced request near `DAM_SMALL_MAX` the theorem is false.

What is said of the lists is false of a client that frees twice (below), so these theorems
assume `Careful`, which says of `Calls` that the clients do not. Neither soundness nor
counts nor completeness of the lists is inductive: a malloc that takes the first block of
a list makes its second the first, and that this one is no other list's, is free, and is
one block nearer the end, is known only of the whole list. The invariant `ListsInv` says
it. There are functions `at` and `len` so that the list with head `p` is a stack: its first block
is `at[p][len[p]]`, each block leads to the one below it, `at[p][1]` to NULL; and each block
marked free is in exactly one place of one stack (`Stacks`). A thread that ends takes its
bins with it, so a set `lost` of blocks is left out, which lead only to one another
(`Lost`). `Push`, `Pop`, `Carve` and `Drop` are what the code does to such stacks. The blocks
that are not free are those the clients hold, and a bin's count is its `len`.
`ListedStack` then shows that `Walk`, which follows `next`, goes through the stack from top
to bottom: `Walk` is a recursive function over the positions `0 .. n`, and where the
stack is known, the least position at which the two differ cannot exist (`WalkIs`).

**Public calls.** Three sizes belong to an allocation: what the client asked for, what
the header records, what the block has room for. `IInv` of `DispatchProofs` says they are
in this order, that no more bytes are intact than were asked for, and that traced
allocations are the direct layer's. `AllocFit` alone is not inductive: a realloc in place
compares the new size with the header's, and a copy is as long as the header says. Each
call has a set of outcomes, and a lemma says which of four forms its members have
(`Nothing`, `Grants`, `Frees`, `Regrants`); from the forms follow the invariant and the
steps of `AbstractContents`. What carries the forms is arithmetic: `MappingFits` (a
mapping holds headers and request, or wraps to 0, which mmap refuses), `ClassHolds`,
`BlocksHold`, and that what is copied from a smaller layer fits in a larger one.

**Pool registry.** `RInv` of `PoolRegistryProofs` says of each thread which lock it holds
where, that the pool it frees is listed until it unlinks it, the pool it makes only once
it publishes it, and how far its search for the cell to write has come; of two threads,
that only one is inside before initialisation or where they take turns, and that what one
frees no other one frees or makes. `AllPoolsListed` alone is not inductive: `Unlink` writes
the right cell only if what `Scan` found is still so. From it follows `Exclusive`, the
argument of the discipline: at most one thread is where it may come to write the list. The
steps are of two kinds, those that leave the list alone (`ThreadStep`) and those of the one
writer (`WriterStep`). `WInv` adds the walks: while nothing is unmapped under them, the list
only grows at the head (`OnlyGrows`), so that what a walk looks for stays ahead of it.

**Wrappers.** `Shared` of `DamPtrProofs` says that objects and raw pointers share out the
allocations, but for the `abandoned` ones, which are nobody's for good (`Loose` is what no
object holds). `TakesNew`, `TakesRaw` and `TakesFrom` are the three ways an object comes by
a pointer; every member is one of them. Without `NoEmptyResize` it fails, which is the
finding of PtrResize.

**Only model-checked.** `ReallocReturns`, `LocksReleased`: liveness. `LockNotLeaked`,
`NothingLost` when threads end, and `QuarantineExcludes` with two threads: they do not hold.

## Findings

| Run | What the code does |
|---|---|
| GeneralLock | `dam_general_realloc` of a pointer with a bad magic returns with `general_lock` held (general.c:227) |
| GeneralQuarantineRace | `dam_general_realloc` reads the quarantine flag before it locks (general.c:218); a realloc that read it in time grows into a pool that was quarantined since |
| SmallThreadExit | the destructor that flushes a thread's cache is never registered (thread.c:62): the blocks of a thread that ends are lost |
| RegistryRace | `dam_register_pool` is called under the lock of one layer while another layer calls it under its own (util.c:29): of two pools registered at the same time one is lost, and its pointers "do not belong to DAM" |
| TracedCanary | a traced allocation of the general layer is given no room for the trace (general.c:31), and its canary lands behind its block (general.c:80) |
| PtrResize | `resize(0)` takes the NULL of a freeing realloc for a failure, keeps the pointer (dam_ptr.hpp:74), and the destructor frees it again |

Seen while reading, with no run of their own: `coalesce_if_possible` merges with a
free previous block and returns without looking at the next one (general.c:422), so
that free neighbours can remain, against "Full splitting and coalescing"
(DESIGN.md:44); `dam_small_realloc` returns a freed pointer as it is when the class
suffices (small.c:212; SmallCalls reaches it); `dam_snapshot_small` reads through a
NULL cache in a thread that has not allocated (small.c:293); DESIGN.md:116-117 names
locks per pool where the code has one per layer; `thread.c:22` declares
`dam_small_free_to_central` with one parameter where `small.c` defines two;
`dam_shutdown`, `dam_get_stats` and others are declared and not defined.

Modelled, and so reachable in a run or by a change of a run's constants, with no run
of their own:

- the fast path of `dam_small_free` looks at no magic (small.c:258): a second free
  links the block to itself;
- `TRACE_SIZE` is added after the layer was chosen (small.c:102): a traced request near
  `DAM_SMALL_MAX` gets a block too small; the direct layer does not add it at all
  (direct.c:14);
- a refused cache leaves `thread_cache` = MAP_FAILED (thread.c:80), which the next call
  uses;
- `nmemb * size` (core.c:131) and, in the last page below `SIZE_MAX`, the rounding of
  direct.c:14 wrap to an allocation smaller than asked for;
- `dam_free` of a traced pointer of the small or general layer reads the trace for the
  header (core.c:111, :116), so that `dam_trace_realloc`'s moves from there do too;
  `dam_uaf_free` uses two different headers for one pointer (core.c:218-219);
  `dam_direct_realloc` to a lower layer goes through `dam_malloc` and loses the trace
  (direct.c:80);
- an unlocked walk may stand on a pool that another thread unmaps (util.c:45,
  direct.c:57), and a snapshot, whose head was read before the lock, may follow recycled
  pools for ever (direct.c:106);
- `make_unique` does not free what it allocated when a constructor throws (dam_ptr.hpp:59,
  :129);
- where the page size is not `PAGE_SIZE`, `dam_init` fails and `dam_malloc` goes on
  (core.c:29, :55);
- two first calls may both run `dam_init` (core.c:27): the second initialises a lock
  the first holds.

`unique_ptr` never runs `~T`, and `resize` never updates its size (dam_ptr.hpp:16, :75);
nothing reads the size.

## Not modelled

Where `dam_init` fails, the layers but for the registry: no size class is set up then, so
small blocks are 0 bytes wide. Payload bytes other than the canary, except as a count of
intact bytes; the text of a trace; `dam_general_fragmentation`, `dam_general_pressure` and
the sums of `dam_snapshot`, which add up sizes; `dam_validate_ptr` for the small and
direct layers, which compares magics and changes nothing; `thread_cache_destructor` and
`find_block_in_pools`, which nothing calls; logging, tests and build files. A stale
pointer into memory that was merged away is left out too: what its header bytes hold then
is the client's data. `PoolRegistry` and the two block layers are separate models: the
former takes from them that a malloc may need a pool, the latter take from it that
registering is one step, which holds for the programs `AllPoolsListed` is claimed of.

## Plan

1. Done: the modules and theorems above.
2. Left: `PoolRegistry` and the block layers composed in one module, so that there, too,
   registering a pool is several steps inside a malloc.
