---------------------------- MODULE SmallAllocator ----------------------------
(***************************************************************************)
(* The small layer (src/core/small.c) and the thread caches                *)
(* (src/util/thread.c): blocks of a few fixed sizes, carved from pools,    *)
(* that move between a central free list per size class, the caches of the *)
(* threads, and the clients.                                               *)
(*                                                                         *)
(* The lists are pointers, as in the code: a list is the address of its    *)
(* first block, a block's header holds the address of the next one.        *)
(*   small        the block headers, the central lists, the mapped pools   *)
(*   tc_bins      each thread's lists and their counts                     *)
(*   thread_cache the thread-local pointer to them                         *)
(* A call is one step: what it does outside small_lock touches only the    *)
(* thread's own cache and the header of a block nobody else has.  Pointers *)
(* are named by their block's address.                                     *)
(***************************************************************************)
EXTENDS DamConfig, FiniteSetsExt

CONSTANTS
  DAM_SMALL_MIN,
  DAM_SIZE_CLASS_COUNT,
  SIZE_CLASS_HEADER_SIZE,             \* sizeof(size_class_header_t)
  POOL_HEADER_SIZE,                   \* sizeof(pool_header_t)
  SIZE_CLASS_BLOCKS_PER_POOL,
  THREAD_CACHE_MAX_BLOCKS_PER_CLASS,
  TRACE_SIZE,
  SIZE_MAX,                           \* the largest size_t
  ADDRESS_SPACE,                      \* mmap fails when it cannot map below it
  MmapBases,                          \* where mmap may place a pool
  CacheMmapMayFail,                   \* whether it may refuse a thread cache
  Threads,
  Sizes,                              \* the sizes clients ask for
  Calls,                              \* what else clients do: "trace" (a traced
                                      \* malloc), "snapshot", "exit" (a thread
                                      \* ends), "free" and "realloc" with a
                                      \* pointer that was freed
  MaxLive                             \* bound: allocations the clients keep

Classes == 0 .. DAM_SIZE_CLASS_COUNT - 1

\* size_classes[c].block_size
BlockSize(c) == DAM_SMALL_MIN * 2 ^ c

\* The real DAM_SMALL_MIN is ALIGNMENT.  What is said of every block size follows from
\* the rest by induction on the class, which the provers do not do.
ASSUME SmallAssumption ==
  /\ DAM_SMALL_MIN \in Nat \ {0}
  /\ DAM_SIZE_CLASS_COUNT \in Nat \ {0}
  /\ BlockSize(DAM_SIZE_CLASS_COUNT - 1) = DAM_SMALL_MAX
  /\ \A c \in Classes : BlockSize(c) \in Nat \ {0} /\ BlockSize(c) % ALIGNMENT = 0
  /\ SIZE_CLASS_HEADER_SIZE \in Nat \ {0}
  /\ SIZE_CLASS_HEADER_SIZE % ALIGNMENT = 0
  /\ POOL_HEADER_SIZE \in Nat \ {0}
  /\ POOL_HEADER_SIZE % ALIGNMENT = 0
  /\ SIZE_CLASS_BLOCKS_PER_POOL \in Nat \ {0}
  /\ THREAD_CACHE_MAX_BLOCKS_PER_CLASS \in Nat
  /\ TRACE_SIZE \in Nat
  /\ SIZE_MAX \in Nat
  /\ THREAD_CACHE_MAX_BLOCKS_PER_CLASS <= SIZE_MAX
  /\ ADDRESS_SPACE \in Nat
  /\ MmapBases \subseteq Nat \ {0}
  /\ \A base \in MmapBases : base % ALIGNMENT = 0
  /\ CacheMmapMayFail \in BOOLEAN
  /\ Sizes \subseteq Nat \ {0}
  /\ Calls \subseteq {"trace", "snapshot", "exit", "free", "realloc"}
  /\ MaxLive \in Nat

VARIABLES
  small,
  tc_bins,
  thread_cache,
  live,          \* the blocks clients hold, each with the request it answers
  fault          \* the program dereferenced an invalid pointer and died

vars == <<small, tc_bins, thread_cache, live, fault>>

NULL == 0

ClassHeader ==
  [size_class_index: Classes, is_free: BOOLEAN, magic: {"SMALL", "FREED"}, next: Nat]

Bin == [free_list: Nat, count: 0 .. SIZE_MAX]
EmptyBins == [c \in Classes |-> [free_list |-> NULL, count |-> 0]]

IsSmall(s) ==
  /\ s = [hdr |-> s.hdr, free_class_list |-> s.free_class_list, mapped |-> s.mapped]
  /\ s.hdr \in [DOMAIN s.hdr -> ClassHeader]
  /\ s.free_class_list \in [Classes -> Nat]
  /\ s.mapped \in [DOMAIN s.mapped -> Nat]
  /\ DOMAIN s.hdr \cup DOMAIN s.mapped \subseteq Nat \ {NULL}

TypeOK ==
  /\ IsSmall(small)
  /\ tc_bins \in [Threads -> [Classes -> Bin]]
  /\ thread_cache \in [Threads -> {"NULL", "MAP_FAILED", "mapped"}]
  /\ live \in [DOMAIN live -> [size: Nat, traced: BOOLEAN]]
  /\ DOMAIN live \subseteq DOMAIN small.hdr
  /\ fault \in BOOLEAN

-----------------------------------------------------------------------------
\* Size classes.

\* Mutant: the trace is not counted.
SizeToClassUntraced(size, traced) ==
  LET fitting == {c \in Classes : size <= BlockSize(c)}
  IN  IF fitting = {} THEN DAM_SIZE_CLASS_COUNT - 1 ELSE Min(fitting)

\* The smallest class that holds the request, and the last class when none does.
SizeToClass(size, traced) ==
  LET n == IF traced THEN size + TRACE_SIZE ELSE size
      fitting == {c \in Classes : n <= BlockSize(c)}
  IN  IF fitting = {} THEN DAM_SIZE_CLASS_COUNT - 1 ELSE Min(fitting)

-----------------------------------------------------------------------------
\* Pools.

\* Mutant: no room for the headers.
StrideBare(c) == BlockSize(c)

Stride(c) == SIZE_CLASS_HEADER_SIZE + BlockSize(c)
PoolSize(c) ==
  AlignUp(POOL_HEADER_SIZE
            + (SIZE_CLASS_HEADER_SIZE + BlockSize(c)) * SIZE_CLASS_BLOCKS_PER_POOL,
          ALIGNMENT)

BlockAt(base, c, i) == base + AlignUp(POOL_HEADER_SIZE, ALIGNMENT) + i * Stride(c)

\* The blocks the carving loop of create_small_pool finds room for.
PoolBlocks(base, c) ==
  {i \in 0 .. SIZE_CLASS_BLOCKS_PER_POOL - 1 :
     BlockAt(base, c, i) + Stride(c) <= base + PoolSize(c)}

\* Where mmap can place size bytes clear of every pool.
FreeBases(s, size) ==
  {base \in MmapBases :
     /\ base + size <= ADDRESS_SPACE
     /\ \A p \in DOMAIN s.mapped : base + size <= p \/ p + s.mapped[p] <= base}

\* The new blocks are linked last to first, in front of the class's list.
NewPool(s, base, c) ==
  LET blocks == {BlockAt(base, c, i) : i \in PoolBlocks(base, c)}
      header(b) == [size_class_index |-> c, is_free |-> TRUE, magic |-> "FREED",
                    next |-> IF b = BlockAt(base, c, 0) THEN s.free_class_list[c]
                             ELSE b - Stride(c)]
  IN  [hdr |-> [b \in DOMAIN s.hdr \cup blocks |->
                  IF b \in blocks THEN header(b) ELSE s.hdr[b]],
       free_class_list |->
         [s.free_class_list EXCEPT ![c] = BlockAt(base, c, Max(PoolBlocks(base, c)))],
       mapped |-> [p \in DOMAIN s.mapped \cup {base} |->
                     IF p = base THEN PoolSize(c) ELSE s.mapped[p]]]

-----------------------------------------------------------------------------
\* dam_small_malloc_internal and dam_small_free_internal.

\* Mutant: the block stays in the list.
TakeFirstKeeps(s, c) ==
  LET b == s.free_class_list[c]
  IN  [small |-> [s EXCEPT !.hdr[b] = [s.hdr[b] EXCEPT !.is_free = FALSE, !.magic = "SMALL"]],
       block |-> b]

\* Hand out the first block of a central list.
TakeFirst(s, c) ==
  LET b == s.free_class_list[c]
  IN  [small |-> [s EXCEPT !.hdr[b] = [s.hdr[b] EXCEPT !.is_free = FALSE, !.magic = "SMALL"],
                           !.free_class_list[c] = s.hdr[b].next],
       block |-> b]

\* mmap may refuse the pool an empty list calls for.
MallocOutcomes(s, c) ==
  IF s.free_class_list[c] # NULL THEN {TakeFirst(s, c)}
  ELSE {[small |-> s, block |-> NULL]}
         \cup {TakeFirst(NewPool(s, base, c), c) : base \in FreeBases(s, PoolSize(c))}

\* Mutant: the block keeps the next it had.
FreedKeepsNext(s, b, first) ==
  [s EXCEPT !.hdr[b] = [s.hdr[b] EXCEPT !.is_free = TRUE, !.magic = "FREED"]]

\* Mark b free and link it in front of the list that starts at first.
Freed(s, b, first) ==
  [s EXCEPT !.hdr[b] = [s.hdr[b] EXCEPT !.is_free = TRUE, !.magic = "FREED",
                                        !.next = first]]

FreeInternal(s, b) ==
  LET c == s.hdr[b].size_class_index
  IN  IF s.hdr[b].magic = "FREED" THEN s
      ELSE [Freed(s, b, s.free_class_list[c]) EXCEPT !.free_class_list[c] = b]

-----------------------------------------------------------------------------
\* The thread cache.

\* dam_get_thread_cache leaves the thread's pointer at one of these values.  When
\* mmap fails it returns NULL, but keeps MAP_FAILED, which the next call returns.
GetThreadCache(t) ==
  IF thread_cache[t] # "NULL" THEN {thread_cache[t]}
  ELSE {"mapped"} \cup (IF CacheMmapMayFail THEN {"MAP_FAILED"} ELSE {})

\* It returned a cache.
Usable(t, pointer) == pointer = "mapped"
\* It returned NULL.
Unavailable(t, pointer) == thread_cache[t] = "NULL" /\ pointer = "MAP_FAILED"

\* Mutant: a signed counter.
DecrementSigned(n) == n - 1

\* count--, a size_t.
Decrement(n) == (n + SIZE_MAX) % (SIZE_MAX + 1)

\* Mutant: one block too many.
HasRoomForOneMore(bin) == bin.count <= THREAD_CACHE_MAX_BLOCKS_PER_CLASS

HasRoom(bin) == bin.count < THREAD_CACHE_MAX_BLOCKS_PER_CLASS

Hold(b, size, traced) ==
  [x \in DOMAIN live \cup {b} |->
     IF x = b THEN [size |-> size, traced |-> traced] ELSE live[x]]
LetGo(b) == [x \in DOMAIN live \ {b} |-> live[x]]

-----------------------------------------------------------------------------
\* The calls of a thread.

Asks(size, traced) ==
  /\ Cardinality(DOMAIN live) < MaxLive
  /\ LayerForSize(size) = "SMALL"
  /\ traced => "trace" \in Calls

\* A block out of a bin.
Uncached(s, b) ==
  [s EXCEPT !.hdr[b] = [s.hdr[b] EXCEPT !.is_free = FALSE, !.magic = "SMALL",
                                        !.next = NULL]]

\* dam_small_malloc, fast path.
CacheHit(t, size, traced) ==
  LET c == SizeToClass(size, traced)
      bin == tc_bins[t][c]
      b == bin.free_list
  IN  /\ Asks(size, traced)
      /\ thread_cache[t] = "mapped"
      /\ b # NULL
      /\ tc_bins' = [tc_bins EXCEPT ![t][c] =
           [free_list |-> small.hdr[b].next, count |-> Decrement(bin.count)]]
      /\ small' = Uncached(small, b)
      /\ live' = Hold(b, size, traced)
      /\ UNCHANGED <<thread_cache, fault>>

\* dam_small_malloc, slow path.
MallocCentral(t, size, traced) ==
  LET c == SizeToClass(size, traced)
  IN  /\ Asks(size, traced)
      /\ \E pointer \in GetThreadCache(t) :
           /\ \/ Usable(t, pointer) /\ tc_bins[t][c].free_list = NULL
              \/ Unavailable(t, pointer)
           /\ thread_cache' = [thread_cache EXCEPT ![t] = pointer]
      /\ \E o \in MallocOutcomes(small, c) :
           /\ small' = o.small
           /\ live' = IF o.block = NULL THEN live ELSE Hold(o.block, size, traced)
      /\ UNCHANGED <<tc_bins, fault>>

\* dam_small_free, fast path: it looks at no magic.
FreeCached(t, b) ==
  LET c == small.hdr[b].size_class_index
      bin == tc_bins[t][c]
  IN  /\ \E pointer \in GetThreadCache(t) :
           /\ Usable(t, pointer)
           /\ thread_cache' = [thread_cache EXCEPT ![t] = pointer]
      /\ HasRoom(bin)
      /\ small' = Freed(small, b, bin.free_list)
      /\ tc_bins' = [tc_bins EXCEPT ![t][c] = [free_list |-> b, count |-> bin.count + 1]]
      /\ live' = LetGo(b)
      /\ UNCHANGED fault

\* dam_small_free, slow path.
FreeCentral(t, b) ==
  LET c == small.hdr[b].size_class_index
  IN  /\ \E pointer \in GetThreadCache(t) :
           /\ \/ Usable(t, pointer) /\ ~ HasRoom(tc_bins[t][c])
              \/ Unavailable(t, pointer)
           /\ thread_cache' = [thread_cache EXCEPT ![t] = pointer]
      /\ small' = FreeInternal(small, b)
      /\ live' = LetGo(b)
      /\ UNCHANGED <<tc_bins, fault>>

Free(t, b) == FreeCached(t, b) \/ FreeCentral(t, b)

\* Mutant: the comparison the wrong way round.
FitsInPlaceReversed(b, size) ==
  BlockSize(SizeToClass(size, FALSE)) >= BlockSize(small.hdr[b].size_class_index)

FitsInPlace(b, size) ==
  BlockSize(SizeToClass(size, FALSE)) <= BlockSize(small.hdr[b].size_class_index)

\* dam_small_realloc, the class is large enough: the pointer comes back, whatever
\* the block's magic says.
ReallocInPlace(b, size) ==
  /\ LayerForSize(size) = "SMALL"
  /\ FitsInPlace(b, size)
  /\ live' = Hold(b, size, FALSE)
  /\ UNCHANGED <<small, tc_bins, thread_cache, fault>>

\* Mutant: the old block is not freed.
ReallocGrowLeaks(b, size) ==
  /\ LayerForSize(size) = "SMALL"
  /\ ~ FitsInPlace(b, size)
  /\ \E o \in MallocOutcomes(small, SizeToClass(size, FALSE)) :
       /\ o.block # NULL
       /\ small' = o.small
       /\ live' = [x \in (DOMAIN live \ {b}) \cup {o.block} |->
                     IF x = o.block THEN [size |-> size, traced |-> FALSE]
                     ELSE live[x]]
  /\ UNCHANGED <<tc_bins, thread_cache, fault>>

\* dam_small_realloc to a larger class: from central list to central list.
ReallocGrow(b, size) ==
  /\ LayerForSize(size) = "SMALL"
  /\ ~ FitsInPlace(b, size)
  /\ \E o \in MallocOutcomes(small, SizeToClass(size, FALSE)) :
       \/ /\ o.block = NULL
          /\ UNCHANGED <<small, live>>
       \/ /\ o.block # NULL
          /\ small' = FreeInternal(o.small, b)
          /\ live' = [x \in (DOMAIN live \ {b}) \cup {o.block} |->
                        IF x = o.block THEN [size |-> size, traced |-> FALSE]
                        ELSE live[x]]
  /\ UNCHANGED <<tc_bins, thread_cache, fault>>

\* dam_small_realloc out of the layer: when another layer has a replacement the
\* block is freed as by dam_free; when not, nothing happens.
ReallocOut(t, b, size) == LayerForSize(size) # "SMALL" /\ Free(t, b)

Realloc(t, b, size) ==
  ReallocInPlace(b, size) \/ ReallocGrow(b, size) \/ ReallocOut(t, b, size)

Stale == DOMAIN small.hdr \ DOMAIN live

\* What a client asks of the layer.  It keeps the pointer of a traced malloc for good:
\* dam_free and dam_realloc would take the trace in front of it for the header, which
\* Dispatch has and this module's headers do not.
Call(t) ==
  \/ \E size \in Sizes, traced \in BOOLEAN :
       CacheHit(t, size, traced) \/ MallocCentral(t, size, traced)
  \/ \E b \in {x \in DOMAIN live : ~ live[x].traced} :
       Free(t, b) \/ \E size \in Sizes : Realloc(t, b, size)
  \/ "free" \in Calls /\ \E b \in Stale : Free(t, b)
  \/ "realloc" \in Calls /\ \E b \in Stale, size \in Sizes : Realloc(t, b, size)

\* Any call that looks into the cache when the pointer to it is MAP_FAILED.
CacheFault(t) ==
  /\ thread_cache[t] = "MAP_FAILED"
  /\ fault' = TRUE
  /\ UNCHANGED <<small, tc_bins, thread_cache, live>>

\* dam_snapshot_small reads the counts of a cache there may not be.
Snapshot(t) ==
  /\ "snapshot" \in Calls
  /\ fault' = (thread_cache[t] # "mapped")
  /\ UNCHANGED <<small, tc_bins, thread_cache, live>>

\* A thread ends and a new one takes its name.  No destructor is registered:
\* make_thread_cache_key, which would, has no caller.
Exit(t) ==
  /\ "exit" \in Calls
  /\ thread_cache' = [thread_cache EXCEPT ![t] = "NULL"]
  /\ tc_bins' = [tc_bins EXCEPT ![t] = EmptyBins]
  /\ UNCHANGED <<small, live, fault>>

Init ==
  /\ small = [hdr |-> <<>>, free_class_list |-> [c \in Classes |-> NULL], mapped |-> <<>>]
  /\ tc_bins = [t \in Threads |-> EmptyBins]
  /\ thread_cache = [t \in Threads |-> "NULL"]
  /\ live = <<>>
  /\ fault = FALSE

Next ==
  /\ ~ fault
  /\ \E t \in Threads : Call(t) \/ CacheFault(t) \/ Snapshot(t) \/ Exit(t)

Spec == Init /\ [][Next]_vars

-----------------------------------------------------------------------------
\* What makes the layer correct.

\* Where a pointer to a free block may be kept: a central list, a bin, the header
\* of another free block.
Central(c) == <<"central", c>>
BinOf(t, c) == <<"bin", t, c>>
After(b) == <<"next", b>>

FreeBlocks(s) == {b \in DOMAIN s.hdr : s.hdr[b].is_free}

\* Every pointer of a list, as a set of [from, class, to].
Links(s, bins) ==
  {[from |-> Central(c), class |-> c, to |-> s.free_class_list[c]] : c \in Classes}
    \cup {[from |-> BinOf(t, c), class |-> c, to |-> bins[t][c].free_list] :
            t \in Threads, c \in Classes}
    \cup {[from |-> After(b), class |-> s.hdr[b].size_class_index, to |-> s.hdr[b].next] :
            b \in FreeBlocks(s)}

\* The lists never lead to a block a client holds, never to a block of another
\* size, and no two of them, of whichever threads, ever to the same block: nothing
\* is handed out twice (dam_small_malloc, dam_small_free, dam_small_realloc,
\* create_small_pool).
ListsSound ==
  /\ \A p \in Links(small, tc_bins) : p.to # NULL =>
       /\ p.to \in FreeBlocks(small) \ DOMAIN live
       /\ small.hdr[p.to].size_class_index = p.class
  /\ \A p, q \in Links(small, tc_bins) : p.to = q.to /\ p.to # NULL => p.from = q.from

\* A malloc that gives the client a block gives one no client holds, whichever thread
\* frees and takes at the same time; the other blocks of the clients stay theirs
\* (dam_small_malloc).
MallocGivesFreshBlocks ==
  [][\A t \in Threads, size \in Sizes, traced \in BOOLEAN :
       CacheHit(t, size, traced) \/ MallocCentral(t, size, traced) =>
         \/ live' = live
         \/ \E b \in DOMAIN small'.hdr \ DOMAIN live : live' = Hold(b, size, traced)]_vars

End(s, b) == b + SIZE_CLASS_HEADER_SIZE + BlockSize(s.hdr[b].size_class_index)

\* b lies in a pool, behind its header.
InPool(s, b) ==
  \E p \in DOMAIN s.mapped : p + POOL_HEADER_SIZE <= b /\ End(s, b) <= p + s.mapped[p]

\* The blocks, headers included, keep clear of each other and of the headers of the
\* pools they lie in (create_small_pool).
BlocksApart ==
  /\ \A b, c \in DOMAIN small.hdr : b # c => End(small, b) <= c \/ End(small, c) <= b
  /\ \A b \in DOMAIN small.hdr : InPool(small, b)

\* Following next from the block first: position i of the list, NULL past its end.
Walk(first) ==
  LET n == Cardinality(DOMAIN small.hdr)
      at[i \in 0 .. n] ==
        IF i = 0 THEN first
        ELSE IF at[i - 1] = NULL THEN NULL ELSE small.hdr[at[i - 1]].next
  IN  at

Listed(first) == {Walk(first)[i] : i \in DOMAIN Walk(first)} \ {NULL}

\* A bin's count is the length of its list, which dam_small_malloc tests instead
\* of the count, and never exceeds the limit.
BinsCounted ==
  \A t \in Threads, c \in Classes :
    /\ tc_bins[t][c].count = Cardinality(Listed(tc_bins[t][c].free_list))
    /\ tc_bins[t][c].count <= THREAD_CACHE_MAX_BLOCKS_PER_CLASS

\* Every block a client does not hold can still be handed out: a central list or a
\* thread's bin leads to it.
NothingLost ==
  DOMAIN small.hdr \ DOMAIN live
    \subseteq (UNION {Listed(small.free_class_list[c]) : c \in Classes})
                \cup (UNION {Listed(tc_bins[t][c].free_list) : t \in Threads, c \in Classes})

\* What the client's allocation takes of its block: a trace, if there is one, and
\* the bytes it asked for.
Bytes(b) == live[b].size + IF live[b].traced THEN TRACE_SIZE ELSE 0

\* No client was given a block too small for its request and the trace it carries, by
\* whichever path the block came to it, be it a realloc of a freed pointer
\* (size_to_class, dam_small_realloc).
RequestsFit ==
  \A b \in DOMAIN live : Bytes(b) <= BlockSize(small.hdr[b].size_class_index)

\* No call dereferences an invalid pointer.
NoFault == ~ fault

\* The layer keeps the promise of the abstract heap.
Payload(b) == b + SIZE_CLASS_HEADER_SIZE

Abstract == INSTANCE AbstractHeap WITH
  Pointers <- {p \in 1 .. ADDRESS_SPACE : p % ALIGNMENT = 0},
  RequestSizes <- Sizes \cup {size + TRACE_SIZE : size \in Sizes},
  allocs <- [p \in {Payload(b) : b \in DOMAIN live} |-> Bytes(p - SIZE_CLASS_HEADER_SIZE)]

ImplementsAbstractHeap == Abstract!Spec

=============================================================================
