--------------------------- MODULE GeneralAllocator ---------------------------
(***************************************************************************)
(* The general layer (src/core/general.c): growing pools of blocks, first  *)
(* fit, splitting, coalescing, realloc in place or by moving, quarantine.  *)
(*                                                                         *)
(* Everything general_lock protects is the record heap:                    *)
(*   pools  dam_pool_list, newest first, each pool named by its address    *)
(*   pool   the pool headers                                               *)
(*   hdr    the headers of the blocks linked into the pools' block lists   *)
(* A pool's free list is the sequence its prev/next pointers spell out.    *)
(* A critical section is one step.  What the code does outside the lock    *)
(* is a step of its own: the quarantine flag realloc reads before locking, *)
(* and the malloc and the free of a realloc that moves.                    *)
(* Pointers are named by their block's address b; the client holds         *)
(* b + BLOCK_HEADER_SIZE.  Requests are untraced (dam_malloc, dam_realloc).*)
(***************************************************************************)
EXTENDS DamConfig, SequencesExt

CONSTANTS
  POOL_GENERAL_SIZE,   \* bytes of a pool before its first block
  INITIAL_POOL_SIZE,
  MAX_POOLS,
  ADDRESS_SPACE,       \* mmap fails when it cannot map below this address
  MmapBases,           \* where mmap may place a mapping
  Threads,
  NoThread,
  Sizes,               \* the sizes clients ask for
  OtherSizes,          \* sizes of pools the other layers register
  Misuse,              \* what clients do that they should not: call free or
                       \* realloc with an old pointer, write past the end
  MaxLive,             \* bound of the model: allocations the clients keep
  MaxOther             \* bound of the model: pools of the other layers

ASSUME GeneralAssumption ==
  /\ POOL_GENERAL_SIZE \in Nat
  /\ POOL_GENERAL_SIZE % ALIGNMENT = 0
  /\ INITIAL_POOL_SIZE \in Nat
  /\ INITIAL_POOL_SIZE >= POOL_GENERAL_SIZE + MIN_BLOCK_SIZE
  /\ MAX_POOLS \in Nat \ {0}
  /\ ADDRESS_SPACE \in Nat
  /\ INITIAL_POOL_SIZE <= ADDRESS_SPACE
  /\ MmapBases \subseteq Nat \ {0}
  /\ \A base \in MmapBases : base % ALIGNMENT = 0
  /\ NoThread \notin Threads
  /\ Sizes \subseteq Nat \ {0}
  /\ OtherSizes \subseteq Nat \ {0}
  /\ Misuse \subseteq {"free", "realloc", "overrun"}
  /\ MaxLive \in Nat
  /\ MaxOther \in Nat

VARIABLES
  heap,
  live,          \* blocks whose pointer the clients hold
  general_lock,  \* the thread that holds it between two steps, or NoThread
  pc,            \* where each thread is in dam_general_realloc
  req            \* its arguments and locals there

vars == <<heap, live, general_lock, pc, req>>

NULL == 0

PoolHeader ==
  [size: Nat \ {0}, type: Layers, read_only: BOOLEAN, has_free: BOOLEAN,
   free_list: Seq(Nat)]

BlockHeader ==
  [size: Nat, user_size: Nat, is_free: BOOLEAN, magic: {"BLOCK", "FREED"},
   prev: Nat, next_ptr: Nat, pool_ptr: Nat, canary: BOOLEAN]

Request == [ptr: Nat, size: Nat, quarantine: BOOLEAN, new: Nat]
NoRequest == [ptr |-> NULL, size |-> 0, quarantine |-> FALSE, new |-> NULL]

IsHeap(h) ==
  /\ h = [pools |-> h.pools, pool |-> h.pool, hdr |-> h.hdr]
  /\ h.pools \in Seq(DOMAIN h.pool)
  /\ h.pool \in [DOMAIN h.pool -> PoolHeader]
  /\ h.hdr \in [DOMAIN h.hdr -> BlockHeader]
  /\ DOMAIN h.pool \cup DOMAIN h.hdr \subseteq Nat \ {NULL}

\* Types, and that the clients hold pointers to blocks.
TypeOK ==
  /\ IsHeap(heap)
  /\ live \subseteq DOMAIN heap.hdr
  /\ general_lock \in Threads \cup {NoThread}
  /\ pc \in [Threads -> {"idle", "lock", "move", "free"}]
  /\ req \in [Threads -> Request]

-----------------------------------------------------------------------------
\* Free lists.  h is a heap, b a block of it.

Block(h, b) == h.hdr[b]
End(h, b) == b + BLOCK_HEADER_SIZE + h.hdr[b].size
InUse(h) == {b \in DOMAIN h.hdr : ~ h.hdr[b].is_free}
FreeBlocks(h, p) == {b \in DOMAIN h.hdr : h.hdr[b].is_free /\ h.hdr[b].pool_ptr = p}

Unlink(s, b) == RemoveAt(s, CHOOSE i \in DOMAIN s : s[i] = b)

RemoveFromFreeList(h, b) ==
  LET p == h.hdr[b].pool_ptr
      header == h.pool[p]
      rest == Unlink(header.free_list, b)
  IN  [h EXCEPT !.pool[p] =
         [header EXCEPT !.free_list = rest,
                        !.has_free = IF rest = <<>> THEN FALSE ELSE header.has_free]]

AddToFreeList(h, b) ==
  LET p == h.hdr[b].pool_ptr
      header == h.pool[p]
  IN  [h EXCEPT !.pool[p] =
         [header EXCEPT !.free_list = <<b>> \o header.free_list, !.has_free = TRUE]]

\* Mutant: any block will do.
FittingAny(h, p, n) == DOMAIN h.pool[p].free_list

Fitting(h, p, n) ==
  {i \in DOMAIN h.pool[p].free_list : h.hdr[h.pool[p].free_list[i]].size >= n}

\* Mutant: quarantined pools serve, too.
ServingQuarantined(h, n) ==
  {i \in DOMAIN h.pools :
     LET p == h.pools[i]
     IN  h.pool[p].type = "GENERAL" /\ h.pool[p].has_free /\ Fitting(h, p, n) # {}}

\* Positions in dam_pool_list of the pools that can serve n bytes.
Serving(h, n) ==
  {i \in DOMAIN h.pools :
     LET p == h.pools[i]
     IN  /\ ~ h.pool[p].read_only
         /\ h.pool[p].type = "GENERAL"
         /\ h.pool[p].has_free
         /\ Fitting(h, p, n) # {}}

\* find_free_block_in_pools: the block it returns, still in its free list.
FirstFit(h, n) ==
  IF Serving(h, n) = {} THEN NULL
  ELSE LET p == h.pools[Min(Serving(h, n))]
       IN  h.pool[p].free_list[Min(Fitting(h, p, n))]

-----------------------------------------------------------------------------
\* Blocks.

\* Block b is cut down to n bytes, the block at new takes over the rest.
Cut(h, b, n, new) ==
  LET old == h.hdr[b]
      rest == [old EXCEPT !.size = old.size - n - BLOCK_HEADER_SIZE,
                          !.user_size = 0, !.is_free = TRUE, !.magic = "FREED",
                          !.prev = b, !.canary = FALSE]
  IN  [h EXCEPT !.hdr = [c \in DOMAIN h.hdr \cup {new} |->
         IF c = new THEN rest
         ELSE IF c = b THEN [old EXCEPT !.size = n, !.next_ptr = new]
         ELSE IF c = old.next_ptr THEN [h.hdr[c] EXCEPT !.prev = new]
         ELSE h.hdr[c]]]

\* Mutant: no room is left for the header of the rest.
SplitTight(h, b, n) ==
  LET new == b + BLOCK_HEADER_SIZE + n
  IN  IF h.hdr[b].size < n THEN h ELSE AddToFreeList(Cut(h, b, n, new), new)

\* split_block_if_possible: what n bytes leave over becomes a free block.
Split(h, b, n) ==
  LET new == b + BLOCK_HEADER_SIZE + n
  IN  IF h.hdr[b].size < n + BLOCK_HEADER_SIZE + MIN_BLOCK_SIZE THEN h
      ELSE AddToFreeList(Cut(h, b, n, new), new)

\* Mutant: the block behind keeps its prev.
MergeOneWay(h, l) ==
  LET left == h.hdr[l]
      right == h.hdr[left.next_ptr]
  IN  [h EXCEPT !.hdr = [c \in DOMAIN h.hdr \ {left.next_ptr} |->
         IF c = l
         THEN [left EXCEPT !.size = left.size + BLOCK_HEADER_SIZE + right.size,
                           !.next_ptr = right.next_ptr]
         ELSE h.hdr[c]]]

\* Block l absorbs its right neighbour, whose header leaves the block list.
Merge(h, l) ==
  LET left == h.hdr[l]
      right == h.hdr[left.next_ptr]
  IN  [h EXCEPT !.hdr = [c \in DOMAIN h.hdr \ {left.next_ptr} |->
         IF c = l
         THEN [left EXCEPT !.size = left.size + BLOCK_HEADER_SIZE + right.size,
                           !.next_ptr = right.next_ptr]
         ELSE IF c = right.next_ptr THEN [h.hdr[c] EXCEPT !.prev = l]
         ELSE h.hdr[c]]]

IsFreed(h, b) == b # NULL /\ h.hdr[b].is_free /\ h.hdr[b].magic = "FREED"

\* coalesce_if_possible: with the previous block or else with the next one,
\* never with both.  Returns the heap and the block to put in the free list.
Coalesce(h, b) ==
  LET l == h.hdr[b].prev
      r == h.hdr[b].next_ptr
      p == h.hdr[b].pool_ptr
  IN  IF IsFreed(h, l)
      THEN [heap |-> Merge(RemoveFromFreeList(h, l), l), block |-> l]
      ELSE IF IsFreed(h, r) /\ r \in p .. p + h.pool[p].size - 1
      THEN [heap |-> Merge(RemoveFromFreeList(h, r), b), block |-> b]
      ELSE [heap |-> h, block |-> b]

MarkUsed(h, b) ==
  [h EXCEPT !.hdr[b] = [h.hdr[b] EXCEPT !.is_free = FALSE, !.magic = "BLOCK"]]

\* Nothing reads the size of the request or the canary of a free block: the model
\* keeps neither.
MarkFree(h, b) ==
  [h EXCEPT !.hdr[b] = [h.hdr[b] EXCEPT !.is_free = TRUE, !.magic = "FREED",
                                        !.user_size = 0, !.canary = FALSE]]

\* The size of the request, and the canary behind its last byte.
Record(h, b, size) ==
  [h EXCEPT !.hdr[b] = [h.hdr[b] EXCEPT !.user_size = size, !.canary = TRUE]]

\* Mutant: the block stays in its free list.
OccupyListed(h, b, size) ==
  Record(Split(MarkUsed(h, b), b, ActualSize(size)), b, size)

\* Hand free block b out for a request.
Occupy(h, b, size) ==
  Record(Split(MarkUsed(RemoveFromFreeList(h, b), b), b, ActualSize(size)), b, size)

-----------------------------------------------------------------------------
\* Pools.

\* calculate_next_pool_size: twice the largest pool of any layer.
NextPoolSize(h, min_required) ==
  LET largest == Max({INITIAL_POOL_SIZE} \cup {h.pool[p].size : p \in Range(h.pools)})
  IN  Max({2 * largest, min_required})

\* Where mmap can place size bytes clear of every existing mapping.
FreeBases(h, size) ==
  {base \in MmapBases :
     /\ base + size <= ADDRESS_SPACE
     /\ \A p \in DOMAIN h.pool : base + size <= p \/ p + h.pool[p].size <= base}

RegisterPool(h, p, header) ==
  [h EXCEPT !.pools = <<p>> \o h.pools,
            !.pool = [q \in DOMAIN h.pool \cup {p} |->
                        IF q = p THEN header ELSE h.pool[q]]]

\* The heap once create_general_pool has mapped size bytes at base.
NewPool(h, base, size) ==
  LET first == base + POOL_GENERAL_SIZE
      block == [size |-> size - POOL_GENERAL_SIZE - BLOCK_HEADER_SIZE,
                user_size |-> 0, is_free |-> TRUE, magic |-> "FREED",
                prev |-> NULL, next_ptr |-> NULL, pool_ptr |-> base,
                canary |-> FALSE]
      header == [size |-> size, type |-> "GENERAL", read_only |-> FALSE,
                 has_free |-> TRUE, free_list |-> <<first>>]
  IN  [RegisterPool(h, base, header)
         EXCEPT !.hdr = [c \in DOMAIN h.hdr \cup {first} |->
                           IF c = first THEN block ELSE h.hdr[c]]]

\* The heaps create_general_pool can leave behind when it succeeds.  MAX_POOLS
\* counts the pools of every layer.
Grown(h, min_size) ==
  LET size == NextPoolSize(h, min_size)
  IN  IF Len(h.pools) >= MAX_POOLS THEN {}
      ELSE {NewPool(h, base, size) : base \in FreeBases(h, size)}

-----------------------------------------------------------------------------
\* dam_general_malloc_internal and dam_general_free_internal.

Serve(h, size) ==
  LET b == FirstFit(h, ActualSize(size))
  IN  [heap |-> IF b = NULL THEN h ELSE Occupy(h, b, size), block |-> b]

\* Mutant: the header of the block is forgotten.
MinPoolSizeBare(n) == POOL_GENERAL_SIZE + n

MinPoolSize(n) == POOL_GENERAL_SIZE + BLOCK_HEADER_SIZE + n + MIN_BLOCK_SIZE

\* What a malloc may come to: the heap it leaves and the block, or NULL.
\* Growing may fail: MAX_POOLS is reached or mmap fails.
MallocOutcomes(h, size) ==
  LET n == ActualSize(size)
  IN  IF FirstFit(h, n) # NULL THEN {Serve(h, size)}
      ELSE {[heap |-> h, block |-> NULL]}
             \cup {Serve(g, size) : g \in Grown(h, MinPoolSize(n))}

\* Mutant: no double-free check.
RejectsNoMagic(h, b) ==
  (b + BLOCK_HEADER_SIZE) % ALIGNMENT # 0 \/ h.hdr[b].size = 0

\* Double free, misaligned pointer, no magic, empty header.
Rejects(h, b) ==
  \/ h.hdr[b].magic # "BLOCK"
  \/ (b + BLOCK_HEADER_SIZE) % ALIGNMENT # 0
  \/ h.hdr[b].size = 0

FreeInternal(h, b) ==
  IF Rejects(h, b) THEN h
  ELSE LET merged == Coalesce(MarkFree(h, b), b)
       IN  AddToFreeList(merged.heap, merged.block)

-----------------------------------------------------------------------------
\* The calls of a thread.

Idle(t) == pc[t] = "idle"
Unlocked == general_lock = NoThread

Malloc(t, size) ==
  /\ Idle(t)
  /\ Unlocked
  /\ Cardinality(live) < MaxLive
  /\ LayerForSize(size) = "GENERAL"
  /\ \E o \in MallocOutcomes(heap, size) :
       /\ heap' = o.heap
       /\ live' = live \cup ({o.block} \ {NULL})
  /\ UNCHANGED <<general_lock, pc, req>>

Free(t, b) ==
  /\ Idle(t)
  /\ Unlocked
  /\ heap' = FreeInternal(heap, b)
  /\ live' = live \ {b}
  /\ UNCHANGED <<general_lock, pc, req>>

\* The pointers a client may still have to blocks that are free by now.
OldPointers == DOMAIN heap.hdr \ InUse(heap)

\* The quarantine flag is read before the lock is taken.
ReallocEnter(t, b, size) ==
  /\ Idle(t)
  /\ b \in live
  /\ live' = live \ {b}
  /\ pc' = [pc EXCEPT ![t] = "lock"]
  /\ req' = [req EXCEPT ![t] =
       [ptr |-> b, size |-> size, new |-> NULL,
        quarantine |-> heap.pool[heap.hdr[b].pool_ptr].read_only]]
  /\ UNCHANGED <<heap, general_lock>>

\* The client has its pointer back and the thread is out of the allocator.
Return(t, b) ==
  /\ live' = live \cup ({b} \ {NULL})
  /\ pc' = [pc EXCEPT ![t] = "idle"]
  /\ req' = [req EXCEPT ![t] = NoRequest]

\* Record the new size, renew the canary, give back what is left over.
Resized(h, b, size) ==
  Split(Record(h, b, size), b, ReallocSize(size))

ShrinkFits(t) == heap.hdr[req[t].ptr].size >= ReallocSize(req[t].size)

GrowFits(t) ==
  LET b == req[t].ptr
      r == heap.hdr[b].next_ptr
  IN  /\ r # NULL
      /\ heap.hdr[r].is_free
      /\ heap.hdr[b].size + BLOCK_HEADER_SIZE + heap.hdr[r].size
           >= ReallocSize(req[t].size)

\* Case 1: the block is large enough.
ReallocShrink(t) ==
  /\ pc[t] = "lock"
  /\ Unlocked
  /\ ~ req[t].quarantine
  /\ ShrinkFits(t)
  /\ heap' = Resized(heap, req[t].ptr, req[t].size)
  /\ Return(t, req[t].ptr)
  /\ UNCHANGED general_lock

\* Case 2: the next block is free and the two together are large enough.
ReallocGrow(t) ==
  LET b == req[t].ptr
      r == heap.hdr[b].next_ptr
  IN  /\ pc[t] = "lock"
      /\ Unlocked
      /\ ~ req[t].quarantine
      /\ ~ ShrinkFits(t)
      /\ GrowFits(t)
      /\ heap' = Resized(Merge(RemoveFromFreeList(heap, r), b), b, req[t].size)
      /\ Return(t, b)
      /\ UNCHANGED general_lock

\* Case 3: unlock and move.
ReallocUnlock(t) ==
  /\ pc[t] = "lock"
  /\ Unlocked
  /\ req[t].quarantine \/ (~ ShrinkFits(t) /\ ~ GrowFits(t))
  /\ pc' = [pc EXCEPT ![t] = "move"]
  /\ UNCHANGED <<heap, live, general_lock, req>>

\* Mutant: out of memory, try again.
ReallocMoveRetries(t) ==
  /\ pc[t] = "move"
  /\ LayerForSize(req[t].size) = "GENERAL"
  /\ Unlocked
  /\ \E o \in MallocOutcomes(heap, req[t].size) :
       /\ heap' = o.heap
       /\ o.block # NULL
       /\ pc' = [pc EXCEPT ![t] = "free"]
       /\ req' = [req EXCEPT ![t] = [req[t] EXCEPT !.new = o.block]]
  /\ UNCHANGED <<live, general_lock>>

\* Mutant: a move that fails forgets the old block.
ReallocMoveForgets(t) ==
  /\ pc[t] = "move"
  /\ LayerForSize(req[t].size) = "GENERAL"
  /\ Unlocked
  /\ \E o \in MallocOutcomes(heap, req[t].size) :
       /\ heap' = o.heap
       /\ \/ /\ o.block = NULL
             /\ Return(t, NULL)
          \/ /\ o.block # NULL
             /\ pc' = [pc EXCEPT ![t] = "free"]
             /\ req' = [req EXCEPT ![t] = [req[t] EXCEPT !.new = o.block]]
             /\ UNCHANGED live
  /\ UNCHANGED general_lock

\* The replacement comes from this layer; on failure the old pointer stays valid.
ReallocMove(t) ==
  /\ pc[t] = "move"
  /\ LayerForSize(req[t].size) = "GENERAL"
  /\ Unlocked
  /\ \E o \in MallocOutcomes(heap, req[t].size) :
       /\ heap' = o.heap
       /\ \/ /\ o.block = NULL
             /\ Return(t, req[t].ptr)
          \/ /\ o.block # NULL
             /\ pc' = [pc EXCEPT ![t] = "free"]
             /\ req' = [req EXCEPT ![t] = [req[t] EXCEPT !.new = o.block]]
             /\ UNCHANGED live
  /\ UNCHANGED general_lock

\* The replacement comes from the small or the direct layer, or from neither.
ReallocMoveOut(t) ==
  /\ pc[t] = "move"
  /\ LayerForSize(req[t].size) # "GENERAL"
  /\ \/ Return(t, req[t].ptr)
     \/ pc' = [pc EXCEPT ![t] = "free"] /\ UNCHANGED <<live, req>>
  /\ UNCHANGED <<heap, general_lock>>

\* The bytes are copied; dam_free(ptr) and return the replacement, which is
\* no block of this layer when new is NULL.
ReallocFree(t) ==
  /\ pc[t] = "free"
  /\ Unlocked
  /\ heap' = FreeInternal(heap, req[t].ptr)
  /\ Return(t, req[t].new)
  /\ UNCHANGED general_lock

\* realloc of a pointer that was freed: the magic check returns NULL between
\* dam_general_lock and dam_general_unlock.
ReallocRejected(t, b) ==
  /\ Idle(t)
  /\ Unlocked
  /\ heap.hdr[b].magic # "BLOCK"
  /\ general_lock' = t
  /\ UNCHANGED <<heap, live, pc, req>>

\* dam_pool_quarantine
Quarantine(h, p) == [h EXCEPT !.pool[p] = [h.pool[p] EXCEPT !.read_only = TRUE]]

\* dam_validate_ptr(ptr, 1, 0): a broken canary quarantines the pool.
Validate(t, b) ==
  /\ Idle(t)
  /\ Unlocked
  /\ ~ heap.hdr[b].canary
  /\ heap' = Quarantine(heap, heap.hdr[b].pool_ptr)
  /\ UNCHANGED <<live, general_lock, pc, req>>

-----------------------------------------------------------------------------
\* The environment.

\* A client writes past the end of its allocation, as far as the canary.
Overrun(b) ==
  /\ heap.hdr[b].canary
  /\ heap' = [heap EXCEPT !.hdr[b] = [heap.hdr[b] EXCEPT !.canary = FALSE]]
  /\ UNCHANGED <<live, general_lock, pc, req>>

\* The small and the direct layer register pools of their own; only the direct
\* layer ever takes one out again.
RegisterOther(type, size) ==
  /\ Cardinality({p \in DOMAIN heap.pool : heap.pool[p].type # "GENERAL"}) < MaxOther
  /\ \E base \in FreeBases(heap, size) :
       heap' = RegisterPool(heap, base,
                 [size |-> size, type |-> type, read_only |-> FALSE,
                  has_free |-> FALSE, free_list |-> <<>>])
  /\ UNCHANGED <<live, general_lock, pc, req>>

UnregisterDirect(i) ==
  LET p == heap.pools[i]
  IN  /\ heap.pool[p].type = "DIRECT"
      /\ heap' = [heap EXCEPT !.pools = RemoveAt(heap.pools, i),
                              !.pool = [q \in DOMAIN heap.pool \ {p} |-> heap.pool[q]]]
      /\ UNCHANGED <<live, general_lock, pc, req>>

Init ==
  /\ heap \in LET empty == [pools |-> <<>>, pool |-> <<>>, hdr |-> <<>>]
              IN  {empty} \cup Grown(empty, INITIAL_POOL_SIZE)
  /\ live = {}
  /\ general_lock = NoThread
  /\ pc = [t \in Threads |-> "idle"]
  /\ req = [t \in Threads |-> NoRequest]

ReallocStep(t) ==
  \/ ReallocShrink(t)
  \/ ReallocGrow(t)
  \/ ReallocUnlock(t)
  \/ ReallocMove(t)
  \/ ReallocMoveOut(t)
  \/ ReallocFree(t)

Call(t) ==
  \/ \E size \in Sizes : Malloc(t, size)
  \/ \E b \in live : Free(t, b) \/ Validate(t, b)
  \/ \E b \in live, size \in Sizes : ReallocEnter(t, b, size)
  \/ "free" \in Misuse /\ \E b \in OldPointers : Free(t, b)
  \/ "realloc" \in Misuse /\ \E b \in OldPointers : ReallocRejected(t, b)

Environment ==
  \/ "overrun" \in Misuse /\ \E b \in live : Overrun(b)
  \/ \E type \in {"SMALL", "DIRECT"}, size \in OtherSizes : RegisterOther(type, size)
  \/ \E i \in DOMAIN heap.pools : UnregisterDirect(i)

Next == (\E t \in Threads : Call(t) \/ ReallocStep(t)) \/ Environment

\* A thread inside realloc keeps running; the clients owe nothing.
Fairness == \A t \in Threads : WF_vars(ReallocStep(t))

Spec == Init /\ [][Next]_vars
FairSpec == Spec /\ Fairness

-----------------------------------------------------------------------------
\* What makes the layer correct.

\* The bytes of a block, header included, lie in its general pool; its address
\* is aligned, which dam_general_free_internal takes for a sign of a real block.
BlockInPool(h, b) ==
  LET p == h.hdr[b].pool_ptr
  IN  /\ b % ALIGNMENT = 0
      /\ p \in DOMAIN h.pool
      /\ h.pool[p].type = "GENERAL"
      /\ p + POOL_GENERAL_SIZE <= b
      /\ End(h, b) <= p + h.pool[p].size

\* next_ptr is the block that starts where this one ends, and NULL at the end of
\* the pool; prev is the way back, and NULL at the start.
BlockLinked(h, b) ==
  LET p == h.hdr[b].pool_ptr
      next == h.hdr[b].next_ptr
      prev == h.hdr[b].prev
  IN  /\ \/ next = NULL /\ End(h, b) = p + h.pool[p].size
         \/ /\ next = End(h, b)
            /\ next \in DOMAIN h.hdr
            /\ h.hdr[next].prev = b
            /\ h.hdr[next].pool_ptr = p
      /\ \/ prev = NULL /\ b = p + POOL_GENERAL_SIZE
         \/ prev \in DOMAIN h.hdr /\ h.hdr[prev].next_ptr = b

\* The two flags agree, a free payload has room for its list pointers, and a
\* used one for the request and its canary.
BlockContents(h, b) ==
  /\ h.hdr[b].is_free <=> h.hdr[b].magic = "FREED"
  /\ h.hdr[b].size >= FREE_BLOCK_HEADER_SIZE
  /\ ~ h.hdr[b].is_free => h.hdr[b].user_size + CANARY_SIZE <= h.hdr[b].size

Apart(h) ==
  /\ \A b, c \in DOMAIN h.hdr : b # c => End(h, b) <= c \/ End(h, c) <= b
  /\ \A p, q \in DOMAIN h.pool :
       p # q => p + h.pool[p].size <= q \/ q + h.pool[q].size <= p

\* dam_pool_list holds every mapped pool, once.
Registered(h) ==
  /\ IsInjective(h.pools)
  /\ Range(h.pools) = DOMAIN h.pool
  /\ \A p \in DOMAIN h.pool : p % ALIGNMENT = 0 /\ p + h.pool[p].size <= ADDRESS_SPACE

\* block_list, which the code sets once: the pool's first block never goes away.
FirstBlock(h, p) ==
  /\ p + POOL_GENERAL_SIZE \in DOMAIN h.hdr
  /\ h.hdr[p + POOL_GENERAL_SIZE].pool_ptr = p

Layout(h) ==
  /\ \A b \in DOMAIN h.hdr : BlockInPool(h, b) /\ BlockLinked(h, b)
  /\ Apart(h)
  /\ Registered(h)
  /\ \A p \in DOMAIN h.pool : h.pool[p].type = "GENERAL" => FirstBlock(h, p)

\* The blocks of every pool tile it from its first byte to its last, in the order
\* of the block list, whatever was split, merged, moved or grown in place
\* (split_block_if_possible, coalesce_if_possible, dam_general_realloc).
BlocksTile ==
  /\ Layout(heap)
  /\ \A b \in DOMAIN heap.hdr : BlockContents(heap, b)

\* Every free list holds the free blocks of its pool but those in X, each once,
\* and has_free says whether there are any.
FreeLists(h, X) ==
  \A p \in DOMAIN h.pool :
    LET list == h.pool[p].free_list
    IN  /\ Range(list) = FreeBlocks(h, p) \ X
        /\ IsInjective(list)
        /\ h.pool[p].has_free <=> list # <<>>

\* Between two critical sections no free block is missing from its pool's list
\* and none is listed twice or in the wrong pool, so that first fit overlooks
\* nothing and never returns a used block (add_to_free_list,
\* remove_from_free_list and the order their callers use them in).
FreeListsExact == FreeLists(heap, {})

Held(t) ==
  (IF pc[t] = "idle" THEN {} ELSE {req[t].ptr})
    \cup (IF pc[t] = "free" THEN {req[t].new} \ {NULL} ELSE {})

\* Every used block belongs to exactly one holder, the clients or a thread inside
\* dam_general_realloc: none leaks when the move fails half-way, and no block is
\* handed out while somebody has it, not even to the thread that is replacing it.
EveryBlockOwned ==
  /\ InUse(heap) = live \cup UNION {Held(t) : t \in Threads}
  /\ \A t \in Threads : Held(t) \cap live = {}
  /\ \A t, u \in Threads : t # u => Held(t) \cap Held(u) = {}
  /\ \A t \in Threads :
       req[t].new # NULL => pc[t] = "free" /\ req[t].new # req[t].ptr

\* A pool create_general_pool has just made for a request serves it: the error
\* path "Still no space after creating pool!" (general.c:51) is never taken.
FreshPoolServes ==
  \A size \in Sizes : LayerForSize(size) = "GENERAL" =>
    \A g \in Grown(heap, MinPoolSize(ActualSize(size))) :
      FirstFit(g, ActualSize(size)) # NULL

\* The bytes of a pool that are free, headers included.
FreeBytes(h, p) == UNION {b .. End(h, b) - 1 : b \in FreeBlocks(h, p)}

\* A pool that is in quarantine gives out no byte it had free.  "Exclude pool
\* from future allocations" (DESIGN.md:104).
QuarantineExcludes ==
  [][\A p \in DOMAIN heap.pool : heap.pool[p].read_only =>
       FreeBytes(heap, p) \subseteq FreeBytes(heap', p)]_vars

\* A thread that is out of the allocator does not hold its lock.
LockNotLeaked == \A t \in Threads : Idle(t) => general_lock # t

\* A thread that entered realloc comes back.
ReallocReturns == \A t \in Threads : pc[t] # "idle" ~> pc[t] = "idle"

\* The layer keeps the promise of the abstract heap: a client's allocation is
\* the user_size bytes behind the header of a used block.
Payload(b) == b + BLOCK_HEADER_SIZE

Abstract == INSTANCE AbstractHeap WITH
  Pointers <- {p \in 1 .. ADDRESS_SPACE : p % ALIGNMENT = 0},
  RequestSizes <- Sizes,
  allocs <- [p \in {Payload(b) : b \in InUse(heap)} |->
               heap.hdr[p - BLOCK_HEADER_SIZE].user_size]

ImplementsAbstractHeap == Abstract!Spec

=============================================================================
