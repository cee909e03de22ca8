-------------------------- MODULE GeneralOperations --------------------------
(***************************************************************************)
(* What the operations of the general layer do to a heap as it is between  *)
(* two critical sections: dam_general_malloc_internal,                     *)
(* dam_general_free_internal, realloc in place, growing by a pool, and     *)
(* what the other layers and the clients do to it.  Each leaves such a     *)
(* heap again, and the lemmas say which blocks are in use afterwards and   *)
(* what stays free.                                                        *)
(***************************************************************************)
EXTENDS GeneralLemmas

\* The contents of every block but those in Y are in order.
Contents(h, Y) == \A c \in DOMAIN h.hdr \ Y : BlockContents(h, c)

\* A heap as it is between two critical sections.
Good(h) == IsHeap(h) /\ Layout(h) /\ Contents(h, {}) /\ FreeLists(h, {})

\* Every block that is in use in both heaps still holds the same request.
SameRequests(h, g) ==
  \A c \in InUse(h) \cap InUse(g) : g.hdr[c].user_size = h.hdr[c].user_size

\* Every pool and every block is still there and has the same header.
Enlarged(h, g) ==
  /\ \A p \in DOMAIN h.pool : p \in DOMAIN g.pool /\ g.pool[p] = h.pool[p]
  /\ \A c \in DOMAIN h.hdr : c \in DOMAIN g.hdr /\ g.hdr[c] = h.hdr[c]

-----------------------------------------------------------------------------
\* Writing the header of one block, its links left alone.

\* The layout does not look at flags, magic, size of the request or canary.
LEMMA LayoutRewrite ==
  ASSUME NEW h, IsHeap(h), Layout(h), NEW b \in DOMAIN h.hdr, NEW block \in BlockHeader,
         block.size = h.hdr[b].size, block.pool_ptr = h.hdr[b].pool_ptr,
         block.prev = h.hdr[b].prev, block.next_ptr = h.hdr[b].next_ptr
  PROVE  LET g == [h EXCEPT !.hdr[b] = block]
         IN  /\ IsHeap(g)
             /\ Layout(g)
             /\ g.pool = h.pool
             /\ g.pools = h.pools
             /\ DOMAIN g.hdr = DOMAIN h.hdr
             /\ g.hdr[b] = block
             /\ \A c \in DOMAIN h.hdr \ {b} : g.hdr[c] = h.hdr[c]
<1> DEFINE g == [h EXCEPT !.hdr[b] = block]
<1>1. /\ IsHeap(g)
      /\ g.pool = h.pool
      /\ g.pools = h.pools
      /\ DOMAIN g.hdr = DOMAIN h.hdr
      /\ g.hdr[b] = block
      /\ \A c \in DOMAIN h.hdr \ {b} : g.hdr[c] = h.hdr[c]
  BY SetBlock
<1> HIDE DEF g
<1>2. \A c \in DOMAIN h.hdr : /\ g.hdr[c].size = h.hdr[c].size
                              /\ g.hdr[c].pool_ptr = h.hdr[c].pool_ptr
                              /\ g.hdr[c].prev = h.hdr[c].prev
                              /\ g.hdr[c].next_ptr = h.hdr[c].next_ptr
                              /\ End(g, c) = End(h, c)
  BY <1>1 DEF End
<1>3. Layout(g)
  <2>1. \A c \in DOMAIN g.hdr : BlockInPool(g, c)
    BY <1>1, <1>2 DEF Layout, BlockInPool
  <2>2. \A c \in DOMAIN g.hdr : BlockLinked(g, c)
    BY <1>1, <1>2 DEF Layout, BlockLinked
  <2>3. Apart(g)
    BY <1>1, <1>2 DEF Layout, Apart
  <2>4. Registered(g)
    BY <1>1 DEF Layout, Registered
  <2>5. \A p \in DOMAIN g.pool : g.pool[p].type = "GENERAL" => FirstBlock(g, p)
    BY <1>1, <1>2 DEF Layout, FirstBlock
  <2> QED BY <2>1, <2>2, <2>3, <2>4, <2>5 DEF Layout
<1> QED BY <1>1, <1>3 DEF g

\* The free lists are those of another heap as long as the detached blocks make
\* up for the free ones.
LEMMA FreeListsTransfer ==
  ASSUME NEW h, NEW g, NEW X, NEW Y, FreeLists(h, X), g.pool = h.pool,
         \A p \in DOMAIN h.pool : FreeBlocks(g, p) \ Y = FreeBlocks(h, p) \ X
  PROVE  FreeLists(g, Y)
<1>1. ASSUME NEW p \in DOMAIN g.pool PROVE FreeList(g, Y, p)
  BY FreeListsDef DEF FreeList
<1> QED BY <1>1, FreeListsDef

\* Taking a free block out of its list and marking it used.
LEMMA TakeFacts ==
  ASSUME NEW h, Good(h), NEW b \in DOMAIN h.hdr, h.hdr[b].is_free
  PROVE  LET g == MarkUsed(RemoveFromFreeList(h, b), b)
         IN  /\ IsHeap(g)
             /\ Layout(g)
             /\ SamePools(h, g)
             /\ FreeLists(g, {})
             /\ DOMAIN g.hdr = DOMAIN h.hdr
             /\ \A c \in DOMAIN h.hdr \ {b} : g.hdr[c] = h.hdr[c]
             /\ g.hdr[b].size = h.hdr[b].size
             /\ ~ g.hdr[b].is_free
             /\ g.hdr[b].magic = "BLOCK"
<1> DEFINE m == RemoveFromFreeList(h, b)
           g == MarkUsed(m, b)
           block == [m.hdr[b] EXCEPT !.is_free = FALSE, !.magic = "BLOCK"]
<1>1. h.hdr[b].pool_ptr \in DOMAIN h.pool
  BY DEF Good, Layout, BlockInPool
<1>2. /\ IsHeap(m)
      /\ m.hdr = h.hdr
      /\ SamePools(h, m)
      /\ FreeLists(m, {b})
  <2>1. FreeLists(m, {} \cup {b}) /\ IsHeap(m) /\ m.hdr = h.hdr /\ SamePools(h, m)
    BY <1>1, RemoveFacts DEF Good
  <2> QED BY <2>1
<1>3. g = [m EXCEPT !.hdr[b] = block]
  BY DEF MarkUsed
<1> HIDE DEF m, g
<1>4. Layout(m)
  BY <1>2, LayoutSame DEF Good
<1>5. m.hdr[b] \in BlockHeader
  BY <1>2, BlockTypes
<1>6. /\ block \in BlockHeader
      /\ block.size = m.hdr[b].size /\ block.pool_ptr = m.hdr[b].pool_ptr
      /\ block.prev = m.hdr[b].prev /\ block.next_ptr = m.hdr[b].next_ptr
      /\ block.is_free = FALSE /\ block.magic = "BLOCK"
  BY <1>5 DEF BlockHeader
<1> HIDE DEF block
<1>7. /\ IsHeap(g)
      /\ Layout(g)
      /\ g.pool = m.pool
      /\ g.pools = m.pools
      /\ DOMAIN g.hdr = DOMAIN m.hdr
      /\ g.hdr[b] = block
      /\ \A c \in DOMAIN m.hdr \ {b} : g.hdr[c] = m.hdr[c]
  <2>1. b \in DOMAIN m.hdr
    BY <1>2
  <2> QED BY <2>1, <1>2, <1>3, <1>4, <1>6, LayoutRewrite
<1>8. FreeLists(g, {})
  <2>1. \A p \in DOMAIN m.pool : FreeBlocks(g, p) \ {} = FreeBlocks(m, p) \ {b}
    BY <1>2, <1>6, <1>7 DEF FreeBlocks
  <2> QED BY <2>1, <1>2, <1>7, FreeListsTransfer
<1>9. SamePools(h, g)
  BY <1>2, <1>7 DEF SamePools
<1> QED BY <1>2, <1>6, <1>7, <1>8, <1>9 DEF g, m

\* Recording a request.
LEMMA RecordFacts ==
  ASSUME NEW h, IsHeap(h), Layout(h), NEW X, FreeLists(h, X),
         NEW b \in DOMAIN h.hdr, NEW size \in Nat
  PROVE  LET g == Record(h, b, size)
         IN  /\ IsHeap(g)
             /\ Layout(g)
             /\ g.pool = h.pool
             /\ g.pools = h.pools
             /\ FreeLists(g, X)
             /\ DOMAIN g.hdr = DOMAIN h.hdr
             /\ \A c \in DOMAIN h.hdr \ {b} : g.hdr[c] = h.hdr[c]
             /\ g.hdr[b].size = h.hdr[b].size
             /\ g.hdr[b].is_free = h.hdr[b].is_free
             /\ g.hdr[b].magic = h.hdr[b].magic
             /\ g.hdr[b].user_size = size
<1> DEFINE g == Record(h, b, size)
           block == [h.hdr[b] EXCEPT !.user_size = size, !.canary = TRUE]
<1>1. g = [h EXCEPT !.hdr[b] = block]
  BY DEF Record
<1> HIDE DEF g
<1>2. h.hdr[b] \in BlockHeader
  BY BlockTypes
<1>3. /\ block \in BlockHeader
      /\ block.size = h.hdr[b].size /\ block.pool_ptr = h.hdr[b].pool_ptr
      /\ block.prev = h.hdr[b].prev /\ block.next_ptr = h.hdr[b].next_ptr
      /\ block.is_free = h.hdr[b].is_free /\ block.magic = h.hdr[b].magic
      /\ block.user_size = size
  BY <1>2 DEF BlockHeader
<1> HIDE DEF block
<1>4. /\ IsHeap(g)
      /\ Layout(g)
      /\ g.pool = h.pool
      /\ g.pools = h.pools
      /\ DOMAIN g.hdr = DOMAIN h.hdr
      /\ g.hdr[b] = block
      /\ \A c \in DOMAIN h.hdr \ {b} : g.hdr[c] = h.hdr[c]
  BY <1>1, <1>3, LayoutRewrite
<1>5. FreeLists(g, X)
  <2>1. \A p \in DOMAIN h.pool : FreeBlocks(g, p) \ X = FreeBlocks(h, p) \ X
    BY <1>3, <1>4 DEF FreeBlocks
  <2> QED BY <2>1, <1>4, FreeListsTransfer
<1> QED BY <1>3, <1>4, <1>5 DEF g

-----------------------------------------------------------------------------
\* Handing out and resizing a block.

\* The size computed for a request is aligned, holds it and its canary, and has
\* room for the list pointers of a free block.
LEMMA RequestSize ==
  ASSUME NEW size \in Nat, NEW n \in {ActualSize(size), ReallocSize(size)}
  PROVE  /\ n \in Nat
         /\ n % ALIGNMENT = 0
         /\ n >= size + CANARY_SIZE
         /\ n >= FREE_BLOCK_HEADER_SIZE
<1>1. ASSUME NEW x \in Nat, x >= size + CANARY_SIZE, n = AlignUp(x, ALIGNMENT)
      PROVE  /\ n \in Nat
             /\ n % ALIGNMENT = 0
             /\ n >= size + CANARY_SIZE
             /\ n >= FREE_BLOCK_HEADER_SIZE
  <2>1. x > 0
    BY <1>1, Config
  <2>2. n \in Nat /\ n >= x /\ n % ALIGNMENT = 0 /\ n >= ALIGNMENT
    BY <1>1, <2>1, Config, AlignUpFacts
  <2> QED BY <1>1, <2>2, Config
<1>2. CASE n = ActualSize(size)
  <2> DEFINE x == AlignUp(size, ALIGNMENT) + CANARY_SIZE
  <2>1. AlignUp(size, ALIGNMENT) \in Nat /\ AlignUp(size, ALIGNMENT) >= size
    BY Config, AlignUpFacts
  <2>2. x \in Nat /\ x >= size + CANARY_SIZE
    BY <2>1, Config
  <2>3. n = AlignUp(x, ALIGNMENT)
    BY <1>2 DEF ActualSize
  <2> HIDE DEF x
  <2> QED BY <2>2, <2>3, <1>1
<1>3. CASE n = ReallocSize(size)
  <2>1. size + CANARY_SIZE \in Nat
    BY Config
  <2>2. n = AlignUp(size + CANARY_SIZE, ALIGNMENT)
    BY <1>3 DEF ReallocSize
  <2> QED BY <2>1, <2>2, <1>1
<1> QED BY <1>2, <1>3

\* split_block_if_possible leaves the contents of every block in order but, maybe,
\* those of the block it cuts.
LEMMA SplitContents ==
  ASSUME NEW h, IsHeap(h), Layout(h), NEW X \in SUBSET DOMAIN h.hdr, FreeLists(h, X),
         NEW b \in DOMAIN h.hdr, NEW n \in Nat, n % ALIGNMENT = 0, h.hdr[b].size >= n,
         Contents(h, {b})
  PROVE  LET g == Split(h, b, n)
         IN  Contents(g, {b}) /\ InUse(g) = InUse(h)
<1> DEFINE g == Split(h, b, n)
<1>1. /\ IsHeap(g)
      /\ DOMAIN h.hdr \subseteq DOMAIN g.hdr
      /\ \A c \in DOMAIN h.hdr : SameUse(h, g, c)
      /\ \A c \in DOMAIN h.hdr \ {b} : g.hdr[c].size = h.hdr[c].size
      /\ \A c \in DOMAIN g.hdr \ DOMAIN h.hdr :
           /\ g.hdr[c].size >= MIN_BLOCK_SIZE
           /\ g.hdr[c].is_free
           /\ g.hdr[c].magic = "FREED"
  BY SplitFacts
<1> HIDE DEF g
<1>2. ASSUME NEW c \in DOMAIN g.hdr \ {b} PROVE BlockContents(g, c)
  <2>1. CASE c \in DOMAIN h.hdr
    BY <2>1, <1>1 DEF Contents, BlockContents, SameUse
  <2>2. CASE c \notin DOMAIN h.hdr
    <3>1. g.hdr[c].size \in Nat
      BY <1>1, BlockTypes DEF BlockHeader
    <3>2. g.hdr[c].size >= FREE_BLOCK_HEADER_SIZE
      BY <3>1, <2>2, <1>1, Config
    <3> QED BY <3>2, <2>2, <1>1 DEF BlockContents
  <2> QED BY <2>1, <2>2
<1>3. InUse(g) = InUse(h)
  BY <1>1 DEF InUse, SameUse
<1> QED BY <1>2, <1>3 DEF Contents, g

\* Handing out a free block that is large enough: it alone becomes used, with the
\* request recorded, and all others keep theirs.
LEMMA OccupyFacts ==
  ASSUME NEW h, Good(h), NEW b \in DOMAIN h.hdr, h.hdr[b].is_free, NEW size \in Nat,
         h.hdr[b].size >= ActualSize(size)
  PROVE  LET g == Occupy(h, b, size)
         IN  /\ Good(g)
             /\ SamePools(h, g)
             /\ b \notin InUse(h)
             /\ InUse(g) = InUse(h) \cup {b}
             /\ SameRequests(h, g)
             /\ g.hdr[b].user_size = size
<1> DEFINE n == ActualSize(size)
           k == MarkUsed(RemoveFromFreeList(h, b), b)
           m == Split(k, b, n)
           g == Record(m, b, size)
<1>1. n \in Nat /\ n % ALIGNMENT = 0 /\ n >= size + CANARY_SIZE /\ n >= FREE_BLOCK_HEADER_SIZE
  BY RequestSize
<1> HIDE DEF n
<1>2. /\ IsHeap(k)
      /\ Layout(k)
      /\ SamePools(h, k)
      /\ FreeLists(k, {})
      /\ DOMAIN k.hdr = DOMAIN h.hdr
      /\ \A c \in DOMAIN h.hdr \ {b} : k.hdr[c] = h.hdr[c]
      /\ k.hdr[b].size = h.hdr[b].size
      /\ ~ k.hdr[b].is_free
      /\ k.hdr[b].magic = "BLOCK"
  BY TakeFacts
<1> HIDE DEF k
<1>3. Contents(k, {b}) /\ InUse(k) = InUse(h) \cup {b} /\ b \notin InUse(h)
  BY <1>2 DEF Good, Contents, BlockContents, InUse
<1>4. b \in DOMAIN k.hdr /\ k.hdr[b].size >= n /\ {} \in SUBSET DOMAIN k.hdr
  BY <1>2 DEF n
<1>5. /\ IsHeap(m)
      /\ Layout(m)
      /\ SamePools(k, m)
      /\ FreeLists(m, {})
      /\ DOMAIN k.hdr \subseteq DOMAIN m.hdr
      /\ \A c \in DOMAIN k.hdr : SameUse(k, m, c)
      /\ m.hdr[b].size >= n
  BY <1>1, <1>2, <1>4, SplitFacts
<1>6. Contents(m, {b}) /\ InUse(m) = InUse(k)
  BY <1>1, <1>2, <1>3, <1>4, SplitContents
<1> HIDE DEF m
<1>7. /\ IsHeap(g)
      /\ Layout(g)
      /\ g.pool = m.pool
      /\ g.pools = m.pools
      /\ FreeLists(g, {})
      /\ DOMAIN g.hdr = DOMAIN m.hdr
      /\ \A c \in DOMAIN m.hdr \ {b} : g.hdr[c] = m.hdr[c]
      /\ g.hdr[b].size = m.hdr[b].size
      /\ g.hdr[b].is_free = m.hdr[b].is_free
      /\ g.hdr[b].magic = m.hdr[b].magic
      /\ g.hdr[b].user_size = size
  <2>1. b \in DOMAIN m.hdr
    BY <1>4, <1>5
  <2> QED BY <2>1, <1>5, RecordFacts
<1>d. g = Occupy(h, b, size)
  BY DEF Occupy, g, m, k, n
<1> HIDE DEF g
<1>8. Contents(g, {})
  <2>1. BlockContents(g, b)
    <3>1. /\ m.hdr[b].size \in Nat /\ m.hdr[b].size >= n
          /\ ~ m.hdr[b].is_free /\ m.hdr[b].magic = "BLOCK"
      BY <1>2, <1>4, <1>5, BlockTypes DEF BlockHeader, SameUse
    <3> QED BY <3>1, <1>1, <1>7, Config DEF BlockContents
  <2>2. ASSUME NEW c \in DOMAIN g.hdr \ {b} PROVE BlockContents(g, c)
    BY <1>6, <1>7 DEF Contents, BlockContents
  <2> QED BY <2>1, <2>2 DEF Contents
<1>9. SamePools(h, g)
  BY <1>2, <1>5, <1>7 DEF SamePools
<1>10. InUse(g) = InUse(h) \cup {b}
  BY <1>3, <1>6, <1>7 DEF InUse
<1>11. SameRequests(h, g)
  <2> SUFFICES ASSUME NEW c \in InUse(h) PROVE g.hdr[c].user_size = h.hdr[c].user_size
    BY DEF SameRequests
  <2>1. c \in DOMAIN h.hdr \ {b}
    BY <1>3 DEF InUse
  <2> QED BY <2>1, <1>2, <1>5, <1>7 DEF SameUse
<1> QED BY <1>d, <1>3, <1>7, <1>8, <1>9, <1>10, <1>11 DEF Good

\* realloc in place: recording the request in a used block that is large enough,
\* and giving back the rest.
LEMMA ResizedFacts ==
  ASSUME NEW h, IsHeap(h), Layout(h), FreeLists(h, {}),
         NEW b \in InUse(h), h.hdr[b].magic = "BLOCK", Contents(h, {b}),
         NEW size \in Nat,
         h.hdr[b].size >= ReallocSize(size)
  PROVE  LET g == Resized(h, b, size)
         IN  /\ Good(g)
             /\ SamePools(h, g)
             /\ InUse(g) = InUse(h)
             /\ \A c \in InUse(h) \ {b} : g.hdr[c].user_size = h.hdr[c].user_size
             /\ g.hdr[b].user_size = size
<1> DEFINE n == ReallocSize(size)
           m == Record(h, b, size)
           g == Split(m, b, n)
<1>1. n \in Nat /\ n % ALIGNMENT = 0 /\ n >= size + CANARY_SIZE /\ n >= FREE_BLOCK_HEADER_SIZE
  BY RequestSize
<1> HIDE DEF n
<1>2. b \in DOMAIN h.hdr /\ ~ h.hdr[b].is_free
  BY DEF InUse
<1>3. /\ IsHeap(m)
      /\ Layout(m)
      /\ m.pool = h.pool
      /\ m.pools = h.pools
      /\ FreeLists(m, {})
      /\ DOMAIN m.hdr = DOMAIN h.hdr
      /\ \A c \in DOMAIN h.hdr \ {b} : m.hdr[c] = h.hdr[c]
      /\ m.hdr[b].size = h.hdr[b].size
      /\ m.hdr[b].is_free = h.hdr[b].is_free
      /\ m.hdr[b].magic = h.hdr[b].magic
      /\ m.hdr[b].user_size = size
  BY <1>2, RecordFacts
<1> HIDE DEF m
<1>4. Contents(m, {b}) /\ InUse(m) = InUse(h)
  BY <1>3 DEF Contents, BlockContents, InUse
<1>5. b \in DOMAIN m.hdr /\ m.hdr[b].size >= n /\ {} \in SUBSET DOMAIN m.hdr
  BY <1>2, <1>3 DEF n
<1>6. /\ IsHeap(g)
      /\ Layout(g)
      /\ SamePools(m, g)
      /\ FreeLists(g, {})
      /\ DOMAIN m.hdr \subseteq DOMAIN g.hdr
      /\ \A c \in DOMAIN m.hdr : SameUse(m, g, c)
      /\ g.hdr[b].size >= n
  BY <1>1, <1>3, <1>5, SplitFacts
<1>7. Contents(g, {b}) /\ InUse(g) = InUse(m)
  BY <1>1, <1>3, <1>4, <1>5, SplitContents
<1>d. g = Resized(h, b, size)
  BY DEF Resized, g, m, n
<1> HIDE DEF g
<1>8. Contents(g, {})
  <2>1. BlockContents(g, b)
    <3>1. /\ g.hdr[b].size \in Nat
          /\ ~ g.hdr[b].is_free /\ g.hdr[b].magic = "BLOCK" /\ g.hdr[b].user_size = size
      BY <1>2, <1>3, <1>5, <1>6, BlockTypes DEF BlockHeader, SameUse
    <3> QED BY <3>1, <1>1, <1>6, Config DEF BlockContents
  <2> QED BY <2>1, <1>7 DEF Contents
<1>9. SamePools(h, g)
  BY <1>3, <1>6 DEF SamePools
<1>10. ASSUME NEW c \in InUse(h) \ {b} PROVE g.hdr[c].user_size = h.hdr[c].user_size
  BY <1>3, <1>6 DEF InUse, SameUse
<1>11. g.hdr[b].user_size = size
  BY <1>3, <1>5, <1>6 DEF SameUse
<1> QED BY <1>d, <1>4, <1>6, <1>7, <1>8, <1>9, <1>10, <1>11 DEF Good

-----------------------------------------------------------------------------
\* Merging and freeing.

\* Absorbing a free neighbour that was taken out of its list.
LEMMA AbsorbFacts ==
  ASSUME NEW h, IsHeap(h), Layout(h), NEW X, FreeLists(h, X), Contents(h, {}),
         NEW l \in DOMAIN h.hdr, NEW r, r = h.hdr[l].next_ptr, r # NULL,
         r \in X, h.hdr[r].is_free
  PROVE  LET g == Merge(h, l)
         IN  /\ IsHeap(g)
             /\ Layout(g)
             /\ SamePools(h, g)
             /\ FreeLists(g, X \ {r})
             /\ Contents(g, {})
             /\ r \in DOMAIN h.hdr \ {l}
             /\ DOMAIN g.hdr = DOMAIN h.hdr \ {r}
             /\ \A c \in DOMAIN g.hdr : SameUse(h, g, c)
             /\ InUse(g) = InUse(h)
             /\ g.hdr[l].size = h.hdr[l].size + BLOCK_HEADER_SIZE + h.hdr[r].size
<1> DEFINE g == Merge(h, l)
<1>1. /\ IsHeap(g)
      /\ Layout(g)
      /\ g.pool = h.pool
      /\ g.pools = h.pools
      /\ r \in DOMAIN h.hdr \ {l}
      /\ DOMAIN g.hdr = DOMAIN h.hdr \ {r}
      /\ \A c \in DOMAIN g.hdr : SameUse(h, g, c)
      /\ \A c \in DOMAIN g.hdr \ {l} : g.hdr[c].size = h.hdr[c].size
      /\ g.hdr[l].size = h.hdr[l].size + BLOCK_HEADER_SIZE + h.hdr[r].size
  BY MergeFacts
<1> HIDE DEF g
<1>2. FreeLists(g, X \ {r})
  <2>1. \A p \in DOMAIN h.pool : FreeBlocks(g, p) \ (X \ {r}) = FreeBlocks(h, p) \ X
    BY <1>1 DEF FreeBlocks, SameUse
  <2> QED BY <2>1, <1>1, FreeListsTransfer
<1>3. ASSUME NEW c \in DOMAIN g.hdr PROVE BlockContents(g, c)
  <2>1. BlockContents(h, c) /\ SameUse(h, g, c)
    BY <1>1 DEF Contents
  <2>2. g.hdr[c].size >= h.hdr[c].size
    BY <1>1, BlockTypes, Config DEF BlockHeader
  <2>3. h.hdr[c].size \in Nat /\ g.hdr[c].size \in Nat /\ g.hdr[c].user_size \in Nat
    BY <1>1, BlockTypes DEF BlockHeader
  <2> QED BY <2>1, <2>2, <2>3, Config DEF BlockContents, SameUse
<1>4. InUse(g) = InUse(h)
  BY <1>1 DEF InUse, SameUse
<1>5. SamePools(h, g)
  BY <1>1 DEF SamePools
<1> QED BY <1>1, <1>2, <1>3, <1>4, <1>5 DEF Contents, g

\* coalesce_if_possible, for a freed block that is in no list yet: the block it
\* returns is the only free one without a list.
LEMMA CoalesceFacts ==
  ASSUME NEW h, IsHeap(h), Layout(h), Contents(h, {}),
         NEW b \in DOMAIN h.hdr, h.hdr[b].is_free, FreeLists(h, {b})
  PROVE  LET g == Coalesce(h, b).heap
             c == Coalesce(h, b).block
         IN  /\ IsHeap(g)
             /\ Layout(g)
             /\ SamePools(h, g)
             /\ Contents(g, {})
             /\ c \in DOMAIN g.hdr
             /\ g.hdr[c].is_free
             /\ FreeLists(g, {c})
             /\ InUse(g) = InUse(h)
             /\ SameRequests(h, g)
<1> DEFINE l == h.hdr[b].prev
           r == h.hdr[b].next_ptr
           p == h.hdr[b].pool_ptr
<1>1. BlockLinked(h, b) /\ b \in Nat \ {NULL}
  BY BlockTypes DEF Layout
<1>2. \A c \in DOMAIN h.hdr : h.hdr[c].pool_ptr \in DOMAIN h.pool
  BY DEF Layout, BlockInPool
<1>3. CASE IsFreed(h, l)
  <2> DEFINE m == RemoveFromFreeList(h, l)
             g == Merge(m, l)
  <2>1. Coalesce(h, b) = [heap |-> g, block |-> l]
    BY <1>3 DEF Coalesce
  <2>2. l # NULL /\ h.hdr[l].is_free /\ l \in DOMAIN h.hdr /\ h.hdr[l].next_ptr = b
    BY <1>1, <1>3 DEF IsFreed, BlockLinked
  <2>3. l # b
    <3>1. BlockLinked(h, l) /\ End(h, l) > l
      BY <2>2, BlockTypes DEF Layout
    <3> QED BY <3>1, <2>2, <1>1 DEF BlockLinked
  <2>4. IsHeap(m) /\ m.hdr = h.hdr /\ SamePools(h, m) /\ FreeLists(m, {b} \cup {l})
    <3>1. l \in DOMAIN h.hdr \ {b} /\ h.hdr[l].is_free /\ h.hdr[l].pool_ptr \in DOMAIN h.pool
      BY <1>2, <2>2, <2>3
    <3> HIDE DEF l
    <3> QED BY <3>1, RemoveFacts
  <2> HIDE DEF m
  <2>5. Layout(m) /\ Contents(m, {})
    BY <2>4, LayoutSame DEF Contents, BlockContents
  <2>6. /\ IsHeap(g)
        /\ Layout(g)
        /\ SamePools(m, g)
        /\ FreeLists(g, ({b} \cup {l}) \ {b})
        /\ Contents(g, {})
        /\ DOMAIN g.hdr = DOMAIN m.hdr \ {b}
        /\ \A c \in DOMAIN g.hdr : SameUse(m, g, c)
        /\ InUse(g) = InUse(m)
    <3> DEFINE Y == {b} \cup {l}
    <3>1. /\ l \in DOMAIN m.hdr /\ b = m.hdr[l].next_ptr /\ b # NULL
          /\ b \in Y /\ m.hdr[b].is_free /\ FreeLists(m, Y)
      BY <2>2, <2>4, <1>1
    <3> HIDE DEF Y, g
    <3>2. /\ IsHeap(g)
          /\ Layout(g)
          /\ SamePools(m, g)
          /\ FreeLists(g, Y \ {b})
          /\ Contents(g, {})
          /\ DOMAIN g.hdr = DOMAIN m.hdr \ {b}
          /\ \A c \in DOMAIN g.hdr : SameUse(m, g, c)
          /\ InUse(g) = InUse(m)
      <4> HIDE DEF l
      <4>1. l \in DOMAIN m.hdr /\ b \in Y /\ IsHeap(m) /\ FreeLists(m, Y) /\ Contents(m, {})
            /\ Layout(m) /\ m.hdr[b].is_free /\ b = m.hdr[l].next_ptr /\ b # NULL
        BY <3>1, <2>4, <2>5
      <4> QED BY ONLY <4>1, AbsorbFacts DEF g
    <3> QED BY <3>2 DEF Y
  <2> HIDE DEF g
  <2>7. ({b} \cup {l}) \ {b} = {l}
    BY <2>3
  <2>8. l \in DOMAIN g.hdr /\ g.hdr[l].is_free
    BY <2>2, <2>3, <2>4, <2>6 DEF SameUse
  <2>9. SamePools(h, g)
    BY <2>4, <2>6 DEF SamePools
  <2>10. InUse(g) = InUse(h) /\ SameRequests(h, g)
    BY <2>4, <2>6 DEF InUse, SameRequests, SameUse
  <2> QED BY <2>1, <2>6, <2>7, <2>8, <2>9, <2>10
<1>4. CASE ~ IsFreed(h, l) /\ IsFreed(h, r) /\ r \in p .. p + h.pool[p].size - 1
  <2> DEFINE m == RemoveFromFreeList(h, r)
             g == Merge(m, b)
  <2>1. Coalesce(h, b) = [heap |-> g, block |-> b]
    BY <1>4 DEF Coalesce
  <2>2. r # NULL /\ h.hdr[r].is_free /\ r \in DOMAIN h.hdr /\ r = End(h, b)
    BY <1>1, <1>4 DEF IsFreed, BlockLinked
  <2>3. r # b
    BY <2>2, <1>1, BlockTypes
  <2>4. IsHeap(m) /\ m.hdr = h.hdr /\ SamePools(h, m) /\ FreeLists(m, {b} \cup {r})
    BY <1>2, <2>2, <2>3, RemoveFacts
  <2> HIDE DEF m
  <2>5. Layout(m) /\ Contents(m, {})
    BY <2>4, LayoutSame DEF Contents, BlockContents
  <2>6. /\ IsHeap(g)
        /\ Layout(g)
        /\ SamePools(m, g)
        /\ FreeLists(g, ({b} \cup {r}) \ {r})
        /\ Contents(g, {})
        /\ DOMAIN g.hdr = DOMAIN m.hdr \ {r}
        /\ \A c \in DOMAIN g.hdr : SameUse(m, g, c)
        /\ InUse(g) = InUse(m)
    <3> DEFINE Y == {b} \cup {r}
    <3>1. /\ b \in DOMAIN m.hdr /\ r = m.hdr[b].next_ptr /\ r # NULL
          /\ r \in Y /\ m.hdr[r].is_free /\ FreeLists(m, Y)
      BY <2>2, <2>4, <1>1
    <3> HIDE DEF Y, g
    <3>2. /\ IsHeap(g)
          /\ Layout(g)
          /\ SamePools(m, g)
          /\ FreeLists(g, Y \ {r})
          /\ Contents(g, {})
          /\ DOMAIN g.hdr = DOMAIN m.hdr \ {r}
          /\ \A c \in DOMAIN g.hdr : SameUse(m, g, c)
          /\ InUse(g) = InUse(m)
      <4> HIDE DEF r
      <4> QED BY <3>1, <2>4, <2>5, AbsorbFacts DEF g
    <3> QED BY <3>2 DEF Y
  <2> HIDE DEF g
  <2>7. ({b} \cup {r}) \ {r} = {b}
    BY <2>3
  <2>8. b \in DOMAIN g.hdr /\ g.hdr[b].is_free
    BY <2>3, <2>4, <2>6 DEF SameUse
  <2>9. SamePools(h, g)
    BY <2>4, <2>6 DEF SamePools
  <2>10. InUse(g) = InUse(h) /\ SameRequests(h, g)
    BY <2>4, <2>6 DEF InUse, SameRequests, SameUse
  <2> QED BY <2>1, <2>6, <2>7, <2>8, <2>9, <2>10
<1>5. CASE ~ IsFreed(h, l) /\ ~ (IsFreed(h, r) /\ r \in p .. p + h.pool[p].size - 1)
  <2>1. Coalesce(h, b) = [heap |-> h, block |-> b]
    BY <1>5 DEF Coalesce
  <2> QED BY <2>1 DEF SamePools, SameRequests
<1> QED BY <1>3, <1>4, <1>5

\* dam_general_free_internal on a block: it and no other is freed if it is used,
\* and a block that is free already is left alone.
LEMMA FreeFacts ==
  ASSUME NEW h, Good(h), NEW b \in DOMAIN h.hdr
  PROVE  LET g == FreeInternal(h, b)
         IN  /\ Good(g)
             /\ SamePools(h, g)
             /\ InUse(g) = InUse(h) \ {b}
             /\ SameRequests(h, g)
<1> DEFINE f == MarkFree(h, b)
           block == [h.hdr[b] EXCEPT !.is_free = TRUE, !.magic = "FREED",
                                     !.user_size = 0, !.canary = FALSE]
           m == Coalesce(f, b).heap
           c == Coalesce(f, b).block
<1>1. b \in Nat /\ h.hdr[b] \in BlockHeader
  BY BlockTypes DEF Good
<1>2. BlockContents(h, b) /\ BlockInPool(h, b)
  BY DEF Good, Contents, Layout
<1>3. CASE h.hdr[b].is_free
  <2>1. Rejects(h, b)
    BY <1>2, <1>3 DEF BlockContents, Rejects
  <2>2. FreeInternal(h, b) = h
    BY <2>1 DEF FreeInternal
  <2>3. InUse(h) = InUse(h) \ {b}
    BY <1>3 DEF InUse
  <2> QED BY <2>2, <2>3 DEF SamePools, SameRequests
<1>4. CASE ~ h.hdr[b].is_free
  <2>1. ~ Rejects(h, b)
    <3>1. (b + BLOCK_HEADER_SIZE) % ALIGNMENT = 0
      BY <1>1, <1>2, Config, SumAligned DEF BlockInPool
    <3>2. h.hdr[b].magic = "BLOCK"
      BY <1>1, <1>2, <1>4 DEF BlockContents, BlockHeader
    <3>3. h.hdr[b].size # 0
      BY <1>1, <1>2, Config DEF BlockContents, BlockHeader
    <3> QED BY <3>1, <3>2, <3>3 DEF Rejects
  <2>2. FreeInternal(h, b) = AddToFreeList(m, c)
    BY <2>1 DEF FreeInternal
  <2>3. f = [h EXCEPT !.hdr[b] = block]
    BY DEF MarkFree
  <2> HIDE DEF f, m, c
  <2>4. /\ block \in BlockHeader
        /\ block.size = h.hdr[b].size /\ block.pool_ptr = h.hdr[b].pool_ptr
        /\ block.prev = h.hdr[b].prev /\ block.next_ptr = h.hdr[b].next_ptr
        /\ block.is_free = TRUE /\ block.magic = "FREED"
    BY <1>1 DEF BlockHeader
  <2> HIDE DEF block
  <2>5. /\ IsHeap(f)
        /\ Layout(f)
        /\ f.pool = h.pool
        /\ f.pools = h.pools
        /\ DOMAIN f.hdr = DOMAIN h.hdr
        /\ f.hdr[b] = block
        /\ \A d \in DOMAIN h.hdr \ {b} : f.hdr[d] = h.hdr[d]
    BY <2>3, <2>4, LayoutRewrite DEF Good
  <2>6. FreeLists(f, {b})
    <3>1. \A p \in DOMAIN h.pool : FreeBlocks(f, p) \ {b} = FreeBlocks(h, p) \ {}
      BY <1>4, <2>4, <2>5 DEF FreeBlocks
    <3> QED BY <3>1, <2>5, FreeListsTransfer DEF Good
  <2>7. Contents(f, {})
    BY <1>2, <2>4, <2>5 DEF Good, Contents, BlockContents
  <2>8. InUse(f) = InUse(h) \ {b} /\ \A d \in InUse(f) : f.hdr[d] = h.hdr[d]
    BY <2>4, <2>5 DEF InUse
  <2>9. /\ IsHeap(m)
        /\ Layout(m)
        /\ SamePools(f, m)
        /\ Contents(m, {})
        /\ c \in DOMAIN m.hdr
        /\ m.hdr[c].is_free
        /\ FreeLists(m, {c})
        /\ InUse(m) = InUse(f)
        /\ SameRequests(f, m)
    <3>1. b \in DOMAIN f.hdr /\ f.hdr[b].is_free
      BY <2>4, <2>5
    <3> QED BY <3>1, <2>5, <2>6, <2>7, CoalesceFacts DEF m, c
  <2> DEFINE g == AddToFreeList(m, c)
  <2>10. IsHeap(g) /\ g.hdr = m.hdr /\ SamePools(m, g) /\ FreeLists(g, {})
    <3>1. m.hdr[c].pool_ptr \in DOMAIN m.pool
      BY <2>9 DEF Layout, BlockInPool
    <3>2. c \in DOMAIN m.hdr \cap {c}
      BY <2>9
    <3>3. IsHeap(g) /\ g.hdr = m.hdr /\ SamePools(m, g) /\ FreeLists(g, {c} \ {c})
      BY <3>1, <3>2, <2>9, AddFacts
    <3>4. {c} \ {c} = {}
      OBVIOUS
    <3> QED BY <3>3, <3>4
  <2> HIDE DEF g
  <2>11. Good(g)
    BY <2>9, <2>10, LayoutSame DEF Good, Contents, BlockContents
  <2>12. SamePools(h, g)
    BY <2>5, <2>9, <2>10 DEF SamePools
  <2>13. InUse(g) = InUse(h) \ {b}
    BY <2>8, <2>9, <2>10 DEF InUse
  <2>14. SameRequests(h, g)
    <3> SUFFICES ASSUME NEW d \in InUse(h) \ {b} PROVE g.hdr[d].user_size = h.hdr[d].user_size
      BY <2>13 DEF SameRequests
    <3>1. d \in InUse(f) /\ d \in InUse(m)
      BY <2>8, <2>9
    <3> QED BY <3>1, <2>8, <2>9, <2>10 DEF SameRequests
  <2> QED BY <2>2, <2>11, <2>12, <2>13, <2>14 DEF g
<1> QED BY <1>3, <1>4

-----------------------------------------------------------------------------
\* First fit.

\* find_free_block_in_pools returns a free block that is large enough.
LEMMA FirstFitFacts ==
  ASSUME NEW h, Good(h), NEW n \in Nat, FirstFit(h, n) # NULL
  PROVE  /\ FirstFit(h, n) \in DOMAIN h.hdr
         /\ h.hdr[FirstFit(h, n)].is_free
         /\ h.hdr[FirstFit(h, n)].size >= n
<1> DEFINE i == Min(Serving(h, n))
           p == h.pools[i]
           list == h.pool[p].free_list
           j == Min(Fitting(h, p, n))
<1>1. Serving(h, n) # {} /\ FirstFit(h, n) = list[j]
  BY DEF FirstFit
<1>2. h.pools \in Seq(DOMAIN h.pool)
  BY DEF Good, IsHeap
<1>3. i \in Serving(h, n)
  <2>1. Serving(h, n) \subseteq Nat
    BY <1>2 DEF Serving
  <2> QED BY <1>1, <2>1, LeastNumber
<1>4. p \in DOMAIN h.pool /\ Fitting(h, p, n) # {}
  <2> HIDE DEF i
  <2>1. i \in DOMAIN h.pools /\ Fitting(h, p, n) # {}
    BY <1>3 DEF Serving
  <2> QED BY <2>1, <1>2
<1> HIDE DEF p
<1>5. list \in Seq(Nat) /\ Range(list) = FreeBlocks(h, p) \ {}
  <2>1. h.pool[p] \in PoolHeader
    BY <1>4 DEF Good, IsHeap
  <2>2. FreeList(h, {}, p)
    BY <1>4, FreeListsDef DEF Good
  <2> QED BY <2>1, <2>2 DEF PoolHeader, FreeList
<1>6. j \in DOMAIN list /\ h.hdr[list[j]].size >= n
  <2>1. Fitting(h, p, n) \subseteq Nat
    BY <1>5 DEF Fitting
  <2>2. j \in Fitting(h, p, n)
    BY <2>1, <1>4, LeastNumber
  <2> QED BY <2>2 DEF Fitting
<1>7. list[j] \in FreeBlocks(h, p)
  BY <1>5, <1>6 DEF Range
<1> QED BY <1>1, <1>6, <1>7 DEF FreeBlocks

\* Serving a request from the pools there are: nothing changes, or one free block
\* that nobody has is handed out.
LEMMA ServeFacts ==
  ASSUME NEW h, Good(h), NEW size \in Nat
  PROVE  LET o == Serve(h, size)
         IN  /\ Good(o.heap)
             /\ SameRequests(h, o.heap)
             /\ o.block = NULL => InUse(o.heap) = InUse(h)
             /\ o.block # NULL => /\ o.block \notin InUse(h)
                                 /\ InUse(o.heap) = InUse(h) \cup {o.block}
                                 /\ o.heap.hdr[o.block].user_size = size
<1> DEFINE b == FirstFit(h, ActualSize(size))
<1>1. ActualSize(size) \in Nat
  BY RequestSize
<1>2. Serve(h, size) = [heap |-> IF b = NULL THEN h ELSE Occupy(h, b, size), block |-> b]
  BY DEF Serve
<1>3. CASE b = NULL
  BY <1>2, <1>3 DEF SameRequests
<1>4. CASE b # NULL
  <2>1. b \in DOMAIN h.hdr /\ h.hdr[b].is_free /\ h.hdr[b].size >= ActualSize(size)
    BY <1>1, <1>4, FirstFitFacts
  <2> HIDE DEF b
  <2> DEFINE g == Occupy(h, b, size)
  <2>2. /\ Good(g)
        /\ b \notin InUse(h)
        /\ InUse(g) = InUse(h) \cup {b}
        /\ SameRequests(h, g)
        /\ g.hdr[b].user_size = size
    BY <2>1, OccupyFacts
  <2>3. Serve(h, size) = [heap |-> g, block |-> b]
    BY <1>2, <1>4
  <2> HIDE DEF g
  <2> QED BY <2>2, <2>3, <1>4
<1> QED BY <1>3, <1>4

-----------------------------------------------------------------------------
\* Pools.

\* A new mapping is registered once and keeps clear of the others.
LEMMA RegisterFacts ==
  ASSUME NEW h, IsHeap(h), Layout(h), NEW header \in PoolHeader,
         NEW base \in FreeBases(h, header.size)
  PROVE  LET g == RegisterPool(h, base, header)
         IN  /\ IsHeap(g)
             /\ g.hdr = h.hdr
             /\ base \in Nat \ {NULL}
             /\ base \notin DOMAIN h.pool
             /\ DOMAIN g.pool = DOMAIN h.pool \cup {base}
             /\ g.pool[base] = header
             /\ \A p \in DOMAIN h.pool : g.pool[p] = h.pool[p]
             /\ Registered(g)
             /\ Apart(g)
<1> DEFINE g == RegisterPool(h, base, header)
           pools == <<base>> \o h.pools
           pool == [q \in DOMAIN h.pool \cup {base} |->
                      IF q = base THEN header ELSE h.pool[q]]
<1>1. /\ base \in Nat \ {NULL} /\ base % ALIGNMENT = 0
      /\ base + header.size <= ADDRESS_SPACE
      /\ \A p \in DOMAIN h.pool : base + header.size <= p \/ p + h.pool[p].size <= base
  BY GeneralAssumption DEF FreeBases, GeneralAssumption, NULL
<1>2. header.size \in Nat \ {0} /\ \A p \in DOMAIN h.pool : p \in Nat /\ h.pool[p].size \in Nat \ {0}
  BY DEF IsHeap, PoolHeader
<1>3. base \notin DOMAIN h.pool
  BY <1>1, <1>2
<1>4. DOMAIN h = {"pools", "pool", "hdr"}
  BY DEF IsHeap
<1>5. /\ g.hdr = h.hdr
      /\ g.pools = pools
      /\ g.pool = pool
      /\ g = [pools |-> g.pools, pool |-> g.pool, hdr |-> g.hdr]
  <2>1. g = [h EXCEPT !.pools = pools, !.pool = pool]
    BY DEF RegisterPool
  <2> HIDE DEF pools, pool, g
  <2> QED BY <2>1, <1>4
<1> HIDE DEF g
<1>6. /\ DOMAIN pool = DOMAIN h.pool \cup {base}
      /\ pool[base] = header
      /\ \A p \in DOMAIN h.pool : pool[p] = h.pool[p]
      /\ pool \in [DOMAIN pool -> PoolHeader]
  BY <1>3 DEF IsHeap
<1> HIDE DEF pool
<1>7. /\ pools \in Seq(DOMAIN pool)
      /\ IsInjective(pools)
      /\ Range(pools) = DOMAIN pool
  <2>1. h.pools \in Seq(DOMAIN pool)
    BY <1>6 DEF IsHeap
  <2>2. IsInjective(h.pools) /\ Range(h.pools) = DOMAIN h.pool
    BY DEF Layout, Registered
  <2> QED BY <2>1, <2>2, <1>3, <1>6, PutFirst
<1> HIDE DEF pools
<1>8. IsHeap(g)
  BY <1>1, <1>5, <1>6, <1>7 DEF IsHeap
<1>9. Registered(g)
  BY <1>1, <1>5, <1>6, <1>7 DEF Layout, Registered
<1>10. Apart(g)
  BY <1>1, <1>5, <1>6 DEF Layout, Apart, End
<1> QED BY <1>1, <1>3, <1>5, <1>6, <1>8, <1>9, <1>10 DEF g

\* The pools of the other layers concern no block of this one.
LEMMA OtherPoolFacts ==
  ASSUME NEW h, Good(h), NEW header \in PoolHeader, header.type # "GENERAL",
         header.free_list = <<>>, header.has_free = FALSE,
         NEW base \in FreeBases(h, header.size)
  PROVE  LET g == RegisterPool(h, base, header)
         IN  Good(g) /\ g.hdr = h.hdr
<1> DEFINE g == RegisterPool(h, base, header)
<1>1. /\ IsHeap(g)
      /\ g.hdr = h.hdr
      /\ base \notin DOMAIN h.pool
      /\ DOMAIN g.pool = DOMAIN h.pool \cup {base}
      /\ g.pool[base] = header
      /\ \A p \in DOMAIN h.pool : g.pool[p] = h.pool[p]
      /\ Registered(g)
      /\ Apart(g)
  BY RegisterFacts DEF Good
<1> HIDE DEF g
<1>2. \A c \in DOMAIN g.hdr : BlockInPool(g, c) /\ BlockLinked(g, c)
  BY <1>1 DEF Good, Layout, BlockInPool, BlockLinked, End
<1>3. \A p \in DOMAIN g.pool : g.pool[p].type = "GENERAL" => FirstBlock(g, p)
  BY <1>1 DEF Good, Layout, FirstBlock
<1>4. ASSUME NEW p \in DOMAIN g.pool PROVE FreeList(g, {}, p)
  <2>1. CASE p \in DOMAIN h.pool
    BY <2>1, <1>1, FreeListsDef DEF Good, FreeList, FreeBlocks
  <2>2. CASE p = base
    <3>1. FreeBlocks(g, p) = {}
      BY <2>2, <1>1 DEF Good, Layout, BlockInPool, FreeBlocks
    <3>2. Range(<<>>) = {} /\ IsInjective(<<>>)
      BY DEF Range, IsInjective
    <3> QED BY <2>2, <3>1, <3>2, <1>1 DEF FreeList
  <2> QED BY <2>1, <2>2, <1>1
<1>5. Good(g)
  BY <1>1, <1>2, <1>3, <1>4, FreeListsDef DEF Good, Layout, Contents, BlockContents
<1> QED BY <1>1, <1>5 DEF g

\* A pool create_general_pool has made is one free block.
LEMMA NewPoolFacts ==
  ASSUME NEW h, Good(h), NEW size \in Nat,
         size >= POOL_GENERAL_SIZE + BLOCK_HEADER_SIZE + FREE_BLOCK_HEADER_SIZE,
         NEW base \in FreeBases(h, size)
  PROVE  LET g == NewPool(h, base, size)
         IN  Good(g) /\ InUse(g) = InUse(h) /\ SameRequests(h, g) /\ Enlarged(h, g)
<1> DEFINE first == base + POOL_GENERAL_SIZE
           block == [size |-> size - POOL_GENERAL_SIZE - BLOCK_HEADER_SIZE,
                     user_size |-> 0, is_free |-> TRUE, magic |-> "FREED",
                     prev |-> NULL, next_ptr |-> NULL, pool_ptr |-> base,
                     canary |-> FALSE]
           header == [size |-> size, type |-> "GENERAL", read_only |-> FALSE,
                      has_free |-> TRUE, free_list |-> <<first>>]
           m == RegisterPool(h, base, header)
           f == [c \in DOMAIN h.hdr \cup {first} |-> IF c = first THEN block ELSE h.hdr[c]]
           g == [m EXCEPT !.hdr = f]
<1>1. /\ base \in Nat \ {0} /\ first \in Nat \ {0} /\ first >= base
      /\ first + BLOCK_HEADER_SIZE + FREE_BLOCK_HEADER_SIZE <= base + size
      /\ \A p \in DOMAIN h.pool : base + size <= p \/ p + h.pool[p].size <= base
  BY Config, GeneralAssumption DEF FreeBases, GeneralAssumption
<1>2. first % ALIGNMENT = 0
  <2>1. base % ALIGNMENT = 0
    BY GeneralAssumption DEF FreeBases, GeneralAssumption
  <2> QED BY <2>1, <1>1, Config, SumAligned
<1>3. block.size \in Nat /\ block.size >= FREE_BLOCK_HEADER_SIZE
      /\ first + BLOCK_HEADER_SIZE + block.size = base + size
  BY <1>1, Config
<1>4. block \in BlockHeader
  BY <1>1, <1>3 DEF BlockHeader, NULL
<1>5. header \in PoolHeader /\ base \in FreeBases(h, header.size)
  BY <1>1, Config DEF PoolHeader, Layers
<1>6. /\ header.free_list = <<first>> /\ header.has_free = TRUE /\ header.type = "GENERAL"
      /\ header.size = size
      /\ block.pool_ptr = base /\ block.is_free = TRUE /\ block.magic = "FREED"
      /\ block.prev = NULL /\ block.next_ptr = NULL
  OBVIOUS
<1>d. g = NewPool(h, base, size)
  BY <1>5, RegisterFacts DEF NewPool, Good
<1> HIDE DEF block, header, first, m
<1>7. /\ IsHeap(m)
      /\ m.hdr = h.hdr
      /\ base \notin DOMAIN h.pool
      /\ DOMAIN m.pool = DOMAIN h.pool \cup {base}
      /\ m.pool[base] = header
      /\ \A p \in DOMAIN h.pool : m.pool[p] = h.pool[p]
      /\ Registered(m)
      /\ Apart(m)
  BY <1>5, RegisterFacts DEF Good, m
<1>8. \A c \in DOMAIN h.hdr : /\ c \in Nat \ {NULL}
                              /\ End(h, c) \in Nat
                              /\ End(h, c) > c
                              /\ h.hdr[c] \in BlockHeader
                              /\ BlockInPool(h, c) /\ BlockLinked(h, c)
  BY BlockTypes DEF Good, Layout
<1>9. ASSUME NEW c \in DOMAIN h.hdr PROVE End(h, c) <= base \/ base + size <= c
  <2> DEFINE p == h.hdr[c].pool_ptr
  <2>1. p \in DOMAIN h.pool /\ p <= c /\ End(h, c) <= p + h.pool[p].size /\ p \in Nat
        /\ h.pool[p].size \in Nat
    <3>1. p \in DOMAIN h.pool /\ End(h, c) <= p + h.pool[p].size
          /\ p + POOL_GENERAL_SIZE <= c
      BY <1>8 DEF BlockInPool
    <3>2. h.pool[p] \in PoolHeader /\ p \in Nat
      BY <3>1 DEF Good, IsHeap
    <3> HIDE DEF p
    <3>3. h.pool[p].size \in Nat
      BY <3>2 DEF PoolHeader
    <3> QED BY <3>1, <3>2, <3>3, <1>8, Config
  <2> HIDE DEF p
  <2> QED BY <2>1, <1>1, <1>8
<1>10. first \notin DOMAIN h.hdr
  <2> SUFFICES ASSUME first \in DOMAIN h.hdr PROVE FALSE
    OBVIOUS
  <2>1. End(h, first) \in Nat /\ End(h, first) > first
    BY <1>8
  <2>2. End(h, first) <= base \/ base + size <= first
    BY <1>9
  <2> QED BY <2>1, <2>2, <1>1, Config
<1>11. /\ DOMAIN f = DOMAIN h.hdr \cup {first}
       /\ f[first] = block
       /\ \A c \in DOMAIN h.hdr : f[c] = h.hdr[c]
       /\ f \in [DOMAIN f -> BlockHeader]
       /\ DOMAIN f \subseteq Nat \ {NULL}
  BY <1>1, <1>4, <1>8, <1>10 DEF NULL
<1> HIDE DEF f
<1>12. IsHeap(g) /\ g.hdr = f /\ g.pool = m.pool /\ g.pools = m.pools
  BY <1>7, <1>11, SetBlocks
<1> HIDE DEF g
<1>13. End(g, first) = base + size /\ \A c \in DOMAIN h.hdr : End(g, c) = End(h, c)
  BY <1>3, <1>11, <1>12 DEF End
<1>14. ASSUME NEW c \in DOMAIN g.hdr PROVE BlockInPool(g, c) /\ BlockLinked(g, c)
  <2>1. CASE c = first
    BY <2>1, <1>1, <1>2, <1>6, <1>7, <1>11, <1>12, <1>13 DEF BlockInPool, BlockLinked, first
  <2>2. CASE c \in DOMAIN h.hdr
    BY <2>2, <1>7, <1>8, <1>11, <1>12, <1>13 DEF BlockInPool, BlockLinked
  <2> QED BY <2>1, <2>2, <1>11, <1>12
<1>15. Apart(g)
  <2>1. ASSUME NEW c \in DOMAIN g.hdr, NEW d \in DOMAIN g.hdr, c # d
        PROVE  End(g, c) <= d \/ End(g, d) <= c
    <3>1. CASE c \in DOMAIN h.hdr /\ d \in DOMAIN h.hdr
      BY <3>1, <2>1, <1>13 DEF Good, Layout, Apart
    <3>2. CASE c = first /\ d \in DOMAIN h.hdr
      BY <3>2, <1>1, <1>8, <1>9, <1>13
    <3>3. CASE d = first /\ c \in DOMAIN h.hdr
      BY <3>3, <1>1, <1>8, <1>9, <1>13
    <3> QED BY <3>1, <3>2, <3>3, <2>1, <1>11, <1>12
  <2> QED BY <2>1, <1>7, <1>12 DEF Apart
<1>16. ASSUME NEW p \in DOMAIN g.pool, g.pool[p].type = "GENERAL" PROVE FirstBlock(g, p)
  <2>1. CASE p = base
    BY <2>1, <1>6, <1>11, <1>12 DEF FirstBlock, first
  <2>2. CASE p # base
    BY <2>2, <1>7, <1>11, <1>12, <1>16 DEF Good, Layout, FirstBlock
  <2> QED BY <2>1, <2>2
<1>17. ASSUME NEW p \in DOMAIN g.pool PROVE FreeList(g, {}, p)
  <2>1. CASE p = base
    <3>1. FreeBlocks(g, p) = {first}
      BY <2>1, <1>6, <1>7, <1>8, <1>11, <1>12 DEF FreeBlocks, BlockInPool
    <3>2. Range(<<first>>) = {first} /\ IsInjective(<<first>>) /\ <<first>> # <<>>
      BY DEF Range, IsInjective
    <3> QED BY <2>1, <3>1, <3>2, <1>6, <1>7, <1>12 DEF FreeList
  <2>2. CASE p # base
    <3>1. FreeList(h, {}, p) /\ g.pool[p] = h.pool[p]
      BY <2>2, <1>7, <1>12, FreeListsDef DEF Good
    <3>2. FreeBlocks(g, p) = FreeBlocks(h, p)
      BY <2>2, <1>6, <1>11, <1>12 DEF FreeBlocks
    <3> QED BY <3>1, <3>2 DEF FreeList
  <2> QED BY <2>1, <2>2
<1>18. Contents(g, {})
  BY <1>3, <1>6, <1>11, <1>12 DEF Good, Contents, BlockContents
<1>19. InUse(g) = InUse(h) /\ SameRequests(h, g)
  BY <1>6, <1>10, <1>11, <1>12 DEF InUse, SameRequests
<1>20. Registered(g)
  BY <1>7, <1>12 DEF Registered
<1>21. Good(g)
  BY <1>12, <1>14, <1>15, <1>16, <1>17, <1>18, <1>20, FreeListsDef DEF Good, Layout
<1>22. Enlarged(h, g)
  BY <1>7, <1>11, <1>12 DEF Enlarged
<1> QED BY <1>d, <1>19, <1>21, <1>22

\* calculate_next_pool_size never returns less than what is asked for.
LEMMA NextPoolSizeFacts ==
  ASSUME NEW h, IsHeap(h), Layout(h), NEW min_required \in Nat
  PROVE  NextPoolSize(h, min_required) \in Nat /\ NextPoolSize(h, min_required) >= min_required
<1> DEFINE S == {INITIAL_POOL_SIZE} \cup {h.pool[p].size : p \in Range(h.pools)}
           largest == Max(S)
           T == {2 * largest, min_required}
<1>1. largest \in Nat
  <2>1. /\ INITIAL_POOL_SIZE \in Nat /\ INITIAL_POOL_SIZE <= ADDRESS_SPACE
        /\ ADDRESS_SPACE \in Nat
    BY GeneralAssumption DEF GeneralAssumption
  <2>2. ASSUME NEW p \in Range(h.pools)
        PROVE  h.pool[p].size \in Nat /\ h.pool[p].size <= ADDRESS_SPACE
    <3>1. p \in DOMAIN h.pool /\ p + h.pool[p].size <= ADDRESS_SPACE
      BY DEF Layout, Registered
    <3>2. p \in Nat /\ h.pool[p].size \in Nat
      BY <3>1 DEF IsHeap, PoolHeader
    <3> QED BY <3>1, <3>2, <2>1
  <2>3. S \subseteq Nat /\ S # {} /\ \A x \in S : x <= ADDRESS_SPACE
    BY <2>1, <2>2
  <2> HIDE DEF S
  <2>4. Max(S) \in S
    BY <2>1, <2>3, GreatestNumber
  <2> QED BY <2>3, <2>4
<1>2. NextPoolSize(h, min_required) = Max(T)
  BY DEF NextPoolSize
<1> HIDE DEF largest
<1>3. T \subseteq Nat /\ T # {} /\ \A x \in T : x <= 2 * largest + min_required
  BY <1>1
<1>4. 2 * largest + min_required \in Nat /\ min_required \in T
  BY <1>1
<1> HIDE DEF T
<1>5. Max(T) \in T /\ \A x \in T : x <= Max(T)
  BY <1>3, <1>4, GreatestNumber
<1> QED BY <1>2, <1>3, <1>4, <1>5

\* create_general_pool leaves a good heap in which the same blocks are in use.
LEMMA GrownFacts ==
  ASSUME NEW h, Good(h), NEW min_size \in Nat,
         min_size >= POOL_GENERAL_SIZE + BLOCK_HEADER_SIZE + FREE_BLOCK_HEADER_SIZE,
         NEW g \in Grown(h, min_size)
  PROVE  Good(g) /\ InUse(g) = InUse(h) /\ SameRequests(h, g) /\ Enlarged(h, g)
<1> DEFINE size == NextPoolSize(h, min_size)
<1>1. size \in Nat /\ size >= min_size
  BY NextPoolSizeFacts DEF Good
<1>2. PICK base \in FreeBases(h, size) : g = NewPool(h, base, size)
  BY DEF Grown
<1> HIDE DEF size
<1>3. size >= POOL_GENERAL_SIZE + BLOCK_HEADER_SIZE + FREE_BLOCK_HEADER_SIZE
  BY <1>1, Config
<1> QED BY <1>1, <1>2, <1>3, NewPoolFacts

\* dam_general_malloc_internal: it fails and no block becomes used, or it hands
\* out one block that nobody has.
LEMMA MallocFacts ==
  ASSUME NEW h, Good(h), NEW size \in Nat, NEW o \in MallocOutcomes(h, size)
  PROVE  /\ Good(o.heap)
         /\ SameRequests(h, o.heap)
         /\ o.block = NULL => InUse(o.heap) = InUse(h)
         /\ o.block # NULL => /\ o.block \notin InUse(h)
                             /\ InUse(o.heap) = InUse(h) \cup {o.block}
                             /\ o.heap.hdr[o.block].user_size = size
<1> DEFINE n == ActualSize(size)
<1>1. n \in Nat
  BY RequestSize
<1>2. CASE o = Serve(h, size)
  BY <1>2, ServeFacts
<1>3. CASE o = [heap |-> h, block |-> NULL]
  BY <1>3 DEF SameRequests
<1>4. ASSUME NEW g \in Grown(h, MinPoolSize(n)), o = Serve(g, size)
      PROVE  /\ Good(o.heap)
             /\ SameRequests(h, o.heap)
             /\ o.block = NULL => InUse(o.heap) = InUse(h)
             /\ o.block # NULL => /\ o.block \notin InUse(h)
                                 /\ InUse(o.heap) = InUse(h) \cup {o.block}
                                 /\ o.heap.hdr[o.block].user_size = size
  <2> HIDE DEF n
  <2>1. /\ MinPoolSize(n) \in Nat
        /\ MinPoolSize(n) >= POOL_GENERAL_SIZE + BLOCK_HEADER_SIZE + FREE_BLOCK_HEADER_SIZE
    BY <1>1, Config DEF MinPoolSize
  <2>2. Good(g) /\ InUse(g) = InUse(h) /\ SameRequests(h, g)
    BY <2>1, GrownFacts
  <2>3. /\ Good(o.heap)
        /\ SameRequests(g, o.heap)
        /\ o.block = NULL => InUse(o.heap) = InUse(g)
        /\ o.block # NULL => /\ o.block \notin InUse(g)
                            /\ InUse(o.heap) = InUse(g) \cup {o.block}
                            /\ o.heap.hdr[o.block].user_size = size
    BY <2>2, <1>4, ServeFacts
  <2>4. SameRequests(h, o.heap)
    BY <2>2, <2>3 DEF SameRequests
  <2> QED BY <2>2, <2>3, <2>4
<1>5. \/ o = Serve(h, size)
      \/ o = [heap |-> h, block |-> NULL]
      \/ \E g \in Grown(h, MinPoolSize(n)) : o = Serve(g, size)
  BY DEF MallocOutcomes
<1> QED BY <1>2, <1>3, <1>4, <1>5

-----------------------------------------------------------------------------
\* The other steps that write the heap.

\* realloc grows a used block over the free block behind it.
LEMMA GrowFacts ==
  ASSUME NEW h, Good(h), NEW b \in InUse(h), NEW r, r = h.hdr[b].next_ptr, r # NULL,
         h.hdr[r].is_free, NEW size \in Nat,
         h.hdr[b].size + BLOCK_HEADER_SIZE + h.hdr[r].size >= ReallocSize(size)
  PROVE  LET g == Resized(Merge(RemoveFromFreeList(h, r), b), b, size)
         IN  /\ Good(g)
             /\ InUse(g) = InUse(h)
             /\ \A c \in InUse(h) \ {b} : g.hdr[c].user_size = h.hdr[c].user_size
             /\ g.hdr[b].user_size = size
<1> DEFINE m == RemoveFromFreeList(h, r)
           k == Merge(m, b)
           g == Resized(k, b, size)
<1>1. b \in DOMAIN h.hdr /\ ~ h.hdr[b].is_free /\ h.hdr[b].magic = "BLOCK"
  BY DEF InUse, Good, Contents, BlockContents, IsHeap, BlockHeader
<1>2. r \in DOMAIN h.hdr /\ h.hdr[r].pool_ptr \in DOMAIN h.pool
  BY <1>1 DEF Good, Layout, BlockLinked, BlockInPool
<1>3. IsHeap(m) /\ m.hdr = h.hdr /\ SamePools(h, m) /\ FreeLists(m, {} \cup {r})
  BY <1>2, RemoveFacts DEF Good
<1> HIDE DEF m
<1>4. Layout(m) /\ Contents(m, {}) /\ FreeLists(m, {r})
  BY <1>3, LayoutSame DEF Good, Contents, BlockContents
<1>5. /\ IsHeap(k)
      /\ Layout(k)
      /\ FreeLists(k, {r} \ {r})
      /\ Contents(k, {})
      /\ DOMAIN k.hdr = DOMAIN m.hdr \ {r}
      /\ \A c \in DOMAIN k.hdr : SameUse(m, k, c)
      /\ InUse(k) = InUse(m)
      /\ k.hdr[b].size = m.hdr[b].size + BLOCK_HEADER_SIZE + m.hdr[r].size
  <2>1. /\ b \in DOMAIN m.hdr /\ r = m.hdr[b].next_ptr /\ r # NULL /\ r \in {r}
        /\ m.hdr[r].is_free /\ IsHeap(m) /\ Layout(m) /\ Contents(m, {})
        /\ FreeLists(m, {r})
    BY <1>1, <1>3, <1>4
  <2> QED BY ONLY <2>1, AbsorbFacts DEF k
<1> HIDE DEF k
<1>6. InUse(k) = InUse(h) /\ b \in DOMAIN k.hdr /\ SameRequests(h, k)
  BY <1>3, <1>5 DEF InUse, SameRequests, SameUse
<1>7. /\ FreeLists(k, {}) /\ k.hdr[b].magic = "BLOCK" /\ b \in InUse(k)
      /\ k.hdr[b].size >= ReallocSize(size) /\ Contents(k, {b})
  <2>1. {r} \ {r} = {}
    OBVIOUS
  <2> QED BY <2>1, <1>1, <1>3, <1>5, <1>6 DEF SameUse, Contents
<1>8. /\ Good(g)
      /\ InUse(g) = InUse(k)
      /\ \A c \in InUse(k) \ {b} : g.hdr[c].user_size = k.hdr[c].user_size
      /\ g.hdr[b].user_size = size
  BY <1>5, <1>7, ResizedFacts
<1> HIDE DEF g
<1>9. \A c \in InUse(h) \ {b} : g.hdr[c].user_size = h.hdr[c].user_size
  BY <1>6, <1>8 DEF SameRequests
<1> QED BY <1>6, <1>8, <1>9 DEF g, k, m

\* realloc in place without the next block.
LEMMA ShrinkFacts ==
  ASSUME NEW h, Good(h), NEW b \in InUse(h), NEW size \in Nat,
         h.hdr[b].size >= ReallocSize(size)
  PROVE  LET g == Resized(h, b, size)
         IN  /\ Good(g)
             /\ InUse(g) = InUse(h)
             /\ \A c \in InUse(h) \ {b} : g.hdr[c].user_size = h.hdr[c].user_size
             /\ g.hdr[b].user_size = size
<1>1. h.hdr[b].magic = "BLOCK"
  BY DEF InUse, Good, Contents, BlockContents, IsHeap, BlockHeader
<1>2. IsHeap(h) /\ Layout(h) /\ FreeLists(h, {}) /\ Contents(h, {b})
  BY DEF Good, Contents
<1> QED BY <1>1, <1>2, ResizedFacts

\* Quarantine touches neither blocks nor lists.
LEMMA QuarantineFacts ==
  ASSUME NEW h, Good(h), NEW p \in DOMAIN h.pool
  PROVE  LET g == Quarantine(h, p) IN Good(g) /\ g.hdr = h.hdr
<1> DEFINE header == [h.pool[p] EXCEPT !.read_only = TRUE]
           g == [h EXCEPT !.pool[p] = header]
<1>1. h.pool[p] \in PoolHeader
  BY DEF Good, IsHeap
<1>2. /\ header \in PoolHeader /\ header.size = h.pool[p].size
      /\ header.type = h.pool[p].type /\ header.has_free = h.pool[p].has_free
      /\ header.free_list = h.pool[p].free_list
  BY <1>1 DEF PoolHeader
<1>d. g = Quarantine(h, p)
  BY DEF Quarantine
<1> HIDE DEF header
<1>3. /\ IsHeap(g)
      /\ g.hdr = h.hdr
      /\ g.pools = h.pools
      /\ DOMAIN g.pool = DOMAIN h.pool
      /\ g.pool[p] = header
      /\ \A q \in DOMAIN h.pool \ {p} : g.pool[q] = h.pool[q]
  BY <1>2, SetPool DEF Good
<1> HIDE DEF g
<1>4. \A q \in DOMAIN h.pool : /\ g.pool[q].size = h.pool[q].size
                              /\ g.pool[q].type = h.pool[q].type
                              /\ g.pool[q].has_free = h.pool[q].has_free
                              /\ g.pool[q].free_list = h.pool[q].free_list
  BY <1>2, <1>3
<1>5. \A c \in DOMAIN g.hdr : BlockInPool(g, c) /\ BlockLinked(g, c)
  BY <1>3, <1>4 DEF Good, Layout, BlockInPool, BlockLinked, End
<1>6. Apart(g) /\ Registered(g)
  BY <1>3, <1>4 DEF Good, Layout, Apart, Registered, End
<1>7. \A q \in DOMAIN g.pool : g.pool[q].type = "GENERAL" => FirstBlock(g, q)
  BY <1>3, <1>4 DEF Good, Layout, FirstBlock
<1>8. FreeLists(g, {})
  BY <1>3, <1>4 DEF Good, FreeLists, FreeBlocks
<1>9. Good(g)
  BY <1>3, <1>5, <1>6, <1>7, <1>8 DEF Good, Layout, Contents, BlockContents
<1> QED BY <1>d, <1>3, <1>9

\* A client that writes over a canary breaks nothing the layer keeps.
LEMMA OverrunFacts ==
  ASSUME NEW h, Good(h), NEW b \in DOMAIN h.hdr
  PROVE  LET g == [h EXCEPT !.hdr[b] = [h.hdr[b] EXCEPT !.canary = FALSE]]
         IN  Good(g) /\ InUse(g) = InUse(h) /\ SameRequests(h, g)
<1> DEFINE block == [h.hdr[b] EXCEPT !.canary = FALSE]
           g == [h EXCEPT !.hdr[b] = block]
<1>1. h.hdr[b] \in BlockHeader
  BY BlockTypes DEF Good
<1>2. /\ block \in BlockHeader
      /\ block.size = h.hdr[b].size /\ block.pool_ptr = h.hdr[b].pool_ptr
      /\ block.prev = h.hdr[b].prev /\ block.next_ptr = h.hdr[b].next_ptr
      /\ block.is_free = h.hdr[b].is_free /\ block.magic = h.hdr[b].magic
      /\ block.user_size = h.hdr[b].user_size
  BY <1>1 DEF BlockHeader
<1> HIDE DEF block
<1>3. /\ IsHeap(g)
      /\ Layout(g)
      /\ g.pool = h.pool
      /\ g.pools = h.pools
      /\ DOMAIN g.hdr = DOMAIN h.hdr
      /\ g.hdr[b] = block
      /\ \A c \in DOMAIN h.hdr \ {b} : g.hdr[c] = h.hdr[c]
  BY <1>2, LayoutRewrite DEF Good
<1> HIDE DEF g
<1>4. FreeLists(g, {})
  <2>1. \A p \in DOMAIN h.pool : FreeBlocks(g, p) \ {} = FreeBlocks(h, p) \ {}
    BY <1>2, <1>3 DEF FreeBlocks
  <2> QED BY <2>1, <1>3, FreeListsTransfer DEF Good
<1>5. Good(g)
  BY <1>2, <1>3, <1>4 DEF Good, Contents, BlockContents
<1>6. InUse(g) = InUse(h) /\ SameRequests(h, g)
  BY <1>2, <1>3 DEF InUse, SameRequests
<1> QED BY <1>5, <1>6 DEF g, block

\* dam_unregister_pool takes one pool of the direct layer out of the list.
LEMMA UnregisterFacts ==
  ASSUME NEW h, Good(h), NEW i \in DOMAIN h.pools, h.pool[h.pools[i]].type = "DIRECT"
  PROVE  LET p == h.pools[i]
             g == [h EXCEPT !.pools = RemoveAt(h.pools, i),
                            !.pool = [q \in DOMAIN h.pool \ {p} |-> h.pool[q]]]
         IN  Good(g) /\ g.hdr = h.hdr
<1> DEFINE p == h.pools[i]
           pools == RemoveAt(h.pools, i)
           pool == [q \in DOMAIN h.pool \ {p} |-> h.pool[q]]
           g == [h EXCEPT !.pools = pools, !.pool = pool]
<1>1. DOMAIN h = {"pools", "pool", "hdr"}
  BY DEF Good, IsHeap
<1>2. /\ g.hdr = h.hdr
      /\ g.pools = pools
      /\ g.pool = pool
      /\ g = [pools |-> g.pools, pool |-> g.pool, hdr |-> g.hdr]
  <2>1. g = [h EXCEPT !.pools = pools, !.pool = pool]
    OBVIOUS
  <2> HIDE DEF pools, pool, g
  <2> QED BY <2>1, <1>1
<1> HIDE DEF g
<1>3. p \in DOMAIN h.pool /\ h.pools \in Seq(DOMAIN h.pool)
  BY DEF Good, IsHeap
<1>4. /\ DOMAIN pool = DOMAIN h.pool \ {p}
      /\ \A q \in DOMAIN h.pool \ {p} : pool[q] = h.pool[q]
      /\ pool \in [DOMAIN pool -> PoolHeader]
  BY DEF Good, IsHeap
<1>5. /\ pools \in Seq(DOMAIN h.pool)
      /\ IsInjective(pools)
      /\ Range(pools) = Range(h.pools) \ {p}
      /\ Range(h.pools) = DOMAIN h.pool
  BY <1>3, TakeOut DEF Good, Layout, Registered
<1> HIDE DEF pool, pools
<1>6. pools \in Seq(DOMAIN pool)
  <2>1. \A j \in 1 .. Len(pools) : pools[j] \in DOMAIN pool
    <3> HIDE DEF p
    <3>1. DOMAIN pools = 1 .. Len(pools)
      BY <1>5
    <3>2. \A j \in 1 .. Len(pools) : pools[j] \in Range(pools)
      BY <3>1 DEF Range
    <3> QED BY <3>2, <1>4, <1>5
  <2> QED BY <2>1, <1>5
<1>7. IsHeap(g)
  BY <1>2, <1>4, <1>6 DEF Good, IsHeap
<1>8. ASSUME NEW c \in DOMAIN h.hdr PROVE h.hdr[c].pool_ptr \in DOMAIN pool
  BY <1>3, <1>4 DEF Good, Layout, BlockInPool
<1>9. ASSUME NEW c \in DOMAIN g.hdr PROVE BlockInPool(g, c) /\ BlockLinked(g, c)
  <2>1. BlockInPool(h, c) /\ BlockLinked(h, c)
    BY <1>2 DEF Good, Layout
  <2>2. g.pool[h.hdr[c].pool_ptr] = h.pool[h.hdr[c].pool_ptr]
    BY <1>2, <1>4, <1>8
  <2>3. BlockInPool(g, c)
    BY <2>1, <2>2, <1>2, <1>8 DEF BlockInPool, End
  <2>4. BlockLinked(g, c)
    BY <2>1, <2>2, <1>2 DEF BlockLinked, End
  <2> QED BY <2>3, <2>4
<1>10. Apart(g) /\ Registered(g)
  BY <1>2, <1>4, <1>5 DEF Good, Layout, Apart, Registered, End
<1>11. \A q \in DOMAIN g.pool : g.pool[q].type = "GENERAL" => FirstBlock(g, q)
  BY <1>2, <1>4 DEF Good, Layout, FirstBlock
<1>12. FreeLists(g, {})
  BY <1>2, <1>4 DEF Good, FreeLists, FreeBlocks
<1>13. Good(g)
  BY <1>2, <1>7, <1>9, <1>10, <1>11, <1>12 DEF Good, Layout, Contents, BlockContents
<1> QED BY <1>2, <1>13 DEF g, pools, pool

-----------------------------------------------------------------------------
\* What stays free.

\* Every block but those in Y is still there, as large, as free and in the same pool.
Kept(h, g, Y) ==
  \A c \in DOMAIN h.hdr \ Y :
    /\ c \in DOMAIN g.hdr
    /\ g.hdr[c].size = h.hdr[c].size
    /\ g.hdr[c].is_free = h.hdr[c].is_free
    /\ g.hdr[c].pool_ptr = h.hdr[c].pool_ptr

\* The bytes of every free block of pool p lie in one free block of it in g.
Covered(h, g, p) ==
  \A c \in FreeBlocks(h, p) : \E d \in FreeBlocks(g, p) : d <= c /\ End(h, c) <= End(g, d)

\* A pool whose free blocks are covered gives out none of its free bytes.
LEMMA CoveredBytes ==
  ASSUME NEW h, IsHeap(h), NEW g, IsHeap(g), NEW p, Covered(h, g, p)
  PROVE  FreeBytes(h, p) \subseteq FreeBytes(g, p)
<1> SUFFICES ASSUME NEW x \in FreeBytes(h, p) PROVE x \in FreeBytes(g, p)
  OBVIOUS
<1>1. PICK c \in FreeBlocks(h, p) : x \in c .. End(h, c) - 1
  BY DEF FreeBytes
<1>2. PICK d \in FreeBlocks(g, p) : d <= c /\ End(h, c) <= End(g, d)
  BY DEF Covered
<1>3. /\ c \in Nat /\ End(h, c) \in Nat
      /\ d \in Nat /\ End(g, d) \in Nat
  BY BlockTypes DEF FreeBlocks
<1>4. x \in d .. End(g, d) - 1
  BY <1>1, <1>2, <1>3
<1> QED BY <1>4 DEF FreeBytes

\* Free blocks that stay what they are are covered by themselves.
LEMMA KeptCovered ==
  ASSUME NEW h, IsHeap(h), NEW g, NEW Y, Kept(h, g, Y), NEW p,
         Y \cap FreeBlocks(h, p) = {}
  PROVE  Covered(h, g, p)
<1> SUFFICES ASSUME NEW c \in FreeBlocks(h, p)
             PROVE  \E d \in FreeBlocks(g, p) : d <= c /\ End(h, c) <= End(g, d)
  BY DEF Covered
<1>1. c \in DOMAIN h.hdr \ Y
  BY DEF FreeBlocks
<1>2. c \in FreeBlocks(g, p) /\ End(g, c) = End(h, c)
  BY <1>1 DEF Kept, FreeBlocks, End
<1>3. c \in Nat /\ End(h, c) \in Nat
  BY <1>1, BlockTypes
<1> QED BY <1>2, <1>3

\* Handing out a block leaves every other one alone: what is split off is new.
LEMMA OccupyKeeps ==
  ASSUME NEW h, Good(h), NEW b \in DOMAIN h.hdr, h.hdr[b].is_free, NEW size \in Nat,
         h.hdr[b].size >= ActualSize(size)
  PROVE  Kept(h, Occupy(h, b, size), {b})
<1> DEFINE n == ActualSize(size)
           k == MarkUsed(RemoveFromFreeList(h, b), b)
           m == Split(k, b, n)
           g == Record(m, b, size)
<1>1. n \in Nat /\ n % ALIGNMENT = 0
  BY RequestSize
<1> HIDE DEF n
<1>2. /\ IsHeap(k)
      /\ Layout(k)
      /\ FreeLists(k, {})
      /\ DOMAIN k.hdr = DOMAIN h.hdr
      /\ \A c \in DOMAIN h.hdr \ {b} : k.hdr[c] = h.hdr[c]
      /\ k.hdr[b].size = h.hdr[b].size
  BY TakeFacts
<1> HIDE DEF k
<1>3. b \in DOMAIN k.hdr /\ k.hdr[b].size >= n /\ {} \in SUBSET DOMAIN k.hdr
  BY <1>2 DEF n
<1>4. /\ IsHeap(m)
      /\ Layout(m)
      /\ FreeLists(m, {})
      /\ DOMAIN k.hdr \subseteq DOMAIN m.hdr
      /\ \A c \in DOMAIN k.hdr : SameUse(k, m, c)
      /\ \A c \in DOMAIN k.hdr \ {b} : m.hdr[c].size = k.hdr[c].size
  BY <1>1, <1>2, <1>3, SplitFacts
<1> HIDE DEF m
<1>5. DOMAIN g.hdr = DOMAIN m.hdr /\ \A c \in DOMAIN m.hdr \ {b} : g.hdr[c] = m.hdr[c]
  <2>1. b \in DOMAIN m.hdr
    BY <1>3, <1>4
  <2> QED BY <2>1, <1>4, RecordFacts
<1>6. g = Occupy(h, b, size)
  BY DEF Occupy, m, k, n
<1> HIDE DEF g
<1>7. Kept(h, g, {b})
  BY <1>2, <1>4, <1>5 DEF Kept, SameUse
<1> QED BY <1>6, <1>7

\* realloc in place leaves every other block alone.
LEMMA ResizedKeeps ==
  ASSUME NEW h, IsHeap(h), Layout(h), FreeLists(h, {}), NEW b \in DOMAIN h.hdr,
         NEW size \in Nat, h.hdr[b].size >= ReallocSize(size)
  PROVE  Kept(h, Resized(h, b, size), {b})
<1> DEFINE n == ReallocSize(size)
           m == Record(h, b, size)
           g == Split(m, b, n)
<1>1. n \in Nat /\ n % ALIGNMENT = 0
  BY RequestSize
<1> HIDE DEF n
<1>2. /\ IsHeap(m)
      /\ Layout(m)
      /\ FreeLists(m, {})
      /\ DOMAIN m.hdr = DOMAIN h.hdr
      /\ \A c \in DOMAIN h.hdr \ {b} : m.hdr[c] = h.hdr[c]
      /\ m.hdr[b].size = h.hdr[b].size
  BY RecordFacts
<1> HIDE DEF m
<1>3. b \in DOMAIN m.hdr /\ m.hdr[b].size >= n /\ {} \in SUBSET DOMAIN m.hdr
  BY <1>2 DEF n
<1>4. /\ DOMAIN m.hdr \subseteq DOMAIN g.hdr
      /\ \A c \in DOMAIN m.hdr : SameUse(m, g, c)
      /\ \A c \in DOMAIN m.hdr \ {b} : g.hdr[c].size = m.hdr[c].size
  BY <1>1, <1>2, <1>3, SplitFacts
<1>5. g = Resized(h, b, size)
  BY DEF Resized, m, n
<1> HIDE DEF g
<1>6. Kept(h, g, {b})
  BY <1>2, <1>4 DEF Kept, SameUse
<1> QED BY <1>5, <1>6

\* Growing in place takes bytes of the block's own pool only.
LEMMA GrowKeeps ==
  ASSUME NEW h, Good(h), NEW b \in DOMAIN h.hdr, NEW r, r = h.hdr[b].next_ptr, r # NULL,
         h.hdr[r].is_free, NEW size \in Nat,
         h.hdr[b].size + BLOCK_HEADER_SIZE + h.hdr[r].size >= ReallocSize(size)
  PROVE  LET g == Resized(Merge(RemoveFromFreeList(h, r), b), b, size)
         IN  Kept(h, g, {b, r}) /\ h.hdr[r].pool_ptr = h.hdr[b].pool_ptr
<1> DEFINE m == RemoveFromFreeList(h, r)
           k == Merge(m, b)
           g == Resized(k, b, size)
<1>1. /\ r \in DOMAIN h.hdr /\ h.hdr[r].pool_ptr \in DOMAIN h.pool
      /\ h.hdr[r].pool_ptr = h.hdr[b].pool_ptr
  BY DEF Good, Layout, BlockLinked, BlockInPool
<1>2. IsHeap(m) /\ m.hdr = h.hdr /\ SamePools(h, m) /\ FreeLists(m, {} \cup {r})
  BY <1>1, RemoveFacts DEF Good
<1> HIDE DEF m
<1>3. Layout(m) /\ Contents(m, {}) /\ FreeLists(m, {r})
  BY <1>2, LayoutSame DEF Good, Contents, BlockContents
<1>4. /\ IsHeap(k)
      /\ Layout(k)
      /\ FreeLists(k, {r} \ {r})
      /\ DOMAIN k.hdr = DOMAIN m.hdr \ {r}
      /\ \A c \in DOMAIN k.hdr : SameUse(m, k, c)
      /\ k.hdr[b].size = m.hdr[b].size + BLOCK_HEADER_SIZE + m.hdr[r].size
  <2>1. /\ b \in DOMAIN m.hdr /\ r = m.hdr[b].next_ptr /\ r # NULL /\ r \in {r}
        /\ m.hdr[r].is_free /\ IsHeap(m) /\ Layout(m) /\ Contents(m, {})
        /\ FreeLists(m, {r})
    BY <1>1, <1>2, <1>3
  <2> QED BY ONLY <2>1, AbsorbFacts DEF k
<1>5. r # b /\ \A c \in DOMAIN k.hdr \ {b} : k.hdr[c].size = m.hdr[c].size
  <2>1. /\ IsHeap(m) /\ Layout(m) /\ b \in DOMAIN m.hdr /\ m.hdr[b].next_ptr # NULL
        /\ r = m.hdr[b].next_ptr
    BY <1>2, <1>3
  <2> QED BY ONLY <2>1, MergeFacts DEF k
<1> HIDE DEF k
<1>6. Kept(k, g, {b})
  <2>1. {r} \ {r} = {}
    OBVIOUS
  <2>2. b \in DOMAIN k.hdr /\ k.hdr[b].size >= ReallocSize(size) /\ FreeLists(k, {})
    BY <2>1, <1>2, <1>4, <1>5
  <2> QED BY <2>2, <1>4, ResizedKeeps
<1> HIDE DEF g
<1>7. Kept(h, g, {b, r})
  BY <1>2, <1>4, <1>5, <1>6 DEF Kept, SameUse
<1> QED BY <1>1, <1>7 DEF g, k, m

\* Coverage composes.
LEMMA CoveredTrans ==
  ASSUME NEW h, IsHeap(h), NEW m, IsHeap(m), NEW g, IsHeap(g), NEW p,
         Covered(h, m, p), Covered(m, g, p)
  PROVE  Covered(h, g, p)
<1> SUFFICES ASSUME NEW c \in FreeBlocks(h, p)
             PROVE  \E d \in FreeBlocks(g, p) : d <= c /\ End(h, c) <= End(g, d)
  BY DEF Covered
<1>1. PICK d \in FreeBlocks(m, p) : d <= c /\ End(h, c) <= End(m, d)
  BY DEF Covered
<1>2. PICK e \in FreeBlocks(g, p) : e <= d /\ End(m, d) <= End(g, e)
  BY DEF Covered
<1>3. /\ c \in Nat /\ d \in Nat /\ e \in Nat
      /\ End(h, c) \in Nat /\ End(m, d) \in Nat /\ End(g, e) \in Nat
  BY BlockTypes DEF FreeBlocks
<1>4. e <= c /\ End(h, c) <= End(g, e)
  BY <1>1, <1>2, <1>3
<1> QED BY <1>4

\* Two free neighbours that merge lie in the block that results.
LEMMA MergeCovers ==
  ASSUME NEW h, IsHeap(h), Layout(h), NEW l \in DOMAIN h.hdr, h.hdr[l].next_ptr # NULL,
         h.hdr[l].is_free, NEW p
  PROVE  Covered(h, Merge(h, l), p)
<1> DEFINE r == h.hdr[l].next_ptr
           g == Merge(h, l)
<1>1. /\ IsHeap(g)
      /\ r \in DOMAIN h.hdr \ {l}
      /\ h.hdr[r].pool_ptr = h.hdr[l].pool_ptr
      /\ DOMAIN g.hdr = DOMAIN h.hdr \ {r}
      /\ \A c \in DOMAIN g.hdr : SameUse(h, g, c)
      /\ \A c \in DOMAIN g.hdr \ {l} : g.hdr[c].size = h.hdr[c].size
      /\ g.hdr[l].size = h.hdr[l].size + BLOCK_HEADER_SIZE + h.hdr[r].size
  BY MergeFacts
<1> HIDE DEF g
<1>2. r = End(h, l)
  <2>1. BlockLinked(h, l)
    BY DEF Layout
  <2> QED BY <2>1 DEF BlockLinked
<1> HIDE DEF r
<1>3. /\ l \in Nat /\ r \in Nat /\ h.hdr[l].size \in Nat /\ h.hdr[r].size \in Nat
      /\ BLOCK_HEADER_SIZE \in Nat
  BY <1>1, BlockTypes, Config DEF BlockHeader
<1>4. l <= r /\ End(h, l) <= End(g, l) /\ End(h, r) = End(g, l)
  BY <1>1, <1>2, <1>3 DEF End
<1>5. l \in DOMAIN g.hdr /\ g.hdr[l].is_free /\ g.hdr[l].pool_ptr = h.hdr[l].pool_ptr
  BY <1>1 DEF SameUse
<1> SUFFICES ASSUME NEW c \in FreeBlocks(h, p)
             PROVE  \E d \in FreeBlocks(g, p) : d <= c /\ End(h, c) <= End(g, d)
  BY DEF Covered, g
<1>6. c \in DOMAIN h.hdr /\ h.hdr[c].is_free /\ h.hdr[c].pool_ptr = p
  BY DEF FreeBlocks
<1>7. c \in Nat /\ End(h, c) \in Nat
  BY <1>6, BlockTypes
<1>8. CASE c \in {l, r}
  <2>1. l \in FreeBlocks(g, p)
    BY <1>1, <1>5, <1>6, <1>8 DEF FreeBlocks
  <2>2. l <= c /\ End(h, c) <= End(g, l)
    BY <1>3, <1>4, <1>7, <1>8
  <2> QED BY <2>1, <2>2
<1>9. CASE c \notin {l, r}
  <2>1. c \in DOMAIN g.hdr \ {l}
    BY <1>1, <1>6, <1>9
  <2>2. c \in FreeBlocks(g, p) /\ End(g, c) = End(h, c)
    BY <2>1, <1>1, <1>6 DEF FreeBlocks, SameUse, End
  <2> QED BY <2>2, <1>7
<1> QED BY <1>8, <1>9

\* Coalescing gives out nothing.
LEMMA CoalesceCovers ==
  ASSUME NEW h, IsHeap(h), Layout(h), Contents(h, {}),
         NEW b \in DOMAIN h.hdr, h.hdr[b].is_free, FreeLists(h, {b}), NEW p
  PROVE  Covered(h, Coalesce(h, b).heap, p)
<1> DEFINE l == h.hdr[b].prev
           r == h.hdr[b].next_ptr
           q == h.hdr[b].pool_ptr
<1>1. BlockLinked(h, b) /\ b \in Nat \ {NULL}
  BY BlockTypes DEF Layout
<1>2. ASSUME NEW c \in DOMAIN h.hdr \ {b}, h.hdr[c].is_free,
             NEW d \in DOMAIN h.hdr, h.hdr[d].is_free, h.hdr[d].next_ptr # NULL
      PROVE  Covered(h, Merge(RemoveFromFreeList(h, c), d), p)
  <2> DEFINE m == RemoveFromFreeList(h, c)
  <2>1. h.hdr[c].pool_ptr \in DOMAIN h.pool
    BY DEF Layout, BlockInPool
  <2>2. IsHeap(m) /\ m.hdr = h.hdr /\ SamePools(h, m)
    BY <1>2, <2>1, RemoveFacts
  <2> HIDE DEF m
  <2>3. Layout(m)
    BY <2>2, LayoutSame
  <2>4. Covered(m, Merge(m, d), p)
    BY <1>2, <2>2, <2>3, MergeCovers
  <2>5. FreeBlocks(m, p) = FreeBlocks(h, p) /\ \A e : End(m, e) = End(h, e)
    BY <2>2 DEF FreeBlocks, End
  <2>6. Covered(h, Merge(m, d), p)
    BY <2>4, <2>5 DEF Covered
  <2> QED BY <2>6 DEF m
<1>3. CASE IsFreed(h, l)
  <2>1. Coalesce(h, b).heap = Merge(RemoveFromFreeList(h, l), l)
    BY <1>3 DEF Coalesce
  <2>2. l # NULL /\ h.hdr[l].is_free /\ l \in DOMAIN h.hdr /\ h.hdr[l].next_ptr = b
    BY <1>1, <1>3 DEF IsFreed, BlockLinked
  <2>3. l # b
    <3>1. BlockLinked(h, l) /\ End(h, l) > l
      BY <2>2, BlockTypes DEF Layout
    <3> QED BY <3>1, <2>2, <1>1 DEF BlockLinked
  <2> QED BY <2>1, <2>2, <2>3, <1>1, <1>2
<1>4. CASE ~ IsFreed(h, l) /\ IsFreed(h, r) /\ r \in q .. q + h.pool[q].size - 1
  <2>1. Coalesce(h, b).heap = Merge(RemoveFromFreeList(h, r), b)
    BY <1>4 DEF Coalesce
  <2>2. r # NULL /\ h.hdr[r].is_free /\ r \in DOMAIN h.hdr /\ r = End(h, b)
    BY <1>1, <1>4 DEF IsFreed, BlockLinked
  <2>3. r # b
    BY <2>2, <1>1, BlockTypes
  <2> QED BY <2>1, <2>2, <2>3, <1>2
<1>5. CASE ~ IsFreed(h, l) /\ ~ (IsFreed(h, r) /\ r \in q .. q + h.pool[q].size - 1)
  <2>1. Coalesce(h, b).heap = h
    BY <1>5 DEF Coalesce
  <2>2. Kept(h, h, {}) /\ {} \cap FreeBlocks(h, p) = {}
    BY DEF Kept
  <2> QED BY <2>1, <2>2, KeptCovered
<1> QED BY <1>3, <1>4, <1>5

\* dam_general_free_internal gives out nothing.
LEMMA FreeCovers ==
  ASSUME NEW h, Good(h), NEW b \in DOMAIN h.hdr, NEW p
  PROVE  Covered(h, FreeInternal(h, b), p)
<1> DEFINE f == MarkFree(h, b)
           block == [h.hdr[b] EXCEPT !.is_free = TRUE, !.magic = "FREED",
                                     !.user_size = 0, !.canary = FALSE]
           m == Coalesce(f, b).heap
           c == Coalesce(f, b).block
           g == AddToFreeList(m, c)
<1>1. h.hdr[b] \in BlockHeader
  BY BlockTypes DEF Good
<1>2. CASE Rejects(h, b)
  <2>1. FreeInternal(h, b) = h
    BY <1>2 DEF FreeInternal
  <2>2. Kept(h, h, {}) /\ {} \cap FreeBlocks(h, p) = {}
    BY DEF Kept
  <2> QED BY <2>1, <2>2, KeptCovered DEF Good
<1>3. CASE ~ Rejects(h, b)
  <2>1. FreeInternal(h, b) = g
    BY <1>3 DEF FreeInternal
  <2>2. ~ h.hdr[b].is_free
    BY <1>3 DEF Rejects, Good, Contents, BlockContents
  <2>3. f = [h EXCEPT !.hdr[b] = block]
    BY DEF MarkFree
  <2> HIDE DEF f, m, c
  <2>4. /\ block \in BlockHeader
        /\ block.size = h.hdr[b].size /\ block.pool_ptr = h.hdr[b].pool_ptr
        /\ block.prev = h.hdr[b].prev /\ block.next_ptr = h.hdr[b].next_ptr
        /\ block.is_free = TRUE /\ block.magic = "FREED"
    BY <1>1 DEF BlockHeader
  <2> HIDE DEF block
  <2>5. /\ IsHeap(f)
        /\ Layout(f)
        /\ f.pool = h.pool
        /\ DOMAIN f.hdr = DOMAIN h.hdr
        /\ f.hdr[b] = block
        /\ \A d \in DOMAIN h.hdr \ {b} : f.hdr[d] = h.hdr[d]
    BY <2>3, <2>4, LayoutRewrite DEF Good
  <2>6. FreeLists(f, {b})
    <3>1. \A q \in DOMAIN h.pool : FreeBlocks(f, q) \ {b} = FreeBlocks(h, q) \ {}
      BY <2>2, <2>4, <2>5 DEF FreeBlocks
    <3> QED BY <3>1, <2>5, FreeListsTransfer DEF Good
  <2>7. Contents(f, {})
    BY <2>4, <2>5 DEF Good, Contents, BlockContents
  <2>8. Covered(h, f, p)
    <3>1. Kept(h, f, {b}) /\ {b} \cap FreeBlocks(h, p) = {}
      BY <2>2, <2>5 DEF Kept, FreeBlocks
    <3> QED BY <3>1, KeptCovered DEF Good
  <2>9. b \in DOMAIN f.hdr /\ f.hdr[b].is_free
    BY <2>4, <2>5
  <2>10. Covered(f, m, p) /\ IsHeap(m)
    BY <2>5, <2>6, <2>7, <2>9, CoalesceCovers, CoalesceFacts DEF m
  <2>11. Covered(h, m, p)
    BY <2>5, <2>8, <2>10, CoveredTrans DEF Good
  <2>12. g.hdr = m.hdr
    BY <2>10 DEF AddToFreeList, IsHeap
  <2> HIDE DEF g
  <2>13. Covered(h, g, p)
    <3>1. FreeBlocks(g, p) = FreeBlocks(m, p) /\ \A d : End(g, d) = End(m, d)
      BY <2>12 DEF FreeBlocks, End
    <3> QED BY <3>1, <2>11 DEF Covered
  <2> QED BY <2>1, <2>13
<1> QED BY <1>2, <1>3

\* find_free_block_in_pools passes over pools in quarantine.
LEMMA FirstFitPool ==
  ASSUME NEW h, Good(h), NEW n \in Nat, FirstFit(h, n) # NULL
  PROVE  ~ h.pool[h.hdr[FirstFit(h, n)].pool_ptr].read_only
<1> DEFINE i == Min(Serving(h, n))
           p == h.pools[i]
           list == h.pool[p].free_list
           j == Min(Fitting(h, p, n))
<1>1. Serving(h, n) # {} /\ FirstFit(h, n) = list[j]
  BY DEF FirstFit
<1>2. h.pools \in Seq(DOMAIN h.pool)
  BY DEF Good, IsHeap
<1>3. i \in Serving(h, n)
  <2>1. Serving(h, n) \subseteq Nat
    BY <1>2 DEF Serving
  <2> QED BY <1>1, <2>1, LeastNumber
<1>4. p \in DOMAIN h.pool /\ Fitting(h, p, n) # {} /\ ~ h.pool[p].read_only
  <2> HIDE DEF i
  <2>1. i \in DOMAIN h.pools /\ Fitting(h, p, n) # {} /\ ~ h.pool[p].read_only
    BY <1>3 DEF Serving
  <2> QED BY <2>1, <1>2
<1> HIDE DEF p
<1>5. list \in Seq(Nat) /\ Range(list) = FreeBlocks(h, p) \ {}
  <2>1. h.pool[p] \in PoolHeader
    BY <1>4 DEF Good, IsHeap
  <2>2. FreeList(h, {}, p)
    BY <1>4, FreeListsDef DEF Good
  <2> QED BY <2>1, <2>2 DEF PoolHeader, FreeList
<1>6. j \in DOMAIN list
  <2>1. Fitting(h, p, n) \subseteq Nat
    BY <1>5 DEF Fitting
  <2>2. j \in Fitting(h, p, n)
    BY <2>1, <1>4, LeastNumber
  <2> QED BY <2>2 DEF Fitting
<1>7. list[j] \in FreeBlocks(h, p)
  BY <1>5, <1>6 DEF Range
<1> QED BY <1>1, <1>4, <1>7 DEF FreeBlocks

\* Serving a request takes nothing from a pool in quarantine.
LEMMA ServeCovers ==
  ASSUME NEW h, Good(h), NEW size \in Nat, NEW p \in DOMAIN h.pool, h.pool[p].read_only
  PROVE  Covered(h, Serve(h, size).heap, p)
<1> DEFINE b == FirstFit(h, ActualSize(size))
<1>1. ActualSize(size) \in Nat
  BY RequestSize
<1>2. Serve(h, size).heap = IF b = NULL THEN h ELSE Occupy(h, b, size)
  BY DEF Serve
<1>3. CASE b = NULL
  <2>1. Kept(h, h, {}) /\ {} \cap FreeBlocks(h, p) = {}
    BY DEF Kept
  <2> QED BY <2>1, <1>2, <1>3, KeptCovered DEF Good
<1>4. CASE b # NULL
  <2>1. b \in DOMAIN h.hdr /\ h.hdr[b].is_free /\ h.hdr[b].size >= ActualSize(size)
    BY <1>1, <1>4, FirstFitFacts
  <2>2. ~ h.pool[h.hdr[b].pool_ptr].read_only
    BY <1>1, <1>4, FirstFitPool
  <2> HIDE DEF b
  <2>3. Kept(h, Occupy(h, b, size), {b})
    BY <2>1, OccupyKeeps
  <2>4. {b} \cap FreeBlocks(h, p) = {}
    BY <2>2 DEF FreeBlocks
  <2> QED BY <2>3, <2>4, <1>2, <1>4, KeptCovered DEF Good
<1> QED BY <1>3, <1>4

\* dam_general_malloc_internal takes nothing from a pool in quarantine, the pools it
\* adds included.
LEMMA MallocCovers ==
  ASSUME NEW h, Good(h), NEW size \in Nat, NEW o \in MallocOutcomes(h, size),
         NEW p \in DOMAIN h.pool, h.pool[p].read_only
  PROVE  Covered(h, o.heap, p)
<1> DEFINE n == ActualSize(size)
<1>1. n \in Nat
  BY RequestSize
<1>2. CASE o = Serve(h, size)
  BY <1>2, ServeCovers
<1>3. CASE o = [heap |-> h, block |-> NULL]
  <2>1. Kept(h, h, {}) /\ {} \cap FreeBlocks(h, p) = {}
    BY DEF Kept
  <2> QED BY <2>1, <1>3, KeptCovered DEF Good
<1>4. ASSUME NEW g \in Grown(h, MinPoolSize(n)), o = Serve(g, size)
      PROVE  Covered(h, o.heap, p)
  <2> HIDE DEF n
  <2>1. /\ MinPoolSize(n) \in Nat
        /\ MinPoolSize(n) >= POOL_GENERAL_SIZE + BLOCK_HEADER_SIZE + FREE_BLOCK_HEADER_SIZE
    BY <1>1, Config DEF MinPoolSize
  <2>2. Good(g) /\ Enlarged(h, g)
    BY <2>1, GrownFacts
  <2>3. Covered(h, g, p)
    <3>1. Kept(h, g, {}) /\ {} \cap FreeBlocks(h, p) = {}
      BY <2>2 DEF Kept, Enlarged
    <3> QED BY <3>1, KeptCovered DEF Good
  <2>4. Covered(g, o.heap, p) /\ Good(o.heap)
    <3>1. p \in DOMAIN g.pool /\ g.pool[p].read_only
      BY <2>2 DEF Enlarged
    <3> QED BY <3>1, <2>2, <1>4, ServeCovers, ServeFacts
  <2> QED BY <2>2, <2>3, <2>4, CoveredTrans DEF Good
<1>5. \/ o = Serve(h, size)
      \/ o = [heap |-> h, block |-> NULL]
      \/ \E g \in Grown(h, MinPoolSize(n)) : o = Serve(g, size)
  BY DEF MallocOutcomes
<1> QED BY <1>2, <1>3, <1>4, <1>5

=============================================================================
