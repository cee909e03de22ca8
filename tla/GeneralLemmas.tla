---------------------------- MODULE GeneralLemmas ----------------------------
(***************************************************************************)
(* Facts about the operators of GeneralAllocator that change one heap into *)
(* another: what each does to the free lists, to the layout of the blocks  *)
(* and to the headers it does not name.                                    *)
(***************************************************************************)
EXTENDS FreeListLinks, DamLemmas

-----------------------------------------------------------------------------
\* Free lists.

\* g has the pools of h, of the same sizes, types and states.
SamePools(h, g) ==
  /\ g.pools = h.pools
  /\ DOMAIN g.pool = DOMAIN h.pool
  /\ \A p \in DOMAIN h.pool :
       /\ g.pool[p].size = h.pool[p].size
       /\ g.pool[p].type = h.pool[p].type
       /\ g.pool[p].read_only = h.pool[p].read_only

\* The free list of one pool, X detached.
FreeList(h, X, p) ==
  /\ Range(h.pool[p].free_list) = FreeBlocks(h, p) \ X
  /\ IsInjective(h.pool[p].free_list)
  /\ h.pool[p].has_free <=> h.pool[p].free_list # <<>>

\* FreeLists, one pool at a time.
LEMMA FreeListsDef ==
  ASSUME NEW h, NEW X
  PROVE  FreeLists(h, X) <=> \A p \in DOMAIN h.pool : FreeList(h, X, p)
  BY DEF FreeLists, FreeList

-----------------------------------------------------------------------------
\* Writing one header.

\* A new header for a pool leaves the heap typed and everything else as it was.
LEMMA SetPool ==
  ASSUME NEW h, IsHeap(h), NEW p \in DOMAIN h.pool, NEW header \in PoolHeader
  PROVE  LET g == [h EXCEPT !.pool[p] = header]
         IN  /\ IsHeap(g)
             /\ g.hdr = h.hdr
             /\ g.pools = h.pools
             /\ DOMAIN g.pool = DOMAIN h.pool
             /\ g.pool[p] = header
             /\ \A q \in DOMAIN h.pool \ {p} : g.pool[q] = h.pool[q]
<1> DEFINE g == [h EXCEPT !.pool[p] = header]
<1>1. DOMAIN h = {"pools", "pool", "hdr"}
  BY DEF IsHeap
<1>2. /\ g.hdr = h.hdr
      /\ g.pools = h.pools
      /\ g.pool = [h.pool EXCEPT ![p] = header]
      /\ g = [pools |-> g.pools, pool |-> g.pool, hdr |-> g.hdr]
  BY <1>1
<1> HIDE DEF g
<1>3. /\ DOMAIN g.pool = DOMAIN h.pool
      /\ g.pool[p] = header
      /\ \A q \in DOMAIN h.pool \ {p} : g.pool[q] = h.pool[q]
      /\ g.pool \in [DOMAIN h.pool -> PoolHeader]
  BY <1>2 DEF IsHeap
<1>4. IsHeap(g)
  BY <1>2, <1>3 DEF IsHeap
<1> QED BY <1>2, <1>3, <1>4 DEF g

\* Replacing the block headers altogether.
LEMMA SetBlocks ==
  ASSUME NEW h, IsHeap(h), NEW f, f \in [DOMAIN f -> BlockHeader],
         DOMAIN f \subseteq Nat \ {NULL}
  PROVE  LET g == [h EXCEPT !.hdr = f]
         IN  IsHeap(g) /\ g.hdr = f /\ g.pool = h.pool /\ g.pools = h.pools
<1> DEFINE g == [h EXCEPT !.hdr = f]
<1>1. DOMAIN h = {"pools", "pool", "hdr"}
  BY DEF IsHeap
<1>2. /\ g.hdr = f
      /\ g.pools = h.pools
      /\ g.pool = h.pool
      /\ g = [pools |-> g.pools, pool |-> g.pool, hdr |-> g.hdr]
  BY <1>1
<1> HIDE DEF g
<1>3. IsHeap(g)
  BY <1>2 DEF IsHeap
<1> QED BY <1>2, <1>3 DEF g

\* A new header for a block leaves the heap typed and everything else as it was.
LEMMA SetBlock ==
  ASSUME NEW h, IsHeap(h), NEW b \in DOMAIN h.hdr, NEW block \in BlockHeader
  PROVE  LET g == [h EXCEPT !.hdr[b] = block]
         IN  /\ IsHeap(g)
             /\ g.pool = h.pool
             /\ g.pools = h.pools
             /\ DOMAIN g.hdr = DOMAIN h.hdr
             /\ g.hdr[b] = block
             /\ \A c \in DOMAIN h.hdr \ {b} : g.hdr[c] = h.hdr[c]
<1> DEFINE f == [h.hdr EXCEPT ![b] = block]
<1>1. DOMAIN h = {"pools", "pool", "hdr"}
  BY DEF IsHeap
<1>2. [h EXCEPT !.hdr[b] = block] = [h EXCEPT !.hdr = f]
  BY <1>1
<1>3. /\ f \in [DOMAIN f -> BlockHeader]
      /\ DOMAIN f = DOMAIN h.hdr
      /\ DOMAIN f \subseteq Nat \ {NULL}
      /\ f[b] = block
      /\ \A c \in DOMAIN h.hdr \ {b} : f[c] = h.hdr[c]
  BY DEF IsHeap
<1> HIDE DEF f
<1> QED BY <1>2, <1>3, SetBlocks

-----------------------------------------------------------------------------
\* Free lists.

\* remove_from_free_list detaches the block and disturbs nothing else.
LEMMA RemoveFacts ==
  ASSUME NEW h, IsHeap(h), NEW X, FreeLists(h, X),
         NEW b \in DOMAIN h.hdr \ X, h.hdr[b].is_free,
         h.hdr[b].pool_ptr \in DOMAIN h.pool
  PROVE  LET g == RemoveFromFreeList(h, b)
         IN  /\ IsHeap(g)
             /\ g.hdr = h.hdr
             /\ SamePools(h, g)
             /\ FreeLists(g, X \cup {b})
<1> DEFINE g == RemoveFromFreeList(h, b)
           p == h.hdr[b].pool_ptr
           list == h.pool[p].free_list
           rest == Unlink(list, b)
           header == [h.pool[p] EXCEPT !.free_list = rest, !.has_free = rest # <<>>]
<1>1. /\ list \in Seq(Nat)
      /\ IsInjective(list)
      /\ Range(list) = FreeBlocks(h, p) \ X
      /\ h.pool[p].has_free
      /\ h.pool[p] \in PoolHeader
  <2>1. list \in Seq(Nat) /\ h.pool[p] \in PoolHeader
    BY DEF IsHeap, PoolHeader
  <2>2. b \in FreeBlocks(h, p) \ X
    BY DEF FreeBlocks
  <2>3. FreeList(h, X, p)
    BY FreeListsDef
  <2>4. list # <<>>
    <3>1. b \in Range(list)
      BY <2>2, <2>3 DEF FreeList
    <3> QED BY <3>1, <2>1 DEF Range
  <2>5. h.pool[p].has_free /\ IsInjective(list) /\ Range(list) = FreeBlocks(h, p) \ X
    BY <2>3, <2>4 DEF FreeList
  <2> QED BY <2>1, <2>5
<1>2. b \in Range(list)
  BY <1>1 DEF FreeBlocks
<1>3. /\ rest \in Seq(Nat)
      /\ IsInjective(rest)
      /\ Range(rest) = Range(list) \ {b}
  <2> DEFINE i == CHOOSE i \in DOMAIN list : list[i] = b
  <2>1. i \in DOMAIN list /\ list[i] = b
    BY <1>2 DEF Range
  <2>2. rest = RemoveAt(list, i)
    BY DEF Unlink
  <2> HIDE DEF i, list, rest
  <2> QED BY <2>1, <2>2, <1>1, TakeOut
<1>4. g = [h EXCEPT !.pool[p] = header]
  <2>1. (IF rest = <<>> THEN FALSE ELSE h.pool[p].has_free) = (rest # <<>>)
    BY <1>1 DEF PoolHeader
  <2> QED BY <2>1, Zenon DEF RemoveFromFreeList, rest
<1> HIDE DEF rest, g
<1>5. header \in PoolHeader
  BY <1>1, <1>3 DEF PoolHeader
<1>6. /\ header.free_list = rest
      /\ header.has_free = (rest # <<>>)
      /\ header.size = h.pool[p].size
      /\ header.type = h.pool[p].type
      /\ header.read_only = h.pool[p].read_only
  BY <1>1 DEF PoolHeader
<1> HIDE DEF header
<1>7. /\ IsHeap(g)
      /\ g.hdr = h.hdr
      /\ g.pools = h.pools
      /\ DOMAIN g.pool = DOMAIN h.pool
      /\ g.pool[p] = header
      /\ \A q \in DOMAIN h.pool \ {p} : g.pool[q] = h.pool[q]
  BY <1>4, <1>5, SetPool
<1>8. SamePools(h, g)
  BY <1>6, <1>7 DEF SamePools
<1>9. ASSUME NEW q \in DOMAIN g.pool PROVE FreeList(g, X \cup {b}, q)
  <2>1. FreeList(h, X, q)
    BY <1>7, FreeListsDef
  <2>2. CASE q = p
    <3>1. FreeBlocks(g, q) \ (X \cup {b}) = Range(rest)
      BY <2>2, <1>1, <1>3, <1>7 DEF FreeBlocks
    <3> QED BY <2>2, <3>1, <1>3, <1>6, <1>7 DEF FreeList
  <2>3. CASE q # p
    BY <2>1, <2>3, <1>7 DEF FreeList, FreeBlocks
  <2> QED BY <2>2, <2>3
<1>10. FreeLists(g, X \cup {b})
  BY <1>9, FreeListsDef
<1> QED BY <1>7, <1>8, <1>10 DEF g

\* add_to_free_list attaches a detached free block.
LEMMA AddFacts ==
  ASSUME NEW h, IsHeap(h), NEW X, FreeLists(h, X),
         NEW b \in DOMAIN h.hdr \cap X, h.hdr[b].is_free,
         h.hdr[b].pool_ptr \in DOMAIN h.pool
  PROVE  LET g == AddToFreeList(h, b)
         IN  /\ IsHeap(g)
             /\ g.hdr = h.hdr
             /\ SamePools(h, g)
             /\ FreeLists(g, X \ {b})
<1> DEFINE g == AddToFreeList(h, b)
           p == h.hdr[b].pool_ptr
           list == h.pool[p].free_list
           more == <<b>> \o list
           header == [h.pool[p] EXCEPT !.free_list = more, !.has_free = TRUE]
<1>1. /\ list \in Seq(Nat)
      /\ IsInjective(list)
      /\ Range(list) = FreeBlocks(h, p) \ X
      /\ h.pool[p] \in PoolHeader
      /\ b \in Nat
  BY FreeListsDef DEF IsHeap, PoolHeader, FreeList
<1>2. b \notin Range(list)
  BY <1>1
<1>3. /\ more \in Seq(Nat)
      /\ IsInjective(more)
      /\ Range(more) = Range(list) \cup {b}
      /\ more # <<>>
  <2> HIDE DEF list
  <2> QED BY <1>1, <1>2, PutFirst
<1>4. g = [h EXCEPT !.pool[p] = header]
  BY Zenon DEF AddToFreeList
<1> HIDE DEF more, g
<1>5. header \in PoolHeader
  BY <1>1, <1>3 DEF PoolHeader
<1>6. /\ header.free_list = more
      /\ header.has_free = TRUE
      /\ header.size = h.pool[p].size
      /\ header.type = h.pool[p].type
      /\ header.read_only = h.pool[p].read_only
  BY <1>1 DEF PoolHeader
<1> HIDE DEF header
<1>7. /\ IsHeap(g)
      /\ g.hdr = h.hdr
      /\ g.pools = h.pools
      /\ DOMAIN g.pool = DOMAIN h.pool
      /\ g.pool[p] = header
      /\ \A q \in DOMAIN h.pool \ {p} : g.pool[q] = h.pool[q]
  BY <1>4, <1>5, SetPool
<1>8. SamePools(h, g)
  BY <1>6, <1>7 DEF SamePools
<1>9. ASSUME NEW q \in DOMAIN g.pool PROVE FreeList(g, X \ {b}, q)
  <2>1. FreeList(h, X, q)
    BY <1>7, FreeListsDef
  <2>2. CASE q = p
    <3>1. FreeBlocks(g, q) \ (X \ {b}) = Range(more)
      BY <2>2, <1>1, <1>3, <1>7 DEF FreeBlocks
    <3> QED BY <2>2, <3>1, <1>3, <1>6, <1>7 DEF FreeList
  <2>3. CASE q # p
    BY <2>1, <2>3, <1>7 DEF FreeList, FreeBlocks
  <2> QED BY <2>2, <2>3
<1>10. FreeLists(g, X \ {b})
  BY <1>9, FreeListsDef
<1> QED BY <1>7, <1>8, <1>10 DEF g

-----------------------------------------------------------------------------
\* Splitting and merging.

\* What the layout and the free lists do not look at: a block's other links.
SameUse(h, g, c) ==
  /\ g.hdr[c].is_free = h.hdr[c].is_free
  /\ g.hdr[c].magic = h.hdr[c].magic
  /\ g.hdr[c].user_size = h.hdr[c].user_size
  /\ g.hdr[c].pool_ptr = h.hdr[c].pool_ptr

\* Sizes of the configuration that the proofs about blocks use.
LEMMA Config ==
  /\ ALIGNMENT \in Nat \ {0} /\ BLOCK_HEADER_SIZE \in Nat \ {0}
  /\ FREE_BLOCK_HEADER_SIZE \in Nat \ {0} /\ CANARY_SIZE \in Nat \ {0}
  /\ DAM_SMALL_MAX \in Nat \ {0} /\ POOL_GENERAL_SIZE \in Nat
  /\ FREE_BLOCK_HEADER_SIZE <= ALIGNMENT
  /\ MIN_BLOCK_SIZE \in Nat /\ MIN_BLOCK_SIZE >= FREE_BLOCK_HEADER_SIZE
  /\ MIN_BLOCK_SIZE > BLOCK_HEADER_SIZE + FREE_BLOCK_HEADER_SIZE
  /\ BLOCK_HEADER_SIZE % ALIGNMENT = 0 /\ POOL_GENERAL_SIZE % ALIGNMENT = 0
<1>1. /\ ALIGNMENT \in Nat \ {0} /\ BLOCK_HEADER_SIZE \in Nat \ {0}
      /\ FREE_BLOCK_HEADER_SIZE \in Nat \ {0} /\ CANARY_SIZE \in Nat \ {0}
      /\ DAM_SMALL_MAX \in Nat \ {0} /\ POOL_GENERAL_SIZE \in Nat
      /\ FREE_BLOCK_HEADER_SIZE <= ALIGNMENT
      /\ FREE_BLOCK_HEADER_SIZE <= DAM_SMALL_MAX
      /\ BLOCK_HEADER_SIZE % ALIGNMENT = 0 /\ POOL_GENERAL_SIZE % ALIGNMENT = 0
  BY ConfigAssumption, GeneralAssumption DEF ConfigAssumption, GeneralAssumption
<1> DEFINE x == BLOCK_HEADER_SIZE + DAM_SMALL_MAX + 1 + CANARY_SIZE
<1>2. x \in Nat /\ x >= FREE_BLOCK_HEADER_SIZE /\ x > BLOCK_HEADER_SIZE + FREE_BLOCK_HEADER_SIZE
  BY <1>1
<1>3. MIN_BLOCK_SIZE = AlignUp(x, ALIGNMENT)
  BY DEF MIN_BLOCK_SIZE
<1> HIDE DEF x
<1>4. AlignUp(x, ALIGNMENT) \in Nat /\ AlignUp(x, ALIGNMENT) >= x
  BY <1>1, <1>2, AlignUpFacts
<1> QED BY <1>1, <1>2, <1>3, <1>4

\* The types of one block of a heap, spelled out.
LEMMA BlockTypes ==
  ASSUME NEW h, IsHeap(h), NEW c \in DOMAIN h.hdr
  PROVE  /\ c \in Nat \ {NULL}
         /\ h.hdr[c] \in BlockHeader
         /\ End(h, c) \in Nat
         /\ End(h, c) > c
<1>1. c \in Nat \ {NULL} /\ h.hdr[c] \in BlockHeader
  BY DEF IsHeap
<1>2. h.hdr[c].size \in Nat
  BY <1>1 DEF BlockHeader
<1> QED BY <1>1, <1>2, Config DEF End

\* Cutting a block keeps the blocks of its pool contiguous and apart.
LEMMA CutFacts ==
  ASSUME NEW h, IsHeap(h), Layout(h), NEW b \in DOMAIN h.hdr, NEW n \in Nat,
         n % ALIGNMENT = 0, h.hdr[b].size >= n + BLOCK_HEADER_SIZE + MIN_BLOCK_SIZE
  PROVE  LET new == b + BLOCK_HEADER_SIZE + n
             g == Cut(h, b, n, new)
         IN  /\ IsHeap(g)
             /\ Layout(g)
             /\ g.pool = h.pool
             /\ g.pools = h.pools
             /\ new \notin DOMAIN h.hdr
             /\ DOMAIN g.hdr = DOMAIN h.hdr \cup {new}
             /\ \A c \in DOMAIN h.hdr : SameUse(h, g, c)
             /\ \A c \in DOMAIN h.hdr \ {b} : g.hdr[c].size = h.hdr[c].size
             /\ g.hdr[b].size = n
             /\ g.hdr[new].size >= MIN_BLOCK_SIZE
             /\ g.hdr[new].is_free
             /\ g.hdr[new].magic = "FREED"
             /\ g.hdr[new].pool_ptr = h.hdr[b].pool_ptr
<1> DEFINE new == b + BLOCK_HEADER_SIZE + n
           g == Cut(h, b, n, new)
           old == h.hdr[b]
           next == old.next_ptr
           rest == [old EXCEPT !.size = old.size - n - BLOCK_HEADER_SIZE,
                          !.user_size = 0, !.is_free = TRUE, !.magic = "FREED",
                          !.prev = b, !.canary = FALSE]
           kept == [old EXCEPT !.size = n, !.next_ptr = new]
           f == [c \in DOMAIN h.hdr \cup {new} |->
                  IF c = new THEN rest
                  ELSE IF c = b THEN kept
                  ELSE IF c = next THEN [h.hdr[c] EXCEPT !.prev = new]
                  ELSE h.hdr[c]]
<1>1. \A c \in DOMAIN h.hdr : c \in Nat \ {NULL} /\ h.hdr[c] \in BlockHeader
  BY DEF IsHeap
<1>2. new \in Nat /\ new > b /\ End(h, b) \in Nat /\ new + BLOCK_HEADER_SIZE <= End(h, b)
  BY <1>1, Config DEF End, BlockHeader
<1>3. new \notin DOMAIN h.hdr
  <2> SUFFICES ASSUME new \in DOMAIN h.hdr PROVE FALSE
    OBVIOUS
  <2>1. End(h, new) \in Nat /\ End(h, new) >= new
    BY <1>1, <1>2, Config DEF End, BlockHeader
  <2>2. End(h, b) <= new \/ End(h, new) <= b
    BY <1>2, <1>1 DEF Layout, Apart, NULL
  <2> QED BY <2>1, <2>2, <1>1, <1>2, Config DEF NULL
<1>4. rest \in BlockHeader /\ kept \in BlockHeader
  <2>1. /\ old \in BlockHeader /\ b \in Nat
        /\ old.size - n - BLOCK_HEADER_SIZE \in Nat
    BY <1>1, Config DEF BlockHeader
  <2> QED BY <2>1, <1>2 DEF BlockHeader
<1>5. /\ rest.size = old.size - n - BLOCK_HEADER_SIZE
      /\ rest.user_size = 0 /\ rest.is_free = TRUE /\ rest.magic = "FREED"
      /\ rest.prev = b /\ rest.next_ptr = next /\ rest.pool_ptr = old.pool_ptr
      /\ kept.size = n /\ kept.next_ptr = new /\ kept.prev = old.prev
      /\ kept.pool_ptr = old.pool_ptr /\ kept.is_free = old.is_free
      /\ kept.magic = old.magic /\ kept.user_size = old.user_size
  BY <1>1 DEF BlockHeader
<1> HIDE DEF rest, kept
<1>6. ASSUME NEW c \in DOMAIN h.hdr
      PROVE  LET moved == [h.hdr[c] EXCEPT !.prev = new]
             IN  /\ moved \in BlockHeader
                 /\ moved.size = h.hdr[c].size
                 /\ moved.user_size = h.hdr[c].user_size
                 /\ moved.is_free = h.hdr[c].is_free
                 /\ moved.magic = h.hdr[c].magic
                 /\ moved.pool_ptr = h.hdr[c].pool_ptr
                 /\ moved.next_ptr = h.hdr[c].next_ptr
                 /\ moved.prev = new
  BY <1>1, <1>2 DEF BlockHeader
<1>7. /\ f \in [DOMAIN f -> BlockHeader]
      /\ DOMAIN f = DOMAIN h.hdr \cup {new}
      /\ DOMAIN f \subseteq Nat \ {NULL}
  BY <1>1, <1>2, <1>4, <1>6 DEF NULL
<1>8. f[new] = rest /\ f[b] = kept
  BY <1>3
<1>9. ASSUME NEW c \in DOMAIN h.hdr \ {b}
      PROVE  /\ f[c].size = h.hdr[c].size
             /\ f[c].user_size = h.hdr[c].user_size
             /\ f[c].is_free = h.hdr[c].is_free
             /\ f[c].magic = h.hdr[c].magic
             /\ f[c].pool_ptr = h.hdr[c].pool_ptr
             /\ f[c].next_ptr = h.hdr[c].next_ptr
             /\ f[c].prev = IF c = next THEN new ELSE h.hdr[c].prev
  BY <1>3, <1>6
<1>10. g = [h EXCEPT !.hdr = f]
  BY DEF Cut, rest, kept
<1> HIDE DEF f, g
<1>11. IsHeap(g) /\ g.hdr = f /\ g.pool = h.pool /\ g.pools = h.pools
  BY <1>7, <1>10, SetBlocks
<1>12. /\ End(g, b) = new
       /\ End(g, new) = End(h, b)
       /\ \A c \in DOMAIN h.hdr \ {b} : End(g, c) = End(h, c)
  BY <1>1, <1>2, <1>5, <1>8, <1>9, <1>11, Config DEF End, BlockHeader
<1>13. ASSUME NEW c \in DOMAIN g.hdr PROVE BlockInPool(g, c)
  <2>1. BlockInPool(h, b)
    BY DEF Layout
  <2>2. h.hdr[b].pool_ptr \in Nat /\ h.pool[h.hdr[b].pool_ptr].size \in Nat
    BY <1>1, <2>1 DEF BlockHeader, BlockInPool, IsHeap, PoolHeader
  <2>6. new % ALIGNMENT = 0
    <3>1. b % ALIGNMENT = 0 /\ b \in Nat
      BY <2>1, <1>1 DEF BlockInPool
    <3>2. (b + BLOCK_HEADER_SIZE) % ALIGNMENT = 0 /\ b + BLOCK_HEADER_SIZE \in Nat
      <4>1. BLOCK_HEADER_SIZE \in Nat /\ BLOCK_HEADER_SIZE % ALIGNMENT = 0 /\ ALIGNMENT \in Nat \ {0}
        BY Config
      <4>2. (b + BLOCK_HEADER_SIZE) % ALIGNMENT = 0
        BY <4>1, <3>1, SumAligned
      <4> QED BY <4>1, <4>2, <3>1
    <3> QED BY <3>2, Config, SumAligned
  <2>3. CASE c = new
    <3>1. g.hdr[c].pool_ptr = h.hdr[b].pool_ptr
      BY <2>3, <1>5, <1>8, <1>11
    <3>2. h.hdr[b].pool_ptr + POOL_GENERAL_SIZE <= b /\ b < new /\ b \in Nat /\ new \in Nat
      BY <2>1, <1>1, <1>2 DEF BlockInPool
    <3>3. h.hdr[b].pool_ptr + POOL_GENERAL_SIZE <= new
      <4> HIDE DEF new
      <4> QED BY <3>2, <2>2, Config
    <3> HIDE DEF new
    <3> QED BY <3>1, <3>3, <2>1, <2>3, <2>6, <1>11, <1>12 DEF BlockInPool
  <2>4. CASE c = b
    BY <2>1, <2>2, <2>4, <1>1, <1>2, <1>5, <1>8, <1>11, <1>12, Config DEF BlockInPool, NULL
  <2>5. CASE c \in DOMAIN h.hdr \ {b}
    BY <2>5, <1>9, <1>11, <1>12 DEF BlockInPool, Layout
  <2> QED BY <2>3, <2>4, <2>5, <1>7, <1>11
<1>14. Apart(g)
  <2>1. Apart(h)
    BY DEF Layout
  <2>2. ASSUME NEW c \in DOMAIN g.hdr, NEW d \in DOMAIN g.hdr, c # d
        PROVE  End(g, c) <= d \/ End(g, d) <= c
    <3>1. \A e \in DOMAIN h.hdr : End(h, e) \in Nat
      BY <1>1, Config DEF End, BlockHeader
    <3>2. CASE c \in DOMAIN h.hdr \ {b} /\ d \in DOMAIN h.hdr \ {b}
      BY <3>2, <2>1, <2>2, <1>12 DEF Apart
    <3>3. CASE c \in DOMAIN h.hdr \ {b} /\ d \in {b, new}
      <4>1. End(h, c) <= b \/ End(h, b) <= c
        BY <3>3, <2>1 DEF Apart
      <4> QED BY <4>1, <3>1, <3>3, <1>1, <1>2, <1>12, Config DEF NULL
    <3>4. CASE d \in DOMAIN h.hdr \ {b} /\ c \in {b, new}
      <4>1. End(h, d) <= b \/ End(h, b) <= d
        BY <3>4, <2>1 DEF Apart
      <4> QED BY <4>1, <3>1, <3>4, <1>1, <1>2, <1>12, Config DEF NULL
    <3>5. CASE c \in {b, new} /\ d \in {b, new}
      BY <3>5, <2>2, <1>1, <1>2, <1>12 DEF NULL
    <3> QED BY <3>2, <3>3, <3>4, <3>5, <1>7, <1>11
  <2> QED BY <2>1, <2>2, <1>11 DEF Apart
<1>15. ASSUME NEW c \in DOMAIN g.hdr PROVE BlockLinked(g, c)
  <2>1. \A d \in DOMAIN h.hdr : BlockLinked(h, d)
    BY DEF Layout
  <2>2. next = NULL \/ (next \in DOMAIN h.hdr \ {b} /\ next = End(h, b))
    <3>1. End(h, b) > b
      BY <1>1, <1>2, Config DEF NULL
    <3> QED BY <3>1, <2>1, <1>1, <1>2 DEF BlockLinked, NULL
  <2>3. CASE c = new
    BY <2>1, <2>2, <2>3, <1>1, <1>2, <1>5, <1>7, <1>8, <1>9, <1>11, <1>12 DEF BlockLinked, NULL
  <2>4. CASE c = b
    BY <2>1, <2>2, <2>4, <1>1, <1>2, <1>3, <1>5, <1>7, <1>8, <1>9, <1>11, <1>12 DEF BlockLinked, NULL
  <2>5. CASE c \in DOMAIN h.hdr \ {b}
    BY <2>1, <2>2, <2>5, <1>1, <1>2, <1>3, <1>5, <1>7, <1>8, <1>9, <1>11, <1>12 DEF BlockLinked, NULL
  <2> QED BY <2>3, <2>4, <2>5, <1>7, <1>11
<1>16. \A c \in DOMAIN h.hdr : SameUse(h, g, c)
  BY <1>5, <1>8, <1>9, <1>11 DEF SameUse
<1>17. Layout(g)
  <2>1. \A p \in DOMAIN g.pool : g.pool[p].type = "GENERAL" => FirstBlock(g, p)
    BY <1>7, <1>11, <1>16 DEF Layout, FirstBlock, SameUse
  <2>2. Registered(g)
    BY <1>11 DEF Layout, Registered
  <2> QED BY <2>1, <2>2, <1>13, <1>14, <1>15 DEF Layout
<1>18. rest.size >= MIN_BLOCK_SIZE
  BY <1>1, <1>5, Config DEF BlockHeader
<1> QED BY <1>3, <1>5, <1>7, <1>8, <1>9, <1>11, <1>16, <1>17, <1>18 DEF g

\* The layout is a matter of the headers and of the pools' places and types.
LEMMA LayoutSame ==
  ASSUME NEW h, NEW g, Layout(h), g.hdr = h.hdr, SamePools(h, g)
  PROVE  Layout(g)
BY DEF Layout, Apart, Registered, FirstBlock, BlockInPool, BlockLinked, End, SamePools

\* split_block_if_possible: the block keeps n bytes at least, and the rest is a
\* block of its own in the free list of its pool.
LEMMA SplitFacts ==
  ASSUME NEW h, IsHeap(h), Layout(h), NEW X \in SUBSET DOMAIN h.hdr, FreeLists(h, X),
         NEW b \in DOMAIN h.hdr, NEW n \in Nat, n % ALIGNMENT = 0, h.hdr[b].size >= n
  PROVE  LET g == Split(h, b, n)
         IN  /\ IsHeap(g)
             /\ Layout(g)
             /\ SamePools(h, g)
             /\ FreeLists(g, X)
             /\ DOMAIN h.hdr \subseteq DOMAIN g.hdr
             /\ \A c \in DOMAIN h.hdr : SameUse(h, g, c)
             /\ \A c \in DOMAIN h.hdr \ {b} : g.hdr[c].size = h.hdr[c].size
             /\ g.hdr[b].size >= n
             /\ \A c \in DOMAIN g.hdr \ DOMAIN h.hdr :
                  /\ g.hdr[c].size >= MIN_BLOCK_SIZE
                  /\ g.hdr[c].is_free
                  /\ g.hdr[c].magic = "FREED"
<1> DEFINE new == b + BLOCK_HEADER_SIZE + n
           m == Cut(h, b, n, new)
           g == Split(h, b, n)
<1>1. CASE h.hdr[b].size < n + BLOCK_HEADER_SIZE + MIN_BLOCK_SIZE
  <2>1. g = h
    BY <1>1 DEF Split
  <2> QED BY <2>1 DEF SamePools, SameUse
<1>2. CASE ~ (h.hdr[b].size < n + BLOCK_HEADER_SIZE + MIN_BLOCK_SIZE)
  <2>1. h.hdr[b].size \in Nat
    BY DEF IsHeap, BlockHeader
  <2>2. h.hdr[b].size >= n + BLOCK_HEADER_SIZE + MIN_BLOCK_SIZE
    BY <1>2, <2>1, Config
  <2>3. g = AddToFreeList(m, new)
    BY <1>2 DEF Split
  <2> HIDE DEF new, m, g
  <2>4. /\ IsHeap(m)
        /\ Layout(m)
        /\ m.pool = h.pool
        /\ m.pools = h.pools
        /\ new \notin DOMAIN h.hdr
        /\ DOMAIN m.hdr = DOMAIN h.hdr \cup {new}
        /\ \A c \in DOMAIN h.hdr : SameUse(h, m, c)
        /\ \A c \in DOMAIN h.hdr \ {b} : m.hdr[c].size = h.hdr[c].size
        /\ m.hdr[b].size = n
        /\ m.hdr[new].size >= MIN_BLOCK_SIZE
        /\ m.hdr[new].is_free
        /\ m.hdr[new].magic = "FREED"
        /\ m.hdr[new].pool_ptr = h.hdr[b].pool_ptr
    BY <2>2, CutFacts DEF m, new
  <2>5. FreeLists(m, X \cup {new})
    <3>1. ASSUME NEW p \in DOMAIN m.pool PROVE FreeList(m, X \cup {new}, p)
      <4>1. FreeList(h, X, p)
        BY <2>4, FreeListsDef
      <4>2. FreeBlocks(m, p) \ (X \cup {new}) = FreeBlocks(h, p) \ X
        BY <2>4 DEF FreeBlocks, SameUse
      <4> QED BY <4>1, <4>2, <2>4 DEF FreeList
    <3> QED BY <3>1, FreeListsDef
  <2>6. m.hdr[new].pool_ptr \in DOMAIN m.pool
    BY <2>4 DEF Layout, BlockInPool
  <2>7. IsHeap(g) /\ g.hdr = m.hdr /\ SamePools(m, g) /\ FreeLists(g, (X \cup {new}) \ {new})
    <3> DEFINE Y == X \cup {new}
    <3>1. new \in DOMAIN m.hdr \cap Y /\ FreeLists(m, Y)
      BY <2>4, <2>5
    <3> HIDE DEF Y
    <3>2. IsHeap(g) /\ g.hdr = m.hdr /\ SamePools(m, g) /\ FreeLists(g, Y \ {new})
      BY <3>1, <2>3, <2>4, <2>6, AddFacts
    <3> QED BY <3>2 DEF Y
  <2>8. (X \cup {new}) \ {new} = X
    BY <2>4
  <2>9. Layout(g)
    BY <2>4, <2>7, LayoutSame
  <2>10. SamePools(h, g)
    BY <2>4, <2>7 DEF SamePools
  <2>11. \A c \in DOMAIN h.hdr : SameUse(h, g, c)
    BY <2>4, <2>7 DEF SameUse
  <2>12. g.hdr[b].size >= n
    BY <2>4, <2>7
  <2>13. \A c \in DOMAIN g.hdr \ DOMAIN h.hdr : c = new
    BY <2>4, <2>7
  <2> QED BY <2>4, <2>7, <2>8, <2>9, <2>10, <2>11, <2>12, <2>13 DEF g
<1> QED BY <1>1, <1>2

\* A block that absorbs its right neighbour takes over its bytes and its place in
\* the block list.
LEMMA MergeFacts ==
  ASSUME NEW h, IsHeap(h), Layout(h), NEW l \in DOMAIN h.hdr, h.hdr[l].next_ptr # NULL
  PROVE  LET r == h.hdr[l].next_ptr
             g == Merge(h, l)
         IN  /\ IsHeap(g)
             /\ Layout(g)
             /\ g.pool = h.pool
             /\ g.pools = h.pools
             /\ r \in DOMAIN h.hdr \ {l}
             /\ h.hdr[r].pool_ptr = h.hdr[l].pool_ptr
             /\ h.hdr[r].prev = l
             /\ DOMAIN g.hdr = DOMAIN h.hdr \ {r}
             /\ \A c \in DOMAIN g.hdr : SameUse(h, g, c)
             /\ \A c \in DOMAIN g.hdr \ {l} : g.hdr[c].size = h.hdr[c].size
             /\ g.hdr[l].size = h.hdr[l].size + BLOCK_HEADER_SIZE + h.hdr[r].size
<1> DEFINE r == h.hdr[l].next_ptr
           g == Merge(h, l)
           next == h.hdr[r].next_ptr
           wide == [h.hdr[l] EXCEPT
                      !.size = h.hdr[l].size + BLOCK_HEADER_SIZE + h.hdr[r].size,
                      !.next_ptr = next]
           f == [c \in DOMAIN h.hdr \ {r} |->
                  IF c = l THEN wide
                  ELSE IF c = next THEN [h.hdr[c] EXCEPT !.prev = l]
                  ELSE h.hdr[c]]
<1>1. \A c \in DOMAIN h.hdr : /\ c \in Nat \ {NULL}
                              /\ h.hdr[c] \in BlockHeader
                              /\ End(h, c) \in Nat
                              /\ End(h, c) > c
  BY BlockTypes
<1>2. \A c \in DOMAIN h.hdr : BlockLinked(h, c) /\ BlockInPool(h, c)
  BY DEF Layout
<1>3. /\ r = End(h, l)
      /\ r \in DOMAIN h.hdr
      /\ h.hdr[r].prev = l
      /\ h.hdr[r].pool_ptr = h.hdr[l].pool_ptr
  BY <1>2 DEF BlockLinked
<1>4. r # l
  BY <1>1, <1>3
<1>5. next = NULL \/ (next \in DOMAIN h.hdr \ {l, r} /\ next = End(h, r) /\ h.hdr[next].prev = r
                       /\ h.hdr[next].pool_ptr = h.hdr[r].pool_ptr)
  <2>1. l < r /\ r < End(h, r)
    BY <1>1, <1>3
  <2> QED BY <2>1, <1>1, <1>2, <1>3 DEF BlockLinked, NULL
<1>6. wide \in BlockHeader
  <2>1. /\ h.hdr[l] \in BlockHeader /\ next \in Nat
        /\ h.hdr[l].size + BLOCK_HEADER_SIZE + h.hdr[r].size \in Nat
    BY <1>1, <1>3, Config DEF BlockHeader
  <2> QED BY <2>1 DEF BlockHeader
<1>7. /\ wide.size = h.hdr[l].size + BLOCK_HEADER_SIZE + h.hdr[r].size
      /\ wide.next_ptr = next /\ wide.prev = h.hdr[l].prev
      /\ wide.pool_ptr = h.hdr[l].pool_ptr /\ wide.is_free = h.hdr[l].is_free
      /\ wide.magic = h.hdr[l].magic /\ wide.user_size = h.hdr[l].user_size
  BY <1>1 DEF BlockHeader
<1> HIDE DEF wide
<1>8. ASSUME NEW c \in DOMAIN h.hdr
      PROVE  LET moved == [h.hdr[c] EXCEPT !.prev = l]
             IN  /\ moved \in BlockHeader
                 /\ moved.size = h.hdr[c].size
                 /\ moved.user_size = h.hdr[c].user_size
                 /\ moved.is_free = h.hdr[c].is_free
                 /\ moved.magic = h.hdr[c].magic
                 /\ moved.pool_ptr = h.hdr[c].pool_ptr
                 /\ moved.next_ptr = h.hdr[c].next_ptr
                 /\ moved.prev = l
  BY <1>1 DEF BlockHeader
<1>9. /\ f \in [DOMAIN f -> BlockHeader]
      /\ DOMAIN f = DOMAIN h.hdr \ {r}
      /\ DOMAIN f \subseteq Nat \ {NULL}
  BY <1>1, <1>6, <1>8
<1>10. f[l] = wide
  BY <1>4
<1>11. ASSUME NEW c \in DOMAIN h.hdr \ {l, r}
       PROVE  /\ f[c].size = h.hdr[c].size
              /\ f[c].user_size = h.hdr[c].user_size
              /\ f[c].is_free = h.hdr[c].is_free
              /\ f[c].magic = h.hdr[c].magic
              /\ f[c].pool_ptr = h.hdr[c].pool_ptr
              /\ f[c].next_ptr = h.hdr[c].next_ptr
              /\ f[c].prev = IF c = next THEN l ELSE h.hdr[c].prev
  BY <1>8
<1>12. g = [h EXCEPT !.hdr = f]
  BY DEF Merge, wide
<1> HIDE DEF f, g
<1>13. IsHeap(g) /\ g.hdr = f /\ g.pool = h.pool /\ g.pools = h.pools
  BY <1>9, <1>12, SetBlocks
<1>14. /\ End(g, l) = End(h, r)
       /\ \A c \in DOMAIN h.hdr \ {l, r} : End(g, c) = End(h, c)
  <2>1. l \in Nat /\ h.hdr[l].size \in Nat /\ h.hdr[r].size \in Nat
    BY <1>1, <1>3 DEF BlockHeader
  <2> QED BY <2>1, <1>3, <1>7, <1>10, <1>11, <1>13, Config DEF End
<1>15. ASSUME NEW c \in DOMAIN g.hdr PROVE BlockInPool(g, c)
  <2>1. CASE c = l
    BY <2>1, <1>2, <1>3, <1>7, <1>10, <1>13, <1>14 DEF BlockInPool
  <2>2. CASE c # l
    BY <2>2, <1>2, <1>9, <1>11, <1>13, <1>14 DEF BlockInPool
  <2> QED BY <2>1, <2>2
<1>16. Apart(g)
  <2>1. Apart(h)
    BY DEF Layout
  <2>2. ASSUME NEW c \in DOMAIN g.hdr, NEW d \in DOMAIN g.hdr, c # d
        PROVE  End(g, c) <= d \/ End(g, d) <= c
    <3>1. CASE c # l /\ d # l
      BY <3>1, <2>1, <2>2, <1>9, <1>13, <1>14 DEF Apart
    <3>2. CASE c = l
      <4>1. End(h, l) <= d \/ End(h, d) <= l
        BY <3>2, <2>1, <2>2, <1>9, <1>13 DEF Apart
      <4>2. End(h, r) <= d \/ End(h, d) <= r
        BY <3>2, <2>1, <2>2, <1>3, <1>9, <1>13 DEF Apart
      <4>3. d # r /\ d \in DOMAIN h.hdr
        BY <1>9, <1>13
      <4> QED BY <4>1, <4>2, <4>3, <3>2, <2>2, <1>1, <1>3, <1>14
    <3>3. CASE d = l
      <4>1. End(h, l) <= c \/ End(h, c) <= l
        BY <3>3, <2>1, <2>2, <1>9, <1>13 DEF Apart
      <4>2. End(h, r) <= c \/ End(h, c) <= r
        BY <3>3, <2>1, <2>2, <1>3, <1>9, <1>13 DEF Apart
      <4>3. c # r /\ c \in DOMAIN h.hdr
        BY <1>9, <1>13
      <4> QED BY <4>1, <4>2, <4>3, <3>3, <2>2, <1>1, <1>3, <1>14
    <3> QED BY <3>1, <3>2, <3>3
  <2> QED BY <2>1, <2>2, <1>13 DEF Apart
<1>17. ASSUME NEW c \in DOMAIN g.hdr PROVE BlockLinked(g, c)
  <2>1. \A d \in DOMAIN h.hdr : d # l => h.hdr[d].next_ptr # r
    BY <1>1, <1>2, <1>3 DEF BlockLinked
  <2>2. \A d \in DOMAIN h.hdr : h.hdr[d].prev = r => d = next
    BY <1>1, <1>2, <1>3 DEF BlockLinked, NULL
  <2>3. h.hdr[l].prev # r
    BY <2>2, <1>5, <1>1 DEF NULL
  <2>4. CASE c = l
    <3>1. BlockLinked(h, l) /\ BlockLinked(h, r)
      BY <1>2, <1>3
    <3>2. g.hdr[l].prev = h.hdr[l].prev /\ g.hdr[l].next_ptr = next
          /\ g.hdr[l].pool_ptr = h.hdr[l].pool_ptr
      BY <1>7, <1>10, <1>13
    <3>3. next = NULL => End(g, l) = h.hdr[l].pool_ptr + h.pool[h.hdr[l].pool_ptr].size
      BY <3>1, <1>1, <1>2, <1>3, <1>14 DEF BlockLinked, NULL
    <3>4. next # NULL =>
            /\ next = End(g, l) /\ next \in DOMAIN g.hdr /\ g.hdr[next].prev = l
            /\ g.hdr[next].pool_ptr = h.hdr[l].pool_ptr
      BY <1>3, <1>5, <1>9, <1>11, <1>13, <1>14
    <3>5. \/ h.hdr[l].prev = NULL /\ l = h.hdr[l].pool_ptr + POOL_GENERAL_SIZE
          \/ h.hdr[l].prev \in DOMAIN g.hdr /\ g.hdr[h.hdr[l].prev].next_ptr = l
      <4>1. h.hdr[l].prev # l
        BY <3>1, <1>1, <1>3, <1>4 DEF BlockLinked, NULL
      <4> DEFINE before == h.hdr[l].prev
      <4>2. CASE before = NULL
        BY <4>2, <3>1, <1>1 DEF BlockLinked, NULL
      <4>3. CASE before # NULL
        <5>1. before \in DOMAIN h.hdr \ {l, r} /\ h.hdr[before].next_ptr = l
          BY <4>1, <4>3, <3>1, <2>3 DEF BlockLinked
        <5> QED BY <5>1, <1>9, <1>11, <1>13
      <4> QED BY <4>2, <4>3
    <3> QED BY <3>2, <3>3, <3>4, <3>5, <2>4, <1>13 DEF BlockLinked
  <2>5. CASE c # l
    <3>1. c \in DOMAIN h.hdr \ {l, r} /\ BlockLinked(h, c)
      BY <2>5, <1>2, <1>9, <1>13
    <3>2. h.hdr[c].next_ptr # r /\ (h.hdr[c].prev = r => c = next)
      BY <3>1, <2>1, <2>2
    <3>3. /\ g.hdr[c].next_ptr = h.hdr[c].next_ptr
          /\ g.hdr[c].pool_ptr = h.hdr[c].pool_ptr
          /\ g.hdr[c].prev = IF c = next THEN l ELSE h.hdr[c].prev
          /\ End(g, c) = End(h, c)
      BY <3>1, <1>11, <1>13, <1>14
    <3> DEFINE after == h.hdr[c].next_ptr
               before == g.hdr[c].prev
    <3>4. after # NULL => after \in DOMAIN g.hdr /\ g.hdr[after].prev = c
                          /\ g.hdr[after].pool_ptr = h.hdr[c].pool_ptr
      <4> SUFFICES ASSUME after # NULL PROVE after \in DOMAIN g.hdr /\ g.hdr[after].prev = c
                          /\ g.hdr[after].pool_ptr = h.hdr[c].pool_ptr
        OBVIOUS
      <4>1. after \in DOMAIN h.hdr \ {r} /\ h.hdr[after].prev = c
            /\ h.hdr[after].pool_ptr = h.hdr[c].pool_ptr
        BY <3>1, <3>2 DEF BlockLinked
      <4>2. after # next
        BY <4>1, <3>1, <1>5
      <4>3. g.hdr[after].prev = c /\ g.hdr[after].pool_ptr = h.hdr[c].pool_ptr
        BY <4>1, <4>2, <1>7, <1>10, <1>11, <1>13
      <4> QED BY <4>1, <4>3, <1>9, <1>13
    <3>5. \/ before = NULL /\ c = h.hdr[c].pool_ptr + POOL_GENERAL_SIZE
          \/ before \in DOMAIN g.hdr /\ g.hdr[before].next_ptr = c
      <4>1. CASE c = next
        <5>1. before = l /\ l \in DOMAIN g.hdr /\ g.hdr[l].next_ptr = next
          BY <4>1, <3>3, <1>4, <1>7, <1>9, <1>10, <1>13
        <5> QED BY <5>1, <4>1
      <4>2. CASE c # next
        <5>1. before = h.hdr[c].prev /\ before # r
          BY <4>2, <3>2, <3>3
        <5>2. before # NULL => before # l
          BY <5>1, <4>2, <3>1, <1>3 DEF BlockLinked
        <5>3. CASE before = NULL
          BY <5>1, <5>3, <3>1, <1>1 DEF BlockLinked, NULL
        <5>4. CASE before # NULL
          <6>1. before \in DOMAIN h.hdr \ {l, r} /\ h.hdr[before].next_ptr = c
            BY <5>1, <5>2, <5>4, <3>1 DEF BlockLinked
          <6> QED BY <6>1, <1>9, <1>11, <1>13
        <5> QED BY <5>3, <5>4
      <4> QED BY <4>1, <4>2
    <3> HIDE DEF after, before
    <3>6. after = h.hdr[c].next_ptr /\ before = g.hdr[c].prev
      BY DEF after, before
    <3>7. \/ after = NULL /\ End(h, c) = h.hdr[c].pool_ptr + h.pool[h.hdr[c].pool_ptr].size
          \/ after # NULL /\ after = End(h, c)
      BY <3>1, <3>6, <1>1 DEF BlockLinked, NULL
    <3> QED BY <3>3, <3>4, <3>5, <3>6, <3>7, <1>13 DEF BlockLinked
  <2> QED BY <2>4, <2>5
<1>18. \A c \in DOMAIN g.hdr : SameUse(h, g, c)
  BY <1>7, <1>9, <1>10, <1>11, <1>13 DEF SameUse
<1>19. ASSUME NEW p \in DOMAIN g.pool, g.pool[p].type = "GENERAL" PROVE FirstBlock(g, p)
  <2>1. FirstBlock(h, p)
    BY <1>13, <1>19 DEF Layout
  <2>2. p + POOL_GENERAL_SIZE # r
    <3>1. h.hdr[l].pool_ptr + POOL_GENERAL_SIZE <= l
      BY <1>2 DEF BlockInPool
    <3>2. h.hdr[l].pool_ptr \in Nat
      BY <1>1 DEF BlockHeader
    <3> QED BY <3>1, <3>2, <2>1, <1>1, <1>3, Config DEF FirstBlock
  <2> QED BY <2>1, <2>2, <1>9, <1>13, <1>18 DEF FirstBlock, SameUse
<1>20. Registered(g)
  BY <1>13 DEF Layout, Registered
<1>21. Layout(g)
  BY <1>20, <1>15, <1>16, <1>17, <1>19 DEF Layout
<1> QED BY <1>3, <1>4, <1>7, <1>9, <1>10, <1>11, <1>13, <1>18, <1>21 DEF g

-----------------------------------------------------------------------------
\* The free lists in memory: what add_to_free_list, remove_from_free_list and
\* search_in_free_list do with the pointers is what the model does with sequences.

\* What add_to_free_list writes.
LEMMA LinkFirstIs ==
  ASSUME NEW blocks, NULL \notin blocks, NEW words, blocks \cup {NULL} \subseteq words,
         NEW l \in LinkMemory(blocks, words), NEW b \in blocks,
         l.free_list \in (blocks \cup {NULL}) \ {b}
  PROVE  LET g == LinkFirst(l, b)
         IN  /\ g \in LinkMemory(blocks, words)
             /\ g.free_list = b
             /\ g.has_free
             /\ \A c \in blocks :
                  /\ g.next_ptr[c] = IF c = b THEN l.free_list ELSE l.next_ptr[c]
                  /\ g.prev_ptr[c] = IF c = b THEN NULL
                                     ELSE IF c = l.free_list THEN b ELSE l.prev_ptr[c]
<1> DEFINE next == [l.next_ptr EXCEPT ![b] = l.free_list]
           prev == [l.prev_ptr EXCEPT ![b] = NULL]
           both == IF l.free_list = NULL THEN prev ELSE [prev EXCEPT ![l.free_list] = b]
           g == [free_list |-> b, has_free |-> TRUE, next_ptr |-> next, prev_ptr |-> both]
<1>1. l = [free_list |-> l.free_list, has_free |-> l.has_free,
           next_ptr |-> l.next_ptr, prev_ptr |-> l.prev_ptr]
  BY DEF LinkMemory
<1>2. LinkFirst(l, b) = g
  <2> DEFINE new == [l EXCEPT !.next_ptr[b] = l.free_list, !.prev_ptr[b] = NULL]
             old == IF l.free_list = NULL THEN new
                    ELSE [new EXCEPT !.prev_ptr[l.free_list] = b]
  <2>1. new = [l EXCEPT !.next_ptr = next, !.prev_ptr = prev]
    OBVIOUS
  <2>2. LinkFirst(l, b) = [old EXCEPT !.free_list = b, !.has_free = TRUE]
    BY DEF LinkFirst
  <2> HIDE DEF next, prev, new
  <2>3. new = [free_list |-> l.free_list, has_free |-> l.has_free,
               next_ptr |-> next, prev_ptr |-> prev]
    BY <1>1, <2>1
  <2>4. old = [free_list |-> l.free_list, has_free |-> l.has_free,
               next_ptr |-> next, prev_ptr |-> both]
    BY <2>3
  <2> HIDE DEF old, both
  <2> QED BY <2>2, <2>4
<1>3. /\ next \in [blocks -> words]
      /\ prev \in [blocks -> words]
      /\ both \in [blocks -> words]
  BY DEF LinkMemory
<1>4. \A c \in blocks :
        /\ next[c] = IF c = b THEN l.free_list ELSE l.next_ptr[c]
        /\ both[c] = IF c = b THEN NULL ELSE IF c = l.free_list THEN b ELSE l.prev_ptr[c]
  <2> SUFFICES ASSUME NEW c \in blocks
               PROVE  /\ next[c] = IF c = b THEN l.free_list ELSE l.next_ptr[c]
                      /\ both[c] = IF c = b THEN NULL
                                   ELSE IF c = l.free_list THEN b ELSE l.prev_ptr[c]
    OBVIOUS
  <2>1. /\ next[c] = IF c = b THEN l.free_list ELSE l.next_ptr[c]
        /\ prev[c] = IF c = b THEN NULL ELSE l.prev_ptr[c]
    BY DEF LinkMemory
  <2>2. prev \in [blocks -> words] /\ c # NULL
    BY <1>3
  <2> HIDE DEF prev, next
  <2>3. both[c] = IF c = l.free_list THEN b ELSE prev[c]
    BY <2>2
  <2> QED BY <2>1, <2>3
<1> HIDE DEF next, prev, both
<1>5. g \in LinkMemory(blocks, words)
  BY <1>3 DEF LinkMemory
<1> QED BY <1>2, <1>4, <1>5

\* add_to_free_list puts the block in front of the list.
LEMMA LinkFirstSpells ==
  ASSUME NEW blocks, NULL \notin blocks, NEW words, blocks \cup {NULL} \subseteq words,
         NEW l \in LinkMemory(blocks, words),
         NEW s \in Seq(blocks), IsInjective(s), Spells(l, s),
         NEW b \in blocks \ Range(s)
  PROVE  /\ LinkFirst(l, b) \in LinkMemory(blocks, words)
         /\ Spells(LinkFirst(l, b), <<b>> \o s)
<1> DEFINE g == LinkFirst(l, b)
           u == <<b>> \o s
<1>1. /\ Len(s) \in Nat /\ DOMAIN s = 1 .. Len(s)
      /\ \A i \in 1 .. Len(s) : s[i] \in blocks \ {b}
  BY DEF Range
<1>2. l.free_list = IF s = <<>> THEN NULL ELSE s[1]
  BY DEF Spells
<1>3. s = <<>> <=> Len(s) = 0
  OBVIOUS
<1>4. l.free_list \in (blocks \cup {NULL}) \ {b}
  BY <1>1, <1>2, <1>3
<1>5. /\ g \in LinkMemory(blocks, words)
      /\ g.free_list = b
      /\ g.has_free
      /\ \A c \in blocks :
           /\ g.next_ptr[c] = IF c = b THEN l.free_list ELSE l.next_ptr[c]
           /\ g.prev_ptr[c] = IF c = b THEN NULL
                              ELSE IF c = l.free_list THEN b ELSE l.prev_ptr[c]
  BY <1>4, LinkFirstIs
<1>6. /\ u # <<>> /\ DOMAIN u = 1 .. Len(s) + 1 /\ Len(u) = Len(s) + 1
      /\ u[1] = b
      /\ \A i \in 2 .. Len(s) + 1 : u[i] = s[i - 1]
  BY <1>1
<1> HIDE DEF g, u
<1>7. ASSUME NEW i \in 1 .. Len(s) + 1
      PROVE  /\ g.next_ptr[u[i]] = IF i = Len(u) THEN NULL ELSE u[i + 1]
             /\ g.prev_ptr[u[i]] = IF i = 1 THEN NULL ELSE u[i - 1]
  <2>1. CASE i = 1
    <3>1. g.next_ptr[b] = l.free_list /\ g.prev_ptr[b] = NULL
      BY <1>5
    <3>2. Len(s) # 0 => u[2] = s[1]
      BY <1>1, <1>6
    <3> QED BY <2>1, <3>1, <3>2, <1>1, <1>2, <1>3, <1>6
  <2>2. CASE i # 1
    <3> DEFINE j == i - 1
    <3>1. j \in 1 .. Len(s) /\ i = j + 1 /\ u[i] = s[j] /\ s[j] \in blocks \ {b}
      BY <2>2, <1>1, <1>6
    <3>2. /\ l.next_ptr[s[j]] = IF j = Len(s) THEN NULL ELSE s[j + 1]
          /\ l.prev_ptr[s[j]] = IF j = 1 THEN NULL ELSE s[j - 1]
      BY <3>1, <1>1 DEF Spells
    <3>3. j = 1 <=> s[j] = l.free_list
      BY <3>1, <1>1, <1>2, <1>3 DEF IsInjective
    <3>4. /\ g.next_ptr[s[j]] = l.next_ptr[s[j]]
          /\ g.prev_ptr[s[j]] = IF j = 1 THEN b ELSE l.prev_ptr[s[j]]
      BY <3>1, <3>3, <1>5
    <3>5. /\ j # Len(s) => u[i + 1] = s[j + 1]
          /\ j # 1 => u[i - 1] = s[j - 1]
          /\ j = 1 => u[i - 1] = b
          /\ j = Len(s) <=> i = Len(u)
      BY <3>1, <1>1, <1>6
    <3> HIDE DEF j
    <3> QED BY <2>2, <3>1, <3>2, <3>4, <3>5
  <2> QED BY <2>1, <2>2
<1>8. Spells(g, u)
  BY <1>5, <1>6, <1>7 DEF Spells
<1> QED BY <1>5, <1>8 DEF g, u

\* What remove_from_free_list writes.
LEMMA UnlinkBlockIs ==
  ASSUME NEW blocks, NULL \notin blocks, NEW words, blocks \cup {NULL} \subseteq words,
         NEW l \in LinkMemory(blocks, words), NEW b \in blocks,
         l.next_ptr[b] \in blocks \cup {NULL}, l.prev_ptr[b] \in blocks \cup {NULL}
  PROVE  LET g == UnlinkBlock(l, b)
             next == l.next_ptr[b]
             prev == l.prev_ptr[b]
         IN  /\ g \in LinkMemory(blocks, words)
             /\ g.free_list = IF prev = NULL THEN next ELSE l.free_list
             /\ g.has_free <=> (g.free_list # NULL /\ l.has_free)
             /\ \A c \in blocks :
                  /\ g.next_ptr[c] = IF c = prev THEN next ELSE l.next_ptr[c]
                  /\ g.prev_ptr[c] = IF c = next THEN prev ELSE l.prev_ptr[c]
<1> DEFINE next == l.next_ptr[b]
           prev == l.prev_ptr[b]
           first == IF prev = NULL THEN next ELSE l.free_list
           nexts == IF prev = NULL THEN l.next_ptr ELSE [l.next_ptr EXCEPT ![prev] = next]
           prevs == IF next = NULL THEN l.prev_ptr ELSE [l.prev_ptr EXCEPT ![next] = prev]
           some == IF first = NULL THEN FALSE ELSE l.has_free
           g == [free_list |-> first, has_free |-> some, next_ptr |-> nexts,
                 prev_ptr |-> prevs]
<1>1. l = [free_list |-> l.free_list, has_free |-> l.has_free,
           next_ptr |-> l.next_ptr, prev_ptr |-> l.prev_ptr]
  BY DEF LinkMemory
<1>2. UnlinkBlock(l, b) = g
  <2> DEFINE ahead == IF prev # NULL THEN [l EXCEPT !.next_ptr[prev] = next]
                      ELSE [l EXCEPT !.free_list = next]
             behind == IF next = NULL THEN ahead
                       ELSE [ahead EXCEPT !.prev_ptr[next] = prev]
  <2>1. ahead = [free_list |-> first, has_free |-> l.has_free,
                 next_ptr |-> nexts, prev_ptr |-> l.prev_ptr]
    BY <1>1
  <2>2. UnlinkBlock(l, b) = [behind EXCEPT !.has_free = IF behind.free_list = NULL THEN FALSE
                                                        ELSE behind.has_free]
    BY DEF UnlinkBlock
  <2> HIDE DEF ahead, first, nexts, next, prev
  <2>3. behind = [free_list |-> first, has_free |-> l.has_free,
                  next_ptr |-> nexts, prev_ptr |-> prevs]
    BY <2>1
  <2> HIDE DEF behind, prevs
  <2> QED BY <2>2, <2>3
<1>3. next \in words /\ prev \in words /\ l.free_list \in words /\ l.has_free \in BOOLEAN
  BY DEF LinkMemory
<1>4. nexts \in [blocks -> words] /\ prevs \in [blocks -> words]
  BY <1>3 DEF LinkMemory
<1>5. \A c \in blocks :
        /\ nexts[c] = IF c = prev THEN next ELSE l.next_ptr[c]
        /\ prevs[c] = IF c = next THEN prev ELSE l.prev_ptr[c]
  BY DEF LinkMemory
<1>6. first = IF prev = NULL THEN next ELSE l.free_list
  OBVIOUS
<1>7. some \in BOOLEAN /\ (some <=> (first # NULL /\ l.has_free))
  BY <1>3
<1> HIDE DEF nexts, prevs, first, some
<1>8. g \in LinkMemory(blocks, words)
  BY <1>3, <1>4, <1>6, <1>7 DEF LinkMemory
<1> QED BY <1>2, <1>5, <1>6, <1>7, <1>8

\* remove_from_free_list takes the block out of the list, wherever it stands.
LEMMA UnlinkBlockSpells ==
  ASSUME NEW blocks, NULL \notin blocks, NEW words, blocks \cup {NULL} \subseteq words,
         NEW l \in LinkMemory(blocks, words),
         NEW s \in Seq(blocks), IsInjective(s), Spells(l, s),
         NEW i \in DOMAIN s
  PROVE  /\ UnlinkBlock(l, s[i]) \in LinkMemory(blocks, words)
         /\ Spells(UnlinkBlock(l, s[i]), RemoveAt(s, i))
<1> DEFINE b == s[i]
           g == UnlinkBlock(l, b)
           u == RemoveAt(s, i)
           next == l.next_ptr[b]
           prev == l.prev_ptr[b]
<1>1. /\ Len(s) \in Nat /\ DOMAIN s = 1 .. Len(s) /\ i \in 1 .. Len(s)
      /\ \A j \in 1 .. Len(s) : s[j] \in blocks /\ s[j] # NULL
      /\ \A j, k \in 1 .. Len(s) : s[j] = s[k] => j = k
  BY DEF IsInjective
<1>2. /\ l.free_list = s[1]
      /\ l.has_free
      /\ \A j \in 1 .. Len(s) :
           /\ l.next_ptr[s[j]] = IF j = Len(s) THEN NULL ELSE s[j + 1]
           /\ l.prev_ptr[s[j]] = IF j = 1 THEN NULL ELSE s[j - 1]
  <2>1. s # <<>>
    BY <1>1
  <2> QED BY <2>1, <1>1 DEF Spells
<1>3. /\ next = IF i = Len(s) THEN NULL ELSE s[i + 1]
      /\ prev = IF i = 1 THEN NULL ELSE s[i - 1]
      /\ next \in blocks \cup {NULL}
      /\ prev \in blocks \cup {NULL}
  <2>1. /\ next = IF i = Len(s) THEN NULL ELSE s[i + 1]
        /\ prev = IF i = 1 THEN NULL ELSE s[i - 1]
    BY <1>1, <1>2
  <2> HIDE DEF next, prev
  <2> QED BY <2>1, <1>1
<1>4. /\ g \in LinkMemory(blocks, words)
      /\ g.free_list = IF prev = NULL THEN next ELSE l.free_list
      /\ g.has_free <=> (g.free_list # NULL /\ l.has_free)
      /\ \A c \in blocks :
           /\ g.next_ptr[c] = IF c = prev THEN next ELSE l.next_ptr[c]
           /\ g.prev_ptr[c] = IF c = next THEN prev ELSE l.prev_ptr[c]
  BY <1>1, <1>3, UnlinkBlockIs
<1>5. /\ u \in Seq(blocks)
      /\ Len(u) = Len(s) - 1
      /\ \A j \in 1 .. Len(s) - 1 : u[j] = IF j < i THEN s[j] ELSE s[j + 1]
  BY RemoveAtElements
<1>6. DOMAIN u = 1 .. Len(s) - 1 /\ (u = <<>> <=> Len(s) = 1)
  <2> HIDE DEF u
  <2> QED BY <1>1, <1>5
<1>7. u = RemoveAt(s, i) /\ g = UnlinkBlock(l, s[i])
  OBVIOUS
<1> HIDE DEF g, u, b, next, prev
<1>8. g.free_list = IF u = <<>> THEN NULL ELSE u[1]
  <2>1. CASE i = 1
    BY <2>1, <1>1, <1>3, <1>4, <1>5, <1>6
  <2>2. CASE i # 1
    <3>1. prev # NULL
      <4>1. prev = s[i - 1] /\ i - 1 \in 1 .. Len(s)
        BY <2>2, <1>1, <1>3
      <4> QED BY <4>1, <1>1
    <3>3. g.free_list = s[1]
      BY <3>1, <1>2, <1>4
    <3>2. Len(s) # 1 /\ u[1] = s[1]
      BY <2>2, <1>1, <1>5
    <3> QED BY <3>2, <3>3, <1>6
  <2> QED BY <2>1, <2>2
<1>9. g.has_free <=> u # <<>>
  <2>1. u # <<>> => u[1] # NULL
    BY <1>1, <1>5, <1>6
  <2> QED BY <2>1, <1>2, <1>4, <1>8
<1>10. ASSUME NEW j \in 1 .. Len(s) - 1
       PROVE  /\ g.next_ptr[u[j]] = IF j = Len(u) THEN NULL ELSE u[j + 1]
              /\ g.prev_ptr[u[j]] = IF j = 1 THEN NULL ELSE u[j - 1]
  <2> DEFINE k == IF j < i THEN j ELSE j + 1
  <2>1. k \in 1 .. Len(s) /\ u[j] = s[k] /\ s[k] \in blocks /\ s[k] # NULL
    BY <1>1, <1>5
  <2>2. /\ s[k] = prev <=> j = i - 1
        /\ s[k] = next <=> j = i
    <3>1. s[k] = prev <=> (i # 1 /\ k = i - 1)
      BY <2>1, <1>1, <1>3
    <3>2. s[k] = next <=> (i # Len(s) /\ k = i + 1)
      BY <2>1, <1>1, <1>3
    <3> QED BY <3>1, <3>2, <1>1
  <2>3. /\ g.next_ptr[s[k]] = IF j = i - 1 THEN next
                              ELSE IF k = Len(s) THEN NULL ELSE s[k + 1]
        /\ g.prev_ptr[s[k]] = IF j = i THEN prev
                              ELSE IF k = 1 THEN NULL ELSE s[k - 1]
    <3> HIDE DEF k
    <3>1. /\ g.next_ptr[s[k]] = IF s[k] = prev THEN next ELSE l.next_ptr[s[k]]
          /\ g.prev_ptr[s[k]] = IF s[k] = next THEN prev ELSE l.prev_ptr[s[k]]
      BY <2>1, <1>4
    <3>2. /\ l.next_ptr[s[k]] = IF k = Len(s) THEN NULL ELSE s[k + 1]
          /\ l.prev_ptr[s[k]] = IF k = 1 THEN NULL ELSE s[k - 1]
      BY <2>1, <1>2
    <3> QED BY <3>1, <3>2, <2>2
  <2>j. j \in Nat /\ Len(s) \in Nat /\ i \in Nat /\ 1 <= j /\ j <= Len(s) - 1
    BY <1>1
  <2>k. k \in Nat /\ (j < i => k = j) /\ (j >= i => k = j + 1)
    BY <1>1
  <2> HIDE DEF k
  <2>8. j # Len(s) - 1 => u[j + 1] = IF j + 1 < i THEN s[j + 1] ELSE s[j + 2]
    <3> SUFFICES ASSUME j # Len(s) - 1
                 PROVE  u[j + 1] = IF j + 1 < i THEN s[j + 1] ELSE s[j + 2]
      OBVIOUS
    <3> DEFINE m == j + 1
    <3>1. m \in 1 .. Len(s) - 1 /\ m = j + 1 /\ m + 1 = j + 2
      BY <2>j
    <3> HIDE DEF m
    <3>2. u[m] = IF m < i THEN s[m] ELSE s[m + 1]
      BY <3>1, <1>5
    <3> QED BY <3>1, <3>2
  <2>9. j # 1 => u[j - 1] = IF j - 1 < i THEN s[j - 1] ELSE s[j]
    <3> SUFFICES ASSUME j # 1 PROVE u[j - 1] = IF j - 1 < i THEN s[j - 1] ELSE s[j]
      OBVIOUS
    <3>1. j - 1 \in 1 .. Len(s) - 1 /\ (j - 1) + 1 = j
      BY <1>1
    <3> QED BY <3>1, <1>5
  <2>4. CASE j < i - 1
    <3>1. /\ k = j /\ u[j + 1] = s[j + 1] /\ (j # 1 => u[j - 1] = s[j - 1])
          /\ j # Len(s) - 1
      BY <2>4, <2>8, <2>9, <2>j, <2>k
    <3>2. g.next_ptr[s[k]] = s[k + 1] /\ g.prev_ptr[s[k]] = IF k = 1 THEN NULL ELSE s[k - 1]
      BY <3>1, <2>3, <2>4, <2>j
    <3> QED BY <3>1, <3>2, <2>1, <1>5
  <2>5. CASE j = i - 1
    <3>1. /\ k = j /\ (j # Len(s) - 1 => u[j + 1] = s[j + 2])
          /\ (j # 1 => u[j - 1] = s[j - 1])
          /\ i + 1 = j + 2 /\ (i = Len(s) <=> j = Len(s) - 1)
      BY <2>5, <2>8, <2>9, <2>j, <2>k
    <3> QED BY <3>1, <2>1, <2>3, <2>5, <1>1, <1>3, <1>5
  <2>6. CASE j = i
    <3>1. /\ k = j + 1 /\ (j # Len(s) - 1 => u[j + 1] = s[j + 2])
          /\ (j # 1 => u[j - 1] = s[i - 1])
      BY <2>6, <2>8, <2>9, <2>j, <2>k
    <3> QED BY <3>1, <2>1, <2>3, <2>6, <1>1, <1>3, <1>5
  <2>7. CASE j > i
    <3>1. /\ k = j + 1 /\ (j # Len(s) - 1 => u[j + 1] = s[j + 2])
          /\ j # 1 /\ u[j - 1] = s[j]
      BY <2>7, <2>8, <2>9, <2>j, <2>k
    <3>2. k + 1 = j + 2 /\ k - 1 = j /\ k # 1 /\ (k = Len(s) <=> j = Len(s) - 1)
      BY <3>1, <2>j
    <3>3. /\ g.next_ptr[s[k]] = IF k = Len(s) THEN NULL ELSE s[k + 1]
          /\ g.prev_ptr[s[k]] = s[k - 1]
      BY <3>2, <2>3, <2>7, <2>j
    <3> QED BY <3>1, <3>2, <3>3, <2>1, <1>5
  <2> QED BY <2>4, <2>5, <2>6, <2>7, <1>1
<1>11. Spells(g, u)
  BY <1>5, <1>6, <1>8, <1>9, <1>10 DEF Spells
<1> QED BY <1>4, <1>7, <1>11

\* w is the sequence of values current takes in the loop of search_in_free_list.
Follows(w, l, hdr, n) ==
  /\ w = [i \in Nat |-> w[i]]
  /\ w[0] = l.free_list
  /\ \A i \in Nat \ {0} : w[i] = IF w[i - 1] = NULL THEN NULL
                                ELSE IF hdr[w[i - 1]].size >= n THEN w[i - 1]
                                ELSE l.next_ptr[w[i - 1]]

\* A function that follows the loop of search_in_free_list is what Current stands for.
LEMMA CurrentIs ==
  ASSUME NEW l, NEW hdr, NEW n, NEW w, Follows(w, l, hdr, n)
  PROVE  Current(l, hdr, n) = w
<1> DEFINE After(c) == IF c = NULL THEN NULL
                       ELSE IF hdr[c].size >= n THEN c ELSE l.next_ptr[c]
           Does(at) == at = [i \in Nat |-> IF i = 0 THEN l.free_list ELSE After(at[i - 1])]
           v == Current(l, hdr, n)
<1>1. Does(w)
  <2> DEFINE d == [i \in Nat |-> IF i = 0 THEN l.free_list ELSE After(w[i - 1])]
  <2>1. \A i \in Nat : d[i] = w[i]
    BY DEF Follows
  <2>2. d = [i \in Nat |-> d[i]]
    OBVIOUS
  <2>3. d = w
    <3> HIDE DEF d
    <3> QED BY <2>1, <2>2 DEF Follows
  <2> QED BY <2>3
<1>2. v = CHOOSE at : Does(at)
  BY DEF Current
<1>3. Does(v)
  <2> HIDE DEF Does, v
  <2> QED BY <1>1, <1>2
<1> HIDE DEF v, After
<1>4. /\ w[0] = l.free_list /\ \A i \in Nat \ {0} : w[i] = After(w[i - 1])
      /\ v[0] = l.free_list /\ \A i \in Nat \ {0} : v[i] = After(v[i - 1])
  BY <1>1, <1>3
<1> DEFINE wrong == {i \in Nat : v[i] # w[i]}
<1>5. wrong = {}
  <2> SUFFICES ASSUME wrong # {} PROVE FALSE
    OBVIOUS
  <2>1. wrong \subseteq Nat
    OBVIOUS
  <2>2. PICK i \in wrong : \A j \in wrong : i <= j
    BY <2>1, LeastNumber
  <2>3. i \in Nat \ {0} /\ v[i] # w[i]
    BY <2>2, <1>4
  <2>4. i - 1 \in Nat /\ i - 1 < i
    BY <2>3
  <2>5. v[i - 1] = w[i - 1]
    BY <2>2, <2>4
  <2> QED BY <2>3, <2>5, <1>4
<1>6. \A i \in Nat : v[i] = w[i]
  BY <1>5
<1>7. v = [i \in Nat |-> v[i]] /\ w = [i \in Nat |-> w[i]]
  BY <1>3 DEF Follows
<1>8. v = w
  <2> HIDE DEF Does
  <2> QED BY <1>6, <1>7
<1> QED BY <1>8 DEF v

\* The positions of the blocks of s that have n bytes.
FittingIn(s, hdr, n) == {j \in DOMAIN s : hdr[s[j]].size >= n}

\* search_in_free_list comes to the first block of the list that is large enough, or to the
\* end, in no more rounds than the list has blocks.
LEMMA CurrentFits ==
  ASSUME NEW blocks, NULL \notin blocks, NEW l, NEW hdr, NEW n,
         NEW s \in Seq(blocks), Spells(l, s), NEW i \in Nat, i >= Len(s)
  PROVE  Current(l, hdr, n)[i] = IF FittingIn(s, hdr, n) = {} THEN NULL
                                 ELSE s[Min(FittingIn(s, hdr, n))]
<1> DEFINE Fits(c) == hdr[c].size >= n
           fitting == FittingIn(s, hdr, n)
           last == IF fitting = {} THEN Len(s) + 1 ELSE Min(fitting)
           At(k) == IF k = Len(s) + 1 THEN NULL ELSE s[k]
           Place(j) == IF j + 1 < last THEN j + 1 ELSE last
           w == [j \in Nat |-> At(Place(j))]
<1>1. /\ Len(s) \in Nat /\ DOMAIN s = 1 .. Len(s)
      /\ \A j \in 1 .. Len(s) : s[j] # NULL
  OBVIOUS
<1>0. \A j : j \in fitting <=> j \in 1 .. Len(s) /\ Fits(s[j])
  BY <1>1 DEF FittingIn
<1> HIDE DEF fitting
<1>2. /\ last \in 1 .. Len(s) + 1
      /\ last # Len(s) + 1 => Fits(s[last])
      /\ \A j \in 1 .. Len(s) : j < last => ~ Fits(s[j])
  <2>1. fitting \subseteq Nat /\ fitting \subseteq 1 .. Len(s)
    BY <1>0, <1>1
  <2>2. fitting # {} => Min(fitting) \in fitting /\ \A j \in fitting : Min(fitting) <= j
    BY <2>1, LeastNumber
  <2>3. \A j \in 1 .. Len(s) : Fits(s[j]) <=> j \in fitting
    BY <1>0
  <2> HIDE DEF Fits
  <2>4. CASE fitting = {}
    BY <2>3, <2>4, <1>1
  <2>5. CASE fitting # {}
    <3> DEFINE m == Min(fitting)
    <3>1. m \in 1 .. Len(s) /\ Fits(s[m]) /\ \A j \in fitting : m <= j
      BY <2>1, <2>2, <2>3, <2>5
    <3>2. last = m
      BY <2>5
    <3> HIDE DEF m, last
    <3>3. ASSUME NEW j \in 1 .. Len(s), j < last PROVE ~ Fits(s[j])
      BY <3>1, <3>2, <3>3, <2>3
    <3> QED BY <3>1, <3>2, <3>3, <1>1
  <2> QED BY <2>4, <2>5
<1>3. /\ l.free_list = At(1)
      /\ \A j \in 1 .. Len(s) : l.next_ptr[s[j]] = At(j + 1)
  <2>1. s = <<>> <=> Len(s) = 0
    OBVIOUS
  <2> QED BY <2>1, <1>1 DEF Spells
<1>4. last = IF fitting = {} THEN Len(s) + 1 ELSE Min(fitting)
  OBVIOUS
<1> HIDE DEF Fits, last
<1>5. /\ w = [j \in Nat |-> w[j]]
      /\ \A j \in Nat : w[j] = At(Place(j))
  OBVIOUS
<1> HIDE DEF w
<1>9. w[0] = l.free_list
  <2>1. Place(0) = 1
    BY <1>2
  <2> HIDE DEF At, Place
  <2> QED BY <2>1, <1>3, <1>5
<1>10. ASSUME NEW j \in Nat \ {0}
       PROVE  w[j] = IF w[j - 1] = NULL THEN NULL
                     ELSE IF Fits(w[j - 1]) THEN w[j - 1] ELSE l.next_ptr[w[j - 1]]
  <2>1. w[j] = At(Place(j)) /\ w[j - 1] = At(Place(j - 1))
    <3> HIDE DEF At, Place
    <3> QED BY <1>5
  <2>2. CASE j < last
    <3>1. Place(j - 1) = j /\ j \in 1 .. Len(s) /\ Place(j) = j + 1
      BY <2>2, <1>1, <1>2
    <3>2. At(j) = s[j] /\ s[j] # NULL /\ ~ Fits(s[j]) /\ l.next_ptr[s[j]] = At(j + 1)
      BY <3>1, <2>2, <1>1, <1>2, <1>3
    <3> HIDE DEF At, Place
    <3> QED BY <2>1, <3>1, <3>2
  <2>3. CASE j >= last
    <3>1. Place(j - 1) = last /\ Place(j) = last
      BY <2>3, <1>1, <1>2
    <3>2. At(last) = NULL \/ Fits(At(last))
      BY <1>2
    <3> HIDE DEF At, Place
    <3> QED BY <2>1, <3>1, <3>2
  <2> QED BY <2>2, <2>3, <1>2
<1>6. Current(l, hdr, n) = w
  <2>1. \A j \in Nat \ {0} : w[j] = IF w[j - 1] = NULL THEN NULL
                                    ELSE IF hdr[w[j - 1]].size >= n THEN w[j - 1]
                                    ELSE l.next_ptr[w[j - 1]]
    BY <1>10 DEF Fits
  <2>2. Follows(w, l, hdr, n)
    BY ONLY <2>1, <1>5, <1>9 DEF Follows
  <2> QED BY ONLY <2>2, CurrentIs
<1>7. w[i] = At(last)
  <2>1. Place(i) = last
    BY <1>1, <1>2
  <2> HIDE DEF Place, At
  <2> QED BY <2>1, <1>5
<1>8. At(last) = IF fitting = {} THEN NULL ELSE s[Min(fitting)]
  <2>1. fitting # {} => last # Len(s) + 1
    <3> SUFFICES ASSUME fitting # {} PROVE last \in 1 .. Len(s)
      BY <1>1
    <3>1. fitting \subseteq Nat /\ fitting \subseteq 1 .. Len(s)
      BY <1>0, <1>1
    <3> QED BY <3>1, <1>4, LeastNumber
  <2> QED BY <2>1, <1>4
<1> QED BY <1>6, <1>7, <1>8 DEF fitting

\* A free list holds block headers, each once, and the address 0 is none of them.
LEMMA ListFacts ==
  ASSUME NEW h, IsHeap(h), NEW X, FreeLists(h, X), NEW p \in DOMAIN h.pool
  PROVE  /\ h.pool[p].free_list \in Seq(DOMAIN h.hdr)
         /\ IsInjective(h.pool[p].free_list)
         /\ Range(h.pool[p].free_list) = FreeBlocks(h, p) \ X
         /\ NULL \notin DOMAIN h.hdr
<1> DEFINE list == h.pool[p].free_list
<1>1. /\ list \in Seq(Nat)
      /\ IsInjective(list)
      /\ Range(list) = FreeBlocks(h, p) \ X
      /\ NULL \notin DOMAIN h.hdr
  BY FreeListsDef DEF IsHeap, PoolHeader, FreeList
<1> HIDE DEF list
<1>2. Len(list) \in Nat /\ DOMAIN list = 1 .. Len(list)
  BY <1>1
<1>3. \A i \in 1 .. Len(list) : list[i] \in DOMAIN h.hdr
  BY <1>1, <1>2 DEF Range, FreeBlocks
<1>4. list \in Seq(DOMAIN h.hdr)
  BY <1>1, <1>2, <1>3
<1> QED BY <1>1, <1>4 DEF list

\* add_to_free_list: the pointers it writes spell the list the model has afterwards.
THEOREM AddLinksFirst ==
  ASSUME NEW h, IsHeap(h), NEW X, FreeLists(h, X),
         NEW b \in DOMAIN h.hdr \cap X, h.hdr[b].pool_ptr \in DOMAIN h.pool,
         NEW words, DOMAIN h.hdr \cup {NULL} \subseteq words,
         NEW l \in LinkMemory(DOMAIN h.hdr, words),
         Spells(l, h.pool[h.hdr[b].pool_ptr].free_list)
  PROVE  /\ LinkFirst(l, b) \in LinkMemory(DOMAIN h.hdr, words)
         /\ Spells(LinkFirst(l, b), AddToFreeList(h, b).pool[h.hdr[b].pool_ptr].free_list)
<1> DEFINE p == h.hdr[b].pool_ptr
           list == h.pool[p].free_list
<1>1. AddToFreeList(h, b).pool[p].free_list = <<b>> \o list
  <2> DEFINE header == [h.pool[p] EXCEPT !.free_list = <<b>> \o list, !.has_free = TRUE]
  <2>1. AddToFreeList(h, b) = [h EXCEPT !.pool[p] = header]
    BY Zenon DEF AddToFreeList
  <2>2. h.pool[p] \in PoolHeader /\ DOMAIN h = {"pools", "pool", "hdr"}
    BY DEF IsHeap
  <2>3. header.free_list = <<b>> \o list
    BY <2>2 DEF PoolHeader
  <2> HIDE DEF header
  <2> QED BY <2>1, <2>2, <2>3
<1>2. /\ list \in Seq(DOMAIN h.hdr) /\ IsInjective(list)
      /\ b \in DOMAIN h.hdr \ Range(list)
      /\ NULL \notin DOMAIN h.hdr
  BY ListFacts
<1>3. Spells(l, list)
  OBVIOUS
<1> HIDE DEF list
<1>4. /\ LinkFirst(l, b) \in LinkMemory(DOMAIN h.hdr, words)
      /\ Spells(LinkFirst(l, b), <<b>> \o list)
  BY <1>2, <1>3, LinkFirstSpells
<1> QED BY <1>1, <1>4

\* remove_from_free_list: the pointers it writes spell the list the model has afterwards.
THEOREM RemoveUnlinks ==
  ASSUME NEW h, IsHeap(h), NEW X, FreeLists(h, X),
         NEW b \in DOMAIN h.hdr \ X, h.hdr[b].is_free,
         h.hdr[b].pool_ptr \in DOMAIN h.pool,
         NEW words, DOMAIN h.hdr \cup {NULL} \subseteq words,
         NEW l \in LinkMemory(DOMAIN h.hdr, words),
         Spells(l, h.pool[h.hdr[b].pool_ptr].free_list)
  PROVE  /\ UnlinkBlock(l, b) \in LinkMemory(DOMAIN h.hdr, words)
         /\ Spells(UnlinkBlock(l, b),
                   RemoveFromFreeList(h, b).pool[h.hdr[b].pool_ptr].free_list)
<1> DEFINE p == h.hdr[b].pool_ptr
           list == h.pool[p].free_list
           i == CHOOSE i \in DOMAIN list : list[i] = b
           rest == Unlink(list, b)
<1>1. RemoveFromFreeList(h, b).pool[p].free_list = rest
  <2> DEFINE header == [h.pool[p] EXCEPT !.free_list = rest,
                          !.has_free = IF rest = <<>> THEN FALSE ELSE h.pool[p].has_free]
  <2>1. RemoveFromFreeList(h, b) = [h EXCEPT !.pool[p] = header]
    BY Zenon DEF RemoveFromFreeList
  <2>2. h.pool[p] \in PoolHeader /\ DOMAIN h = {"pools", "pool", "hdr"}
    BY DEF IsHeap
  <2> HIDE DEF rest
  <2>3. header.free_list = rest
    BY <2>2 DEF PoolHeader
  <2> HIDE DEF header
  <2> QED BY <2>1, <2>2, <2>3
<1>2. /\ list \in Seq(DOMAIN h.hdr) /\ IsInjective(list)
      /\ b \in Range(list)
      /\ NULL \notin DOMAIN h.hdr
  <2>1. b \in FreeBlocks(h, p) \ X
    BY DEF FreeBlocks
  <2> QED BY <2>1, ListFacts
<1>3. i \in DOMAIN list /\ list[i] = b
  BY <1>2 DEF Range
<1>4. rest = RemoveAt(list, i)
  BY DEF Unlink
<1>5. Spells(l, list)
  OBVIOUS
<1> HIDE DEF list, i, rest
<1>6. /\ UnlinkBlock(l, list[i]) \in LinkMemory(DOMAIN h.hdr, words)
      /\ Spells(UnlinkBlock(l, list[i]), RemoveAt(list, i))
  BY <1>2, <1>3, <1>5, UnlinkBlockSpells
<1> QED BY <1>1, <1>3, <1>4, <1>6

\* search_in_free_list: following the pointers comes to the first block of the list that
\* is large enough, the one FirstFit takes, or to the end if there is none, and the loop
\* ends after no more rounds than the list has blocks.
THEOREM SearchFindsFirst ==
  ASSUME NEW h, IsHeap(h), NEW X, FreeLists(h, X), NEW p \in DOMAIN h.pool, NEW n,
         NEW l, Spells(l, h.pool[p].free_list),
         NEW i \in Nat, i >= Len(h.pool[p].free_list)
  PROVE  Current(l, h.hdr, n)[i] = IF Fitting(h, p, n) = {} THEN NULL
                                   ELSE h.pool[p].free_list[Min(Fitting(h, p, n))]
<1> DEFINE list == h.pool[p].free_list
           hdr == h.hdr
           blocks == DOMAIN h.hdr
<1>1. list \in Seq(blocks) /\ NULL \notin blocks
  BY ListFacts
<1>2. Fitting(h, p, n) = FittingIn(list, hdr, n)
  BY DEF Fitting, FittingIn
<1>3. Spells(l, list) /\ i >= Len(list) /\ i \in Nat
  OBVIOUS
<1> HIDE DEF list, hdr, blocks
<1>4. Current(l, hdr, n)[i] = IF FittingIn(list, hdr, n) = {} THEN NULL
                              ELSE list[Min(FittingIn(list, hdr, n))]
  BY ONLY <1>1, <1>3, CurrentFits
<1> QED BY <1>2, <1>4 DEF list, hdr

=============================================================================
