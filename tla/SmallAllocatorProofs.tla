------------------------- MODULE SmallAllocatorProofs -------------------------
(***************************************************************************)
(* What TLAPS proves about the small layer, for every configuration and    *)
(* every set of threads.  Of all clients of the model, who may free twice  *)
(* or realloc what is freed, but keep their traced pointers (Call): types, *)
(* blocks that keep apart, requests that fit.  Of clients that free only   *)
(* what they hold (Careful): lists that are sound and counted and lose     *)
(* nothing, blocks handed out once, and that the layer implements          *)
(* AbstractHeap.                                                           *)
(***************************************************************************)
EXTENDS SmallAllocator, DamLemmas, FiniteSetTheorems

-----------------------------------------------------------------------------
\* Carving a pool.

\* Aligning an aligned size changes nothing.
LEMMA AlignUpAligned ==
  ASSUME NEW x \in Nat, NEW a \in Nat \ {0}, x % a = 0
  PROVE  AlignUp(x, a) = x
<1> DEFINE k == x \div a
<1>1. k \in Nat /\ x = a * k
  BY DivMod
<1>2. (x + a - 1) % a = a - 1
  <2>1. x + a - 1 = (a * k) + (a - 1) /\ a - 1 \in 0 .. a - 1
    BY <1>1
  <2> HIDE DEF k
  <2>2. ((a * k) + (a - 1)) % a = a - 1
    BY <1>1, <2>1, SMTT(30)
  <2> QED BY <2>1, <2>2
<1> QED BY <1>2 DEF AlignUp

\* Block sizes and strides are positive.
LEMMA ClassSizes ==
  ASSUME NEW c \in Classes
  PROVE  /\ BlockSize(c) \in Nat \ {0}
         /\ Stride(c) \in Nat \ {0}
         /\ Stride(c) = SIZE_CLASS_HEADER_SIZE + BlockSize(c)
  BY SmallAssumption DEF Stride

\* The carving loop finds room for all its blocks, one behind the other, between
\* the pool's header and its end.
LEMMA Carving ==
  ASSUME NEW base \in Nat \ {0}, NEW c \in Classes
  PROVE  LET n == SIZE_CLASS_BLOCKS_PER_POOL
         IN  /\ PoolSize(c) \in Nat
             /\ PoolBlocks(base, c) = 0 .. n - 1
             /\ Max(PoolBlocks(base, c)) = n - 1
             /\ \A i \in 0 .. n - 1 :
                  /\ BlockAt(base, c, i) \in Nat \ {0}
                  /\ base + POOL_HEADER_SIZE <= BlockAt(base, c, i)
                  /\ BlockAt(base, c, i) + Stride(c) <= base + PoolSize(c)
             /\ \A i \in 0 .. n - 2 : BlockAt(base, c, i + 1) = BlockAt(base, c, i) + Stride(c)
             /\ \A i, j \in 0 .. n - 1 :
                  i < j => BlockAt(base, c, i) + Stride(c) <= BlockAt(base, c, j)
<1> DEFINE n == SIZE_CLASS_BLOCKS_PER_POOL
           s == Stride(c)
           At(i) == BlockAt(base, c, i)
<1>1. /\ n \in Nat \ {0}
      /\ s \in Nat \ {0}
      /\ POOL_HEADER_SIZE \in Nat \ {0}
      /\ POOL_HEADER_SIZE % ALIGNMENT = 0
      /\ ALIGNMENT \in Nat \ {0}
  BY ClassSizes, SmallAssumption, ConfigAssumption
<1>2. PoolSize(c) \in Nat /\ PoolSize(c) >= POOL_HEADER_SIZE + s * n
  <2>1. s * n \in Nat
    BY <1>1
  <2>2. PoolSize(c) = AlignUp(POOL_HEADER_SIZE + s * n, ALIGNMENT)
    BY DEF PoolSize, Stride
  <2> HIDE DEF s, n
  <2> QED BY <2>1, <2>2, <1>1, AlignUpFacts, SMTT(30)
<1>3. \A i : At(i) = base + POOL_HEADER_SIZE + i * s
  BY <1>1, AlignUpAligned DEF BlockAt
<1> HIDE DEF s, n, At
<1>4. ASSUME NEW i \in 0 .. n - 1
      PROVE  /\ At(i) \in Nat \ {0}
             /\ base + POOL_HEADER_SIZE <= At(i)
             /\ At(i) + s <= base + PoolSize(c)
  <2>1. i * s \in Nat /\ i * s + s <= s * n
    BY <1>1
  <2> QED BY <2>1, <1>1, <1>2, <1>3
<1>5. \A i \in 0 .. n - 2 : At(i + 1) = At(i) + s
  <2>1. \A i \in Nat : (i + 1) * s = i * s + s /\ i * s \in Nat
    BY <1>1
  <2> QED BY <2>1, <1>1, <1>3
<1>6. ASSUME NEW i \in 0 .. n - 1, NEW j \in 0 .. n - 1, i < j
      PROVE  At(i) + s <= At(j)
  <2>1. i * s \in Nat /\ j * s \in Nat /\ i * s + s <= j * s
    BY <1>1, <1>6
  <2> QED BY <2>1, <1>1, <1>3
<1>7. PoolBlocks(base, c) = 0 .. n - 1
  BY <1>4 DEF PoolBlocks, At, s, n
<1>8. Max(0 .. n - 1) = n - 1
  <2>1. /\ Max(0 .. n - 1) \in 0 .. n - 1
        /\ \A x \in 0 .. n - 1 : x <= Max(0 .. n - 1)
    <3>1. n - 1 \in Nat /\ 0 .. n - 1 \subseteq Nat /\ 0 \in 0 .. n - 1
      BY <1>1
    <3>2. \A x \in 0 .. n - 1 : x <= n - 1
      BY <1>1
    <3> QED BY <3>1, <3>2, GreatestNumber
  <2> QED BY <2>1, <1>1
<1> QED BY <1>2, <1>4, <1>5, <1>6, <1>7, <1>8 DEF At, s, n

-----------------------------------------------------------------------------
\* The operations on the blocks.

Apart(s) ==
  /\ \A b, c \in DOMAIN s.hdr : b # c => End(s, b) <= c \/ End(s, c) <= b
  /\ \A b \in DOMAIN s.hdr : InPool(s, b)

\* The blocks of g are those of s, of the same classes, in the same pools.
SameBlocks(s, g) ==
  /\ DOMAIN g.hdr = DOMAIN s.hdr
  /\ \A b \in DOMAIN s.hdr : g.hdr[b].size_class_index = s.hdr[b].size_class_index
  /\ g.mapped = s.mapped

\* Flags and links have no part in where the blocks are.
LEMMA SameBlocksApart ==
  ASSUME NEW s, NEW g, SameBlocks(s, g), Apart(s)
  PROVE  Apart(g)
<1>1. \A b \in DOMAIN s.hdr : End(g, b) = End(s, b)
  BY DEF SameBlocks, End
<1> QED BY <1>1 DEF SameBlocks, Apart, InPool

\* A block's header given new flags and a new next, and the central lists new heads.
WithHeader(s, b, header, lists) ==
  [s EXCEPT !.hdr[b] = header, !.free_class_list = lists]

\* It leaves the state typed and the other blocks as they are.
LEMMA SetHeader ==
  ASSUME NEW s, IsSmall(s), NEW b \in DOMAIN s.hdr, NEW header \in ClassHeader,
         header.size_class_index = s.hdr[b].size_class_index,
         NEW lists \in [Classes -> Nat],
         NEW g, g = WithHeader(s, b, header, lists)
  PROVE  /\ IsSmall(g)
         /\ SameBlocks(s, g)
         /\ g.free_class_list = lists
         /\ g.hdr[b] = header
         /\ \A d \in DOMAIN s.hdr \ {b} : g.hdr[d] = s.hdr[d]
<1> DEFINE f == [s.hdr EXCEPT ![b] = header]
<1>1. DOMAIN s = {"hdr", "free_class_list", "mapped"}
  BY DEF IsSmall
<1>2. /\ g.hdr = f
      /\ g.free_class_list = lists
      /\ g.mapped = s.mapped
      /\ g = [hdr |-> g.hdr, free_class_list |-> g.free_class_list, mapped |-> g.mapped]
  <2> DEFINE d == [s EXCEPT !.hdr = f]
             e == [d EXCEPT !.free_class_list = lists]
  <2>1. g = e
    BY <1>1 DEF WithHeader
  <2>2. /\ d.hdr = f
        /\ d.mapped = s.mapped
        /\ DOMAIN d = {"hdr", "free_class_list", "mapped"}
    BY <1>1
  <2> HIDE DEF d
  <2>3. /\ e.hdr = d.hdr
        /\ e.mapped = d.mapped
        /\ e.free_class_list = lists
        /\ e = [hdr |-> e.hdr, free_class_list |-> e.free_class_list, mapped |-> e.mapped]
    BY <2>2
  <2> HIDE DEF e, f
  <2> QED BY <2>1, <2>2, <2>3
<1>3. /\ f \in [DOMAIN f -> ClassHeader]
      /\ DOMAIN f = DOMAIN s.hdr
      /\ f[b] = header
      /\ \A d \in DOMAIN s.hdr \ {b} : f[d] = s.hdr[d]
  BY DEF IsSmall
<1> HIDE DEF f
<1>4. IsSmall(g)
  BY <1>2, <1>3 DEF IsSmall
<1>5. SameBlocks(s, g)
  BY <1>2, <1>3 DEF SameBlocks
<1> QED BY <1>2, <1>3, <1>4, <1>5

\* dam_small_malloc_internal takes a block out of a central list.
LEMMA TakeFirstFacts ==
  ASSUME NEW s, IsSmall(s), NEW c \in Classes, s.free_class_list[c] \in DOMAIN s.hdr
  PROVE  LET g == TakeFirst(s, c).small
             b == s.free_class_list[c]
         IN  /\ TakeFirst(s, c).block = b
             /\ IsSmall(g)
             /\ SameBlocks(s, g)
             /\ \A d \in Classes : g.free_class_list[d] =
                  IF d = c THEN s.hdr[b].next ELSE s.free_class_list[d]
             /\ ~ g.hdr[b].is_free
             /\ g.hdr[b].magic = "SMALL"
             /\ g.hdr[b].next = s.hdr[b].next
             /\ \A d \in DOMAIN s.hdr \ {b} : g.hdr[d] = s.hdr[d]
<1> DEFINE b == s.free_class_list[c]
           header == [s.hdr[b] EXCEPT !.is_free = FALSE, !.magic = "SMALL"]
           lists == [s.free_class_list EXCEPT ![c] = s.hdr[b].next]
<1>1. /\ s.hdr[b] \in ClassHeader
      /\ DOMAIN s = {"hdr", "free_class_list", "mapped"}
      /\ s.free_class_list \in [Classes -> Nat]
  BY DEF IsSmall
<1>2. /\ header \in ClassHeader
      /\ header.size_class_index = s.hdr[b].size_class_index
      /\ s.hdr[b].next \in Nat
  BY <1>1 DEF ClassHeader
<1>3. lists \in [Classes -> Nat]
  BY <1>1, <1>2
<1>4. TakeFirst(s, c).small = WithHeader(s, b, header, lists)
  BY <1>1 DEF TakeFirst, WithHeader
<1>5. TakeFirst(s, c).block = b
  BY DEF TakeFirst
<1> HIDE DEF header, lists
<1>6. b \in DOMAIN s.hdr
  OBVIOUS
<1> DEFINE g == TakeFirst(s, c).small
<1> HIDE DEF b, g
<1>7. /\ IsSmall(g)
      /\ SameBlocks(s, g)
      /\ g.free_class_list = lists
      /\ g.hdr[b] = header
      /\ \A d \in DOMAIN s.hdr \ {b} : g.hdr[d] = s.hdr[d]
  <2>1. g = WithHeader(s, b, header, lists)
    BY <1>4 DEF g
  <2> QED BY <2>1, <1>2, <1>3, <1>6, SetHeader
<1>8. /\ ~ header.is_free
      /\ header.magic = "SMALL"
      /\ header.next = s.hdr[b].next
  BY <1>1 DEF b, header, ClassHeader
<1>9. \A d \in Classes : lists[d] = IF d = c THEN s.hdr[b].next ELSE s.free_class_list[d]
  BY <1>1 DEF b, lists
<1> QED BY <1>5, <1>7, <1>8, <1>9 DEF b, g

\* A block linked in front of a list.
LEMMA FreedFacts ==
  ASSUME NEW s, IsSmall(s), NEW b \in DOMAIN s.hdr, NEW first \in Nat
  PROVE  LET g == Freed(s, b, first)
         IN  /\ IsSmall(g)
             /\ SameBlocks(s, g)
             /\ g.free_class_list = s.free_class_list
             /\ g.hdr[b].is_free
             /\ g.hdr[b].magic = "FREED"
             /\ g.hdr[b].next = first
             /\ \A d \in DOMAIN s.hdr \ {b} : g.hdr[d] = s.hdr[d]
<1> DEFINE header == [s.hdr[b] EXCEPT !.is_free = TRUE, !.magic = "FREED", !.next = first]
<1>1. /\ s.hdr[b] \in ClassHeader
      /\ DOMAIN s = {"hdr", "free_class_list", "mapped"}
      /\ s.free_class_list \in [Classes -> Nat]
  BY DEF IsSmall
<1>2. /\ header \in ClassHeader
      /\ header.size_class_index = s.hdr[b].size_class_index
  BY <1>1 DEF ClassHeader
<1>3. Freed(s, b, first) = WithHeader(s, b, header, s.free_class_list)
  BY <1>1 DEF Freed, IsSmall, WithHeader
<1> DEFINE g == Freed(s, b, first)
<1> HIDE DEF header, g
<1>4. /\ IsSmall(g)
      /\ SameBlocks(s, g)
      /\ g.free_class_list = s.free_class_list
      /\ g.hdr[b] = header
      /\ \A d \in DOMAIN s.hdr \ {b} : g.hdr[d] = s.hdr[d]
  <2>1. g = WithHeader(s, b, header, s.free_class_list)
    BY <1>3 DEF g
  <2> QED BY <2>1, <1>1, <1>2, SetHeader
<1>5. header.is_free /\ header.magic = "FREED" /\ header.next = first
  BY <1>1 DEF header, ClassHeader
<1> QED BY <1>4, <1>5 DEF g

\* create_small_pool adds blocks nobody has, links them in front of the class's list
\* and keeps everything apart.
LEMMA NewPoolFacts ==
  ASSUME NEW s, IsSmall(s), Apart(s), NEW c \in Classes,
         NEW base \in FreeBases(s, PoolSize(c))
  PROVE  LET g == NewPool(s, base, c)
             n == SIZE_CLASS_BLOCKS_PER_POOL
             At(i) == BlockAt(base, c, i)
             blocks == {At(i) : i \in 0 .. n - 1}
         IN  /\ IsSmall(g)
             /\ Apart(g)
             /\ DOMAIN g.hdr = DOMAIN s.hdr \cup blocks
             /\ blocks \cap DOMAIN s.hdr = {}
             /\ \A b \in DOMAIN s.hdr : g.hdr[b] = s.hdr[b]
             /\ \A d \in Classes : g.free_class_list[d] =
                  IF d = c THEN At(n - 1) ELSE s.free_class_list[d]
             /\ \A i \in 0 .. n - 1 :
                  /\ g.hdr[At(i)].size_class_index = c
                  /\ g.hdr[At(i)].is_free
                  /\ g.hdr[At(i)].magic = "FREED"
                  /\ g.hdr[At(i)].next = IF i = 0 THEN s.free_class_list[c] ELSE At(i - 1)
<1> DEFINE g == NewPool(s, base, c)
           n == SIZE_CLASS_BLOCKS_PER_POOL
           At(i) == BlockAt(base, c, i)
           blocks == {At(i) : i \in 0 .. n - 1}
           size == PoolSize(c)
           header(b) == [size_class_index |-> c, is_free |-> TRUE, magic |-> "FREED",
                         next |-> IF b = At(0) THEN s.free_class_list[c]
                                  ELSE b - Stride(c)]
           hdr == [b \in DOMAIN s.hdr \cup blocks |-> IF b \in blocks THEN header(b) ELSE s.hdr[b]]
           lists == [s.free_class_list EXCEPT ![c] = At(n - 1)]
           mapped == [p \in DOMAIN s.mapped \cup {base} |-> IF p = base THEN size ELSE s.mapped[p]]
<1>1. /\ base \in Nat \ {0}
      /\ n \in Nat \ {0}
      /\ POOL_HEADER_SIZE \in Nat \ {0}
      /\ SIZE_CLASS_HEADER_SIZE \in Nat \ {0}
      /\ \A p \in DOMAIN s.mapped : base + size <= p \/ p + s.mapped[p] <= base
  BY SmallAssumption DEF FreeBases
<1>2. /\ size \in Nat
      /\ PoolBlocks(base, c) = 0 .. n - 1
      /\ Max(PoolBlocks(base, c)) = n - 1
      /\ \A i \in 0 .. n - 1 :
           /\ At(i) \in Nat \ {0}
           /\ base + POOL_HEADER_SIZE <= At(i)
           /\ At(i) + Stride(c) <= base + size
      /\ \A i \in 0 .. n - 2 : At(i + 1) = At(i) + Stride(c)
      /\ \A i, j \in 0 .. n - 1 : i < j => At(i) + Stride(c) <= At(j)
  BY <1>1, Carving
<1>3. Stride(c) \in Nat \ {0} /\ Stride(c) = SIZE_CLASS_HEADER_SIZE + BlockSize(c)
  BY ClassSizes
<1>4. /\ DOMAIN s.hdr \cup DOMAIN s.mapped \subseteq Nat \ {0}
      /\ s.hdr \in [DOMAIN s.hdr -> ClassHeader]
      /\ s.free_class_list \in [Classes -> Nat]
      /\ s.mapped \in [DOMAIN s.mapped -> Nat]
  BY DEF IsSmall, NULL
<1>5. g = [hdr |-> hdr, free_class_list |-> lists, mapped |-> mapped]
  BY <1>2, Zenon DEF NewPool
<1> HIDE DEF g, n, At, size
<1>6. ASSUME NEW b \in DOMAIN s.hdr
      PROVE  /\ BlockSize(s.hdr[b].size_class_index) \in Nat \ {0}
             /\ s.hdr[b].size_class_index \in Classes
             /\ End(s, b) \in Nat
             /\ b \in Nat
             /\ b < End(s, b)
  <2>1. s.hdr[b].size_class_index \in Classes
    BY <1>4 DEF ClassHeader
  <2>2. BlockSize(s.hdr[b].size_class_index) \in Nat \ {0}
    BY <2>1, ClassSizes
  <2> QED BY <2>1, <2>2, <1>1, <1>4 DEF End
<1>7. \A b \in DOMAIN s.hdr : End(s, b) <= base \/ base + size <= b
  <2>1. SUFFICES ASSUME NEW b \in DOMAIN s.hdr
                 PROVE  End(s, b) <= base \/ base + size <= b
    OBVIOUS
  <2>2. PICK p \in DOMAIN s.mapped :
          p + POOL_HEADER_SIZE <= b /\ End(s, b) <= p + s.mapped[p]
    BY DEF Apart, InPool
  <2>3. p \in Nat /\ s.mapped[p] \in Nat
    BY <1>4
  <2>4. b \in Nat /\ End(s, b) \in Nat /\ b < End(s, b)
    BY <1>6
  <2>5. base + size <= p \/ p + s.mapped[p] <= base
    BY <1>1
  <2>6. base \in Nat /\ size \in Nat /\ POOL_HEADER_SIZE \in Nat
    BY <1>1, <1>2
  <2> QED BY ONLY <2>2, <2>3, <2>4, <2>5, <2>6
<1>8. blocks \cap DOMAIN s.hdr = {}
  <2>1. SUFFICES ASSUME NEW i \in 0 .. n - 1, At(i) \in DOMAIN s.hdr PROVE FALSE
    OBVIOUS
  <2>2. End(s, At(i)) <= base \/ base + size <= At(i)
    BY <2>1, <1>7
  <2> QED BY <2>1, <2>2, <1>1, <1>2, <1>3, <1>6, SMTT(30)
<1>9. /\ DOMAIN hdr = DOMAIN s.hdr \cup blocks
      /\ \A b \in DOMAIN s.hdr : hdr[b] = s.hdr[b]
      /\ \A b \in blocks : hdr[b] = header(b)
  BY <1>8
<1>10. ASSUME NEW i \in 0 .. n - 1
       PROVE  header(At(i)) =
                [size_class_index |-> c, is_free |-> TRUE, magic |-> "FREED",
                 next |-> IF i = 0 THEN s.free_class_list[c] ELSE At(i - 1)]
  <2>1. CASE i = 0
    BY <2>1
  <2>2. CASE i # 0
    <3>1. i - 1 \in 0 .. n - 2 /\ (i - 1) + 1 = i /\ 0 \in 0 .. n - 1 /\ 0 < i
      BY <2>2, <1>1 DEF n
    <3>2. At(i) = At(i - 1) + Stride(c)
      BY <3>1, <1>2
    <3>3. At(0) + Stride(c) <= At(i) /\ At(0) \in Nat /\ At(i - 1) \in Nat
      BY <3>1, <1>1, <1>2 DEF n
    <3>4. At(i) # At(0) /\ At(i) - Stride(c) = At(i - 1)
      BY <3>2, <3>3, <1>3
    <3> QED BY <2>2, <3>4
  <2> QED BY <2>1, <2>2
<1>11. \A i \in 0 .. n - 1 : header(At(i)) \in ClassHeader
  <2>1. SUFFICES ASSUME NEW i \in 0 .. n - 1 PROVE header(At(i)) \in ClassHeader
    OBVIOUS
  <2>2. i # 0 => At(i - 1) \in Nat
    BY <1>1, <1>2 DEF n
  <2>3. (IF i = 0 THEN s.free_class_list[c] ELSE At(i - 1)) \in Nat
    BY <2>2, <1>4
  <2> DEFINE next == IF i = 0 THEN s.free_class_list[c] ELSE At(i - 1)
  <2>4. header(At(i)) =
          [size_class_index |-> c, is_free |-> TRUE, magic |-> "FREED", next |-> next]
    BY <1>10
  <2> HIDE DEF header, next
  <2>5. next \in Nat
    BY <2>3 DEF next
  <2> QED BY <2>4, <2>5 DEF ClassHeader
<1> HIDE DEF header
<1>12. hdr \in [DOMAIN hdr -> ClassHeader] /\ DOMAIN hdr \subseteq Nat \ {0}
  <2>1. \A b \in DOMAIN hdr : hdr[b] \in ClassHeader /\ b \in Nat \ {0}
    BY <1>2, <1>4, <1>9, <1>11
  <2> QED BY <2>1
<1>13. lists \in [Classes -> Nat]
  <2>1. At(n - 1) \in Nat
    BY <1>1, <1>2 DEF n
  <2> QED BY <2>1, <1>4
<1>14. mapped \in [DOMAIN mapped -> Nat] /\ DOMAIN mapped \subseteq Nat \ {0}
  BY <1>1, <1>2, <1>4
<1>15. /\ DOMAIN mapped = DOMAIN s.mapped \cup {base}
       /\ mapped[base] = size
       /\ \A p \in DOMAIN s.mapped : p # base => mapped[p] = s.mapped[p]
  OBVIOUS
<1> HIDE DEF hdr, lists, mapped
<1>16. g.hdr = hdr /\ g.free_class_list = lists /\ g.mapped = mapped
  BY <1>5
<1>17. IsSmall(g)
  BY <1>5, <1>12, <1>13, <1>14 DEF IsSmall, NULL
<1>18. \A b \in DOMAIN s.hdr : End(g, b) = End(s, b)
  BY <1>9, <1>16 DEF End
<1>19. \A i \in 0 .. n - 1 : At(i) \in blocks /\ End(g, At(i)) = At(i) + Stride(c)
  <2>1. SUFFICES ASSUME NEW i \in 0 .. n - 1
                 PROVE  At(i) \in blocks /\ End(g, At(i)) = At(i) + Stride(c)
    OBVIOUS
  <2>2. g.hdr[At(i)].size_class_index = c
    BY <1>9, <1>10, <1>16
  <2>3. End(g, At(i)) = At(i) + SIZE_CLASS_HEADER_SIZE + BlockSize(c)
    BY <2>2 DEF End
  <2>4. At(i) \in Nat /\ SIZE_CLASS_HEADER_SIZE \in Nat /\ BlockSize(c) \in Nat
    BY <1>1, <1>2, ClassSizes
  <2>5. End(g, At(i)) = At(i) + Stride(c)
    BY <2>3, <2>4, <1>3
  <2> QED BY <2>5
<1>20. Apart(g)
  <2>1. ASSUME NEW b \in DOMAIN g.hdr, NEW d \in DOMAIN g.hdr, b # d
        PROVE  End(g, b) <= d \/ End(g, d) <= b
    <3>1. CASE b \in DOMAIN s.hdr /\ d \in DOMAIN s.hdr
      BY <2>1, <3>1, <1>18 DEF Apart
    <3>2. ASSUME NEW x \in DOMAIN s.hdr, NEW i \in 0 .. n - 1
          PROVE  End(g, x) <= At(i) \/ End(g, At(i)) <= x
      <4>1. x \in Nat /\ End(s, x) \in Nat /\ End(g, x) = End(s, x)
        BY <1>6, <1>18
      <4>2. End(s, x) <= base \/ base + size <= x
        BY <1>7
      <4>3. /\ At(i) \in Nat
            /\ base + POOL_HEADER_SIZE <= At(i)
            /\ End(g, At(i)) <= base + size
            /\ End(g, At(i)) \in Nat
        BY <1>2, <1>3, <1>19
      <4>4. base \in Nat /\ size \in Nat /\ POOL_HEADER_SIZE \in Nat
        BY <1>1, <1>2
      <4> QED BY ONLY <4>1, <4>2, <4>3, <4>4
    <3>3. ASSUME NEW i \in 0 .. n - 1, NEW j \in 0 .. n - 1, At(i) # At(j)
          PROVE  End(g, At(i)) <= At(j) \/ End(g, At(j)) <= At(i)
      <4>1. i < j \/ j < i
        BY <3>3, <1>1 DEF n
      <4> QED BY <4>1, <1>2, <1>19
    <3> QED BY <2>1, <3>1, <3>2, <3>3, <1>9, <1>16
  <2>2. ASSUME NEW b \in DOMAIN g.hdr PROVE InPool(g, b)
    <3>1. CASE b \in DOMAIN s.hdr
      <4>1. PICK p \in DOMAIN s.mapped :
              p + POOL_HEADER_SIZE <= b /\ End(s, b) <= p + s.mapped[p]
        BY <3>1 DEF Apart, InPool
      <4>2. p # base
        <5>1. p \in Nat /\ s.mapped[p] \in Nat
          BY <1>4
        <5>2. End(s, b) <= base \/ base + size <= b
          BY <3>1, <1>7
        <5>3. base + size <= p \/ p + s.mapped[p] <= base
          BY <1>1
        <5>4. 0 < size
          BY <1>1, <1>2, <1>3 DEF n
        <5> QED BY <5>1, <5>2, <5>3, <5>4, <4>1, <1>1, <1>2, <1>6, <3>1
      <4> QED BY <4>1, <4>2, <3>1, <1>15, <1>16, <1>18 DEF InPool
    <3>2. CASE b \in blocks
      BY <3>2, <1>2, <1>15, <1>16, <1>19 DEF InPool
    <3> QED BY <2>2, <3>1, <3>2, <1>9, <1>16
  <2> QED BY <2>1, <2>2 DEF Apart
<1>21. \A d \in Classes : lists[d] = IF d = c THEN At(n - 1) ELSE s.free_class_list[d]
  BY <1>4 DEF lists
<1>22. ASSUME NEW i \in 0 .. n - 1
       PROVE  /\ g.hdr[At(i)].size_class_index = c
              /\ g.hdr[At(i)].is_free
              /\ g.hdr[At(i)].magic = "FREED"
              /\ g.hdr[At(i)].next = IF i = 0 THEN s.free_class_list[c] ELSE At(i - 1)
  <2>1. g.hdr[At(i)] = header(At(i))
    BY <1>9, <1>16
  <2> QED BY <2>1, <1>10
<1> QED BY <1>8, <1>9, <1>16, <1>17, <1>20, <1>21, <1>22 DEF g, n, At

-----------------------------------------------------------------------------
\* What holds of mistaken clients too: types, places, and that every pointer of a
\* list leads to a block.

Known(s) == DOMAIN s.hdr \cup {NULL}

GoodBlocks(s) ==
  /\ IsSmall(s)
  /\ Apart(s)
  /\ \A c \in Classes : s.free_class_list[c] \in Known(s)
  /\ \A b \in DOMAIN s.hdr : s.hdr[b].next \in Known(s)

GoodBins(s, bins) ==
  /\ bins \in [Threads -> [Classes -> Bin]]
  /\ \A t \in Threads, c \in Classes : bins[t][c].free_list \in Known(s)

\* g has the blocks of s, and perhaps more.
Extends(s, g) ==
  /\ DOMAIN s.hdr \subseteq DOMAIN g.hdr
  /\ \A b \in DOMAIN s.hdr : g.hdr[b].size_class_index = s.hdr[b].size_class_index

\* More blocks do no harm to the bins.
LEMMA ExtendsBins ==
  ASSUME NEW s, NEW g, NEW bins, Extends(s, g), GoodBins(s, bins)
  PROVE  GoodBins(g, bins)
  BY DEF Extends, GoodBins, Known

\* What a header says is a class, a flag, a magic and an address.
LEMMA HeaderTypes ==
  ASSUME NEW s, IsSmall(s), NEW b \in DOMAIN s.hdr
  PROVE  /\ s.hdr[b].size_class_index \in Classes
         /\ s.hdr[b].is_free \in BOOLEAN
         /\ s.hdr[b].magic \in {"SMALL", "FREED"}
         /\ s.hdr[b].next \in Nat
         /\ b \in Nat \ {NULL}
         /\ s.hdr[b] = [size_class_index |-> s.hdr[b].size_class_index,
                        is_free |-> s.hdr[b].is_free,
                        magic |-> s.hdr[b].magic,
                        next |-> s.hdr[b].next]
<1>1. s.hdr[b] \in ClassHeader /\ b \in Nat \ {NULL}
  BY DEF IsSmall
<1> QED BY <1>1 DEF ClassHeader

\* Taking the first block of a list keeps the blocks good.
LEMMA TakeFirstGood ==
  ASSUME NEW s, GoodBlocks(s), NEW c \in Classes, s.free_class_list[c] # NULL
  PROVE  /\ GoodBlocks(TakeFirst(s, c).small)
         /\ SameBlocks(s, TakeFirst(s, c).small)
         /\ TakeFirst(s, c).block = s.free_class_list[c]
         /\ s.free_class_list[c] \in DOMAIN s.hdr
<1> DEFINE g == TakeFirst(s, c).small
           b == s.free_class_list[c]
<1>1. IsSmall(s) /\ Apart(s) /\ b \in DOMAIN s.hdr
  BY DEF GoodBlocks, Known
<1>2. /\ TakeFirst(s, c).block = b
      /\ IsSmall(g)
      /\ SameBlocks(s, g)
      /\ \A d \in Classes : g.free_class_list[d] =
           IF d = c THEN s.hdr[b].next ELSE s.free_class_list[d]
      /\ g.hdr[b].next = s.hdr[b].next
      /\ \A d \in DOMAIN s.hdr \ {b} : g.hdr[d] = s.hdr[d]
  BY <1>1, TakeFirstFacts
<1> HIDE DEF g, b
<1>3. \A d \in DOMAIN s.hdr : g.hdr[d].next = s.hdr[d].next
  BY <1>2
<1>4. \A d \in Classes : g.free_class_list[d] \in Known(s)
  BY <1>1, <1>2 DEF GoodBlocks
<1>5. Known(g) = Known(s) /\ DOMAIN g.hdr = DOMAIN s.hdr
  BY <1>2 DEF SameBlocks, Known
<1>6. Apart(g)
  BY <1>1, <1>2, SameBlocksApart
<1> QED BY <1>1, <1>2, <1>3, <1>4, <1>5, <1>6 DEF GoodBlocks, g, b

\* A new pool keeps the blocks good and gives its class a list.
LEMMA NewPoolGood ==
  ASSUME NEW s, GoodBlocks(s), NEW c \in Classes,
         NEW base \in FreeBases(s, PoolSize(c))
  PROVE  /\ GoodBlocks(NewPool(s, base, c))
         /\ Extends(s, NewPool(s, base, c))
         /\ NewPool(s, base, c).free_class_list[c] # NULL
<1> DEFINE g == NewPool(s, base, c)
           n == SIZE_CLASS_BLOCKS_PER_POOL
           At(i) == BlockAt(base, c, i)
           blocks == {At(i) : i \in 0 .. n - 1}
<1>1. IsSmall(s) /\ Apart(s)
  BY DEF GoodBlocks
<1>2. /\ IsSmall(g)
      /\ Apart(g)
      /\ DOMAIN g.hdr = DOMAIN s.hdr \cup blocks
      /\ \A b \in DOMAIN s.hdr : g.hdr[b] = s.hdr[b]
      /\ \A d \in Classes : g.free_class_list[d] =
           IF d = c THEN At(n - 1) ELSE s.free_class_list[d]
      /\ \A i \in 0 .. n - 1 :
           g.hdr[At(i)].next = IF i = 0 THEN s.free_class_list[c] ELSE At(i - 1)
  BY <1>1, NewPoolFacts
<1> HIDE DEF g, At
<1>3. n \in Nat \ {0} /\ n - 1 \in 0 .. n - 1
  BY SmallAssumption
<1> HIDE DEF n
<1>4. At(n - 1) \in DOMAIN g.hdr /\ At(n - 1) # NULL
  <2>1. At(n - 1) \in DOMAIN g.hdr
    BY <1>2, <1>3
  <2> QED BY <2>1, <1>2, HeaderTypes
<1>5. Known(s) \subseteq Known(g)
  BY <1>2 DEF Known
<1>6. \A d \in Classes : g.free_class_list[d] \in Known(g)
  BY <1>2, <1>4, <1>5 DEF GoodBlocks, Known
<1>7. g.free_class_list[c] = At(n - 1)
  BY <1>2
<1>8. ASSUME NEW b \in DOMAIN g.hdr PROVE g.hdr[b].next \in Known(g)
  <2>1. CASE b \in DOMAIN s.hdr
    BY <2>1, <1>2, <1>5 DEF GoodBlocks
  <2>2. CASE b \in blocks
    <3>1. PICK i \in 0 .. n - 1 : b = At(i)
      BY <2>2
    <3>2. CASE i = 0
      BY <3>1, <3>2, <1>2, <1>5 DEF GoodBlocks
    <3>3. CASE i # 0
      <4>1. i - 1 \in 0 .. n - 1
        BY <3>3, <1>3
      <4> QED BY <3>1, <3>3, <4>1, <1>2 DEF Known
    <3> QED BY <3>2, <3>3
  <2> QED BY <2>1, <2>2, <1>2
<1>9. GoodBlocks(g)
  BY <1>2, <1>6, <1>8 DEF GoodBlocks
<1>10. Extends(s, g)
  BY <1>2 DEF Extends
<1> QED BY <1>4, <1>7, <1>9, <1>10 DEF g

\* dam_small_malloc_internal keeps the blocks good, whether it finds one or not.
LEMMA MallocGood ==
  ASSUME NEW s, GoodBlocks(s), NEW c \in Classes, NEW o \in MallocOutcomes(s, c)
  PROVE  /\ GoodBlocks(o.small)
         /\ Extends(s, o.small)
         /\ o.block # NULL => o.block \in DOMAIN o.small.hdr
<1>1. CASE s.free_class_list[c] # NULL
  BY <1>1, TakeFirstGood DEF MallocOutcomes, SameBlocks, Extends
<1>2. CASE o.small = s /\ o.block = NULL
  BY <1>2 DEF Extends
<1>3. ASSUME NEW base \in FreeBases(s, PoolSize(c)), o = TakeFirst(NewPool(s, base, c), c)
      PROVE  /\ GoodBlocks(o.small)
             /\ Extends(s, o.small)
             /\ o.block # NULL => o.block \in DOMAIN o.small.hdr
  <2> DEFINE g == NewPool(s, base, c)
  <2>1. GoodBlocks(g) /\ Extends(s, g) /\ g.free_class_list[c] # NULL
    BY NewPoolGood
  <2> HIDE DEF g
  <2>2. o = TakeFirst(g, c)
    BY <1>3 DEF g
  <2> QED BY <2>1, <2>2, TakeFirstGood DEF SameBlocks, Extends
<1> QED BY <1>1, <1>2, <1>3 DEF MallocOutcomes

\* Linking a block in front of a list of blocks keeps the blocks good.
LEMMA FreedGood ==
  ASSUME NEW s, GoodBlocks(s), NEW b \in DOMAIN s.hdr, NEW first \in Known(s)
  PROVE  /\ GoodBlocks(Freed(s, b, first))
         /\ SameBlocks(s, Freed(s, b, first))
         /\ Freed(s, b, first).free_class_list = s.free_class_list
<1> DEFINE g == Freed(s, b, first)
<1>1. IsSmall(s) /\ Apart(s) /\ first \in Nat
  BY DEF GoodBlocks, Known, IsSmall, NULL
<1>2. /\ IsSmall(g)
      /\ SameBlocks(s, g)
      /\ g.free_class_list = s.free_class_list
      /\ g.hdr[b].next = first
      /\ \A d \in DOMAIN s.hdr \ {b} : g.hdr[d] = s.hdr[d]
  BY <1>1, FreedFacts
<1> HIDE DEF g
<1>4. Known(g) = Known(s) /\ DOMAIN g.hdr = DOMAIN s.hdr
  BY <1>2 DEF SameBlocks, Known
<1>5. Apart(g)
  BY <1>1, <1>2, SameBlocksApart
<1>6. \A d \in DOMAIN g.hdr : g.hdr[d].next \in Known(g)
  BY <1>2, <1>4 DEF GoodBlocks
<1> QED BY <1>2, <1>4, <1>5, <1>6 DEF GoodBlocks, g

\* Another head for a central list changes nothing else.
LEMMA SetList ==
  ASSUME NEW s, IsSmall(s), NEW c \in Classes, NEW b \in Nat
  PROVE  LET g == [s EXCEPT !.free_class_list[c] = b]
         IN  /\ IsSmall(g)
             /\ g.hdr = s.hdr
             /\ g.mapped = s.mapped
             /\ g.free_class_list = [s.free_class_list EXCEPT ![c] = b]
<1> DEFINE g == [s EXCEPT !.free_class_list[c] = b]
           lists == [s.free_class_list EXCEPT ![c] = b]
<1>1. DOMAIN s = {"hdr", "free_class_list", "mapped"} /\ s.free_class_list \in [Classes -> Nat]
  BY DEF IsSmall
<1>2. lists \in [Classes -> Nat]
  BY <1>1
<1>3. /\ g.hdr = s.hdr
      /\ g.mapped = s.mapped
      /\ g.free_class_list = lists
      /\ g = [hdr |-> g.hdr, free_class_list |-> g.free_class_list, mapped |-> g.mapped]
  BY <1>1
<1> HIDE DEF g, lists
<1>4. IsSmall(g)
  BY <1>2, <1>3 DEF IsSmall
<1> QED BY <1>3, <1>4 DEF g, lists

\* dam_small_free_internal keeps the blocks good.
LEMMA FreeInternalGood ==
  ASSUME NEW s, GoodBlocks(s), NEW b \in DOMAIN s.hdr
  PROVE  GoodBlocks(FreeInternal(s, b)) /\ SameBlocks(s, FreeInternal(s, b))
<1> DEFINE c == s.hdr[b].size_class_index
           f == Freed(s, b, s.free_class_list[c])
           g == [f EXCEPT !.free_class_list[c] = b]
<1>1. c \in Classes /\ b \in Nat \ {NULL}
  BY HeaderTypes DEF GoodBlocks
<1>2. s.free_class_list[c] \in Known(s)
  BY <1>1 DEF GoodBlocks
<1>3. /\ GoodBlocks(f)
      /\ SameBlocks(s, f)
      /\ f.free_class_list = s.free_class_list
  BY <1>2, FreedGood
<1>4. CASE s.hdr[b].magic = "FREED"
  BY <1>4 DEF FreeInternal, SameBlocks
<1>5. CASE s.hdr[b].magic # "FREED"
  <2>1. FreeInternal(s, b) = g
    BY <1>5 DEF FreeInternal
  <2> HIDE DEF f, c
  <2>2. /\ IsSmall(g)
        /\ g.hdr = f.hdr
        /\ g.mapped = f.mapped
        /\ g.free_class_list = [f.free_class_list EXCEPT ![c] = b]
    BY <1>1, <1>3, SetList DEF GoodBlocks
  <2> HIDE DEF g
  <2>3. SameBlocks(s, g) /\ SameBlocks(f, g)
    BY <1>3, <2>2 DEF SameBlocks
  <2>4. Apart(g)
    BY <1>3, <2>3, SameBlocksApart DEF GoodBlocks
  <2>5. Known(g) = Known(f) /\ b \in Known(f)
    BY <1>3, <2>2 DEF Known, SameBlocks
  <2>6. \A d \in Classes : g.free_class_list[d] \in Known(g)
    BY <1>3, <2>2, <2>5 DEF GoodBlocks, IsSmall
  <2>7. GoodBlocks(g)
    BY <1>3, <2>2, <2>4, <2>5, <2>6 DEF GoodBlocks
  <2> QED BY <2>1, <2>3, <2>7
<1> QED BY <1>4, <1>5

\* A block that leaves a bin keeps the blocks good.
LEMMA UncachedGood ==
  ASSUME NEW s, GoodBlocks(s), NEW b \in DOMAIN s.hdr
  PROVE  LET g == Uncached(s, b)
         IN  /\ GoodBlocks(g)
             /\ SameBlocks(s, g)
             /\ g.free_class_list = s.free_class_list
             /\ ~ g.hdr[b].is_free
             /\ g.hdr[b].magic = "SMALL"
             /\ \A d \in DOMAIN s.hdr \ {b} : g.hdr[d] = s.hdr[d]
<1> DEFINE header == [s.hdr[b] EXCEPT !.is_free = FALSE, !.magic = "SMALL", !.next = NULL]
           g == Uncached(s, b)
<1>1. /\ s.hdr[b] \in ClassHeader
      /\ DOMAIN s = {"hdr", "free_class_list", "mapped"}
      /\ s.free_class_list \in [Classes -> Nat]
      /\ IsSmall(s)
      /\ Apart(s)
  BY DEF GoodBlocks, IsSmall
<1>2. /\ header \in ClassHeader
      /\ header.size_class_index = s.hdr[b].size_class_index
      /\ ~ header.is_free
      /\ header.magic = "SMALL"
      /\ header.next = NULL
  BY <1>1 DEF ClassHeader, NULL
<1>3. g = WithHeader(s, b, header, s.free_class_list)
  BY <1>1 DEF Uncached, IsSmall, WithHeader
<1> HIDE DEF header, g
<1>4. /\ IsSmall(g)
      /\ SameBlocks(s, g)
      /\ g.free_class_list = s.free_class_list
      /\ g.hdr[b] = header
      /\ \A d \in DOMAIN s.hdr \ {b} : g.hdr[d] = s.hdr[d]
  BY <1>1, <1>2, <1>3, SetHeader
<1>5. Known(g) = Known(s) /\ DOMAIN g.hdr = DOMAIN s.hdr
  BY <1>4 DEF SameBlocks, Known
<1>6. Apart(g)
  BY <1>1, <1>4, SameBlocksApart
<1>7. \A d \in DOMAIN g.hdr : g.hdr[d].next \in Known(g)
  BY <1>2, <1>4, <1>5 DEF GoodBlocks, Known
<1>8. GoodBlocks(g)
  BY <1>4, <1>5, <1>6, <1>7 DEF GoodBlocks
<1> QED BY <1>2, <1>4, <1>8 DEF g

\* One bin of one thread given another list.
LEMMA SetBin ==
  ASSUME NEW s, NEW bins, GoodBins(s, bins), NEW t \in Threads, NEW c \in Classes,
         NEW first \in Known(s), first \in Nat, NEW count \in 0 .. SIZE_MAX
  PROVE  LET new == [bins EXCEPT ![t][c] = [free_list |-> first, count |-> count]]
         IN  /\ GoodBins(s, new)
             /\ \A u \in Threads, d \in Classes :
                  new[u][d].free_list = IF u = t /\ d = c THEN first ELSE bins[u][d].free_list
<1> DEFINE bin == [free_list |-> first, count |-> count]
           new == [bins EXCEPT ![t][c] = bin]
<1>1. bin \in Bin /\ bin.free_list = first
  BY DEF Bin
<1> HIDE DEF bin
<1>2. bins \in [Threads -> [Classes -> Bin]]
  BY DEF GoodBins
<1>3. new \in [Threads -> [Classes -> Bin]]
  BY <1>1, <1>2
<1>4. ASSUME NEW u \in Threads, NEW d \in Classes
      PROVE  new[u][d].free_list = IF u = t /\ d = c THEN first ELSE bins[u][d].free_list
  BY <1>1, <1>2
<1> HIDE DEF new
<1>5. GoodBins(s, new)
  BY <1>3, <1>4 DEF GoodBins
<1> QED BY <1>4, <1>5 DEF new, bin

\* A counter of size_t that is decremented stays in size_t.
LEMMA DecrementType ==
  ASSUME NEW n \in 0 .. SIZE_MAX
  PROVE  Decrement(n) \in 0 .. SIZE_MAX
<1>1. SIZE_MAX \in Nat
  BY SmallAssumption
<1> QED BY <1>1, SMTT(30) DEF Decrement

-----------------------------------------------------------------------------
\* Types and places, mistaken calls included.

\* A well typed set of allocations.
Allocations(held) == held \in [DOMAIN held -> [size: Nat, traced: BOOLEAN]]

Others ==
  /\ thread_cache \in [Threads -> {"NULL", "MAP_FAILED", "mapped"}]
  /\ Allocations(live)
  /\ DOMAIN live \subseteq DOMAIN small.hdr
  /\ fault \in BOOLEAN

PlacesInv == GoodBlocks(small) /\ GoodBins(small, tc_bins) /\ Others

\* It says what the type invariant and the layout invariant say.
LEMMA PlacesInvImplies == PlacesInv => TypeOK /\ BlocksApart
  BY DEF PlacesInv, GoodBlocks, GoodBins, Others, Allocations, TypeOK, BlocksApart, Apart

\* What a client holds after it was given a block.
LEMMA HoldTypes ==
  ASSUME Allocations(live), NEW b, NEW size \in Nat, NEW traced \in BOOLEAN
  PROVE  /\ Allocations(Hold(b, size, traced))
         /\ DOMAIN Hold(b, size, traced) = DOMAIN live \cup {b}
<1> DEFINE r == [size |-> size, traced |-> traced]
<1>1. r \in [size: Nat, traced: BOOLEAN]
  OBVIOUS
<1> HIDE DEF r
<1>2. Hold(b, size, traced) = [x \in DOMAIN live \cup {b} |-> IF x = b THEN r ELSE live[x]]
  BY DEF Hold, r
<1> QED BY <1>1, <1>2 DEF Allocations

\* What a client holds after it gave a block up.
LEMMA LetGoTypes ==
  ASSUME Allocations(live), NEW b
  PROVE  Allocations(LetGo(b)) /\ DOMAIN LetGo(b) = DOMAIN live \ {b}
  BY DEF LetGo, Allocations

\* The pointer to the cache takes one of its three values.
LEMMA GetThreadCacheTypes ==
  ASSUME Others, NEW t \in Threads, NEW pointer \in GetThreadCache(t)
  PROVE  [thread_cache EXCEPT ![t] = pointer] \in [Threads -> {"NULL", "MAP_FAILED", "mapped"}]
<1>1. pointer \in {"NULL", "MAP_FAILED", "mapped"}
  BY DEF GetThreadCache, Others
<1> QED BY <1>1 DEF Others

\* The class of a request is a class.
LEMMA SizeToClassType ==
  ASSUME NEW size \in Nat, NEW traced \in BOOLEAN
  PROVE  SizeToClass(size, traced) \in Classes
<1> DEFINE n == IF traced THEN size + TRACE_SIZE ELSE size
           fitting == {c \in Classes : n <= BlockSize(c)}
<1>1. Classes \subseteq Nat /\ DAM_SIZE_CLASS_COUNT - 1 \in Classes
  BY SmallAssumption DEF Classes
<1>2. SizeToClass(size, traced) = IF fitting = {} THEN DAM_SIZE_CLASS_COUNT - 1 ELSE Min(fitting)
  BY DEF SizeToClass
<1>3. fitting # {} => Min(fitting) \in fitting
  BY <1>1, LeastNumber
<1> QED BY <1>1, <1>2, <1>3

\* malloc of a cached block.
LEMMA CacheHitPlaces ==
  ASSUME PlacesInv, NEW t \in Threads, NEW size \in Sizes, NEW traced \in BOOLEAN,
         CacheHit(t, size, traced)
  PROVE  PlacesInv'
<1> DEFINE c == SizeToClass(size, traced)
           b == tc_bins[t][c].free_list
           n == Decrement(tc_bins[t][c].count)
<1>1. size \in Nat
  BY SmallAssumption
<1>2. c \in Classes
  BY <1>1, SizeToClassType
<1> HIDE DEF c
<1>3. /\ b # NULL
      /\ tc_bins' = [tc_bins EXCEPT ![t][c] = [free_list |-> small.hdr[b].next, count |-> n]]
      /\ small' = Uncached(small, b)
      /\ live' = Hold(b, size, traced)
      /\ thread_cache' = thread_cache
      /\ fault' = fault
  BY DEF CacheHit, c
<1>4. b \in DOMAIN small.hdr /\ tc_bins[t][c].count \in 0 .. SIZE_MAX
  BY <1>2, <1>3 DEF PlacesInv, GoodBins, Known, Bin
<1>5. n \in 0 .. SIZE_MAX
  BY <1>4, DecrementType
<1>6. GoodBlocks(small') /\ SameBlocks(small, small')
  BY <1>3, <1>4, UncachedGood DEF PlacesInv
<1>7. small.hdr[b].next \in Known(small) /\ small.hdr[b].next \in Nat
  BY <1>4, HeaderTypes DEF PlacesInv, GoodBlocks
<1> HIDE DEF b, n
<1>8. GoodBins(small, tc_bins')
  BY <1>2, <1>3, <1>5, <1>7, SetBin DEF PlacesInv
<1>9. GoodBins(small', tc_bins')
  BY <1>6, <1>8, ExtendsBins DEF SameBlocks, Extends
<1>10. Others'
  <2>1. Allocations(live') /\ DOMAIN live' = DOMAIN live \cup {b}
    BY <1>1, <1>3, HoldTypes DEF PlacesInv, Others
  <2> QED BY <2>1, <1>3, <1>4, <1>6 DEF PlacesInv, Others, SameBlocks
<1> QED BY <1>6, <1>9, <1>10 DEF PlacesInv

\* malloc from a central list.
LEMMA MallocCentralPlaces ==
  ASSUME PlacesInv, NEW t \in Threads, NEW size \in Sizes, NEW traced \in BOOLEAN,
         MallocCentral(t, size, traced)
  PROVE  PlacesInv'
<1> DEFINE c == SizeToClass(size, traced)
<1>1. size \in Nat
  BY SmallAssumption
<1>2. c \in Classes
  BY <1>1, SizeToClassType
<1>3. PICK pointer \in GetThreadCache(t) : thread_cache' = [thread_cache EXCEPT ![t] = pointer]
  BY DEF MallocCentral
<1>4. PICK o \in MallocOutcomes(small, c) :
        /\ small' = o.small
        /\ live' = IF o.block = NULL THEN live ELSE Hold(o.block, size, traced)
  BY DEF MallocCentral
<1>5. tc_bins' = tc_bins /\ fault' = fault
  BY DEF MallocCentral
<1> HIDE DEF c
<1>6. /\ GoodBlocks(o.small)
      /\ Extends(small, o.small)
      /\ o.block # NULL => o.block \in DOMAIN o.small.hdr
  BY <1>2, MallocGood DEF PlacesInv
<1>7. GoodBins(small', tc_bins')
  BY <1>4, <1>5, <1>6, ExtendsBins DEF PlacesInv
<1>8. thread_cache' \in [Threads -> {"NULL", "MAP_FAILED", "mapped"}]
  BY <1>3, GetThreadCacheTypes DEF PlacesInv
<1>9. Others'
  <2>1. /\ Allocations(live')
        /\ \/ DOMAIN live' = DOMAIN live
           \/ o.block # NULL /\ DOMAIN live' = DOMAIN live \cup {o.block}
    BY <1>1, <1>4, HoldTypes DEF PlacesInv, Others
  <2> QED BY <2>1, <1>4, <1>5, <1>6, <1>8 DEF PlacesInv, Others, Extends
<1> QED BY <1>4, <1>6, <1>7, <1>9 DEF PlacesInv

\* free, by either path, of any block, held or not.
LEMMA FreePlaces ==
  ASSUME PlacesInv, NEW t \in Threads, NEW b \in DOMAIN small.hdr, Free(t, b)
  PROVE  PlacesInv'
<1> DEFINE c == small.hdr[b].size_class_index
<1>1. c \in Classes /\ b \in Nat /\ IsSmall(small)
  BY HeaderTypes DEF PlacesInv, GoodBlocks
<1>2. thread_cache' \in [Threads -> {"NULL", "MAP_FAILED", "mapped"}]
  BY GetThreadCacheTypes DEF PlacesInv, Free, FreeCached, FreeCentral
<1>3. live' = LetGo(b) /\ fault' = fault
  BY DEF Free, FreeCached, FreeCentral
<1>4. SameBlocks(small, small') => Others'
  BY <1>2, <1>3, LetGoTypes DEF PlacesInv, Others, SameBlocks
<1>5. CASE FreeCached(t, b)
  <2> DEFINE first == tc_bins[t][c].free_list
             n == tc_bins[t][c].count
  <2>1. /\ small' = Freed(small, b, first)
        /\ tc_bins' = [tc_bins EXCEPT ![t][c] = [free_list |-> b, count |-> n + 1]]
        /\ n < THREAD_CACHE_MAX_BLOCKS_PER_CLASS
    BY <1>5 DEF FreeCached, HasRoom
  <2> HIDE DEF c
  <2>2. first \in Known(small) /\ n \in 0 .. SIZE_MAX
    BY <1>1 DEF PlacesInv, GoodBins, Bin
  <2>3. n + 1 \in 0 .. SIZE_MAX
    BY <2>1, <2>2, SmallAssumption
  <2> HIDE DEF first, n
  <2>4. GoodBlocks(small') /\ SameBlocks(small, small')
    BY <2>1, <2>2, FreedGood DEF PlacesInv
  <2>5. GoodBins(small, tc_bins')
    BY <1>1, <2>1, <2>3, SetBin DEF PlacesInv, Known
  <2>6. GoodBins(small', tc_bins')
    BY <2>4, <2>5, ExtendsBins DEF SameBlocks, Extends
  <2> QED BY <1>4, <2>4, <2>6 DEF PlacesInv
<1>6. CASE FreeCentral(t, b)
  <2>1. small' = FreeInternal(small, b) /\ tc_bins' = tc_bins
    BY <1>6 DEF FreeCentral
  <2>2. GoodBlocks(small') /\ SameBlocks(small, small')
    BY <2>1, FreeInternalGood DEF PlacesInv
  <2>3. GoodBins(small', tc_bins')
    BY <2>1, <2>2, ExtendsBins DEF PlacesInv, SameBlocks, Extends
  <2> QED BY <1>4, <2>2, <2>3 DEF PlacesInv
<1> QED BY <1>5, <1>6 DEF Free

\* realloc, of any block, held or not.
LEMMA ReallocPlaces ==
  ASSUME PlacesInv, NEW t \in Threads, NEW b \in DOMAIN small.hdr, NEW size \in Sizes,
         Realloc(t, b, size)
  PROVE  PlacesInv'
<1>1. size \in Nat
  BY SmallAssumption
<1>2. CASE ReallocInPlace(b, size)
  <2>1. /\ live' = Hold(b, size, FALSE)
        /\ small' = small /\ tc_bins' = tc_bins
        /\ thread_cache' = thread_cache /\ fault' = fault
    BY <1>2 DEF ReallocInPlace
  <2>2. Others'
    <3>1. Allocations(live') /\ DOMAIN live' = DOMAIN live \cup {b}
      BY <1>1, <2>1, HoldTypes DEF PlacesInv, Others
    <3> QED BY <2>1, <3>1 DEF PlacesInv, Others
  <2> QED BY <2>1, <2>2 DEF PlacesInv
<1>3. CASE ReallocGrow(b, size)
  <2> DEFINE c == SizeToClass(size, FALSE)
  <2>1. c \in Classes
    BY <1>1, SizeToClassType
  <2>2. PICK o \in MallocOutcomes(small, c) :
          \/ o.block = NULL /\ small' = small /\ live' = live
          \/ /\ o.block # NULL
             /\ small' = FreeInternal(o.small, b)
             /\ live' = [x \in (DOMAIN live \ {b}) \cup {o.block} |->
                           IF x = o.block THEN [size |-> size, traced |-> FALSE]
                           ELSE live[x]]
    BY <1>3 DEF ReallocGrow
  <2>3. tc_bins' = tc_bins /\ thread_cache' = thread_cache /\ fault' = fault
    BY <1>3 DEF ReallocGrow
  <2> HIDE DEF c
  <2>4. /\ GoodBlocks(o.small)
        /\ Extends(small, o.small)
        /\ o.block # NULL => o.block \in DOMAIN o.small.hdr
    BY <2>1, MallocGood DEF PlacesInv
  <2>5. CASE o.block = NULL
    <3>1. small' = small /\ live' = live
      BY <2>2, <2>5
    <3> QED BY <2>3, <3>1 DEF PlacesInv, Others
  <2>6. CASE o.block # NULL
    <3>1. b \in DOMAIN o.small.hdr
      BY <2>4 DEF Extends
    <3>2. GoodBlocks(small') /\ SameBlocks(o.small, small')
      BY <2>2, <2>4, <2>6, <3>1, FreeInternalGood
    <3>3. Extends(small, small')
      BY <2>4, <3>2 DEF SameBlocks, Extends
    <3>4. GoodBins(small', tc_bins')
      BY <2>3, <3>3, ExtendsBins DEF PlacesInv
    <3>5. Others'
      <4> DEFINE r == [size |-> size, traced |-> FALSE]
                 D == (DOMAIN live \ {b}) \cup {o.block}
      <4>1. r \in [size: Nat, traced: BOOLEAN]
        BY <1>1
      <4>2. live' = [x \in D |-> IF x = o.block THEN r ELSE live[x]]
        BY <2>2, <2>6
      <4> HIDE DEF r
      <4>3. Allocations(live') /\ DOMAIN live' = D
        BY <4>1, <4>2 DEF PlacesInv, Others, Allocations
      <4>4. D \subseteq DOMAIN small'.hdr
        BY <2>4, <2>6, <3>2, <3>3 DEF PlacesInv, Others, SameBlocks, Extends
      <4> QED BY <2>3, <4>3, <4>4 DEF PlacesInv, Others
    <3> QED BY <3>2, <3>4, <3>5 DEF PlacesInv
  <2> QED BY <2>5, <2>6
<1>4. CASE ReallocOut(t, b, size)
  BY <1>4, FreePlaces DEF ReallocOut
<1> QED BY <1>2, <1>3, <1>4 DEF Realloc

\* No list, no block, no cache: a good start.
LEMMA InitPlaces == Init => PlacesInv
<1> SUFFICES ASSUME Init PROVE PlacesInv
  OBVIOUS
<1>1. /\ small.hdr = <<>> /\ small.mapped = <<>>
      /\ small.free_class_list = [c \in Classes |-> NULL]
      /\ small = [hdr |-> small.hdr, free_class_list |-> small.free_class_list,
                  mapped |-> small.mapped]
  BY DEF Init
<1>2. DOMAIN small.hdr = {} /\ DOMAIN small.mapped = {} /\ DOMAIN live = {}
  BY <1>1 DEF Init
<1>3. IsSmall(small)
  BY <1>1, <1>2 DEF IsSmall, NULL
<1>4. GoodBlocks(small)
  BY <1>1, <1>2, <1>3 DEF GoodBlocks, Apart, Known
<1>5. EmptyBins \in [Classes -> Bin] /\ \A c \in Classes : EmptyBins[c].free_list = NULL
  BY SmallAssumption DEF EmptyBins, Bin, NULL
<1>6. GoodBins(small, tc_bins)
  BY <1>5 DEF Init, GoodBins, Known
<1>7. Allocations(live)
  BY <1>2, live = [x \in {} |-> live[x]] DEF Init, Allocations
<1>8. Others
  BY <1>2, <1>7 DEF Init, Others
<1> QED BY <1>4, <1>6, <1>8 DEF PlacesInv

\* Every step keeps the blocks and the types in order.
LEMMA NextPlaces == PlacesInv /\ [Next]_vars => PlacesInv'
<1> SUFFICES ASSUME PlacesInv, [Next]_vars PROVE PlacesInv'
  OBVIOUS
<1>1. CASE UNCHANGED vars
  BY <1>1 DEF vars, PlacesInv, Others
<1>2. ASSUME NEW t \in Threads, Call(t) PROVE PlacesInv'
  <2>1. DOMAIN live \subseteq DOMAIN small.hdr /\ Stale \subseteq DOMAIN small.hdr
    BY DEF PlacesInv, Others, Stale
  <2>2. ASSUME NEW size \in Sizes, NEW traced \in BOOLEAN,
               CacheHit(t, size, traced) \/ MallocCentral(t, size, traced)
        PROVE  PlacesInv'
    BY <2>2, CacheHitPlaces, MallocCentralPlaces
  <2>3. ASSUME NEW b \in DOMAIN small.hdr, Free(t, b) PROVE PlacesInv'
    BY <2>3, FreePlaces
  <2>4. ASSUME NEW b \in DOMAIN small.hdr, NEW size \in Sizes, Realloc(t, b, size)
        PROVE  PlacesInv'
    BY <2>4, ReallocPlaces
  <2> QED BY <1>2, <2>1, <2>2, <2>3, <2>4 DEF Call
<1>3. ASSUME NEW t \in Threads, CacheFault(t) \/ Snapshot(t) PROVE PlacesInv'
  BY <1>3 DEF CacheFault, Snapshot, PlacesInv, Others
<1>4. ASSUME NEW t \in Threads, Exit(t) PROVE PlacesInv'
  <2>1. EmptyBins \in [Classes -> Bin] /\ \A c \in Classes : EmptyBins[c].free_list = NULL
    BY SmallAssumption DEF EmptyBins, Bin, NULL
  <2>2. GoodBins(small, tc_bins')
    BY <1>4, <2>1 DEF Exit, PlacesInv, GoodBins, Known
  <2> QED BY <1>4, <2>2 DEF Exit, PlacesInv, Others
<1> QED BY <1>1, <1>2, <1>3, <1>4 DEF Next

\* The structures of the layer and of the caches are well typed in every reachable
\* state, double frees and reallocs of freed pointers included; a live traced pointer is
\* neither freed nor reallocated (small.c, thread.c).
THEOREM SmallTypeCorrect == Spec => []TypeOK
<1>1. Spec => []PlacesInv
  BY InitPlaces, NextPlaces, PTL DEF Spec
<1> QED BY <1>1, PlacesInvImplies, PTL

\* No two blocks overlap, headers included, and none leaves its pool or lies on its
\* header (create_small_pool).
THEOREM BlocksAlwaysApart == Spec => []BlocksApart
<1>1. Spec => []PlacesInv
  BY InitPlaces, NextPlaces, PTL DEF Spec
<1> QED BY <1>1, PlacesInvImplies, PTL

-----------------------------------------------------------------------------
\* Requests fit their blocks, mistaken calls included.

\* Every pointer of a list leads to a block of the list's class.
SameClass(s) ==
  /\ \A c \in Classes : s.free_class_list[c] # NULL =>
       s.hdr[s.free_class_list[c]].size_class_index = c
  /\ \A b \in DOMAIN s.hdr : s.hdr[b].next # NULL =>
       s.hdr[s.hdr[b].next].size_class_index = s.hdr[b].size_class_index

SameClassBins(s, bins) ==
  \A t \in Threads, c \in Classes : bins[t][c].free_list # NULL =>
    s.hdr[bins[t][c].free_list].size_class_index = c

\* Room(n, c): a block of class c has n bytes for its client.
Room(n, c) == n <= BlockSize(c)

\* What an allocation takes of its block.
Takes(a) == a.size + IF a.traced THEN TRACE_SIZE ELSE 0

Fit(s, held) ==
  \A b \in DOMAIN held : Room(Takes(held[b]), s.hdr[b].size_class_index)

\* The clients' traced requests leave room for their trace in the largest class; dam_malloc
\* looks only at the bytes asked for when it picks the layer.
TracesFit ==
  "trace" \in Calls =>
    \A size \in Sizes : LayerForSize(size) = "SMALL" => size + TRACE_SIZE <= DAM_SMALL_MAX

\* The class chosen for a request has the room for it.
LEMMA ClassFits ==
  ASSUME NEW size \in Nat, NEW traced \in BOOLEAN,
         NEW n \in Nat, n = size + IF traced THEN TRACE_SIZE ELSE 0, n <= DAM_SMALL_MAX
  PROVE  Room(n, SizeToClass(size, traced))
<1> DEFINE fitting == {c \in Classes : n <= BlockSize(c)}
<1>1. n = IF traced THEN size + TRACE_SIZE ELSE size
  BY SmallAssumption
<1>2. SizeToClass(size, traced) = IF fitting = {} THEN DAM_SIZE_CLASS_COUNT - 1 ELSE Min(fitting)
  BY <1>1 DEF SizeToClass
<1>3. DAM_SIZE_CLASS_COUNT - 1 \in fitting
  BY SmallAssumption DEF Classes
<1>4. Min(fitting) \in fitting
  <2>1. fitting \subseteq Nat /\ fitting # {}
    BY <1>3 DEF Classes
  <2> QED BY <2>1, LeastNumber
<1>5. SizeToClass(size, traced) \in fitting
  BY <1>2, <1>3, <1>4
<1> QED BY <1>5 DEF Room

\* The small layer serves what is no larger than its largest class.
LEMMA SmallSizes ==
  ASSUME NEW size \in Nat, LayerForSize(size) = "SMALL"
  PROVE  size <= DAM_SMALL_MAX
<1>1. DAM_SMALL_MAX \in Nat /\ DAM_GENERAL_MAX \in Nat
  BY ConfigAssumption
<1>2. CASE size = 0
  BY <1>1, <1>2
<1>3. CASE size # 0 /\ size > DAM_SMALL_MAX
  <2>1. LayerForSize(size) # "SMALL"
    BY <1>1, <1>3 DEF LayerForSize
  <2> QED BY <2>1
<1> QED BY <1>1, <1>2, <1>3

\* The block of a list that is taken or was taken keeps every pointer in its class.
LEMMA TakeFirstClass ==
  ASSUME NEW s, GoodBlocks(s), SameClass(s), NEW c \in Classes, s.free_class_list[c] # NULL
  PROVE  /\ SameClass(TakeFirst(s, c).small)
         /\ TakeFirst(s, c).small.hdr[s.free_class_list[c]].size_class_index = c
<1> DEFINE g == TakeFirst(s, c).small
           b == s.free_class_list[c]
<1>1. IsSmall(s) /\ b \in DOMAIN s.hdr
  BY DEF GoodBlocks, Known
<1>2. /\ SameBlocks(s, g)
      /\ \A d \in Classes : g.free_class_list[d] =
           IF d = c THEN s.hdr[b].next ELSE s.free_class_list[d]
      /\ g.hdr[b].next = s.hdr[b].next
      /\ \A d \in DOMAIN s.hdr \ {b} : g.hdr[d] = s.hdr[d]
  BY <1>1, TakeFirstFacts
<1> HIDE DEF g
<1>3. \A d \in DOMAIN s.hdr : g.hdr[d].next = s.hdr[d].next /\ s.hdr[d].next \in Known(s)
  BY <1>2 DEF GoodBlocks
<1>4. /\ DOMAIN g.hdr = DOMAIN s.hdr
      /\ \A d \in DOMAIN s.hdr : g.hdr[d].size_class_index = s.hdr[d].size_class_index
  BY <1>2 DEF SameBlocks
<1>5. s.hdr[b].size_class_index = c
  BY DEF SameClass
<1> HIDE DEF b
<1>6. ASSUME NEW d \in Classes, g.free_class_list[d] # NULL
      PROVE  g.hdr[g.free_class_list[d]].size_class_index = d
  <2>1. CASE d = c
    <3>1. g.free_class_list[d] = s.hdr[b].next /\ s.hdr[b].next \in DOMAIN s.hdr
      BY <2>1, <1>1, <1>2, <1>3, <1>6 DEF Known
    <3> QED BY <2>1, <3>1, <1>1, <1>4, <1>5, <1>6 DEF SameClass
  <2>2. CASE d # c
    <3>1. g.free_class_list[d] = s.free_class_list[d] /\ s.free_class_list[d] \in DOMAIN s.hdr
      BY <2>2, <1>2, <1>6 DEF GoodBlocks, Known
    <3> QED BY <3>1, <1>4, <1>6 DEF SameClass
  <2> QED BY <2>1, <2>2
<1>7. \A d \in DOMAIN g.hdr : g.hdr[d].next # NULL =>
        g.hdr[g.hdr[d].next].size_class_index = g.hdr[d].size_class_index
  BY <1>3, <1>4 DEF SameClass, Known
<1>8. SameClass(g)
  BY <1>6, <1>7 DEF SameClass
<1> QED BY <1>1, <1>4, <1>5, <1>8 DEF g, b

\* The blocks of a new pool are linked to blocks of their own class.
LEMMA NewPoolClass ==
  ASSUME NEW s, GoodBlocks(s), SameClass(s), NEW c \in Classes,
         NEW base \in FreeBases(s, PoolSize(c))
  PROVE  SameClass(NewPool(s, base, c))
<1> DEFINE g == NewPool(s, base, c)
           n == SIZE_CLASS_BLOCKS_PER_POOL
           At(i) == BlockAt(base, c, i)
           blocks == {At(i) : i \in 0 .. n - 1}
<1>1. IsSmall(s) /\ Apart(s)
  BY DEF GoodBlocks
<1>2. /\ DOMAIN g.hdr = DOMAIN s.hdr \cup blocks
      /\ \A b \in DOMAIN s.hdr : g.hdr[b] = s.hdr[b]
      /\ \A d \in Classes : g.free_class_list[d] =
           IF d = c THEN At(n - 1) ELSE s.free_class_list[d]
      /\ \A i \in 0 .. n - 1 :
           /\ g.hdr[At(i)].size_class_index = c
           /\ g.hdr[At(i)].next = IF i = 0 THEN s.free_class_list[c] ELSE At(i - 1)
  BY <1>1, NewPoolFacts
<1> HIDE DEF g, At
<1>3. n \in Nat \ {0} /\ n - 1 \in 0 .. n - 1
  BY SmallAssumption
<1> HIDE DEF n
<1>4. \A d \in Classes : s.free_class_list[d] # NULL =>
        /\ s.free_class_list[d] \in DOMAIN s.hdr
        /\ g.hdr[s.free_class_list[d]].size_class_index = d
  BY <1>2 DEF GoodBlocks, Known, SameClass
<1>5. ASSUME NEW d \in Classes, g.free_class_list[d] # NULL
      PROVE  g.hdr[g.free_class_list[d]].size_class_index = d
  BY <1>2, <1>3, <1>4, <1>5
<1>6. ASSUME NEW b \in DOMAIN g.hdr, g.hdr[b].next # NULL
      PROVE  g.hdr[g.hdr[b].next].size_class_index = g.hdr[b].size_class_index
  <2>1. CASE b \in DOMAIN s.hdr
    <3>1. g.hdr[b] = s.hdr[b] /\ s.hdr[b].next \in DOMAIN s.hdr
      BY <2>1, <1>2, <1>6 DEF GoodBlocks, Known
    <3> QED BY <2>1, <3>1, <1>2, <1>6 DEF SameClass
  <2>2. ASSUME NEW i \in 0 .. n - 1, b = At(i)
        PROVE  g.hdr[g.hdr[b].next].size_class_index = g.hdr[b].size_class_index
    <3>1. CASE i = 0
      BY <2>2, <3>1, <1>2, <1>4, <1>6
    <3>2. CASE i # 0
      <4>1. i - 1 \in 0 .. n - 1
        BY <3>2, <1>3
      <4> QED BY <2>2, <3>2, <4>1, <1>2
    <3> QED BY <3>1, <3>2
  <2> QED BY <2>1, <2>2, <1>2
<1> QED BY <1>5, <1>6 DEF SameClass, g

\* dam_small_malloc_internal returns a block of the class it was asked for.
LEMMA MallocClass ==
  ASSUME NEW s, GoodBlocks(s), SameClass(s), NEW c \in Classes, NEW o \in MallocOutcomes(s, c)
  PROVE  /\ SameClass(o.small)
         /\ o.block # NULL => o.small.hdr[o.block].size_class_index = c
<1>1. CASE s.free_class_list[c] # NULL
  <2>1. o = TakeFirst(s, c)
    BY <1>1 DEF MallocOutcomes
  <2> QED BY <1>1, <2>1, TakeFirstClass, TakeFirstGood
<1>2. CASE o.small = s /\ o.block = NULL
  BY <1>2
<1>3. ASSUME NEW base \in FreeBases(s, PoolSize(c)), o = TakeFirst(NewPool(s, base, c), c)
      PROVE  /\ SameClass(o.small)
             /\ o.block # NULL => o.small.hdr[o.block].size_class_index = c
  <2> DEFINE g == NewPool(s, base, c)
  <2>1. GoodBlocks(g) /\ SameClass(g) /\ g.free_class_list[c] # NULL
    BY NewPoolGood, NewPoolClass
  <2> HIDE DEF g
  <2>2. o = TakeFirst(g, c)
    BY <1>3 DEF g
  <2> QED BY <2>1, <2>2, TakeFirstClass, TakeFirstGood
<1> QED BY <1>1, <1>2, <1>3 DEF MallocOutcomes

\* Linking a block in front of a list of its class keeps every pointer in its class.
LEMMA FreedClass ==
  ASSUME NEW s, GoodBlocks(s), SameClass(s), NEW b \in DOMAIN s.hdr, NEW first \in Known(s),
         first # NULL => s.hdr[first].size_class_index = s.hdr[b].size_class_index
  PROVE  SameClass(Freed(s, b, first))
<1> DEFINE g == Freed(s, b, first)
<1>1. IsSmall(s) /\ first \in Nat
  BY DEF GoodBlocks, Known, IsSmall, NULL
<1>2. /\ SameBlocks(s, g)
      /\ g.free_class_list = s.free_class_list
      /\ g.hdr[b].next = first
      /\ \A d \in DOMAIN s.hdr \ {b} : g.hdr[d] = s.hdr[d]
  BY <1>1, FreedFacts
<1> HIDE DEF g
<1>3. /\ DOMAIN g.hdr = DOMAIN s.hdr
      /\ \A d \in DOMAIN s.hdr : g.hdr[d].size_class_index = s.hdr[d].size_class_index
  BY <1>2 DEF SameBlocks
<1>4. ASSUME NEW d \in DOMAIN g.hdr, g.hdr[d].next # NULL
      PROVE  g.hdr[g.hdr[d].next].size_class_index = g.hdr[d].size_class_index
  <2>1. CASE d = b
    BY <2>1, <1>2, <1>3, <1>4 DEF Known
  <2>2. CASE d # b
    <3>1. g.hdr[d] = s.hdr[d] /\ s.hdr[d].next \in DOMAIN s.hdr /\ d \in DOMAIN s.hdr
      BY <2>2, <1>2, <1>3, <1>4 DEF GoodBlocks, Known
    <3> QED BY <3>1, <1>3, <1>4 DEF SameClass
  <2> QED BY <2>1, <2>2
<1>5. \A d \in Classes : g.free_class_list[d] # NULL =>
        g.hdr[g.free_class_list[d]].size_class_index = d
  BY <1>2, <1>3 DEF SameClass, GoodBlocks, Known
<1> QED BY <1>4, <1>5 DEF SameClass, g

\* So does dam_small_free_internal.
LEMMA FreeInternalClass ==
  ASSUME NEW s, GoodBlocks(s), SameClass(s), NEW b \in DOMAIN s.hdr
  PROVE  SameClass(FreeInternal(s, b))
<1> DEFINE c == s.hdr[b].size_class_index
           f == Freed(s, b, s.free_class_list[c])
           g == [f EXCEPT !.free_class_list[c] = b]
<1>1. c \in Classes /\ b \in Nat \ {NULL}
  BY HeaderTypes DEF GoodBlocks
<1>2. s.free_class_list[c] \in Known(s)
  BY <1>1 DEF GoodBlocks
<1>3. s.free_class_list[c] # NULL => s.hdr[s.free_class_list[c]].size_class_index = c
  BY <1>1 DEF SameClass
<1>4. GoodBlocks(f) /\ SameBlocks(s, f) /\ SameClass(f)
  BY <1>2, <1>3, FreedGood, FreedClass
<1>5. CASE s.hdr[b].magic = "FREED"
  BY <1>5 DEF FreeInternal
<1>6. CASE s.hdr[b].magic # "FREED"
  <2>1. FreeInternal(s, b) = g
    BY <1>6 DEF FreeInternal
  <2>2. f.hdr[b].size_class_index = c
    BY <1>4 DEF SameBlocks
  <2> HIDE DEF f, c
  <2>3. g.hdr = f.hdr /\ g.free_class_list = [f.free_class_list EXCEPT ![c] = b]
    BY <1>1, <1>4, SetList DEF GoodBlocks
  <2>4. f.free_class_list \in [Classes -> Nat]
    BY <1>4 DEF GoodBlocks, IsSmall
  <2> HIDE DEF g
  <2>5. SameClass(g)
    BY <1>1, <1>4, <2>2, <2>3, <2>4 DEF SameClass
  <2> QED BY <2>1, <2>5
<1> QED BY <1>5, <1>6

\* A block that leaves a bin, its next cleared.
LEMMA UncachedClass ==
  ASSUME NEW s, GoodBlocks(s), SameClass(s), NEW b \in DOMAIN s.hdr
  PROVE  SameClass(Uncached(s, b)) /\ Uncached(s, b).hdr[b].next = NULL
<1> DEFINE header == [s.hdr[b] EXCEPT !.is_free = FALSE, !.magic = "SMALL", !.next = NULL]
           g == Uncached(s, b)
<1>1. g.hdr[b] = header /\ s.hdr[b] \in ClassHeader
  BY DEF Uncached, GoodBlocks, IsSmall
<1>2. header.next = NULL
  BY <1>1 DEF ClassHeader
<1> HIDE DEF header
<1>3. /\ SameBlocks(s, g)
      /\ g.free_class_list = s.free_class_list
      /\ \A d \in DOMAIN s.hdr \ {b} : g.hdr[d] = s.hdr[d]
  BY UncachedGood
<1> HIDE DEF g
<1>4. /\ DOMAIN g.hdr = DOMAIN s.hdr
      /\ \A d \in DOMAIN s.hdr : g.hdr[d].size_class_index = s.hdr[d].size_class_index
  BY <1>3 DEF SameBlocks
<1>5. ASSUME NEW d \in DOMAIN g.hdr, g.hdr[d].next # NULL
      PROVE  g.hdr[g.hdr[d].next].size_class_index = g.hdr[d].size_class_index
  <2>1. d # b /\ g.hdr[d] = s.hdr[d]
    BY <1>1, <1>2, <1>3, <1>4, <1>5
  <2>2. s.hdr[d].next \in DOMAIN s.hdr /\ d \in DOMAIN s.hdr
    BY <2>1, <1>4, <1>5 DEF GoodBlocks, Known
  <2> QED BY <2>1, <2>2, <1>4, <1>5 DEF SameClass
<1>6. \A d \in Classes : g.free_class_list[d] # NULL =>
        g.hdr[g.free_class_list[d]].size_class_index = d
  BY <1>3, <1>4 DEF SameClass, GoodBlocks, Known
<1> QED BY <1>1, <1>2, <1>5, <1>6 DEF SameClass, g

\* More blocks, and other flags and links, leave the bins and the allocations what they are.
LEMMA ExtendsClass ==
  ASSUME NEW s, NEW g, Extends(s, g)
  PROVE  /\ \A bins : GoodBins(s, bins) /\ SameClassBins(s, bins) => SameClassBins(g, bins)
         /\ \A held : DOMAIN held \subseteq DOMAIN s.hdr /\ Fit(s, held) => Fit(g, held)
<1>1. ASSUME NEW bins, GoodBins(s, bins), SameClassBins(s, bins)
      PROVE  SameClassBins(g, bins)
  BY <1>1 DEF Extends, GoodBins, Known, SameClassBins
<1>2. ASSUME NEW held, DOMAIN held \subseteq DOMAIN s.hdr, Fit(s, held)
      PROVE  Fit(g, held)
  BY <1>2 DEF Extends, Fit
<1> QED BY <1>1, <1>2

\* One bin given another list of its class.
LEMMA SetBinClass ==
  ASSUME NEW s, NEW bins, GoodBins(s, bins), SameClassBins(s, bins),
         NEW t \in Threads, NEW c \in Classes, NEW first \in Known(s), first \in Nat,
         first # NULL => s.hdr[first].size_class_index = c,
         NEW count \in 0 .. SIZE_MAX
  PROVE  SameClassBins(s, [bins EXCEPT ![t][c] = [free_list |-> first, count |-> count]])
<1> DEFINE new == [bins EXCEPT ![t][c] = [free_list |-> first, count |-> count]]
<1>1. \A u \in Threads, d \in Classes :
        new[u][d].free_list = IF u = t /\ d = c THEN first ELSE bins[u][d].free_list
  <2> DEFINE bin == [free_list |-> first, count |-> count]
  <2>1. bin.free_list = first
    OBVIOUS
  <2> HIDE DEF bin
  <2>2. new = [bins EXCEPT ![t][c] = bin] /\ bins \in [Threads -> [Classes -> Bin]]
    BY DEF bin, GoodBins
  <2> QED BY <2>1, <2>2
<1> HIDE DEF new
<1>2. SameClassBins(s, new)
  BY <1>1 DEF SameClassBins
<1> QED BY <1>2 DEF new

\* A client that gets a block with room for its request.
LEMMA HoldFits ==
  ASSUME NEW s, Allocations(live), Fit(s, live), NEW b, NEW size \in Nat, NEW traced \in BOOLEAN,
         Room(size + IF traced THEN TRACE_SIZE ELSE 0, s.hdr[b].size_class_index)
  PROVE  Fit(s, Hold(b, size, traced))
<1> DEFINE r == [size |-> size, traced |-> traced]
<1>1. Takes(r) = size + IF traced THEN TRACE_SIZE ELSE 0
  BY DEF Takes
<1> HIDE DEF r
<1>2. Hold(b, size, traced) = [x \in DOMAIN live \cup {b} |-> IF x = b THEN r ELSE live[x]]
  BY DEF Hold, r
<1> QED BY <1>1, <1>2 DEF Fit

\* What a request a client makes takes is at most the largest class.
LEMMA AsksFits ==
  ASSUME TracesFit, NEW size \in Sizes, NEW traced \in BOOLEAN, Asks(size, traced)
  PROVE  /\ size \in Nat
         /\ Room(size + IF traced THEN TRACE_SIZE ELSE 0, SizeToClass(size, traced))
<1> DEFINE n == size + IF traced THEN TRACE_SIZE ELSE 0
<1>1. size \in Nat /\ TRACE_SIZE \in Nat
  BY SmallAssumption
<1>2. LayerForSize(size) = "SMALL" /\ (traced => "trace" \in Calls)
  BY DEF Asks
<1>3. n \in Nat /\ n <= DAM_SMALL_MAX
  BY <1>1, <1>2, SmallSizes DEF TracesFit
<1> HIDE DEF n
<1>4. n = size + IF traced THEN TRACE_SIZE ELSE 0
  BY DEF n
<1>5. Room(n, SizeToClass(size, traced))
  BY <1>1, <1>3, <1>4, ClassFits
<1> QED BY <1>1, <1>4, <1>5

RequestsInv ==
  /\ PlacesInv
  /\ SameClass(small)
  /\ SameClassBins(small, tc_bins)
  /\ Fit(small, live)

\* malloc of a cached block.
LEMMA CacheHitRequests ==
  ASSUME RequestsInv, TracesFit, NEW t \in Threads, NEW size \in Sizes, NEW traced \in BOOLEAN,
         CacheHit(t, size, traced)
  PROVE  RequestsInv'
<1> DEFINE c == SizeToClass(size, traced)
           b == tc_bins[t][c].free_list
           n == Decrement(tc_bins[t][c].count)
<1>1. /\ Asks(size, traced)
      /\ b # NULL
      /\ tc_bins' = [tc_bins EXCEPT ![t][c] = [free_list |-> small.hdr[b].next, count |-> n]]
      /\ small' = Uncached(small, b)
      /\ live' = Hold(b, size, traced)
  BY DEF CacheHit
<1>2. size \in Nat /\ Room(size + IF traced THEN TRACE_SIZE ELSE 0, c)
  BY <1>1, AsksFits
<1>3. c \in Classes
  BY <1>2, SizeToClassType
<1> HIDE DEF c
<1>4. GoodBlocks(small) /\ GoodBins(small, tc_bins) /\ Allocations(live)
  BY DEF RequestsInv, PlacesInv, Others
<1>5. /\ b \in DOMAIN small.hdr /\ tc_bins[t][c].count \in 0 .. SIZE_MAX
      /\ small.hdr[b].size_class_index = c
  BY <1>1, <1>3, <1>4 DEF GoodBins, Known, Bin, RequestsInv, SameClassBins
<1>6. n \in 0 .. SIZE_MAX
  BY <1>5, DecrementType
<1>7. /\ small.hdr[b].next \in Known(small) /\ small.hdr[b].next \in Nat
      /\ small.hdr[b].next # NULL => small.hdr[small.hdr[b].next].size_class_index = c
  BY <1>4, <1>5, HeaderTypes DEF GoodBlocks, RequestsInv, SameClass
<1> HIDE DEF b, n
<1>8. SameClassBins(small, tc_bins') /\ GoodBins(small, tc_bins')
  BY <1>1, <1>3, <1>4, <1>6, <1>7, SetBin, SetBinClass DEF RequestsInv
<1>9. Fit(small, live')
  BY <1>1, <1>2, <1>4, <1>5, HoldFits DEF RequestsInv
<1>10. DOMAIN live' \subseteq DOMAIN small.hdr
  <2>1. DOMAIN live' = DOMAIN live \cup {b}
    BY <1>1, <1>2, <1>4, HoldTypes
  <2> QED BY <2>1, <1>5 DEF RequestsInv, PlacesInv, Others
<1>11. Extends(small, small') /\ SameClass(small')
  BY <1>1, <1>4, <1>5, UncachedGood, UncachedClass DEF RequestsInv, SameBlocks, Extends
<1>12. PlacesInv'
  BY CacheHitPlaces DEF RequestsInv
<1> QED BY <1>8, <1>9, <1>10, <1>11, <1>12, ExtendsClass DEF RequestsInv

\* malloc from a central list.
LEMMA MallocCentralRequests ==
  ASSUME RequestsInv, TracesFit, NEW t \in Threads, NEW size \in Sizes, NEW traced \in BOOLEAN,
         MallocCentral(t, size, traced)
  PROVE  RequestsInv'
<1> DEFINE c == SizeToClass(size, traced)
<1>1. Asks(size, traced) /\ tc_bins' = tc_bins
  BY DEF MallocCentral
<1>2. PICK o \in MallocOutcomes(small, c) :
        /\ small' = o.small
        /\ live' = IF o.block = NULL THEN live ELSE Hold(o.block, size, traced)
  BY DEF MallocCentral
<1>3. size \in Nat /\ Room(size + IF traced THEN TRACE_SIZE ELSE 0, c)
  BY <1>1, AsksFits
<1>4. c \in Classes
  BY <1>3, SizeToClassType
<1> HIDE DEF c
<1>5. GoodBlocks(small) /\ GoodBins(small, tc_bins) /\ Allocations(live)
      /\ DOMAIN live \subseteq DOMAIN small.hdr
  BY DEF RequestsInv, PlacesInv, Others
<1>6. /\ Extends(small, o.small)
      /\ SameClass(o.small)
      /\ o.block # NULL => o.small.hdr[o.block].size_class_index = c
  BY <1>4, <1>5, MallocGood, MallocClass DEF RequestsInv
<1>7. SameClassBins(small', tc_bins') /\ Fit(small', live)
  BY <1>1, <1>2, <1>5, <1>6, ExtendsClass DEF RequestsInv
<1>8. Fit(small', live')
  BY <1>2, <1>3, <1>5, <1>6, <1>7, HoldFits
<1>9. PlacesInv'
  BY MallocCentralPlaces DEF RequestsInv
<1> QED BY <1>2, <1>6, <1>7, <1>8, <1>9 DEF RequestsInv

\* The bins of a cache are small enough to be counted.
LEMMA CacheLimit ==
  /\ THREAD_CACHE_MAX_BLOCKS_PER_CLASS \in Nat /\ SIZE_MAX \in Nat
  /\ THREAD_CACHE_MAX_BLOCKS_PER_CLASS <= SIZE_MAX
  BY SmallAssumption

\* free, by either path, of any block, held or not.
LEMMA FreeRequests ==
  ASSUME RequestsInv, NEW t \in Threads, NEW b \in DOMAIN small.hdr, Free(t, b)
  PROVE  RequestsInv'
<1> DEFINE c == small.hdr[b].size_class_index
<1>1. GoodBlocks(small) /\ GoodBins(small, tc_bins) /\ DOMAIN live \subseteq DOMAIN small.hdr
  BY DEF RequestsInv, PlacesInv, Others
<1>2. c \in Classes /\ b \in Nat
  BY <1>1, HeaderTypes DEF GoodBlocks
<1>3. live' = LetGo(b)
  BY DEF Free, FreeCached, FreeCentral
<1>4. Fit(small, live') /\ DOMAIN live' \subseteq DOMAIN small.hdr
  BY <1>1, <1>3 DEF RequestsInv, Fit, LetGo
<1>5. CASE FreeCached(t, b)
  <2> DEFINE first == tc_bins[t][c].free_list
             n == tc_bins[t][c].count
  <2>1. /\ small' = Freed(small, b, first)
        /\ tc_bins' = [tc_bins EXCEPT ![t][c] = [free_list |-> b, count |-> n + 1]]
        /\ n < THREAD_CACHE_MAX_BLOCKS_PER_CLASS
    BY <1>5 DEF FreeCached, HasRoom
  <2>2. /\ first \in Known(small) /\ n \in 0 .. SIZE_MAX
        /\ first # NULL => small.hdr[first].size_class_index = c
    BY <1>1, <1>2 DEF GoodBins, Bin, RequestsInv, SameClassBins
  <2>3. n + 1 \in 0 .. SIZE_MAX
    <3>1. n < THREAD_CACHE_MAX_BLOCKS_PER_CLASS /\ n \in 0 .. SIZE_MAX
      BY <2>1, <2>2
    <3> HIDE DEF n
    <3> QED BY ONLY <3>1, CacheLimit
  <2>4. Extends(small, small') /\ SameClass(small')
    BY <1>1, <2>1, <2>2, FreedGood, FreedClass DEF RequestsInv, SameBlocks, Extends
  <2>5. small.hdr[b].size_class_index = c
    OBVIOUS
  <2> HIDE DEF first, n, c
  <2>6. SameClassBins(small, tc_bins') /\ GoodBins(small, tc_bins')
    <3>1. b \in Known(small) /\ SameClassBins(small, tc_bins)
      BY DEF Known, RequestsInv
    <3>2. SameClassBins(small, tc_bins')
      BY <1>1, <1>2, <2>1, <2>3, <2>5, <3>1, SetBinClass
    <3>3. GoodBins(small, tc_bins')
      BY <1>1, <1>2, <2>1, <2>3, <3>1, SetBin
    <3> QED BY <3>2, <3>3
  <2>7. PlacesInv'
    BY FreePlaces DEF RequestsInv
  <2> QED BY <1>4, <2>4, <2>6, <2>7, ExtendsClass DEF RequestsInv
<1>6. CASE FreeCentral(t, b)
  <2>1. small' = FreeInternal(small, b) /\ tc_bins' = tc_bins
    BY <1>6 DEF FreeCentral
  <2>2. Extends(small, small') /\ SameClass(small')
    BY <1>1, <2>1, FreeInternalGood, FreeInternalClass DEF RequestsInv, SameBlocks, Extends
  <2>3. PlacesInv'
    BY FreePlaces DEF RequestsInv
  <2> QED BY <1>1, <1>4, <2>1, <2>2, <2>3, ExtendsClass DEF RequestsInv
<1> QED BY <1>5, <1>6 DEF Free

\* realloc, of any block, held or not.
LEMMA ReallocRequests ==
  ASSUME RequestsInv, NEW t \in Threads, NEW b \in DOMAIN small.hdr, NEW size \in Sizes,
         Realloc(t, b, size)
  PROVE  RequestsInv'
<1> DEFINE c == SizeToClass(size, FALSE)
<1>1. size \in Nat /\ c \in Classes
  BY SmallAssumption, SizeToClassType
<1>2. /\ GoodBlocks(small) /\ GoodBins(small, tc_bins) /\ Allocations(live)
      /\ DOMAIN live \subseteq DOMAIN small.hdr
  BY DEF RequestsInv, PlacesInv, Others
<1>3. PlacesInv'
  BY ReallocPlaces DEF RequestsInv
<1>4. LayerForSize(size) = "SMALL" => Room(size, c)
  <2>1. size = size + IF FALSE THEN TRACE_SIZE ELSE 0
    BY <1>1
  <2> QED BY <1>1, <2>1, SmallSizes, ClassFits
<1>5. CASE ReallocInPlace(b, size)
  <2>1. /\ live' = Hold(b, size, FALSE) /\ UNCHANGED <<small, tc_bins>>
        /\ LayerForSize(size) = "SMALL"
        /\ BlockSize(c) <= BlockSize(small.hdr[b].size_class_index)
    BY <1>5 DEF ReallocInPlace, FitsInPlace
  <2>2. small.hdr[b].size_class_index \in Classes
    BY <1>2, HeaderTypes DEF GoodBlocks
  <2>3. Room(size, small.hdr[b].size_class_index)
    <3>1. size <= BlockSize(c)
      BY <1>4, <2>1 DEF Room
    <3>2. BlockSize(c) \in Nat /\ BlockSize(small.hdr[b].size_class_index) \in Nat
      BY <1>1, <2>2, ClassSizes
    <3>3. size <= BlockSize(small.hdr[b].size_class_index)
      <4>1. \A x, y, z \in Nat : x <= y /\ y <= z => x <= z
        OBVIOUS
      <4> HIDE DEF c
      <4> QED BY <1>1, <2>1, <3>1, <3>2, <4>1, Zenon
    <3> QED BY <3>3 DEF Room
  <2>4. size + (IF FALSE THEN TRACE_SIZE ELSE 0) = size
    BY <1>1
  <2>5. Fit(small, live')
    BY <1>1, <1>2, <2>1, <2>3, <2>4, HoldFits DEF RequestsInv
  <2> QED BY <1>3, <2>1, <2>5 DEF RequestsInv
<1>6. CASE ReallocGrow(b, size)
  <2>1. PICK o \in MallocOutcomes(small, c) :
          \/ o.block = NULL /\ UNCHANGED <<small, live>>
          \/ /\ o.block # NULL
             /\ small' = FreeInternal(o.small, b)
             /\ live' = [x \in (DOMAIN live \ {b}) \cup {o.block} |->
                           IF x = o.block THEN [size |-> size, traced |-> FALSE]
                           ELSE live[x]]
    BY <1>6 DEF ReallocGrow
  <2>2. tc_bins' = tc_bins /\ LayerForSize(size) = "SMALL"
    BY <1>6 DEF ReallocGrow
  <2> HIDE DEF c
  <2>3. CASE o.block = NULL
    BY <1>3, <2>1, <2>2, <2>3 DEF RequestsInv
  <2>4. CASE o.block # NULL
    <3>1. /\ GoodBlocks(o.small) /\ SameClass(o.small) /\ Extends(small, o.small)
          /\ o.small.hdr[o.block].size_class_index = c
          /\ o.block \in DOMAIN o.small.hdr
      BY <1>1, <1>2, <2>4, MallocGood, MallocClass DEF RequestsInv
    <3>2. b \in DOMAIN o.small.hdr
      BY <3>1 DEF Extends
    <3>3. SameClass(small') /\ SameBlocks(o.small, small')
      BY <2>1, <2>4, <3>1, <3>2, FreeInternalGood, FreeInternalClass
    <3>4. Extends(small, small') /\ small'.hdr[o.block].size_class_index = c
      BY <3>1, <3>3 DEF SameBlocks, Extends
    <3>5. SameClassBins(small', tc_bins') /\ Fit(small', live)
      BY <1>2, <2>2, <3>4, ExtendsClass DEF RequestsInv
    <3> DEFINE r == [size |-> size, traced |-> FALSE]
               D == (DOMAIN live \ {b}) \cup {o.block}
    <3>6. Takes(r) = size
      BY <1>1 DEF Takes
    <3>7. live' = [x \in D |-> IF x = o.block THEN r ELSE live[x]]
      BY <2>1, <2>4
    <3> HIDE DEF r
    <3>8. Fit(small', live')
      BY <1>4, <2>2, <3>4, <3>5, <3>6, <3>7 DEF Fit
    <3> QED BY <1>3, <3>3, <3>5, <3>8 DEF RequestsInv
  <2> QED BY <2>3, <2>4
<1>7. CASE ReallocOut(t, b, size)
  BY <1>7, FreeRequests DEF ReallocOut
<1> QED BY <1>5, <1>6, <1>7 DEF Realloc

\* Every step keeps the classes and the room in order.
LEMMA NextRequests == TracesFit /\ RequestsInv /\ [Next]_vars => RequestsInv'
<1> SUFFICES ASSUME TracesFit, RequestsInv, [Next]_vars PROVE RequestsInv'
  OBVIOUS
<1>0. PlacesInv'
  BY NextPlaces DEF RequestsInv
<1>1. CASE UNCHANGED vars
  BY <1>0, <1>1 DEF vars, RequestsInv
<1>2. ASSUME NEW t \in Threads, Call(t) PROVE RequestsInv'
  <2>1. DOMAIN live \subseteq DOMAIN small.hdr /\ Stale \subseteq DOMAIN small.hdr
    BY DEF RequestsInv, PlacesInv, Others, Stale
  <2>2. ASSUME NEW size \in Sizes, NEW traced \in BOOLEAN,
               CacheHit(t, size, traced) \/ MallocCentral(t, size, traced)
        PROVE  RequestsInv'
    BY <2>2, CacheHitRequests, MallocCentralRequests
  <2>3. ASSUME NEW b \in DOMAIN small.hdr, Free(t, b) PROVE RequestsInv'
    BY <2>3, FreeRequests
  <2>4. ASSUME NEW b \in DOMAIN small.hdr, NEW size \in Sizes, Realloc(t, b, size)
        PROVE  RequestsInv'
    BY <2>4, ReallocRequests
  <2> QED BY <1>2, <2>1, <2>2, <2>3, <2>4 DEF Call
<1>3. ASSUME NEW t \in Threads, CacheFault(t) \/ Snapshot(t) PROVE RequestsInv'
  BY <1>0, <1>3 DEF CacheFault, Snapshot, RequestsInv
<1>4. ASSUME NEW t \in Threads, Exit(t) PROVE RequestsInv'
  <2>1. \A c \in Classes : EmptyBins[c].free_list = NULL
    BY DEF EmptyBins
  <2>2. tc_bins' = [tc_bins EXCEPT ![t] = EmptyBins] /\ UNCHANGED <<small, live>>
    BY <1>4 DEF Exit
  <2>3. tc_bins \in [Threads -> [Classes -> Bin]]
    BY DEF RequestsInv, PlacesInv, GoodBins
  <2>4. SameClassBins(small, tc_bins')
    BY <2>1, <2>2, <2>3 DEF RequestsInv, SameClassBins
  <2> QED BY <1>0, <2>2, <2>4 DEF RequestsInv
<1> QED BY <1>1, <1>2, <1>3, <1>4 DEF Next

\* Init has no block and no list.
LEMMA InitRequests == Init => RequestsInv
<1> SUFFICES ASSUME Init PROVE RequestsInv
  OBVIOUS
<1>1. DOMAIN live = {} /\ DOMAIN small.hdr = {}
  BY DEF Init
<1>2. \A c \in Classes : small.free_class_list[c] = NULL
  BY DEF Init
<1>3. \A t \in Threads, c \in Classes : tc_bins[t][c].free_list = NULL
  BY DEF Init, EmptyBins
<1> QED BY <1>1, <1>2, <1>3, InitPlaces DEF RequestsInv, SameClass, SameClassBins, Fit

\* No block is smaller than what its client asked for, double frees and reallocs of freed
\* pointers included, as long as the trace of a traced request fits into the largest class;
\* a live traced pointer is neither freed nor reallocated.
THEOREM RequestsAlwaysFit ==
  ASSUME TracesFit
  PROVE  Spec => []RequestsFit
<1>1. RequestsInv => RequestsFit
  BY DEF RequestsInv, RequestsFit, Fit, Room, Takes, Bytes
<1>2. RequestsInv /\ [Next]_vars => RequestsInv'
  BY NextRequests
<1> QED BY <1>1, <1>2, InitRequests, PTL DEF Spec

-----------------------------------------------------------------------------
\* The lists of careful clients.

\* The heads of the lists: the central lists and the bins.
Places ==
  {Central(c) : c \in Classes} \cup {BinOf(t, c) : t \in Threads, c \in Classes}

Heads(s, bins) ==
  [p \in Places |-> IF p[1] = "central" THEN s.free_class_list[p[2]]
                    ELSE bins[p[2]][p[3]].free_list]

ClassOf == [p \in Places |-> IF p[1] = "central" THEN p[2] ELSE p[3]]

FreeOf(hdr) == {b \in DOMAIN hdr : hdr[b].is_free}

\* Every list is a stack: at[p][1] is its last block, at[p][len[p]] its first, and each
\* leads to the one before.  The free blocks that are not lost are on the stacks, each once.
Stacks(hdr, head, at, len, lost) ==
  /\ at \in [Places -> [Nat -> Nat]]
  /\ len \in [Places -> Nat]
  /\ \A p \in Places : head[p] = IF len[p] = 0 THEN NULL ELSE at[p][len[p]]
  /\ \A p \in Places : \A i \in 1 .. len[p] :
       /\ at[p][i] \in FreeOf(hdr) \ lost
       /\ hdr[at[p][i]].size_class_index = ClassOf[p]
       /\ hdr[at[p][i]].next = IF i = 1 THEN NULL ELSE at[p][i - 1]
  /\ \A p, q \in Places : \A i \in 1 .. len[p], j \in 1 .. len[q] :
       at[p][i] = at[q][j] => p = q /\ i = j
  /\ \A b \in FreeOf(hdr) \ lost : \E p \in Places : \E i \in 1 .. len[p] : b = at[p][i]

\* Blocks no list leads to lead to one another.
Lost(hdr, lost) ==
  /\ lost \subseteq FreeOf(hdr)
  /\ \A b \in lost : hdr[b].next # NULL =>
       /\ hdr[b].next \in lost
       /\ hdr[hdr[b].next].size_class_index = hdr[b].size_class_index
  /\ \A b, d \in lost : hdr[b].next = hdr[d].next /\ hdr[b].next # NULL => b = d

\* A place is a central list or a bin, and no two of them are the same.
LEMMA PlacesFacts ==
  /\ \A p \in Places : \/ \E c \in Classes : p = Central(c)
                       \/ \E t \in Threads, c \in Classes : p = BinOf(t, c)
  /\ \A c \in Classes : Central(c) \in Places /\ ClassOf[Central(c)] = c
  /\ \A t \in Threads, c \in Classes : BinOf(t, c) \in Places /\ ClassOf[BinOf(t, c)] = c
  /\ \A c, d : Central(c) = Central(d) => c = d
  /\ \A t, u, c, d : BinOf(t, c) = BinOf(u, d) => t = u /\ c = d
  /\ \A t, c, d : Central(c) # BinOf(t, d)
<1>1. \A c : Central(c)[1] = "central" /\ Central(c)[2] = c
  BY DEF Central
<1>2. \A t, c : BinOf(t, c)[1] = "bin" /\ BinOf(t, c)[2] = t /\ BinOf(t, c)[3] = c
  BY DEF BinOf
<1>3. \A p \in Places : \/ \E c \in Classes : p = Central(c)
                        \/ \E t \in Threads, c \in Classes : p = BinOf(t, c)
  BY DEF Places
<1>4. /\ \A c \in Classes : Central(c) \in Places
      /\ \A t \in Threads, c \in Classes : BinOf(t, c) \in Places
  BY DEF Places
<1>5. /\ \A c \in Classes : ClassOf[Central(c)] = c
      /\ \A t \in Threads, c \in Classes : ClassOf[BinOf(t, c)] = c
  BY <1>1, <1>2, <1>4 DEF ClassOf
<1>6. /\ \A c, d : Central(c) = Central(d) => c = d
      /\ \A t, u, c, d : BinOf(t, c) = BinOf(u, d) => t = u /\ c = d
      /\ \A t, c, d : Central(c) # BinOf(t, d)
  BY <1>1, <1>2
<1> QED BY <1>3, <1>4, <1>5, <1>6

\* The heads are what the central lists and the bins say.
LEMMA HeadsFacts ==
  ASSUME NEW s, NEW bins
  PROVE  /\ \A c \in Classes : Heads(s, bins)[Central(c)] = s.free_class_list[c]
         /\ \A t \in Threads, c \in Classes :
              Heads(s, bins)[BinOf(t, c)] = bins[t][c].free_list
<1>1. \A c : Central(c)[1] = "central" /\ Central(c)[2] = c
  BY DEF Central
<1>2. \A t, c : BinOf(t, c)[1] = "bin" /\ BinOf(t, c)[2] = t /\ BinOf(t, c)[3] = c
  BY DEF BinOf
<1> QED BY <1>1, <1>2, PlacesFacts DEF Heads

\* The heads, but for p's, which leads to b.
Redirected(head, first, p, b) ==
  first[p] = b /\ \A q \in Places \ {p} : first[q] = head[q]

\* A central list with another head.
LEMMA HeadsCentral ==
  ASSUME NEW s, NEW g, NEW bins, NEW c \in Classes, NEW b,
         \A d \in Classes : g.free_class_list[d] = IF d = c THEN b ELSE s.free_class_list[d]
  PROVE  Redirected(Heads(s, bins), Heads(g, bins), Central(c), b)
<1> DEFINE p == Central(c)
           head == Heads(s, bins)
           first == Heads(g, bins)
<1>1. first[p] = b
  BY HeadsFacts
<1>2. ASSUME NEW q \in Places, q # p PROVE first[q] = head[q]
  <2>1. CASE \E d \in Classes : q = Central(d)
    <3>1. PICK d \in Classes : q = Central(d)
      BY <2>1
    <3>2. d # c
      BY <1>2, <3>1
    <3> QED BY <3>1, <3>2, HeadsFacts
  <2>2. CASE \E t \in Threads, d \in Classes : q = BinOf(t, d)
    BY <2>2, HeadsFacts
  <2> QED BY <2>1, <2>2, PlacesFacts
<1> QED BY <1>1, <1>2 DEF Redirected

\* The bins, but for one of one thread, which has another list and another count.
Rebound(bins, new, t, c, first, count) ==
  \A u \in Threads, d \in Classes :
    /\ new[u][d].free_list = IF u = t /\ d = c THEN first ELSE bins[u][d].free_list
    /\ new[u][d].count = IF u = t /\ d = c THEN count ELSE bins[u][d].count

\* A bin with another head.
LEMMA HeadsBin ==
  ASSUME NEW s, NEW g, NEW bins, NEW new, NEW t \in Threads, NEW c \in Classes, NEW b,
         g.free_class_list = s.free_class_list,
         NEW count, Rebound(bins, new, t, c, b, count)
  PROVE  Redirected(Heads(s, bins), Heads(g, new), BinOf(t, c), b)
<1> DEFINE p == BinOf(t, c)
           head == Heads(s, bins)
           first == Heads(g, new)
<1>0. \A u \in Threads, d \in Classes :
        new[u][d].free_list = IF u = t /\ d = c THEN b ELSE bins[u][d].free_list
  BY DEF Rebound
<1>1. first[p] = b
  BY <1>0, HeadsFacts
<1>2. ASSUME NEW q \in Places, q # p PROVE first[q] = head[q]
  <2>1. CASE \E d \in Classes : q = Central(d)
    BY <2>1, HeadsFacts
  <2>2. CASE \E u \in Threads, d \in Classes : q = BinOf(u, d)
    <3>1. PICK u \in Threads, d \in Classes : q = BinOf(u, d)
      BY <2>2
    <3>2. ~ (u = t /\ d = c)
      BY <1>2, <3>1
    <3>3. new[u][d].free_list = bins[u][d].free_list
      BY <1>0, <3>2
    <3> QED BY <3>1, <3>3, HeadsFacts
  <2> QED BY <2>1, <2>2, PlacesFacts
<1> QED BY <1>1, <1>2 DEF Redirected

\* A used block put in front of a list.
LEMMA Push ==
  ASSUME NEW hdr, NEW head, NEW at, NEW len, NEW lost,
         Stacks(hdr, head, at, len, lost), Lost(hdr, lost), DOMAIN hdr \subseteq Nat \ {NULL},
         NEW p \in Places, NEW b \in DOMAIN hdr, b \notin FreeOf(hdr),
         NEW new, DOMAIN new = DOMAIN hdr,
         new[b].is_free, new[b].next = head[p], new[b].size_class_index = ClassOf[p],
         \A d \in DOMAIN hdr \ {b} : new[d] = hdr[d],
         NEW first, Redirected(head, first, p, b)
  PROVE  /\ \E up : Stacks(new, first, up, [len EXCEPT ![p] = len[p] + 1], lost)
         /\ Lost(new, lost)
<1> DEFINE n == len[p] + 1
           up == [at EXCEPT ![p] = [at[p] EXCEPT ![n] = b]]
           more == [len EXCEPT ![p] = n]
<1>. first[p] = b /\ \A q \in Places \ {p} : first[q] = head[q]
  BY DEF Redirected
<1>1. /\ at \in [Places -> [Nat -> Nat]] /\ len \in [Places -> Nat]
      /\ b \in Nat /\ b # NULL
  BY DEF Stacks
<1>2. n \in Nat \ {0} /\ len[p] \in Nat /\ n = len[p] + 1
  BY <1>1
<1>3. \A q \in Places : head[q] = IF len[q] = 0 THEN NULL ELSE at[q][len[q]]
  BY DEF Stacks
<1>4. \A q \in Places : \A i \in 1 .. len[q] :
        /\ at[q][i] \in FreeOf(hdr) \ lost
        /\ hdr[at[q][i]].size_class_index = ClassOf[q]
        /\ hdr[at[q][i]].next = IF i = 1 THEN NULL ELSE at[q][i - 1]
  BY DEF Stacks
<1>5. /\ FreeOf(new) = FreeOf(hdr) \cup {b}
      /\ b \notin lost
      /\ lost \subseteq FreeOf(hdr)
  BY DEF FreeOf, Lost
<1>6. \A d \in FreeOf(hdr) : d # b /\ new[d] = hdr[d]
  BY DEF FreeOf
<1> HIDE DEF n
<1>7. /\ up \in [Places -> [Nat -> Nat]]
      /\ more \in [Places -> Nat]
      /\ more[p] = n /\ \A q \in Places \ {p} : more[q] = len[q]
      /\ up[p][n] = b /\ \A i \in Nat \ {n} : up[p][i] = at[p][i]
      /\ \A q \in Places \ {p} : up[q] = at[q]
  BY <1>1, <1>2
<1> HIDE DEF up, more
<1>8. ASSUME NEW q \in Places, NEW i \in 1 .. more[q], ~ (q = p /\ i = n)
      PROVE  i \in 1 .. len[q] /\ up[q][i] = at[q][i]
  <2>1. CASE q = p
    BY <2>1, <1>2, <1>7, <1>8
  <2>2. CASE q # p
    BY <2>2, <1>7
  <2> QED BY <2>1, <2>2
<1>9. ASSUME NEW q \in Places, NEW i \in 1 .. len[q]
      PROVE  i \in 1 .. more[q] /\ up[q][i] = at[q][i]
  <2>1. CASE q = p
    BY <2>1, <1>2, <1>7
  <2>2. CASE q # p
    BY <2>2, <1>7
  <2> QED BY <2>1, <2>2
<1>10. ASSUME NEW q \in Places
       PROVE  first[q] = IF more[q] = 0 THEN NULL ELSE up[q][more[q]]
  <2>1. CASE q = p
    BY <2>1, <1>2, <1>7
  <2>2. CASE q # p
    BY <2>2, <1>3, <1>7, SMTT(30)
  <2> QED BY <2>1, <2>2
<1>11. ASSUME NEW q \in Places, NEW i \in 1 .. more[q]
       PROVE  /\ up[q][i] \in FreeOf(new) \ lost
              /\ new[up[q][i]].size_class_index = ClassOf[q]
              /\ new[up[q][i]].next = IF i = 1 THEN NULL ELSE up[q][i - 1]
  <2>1. CASE q = p /\ i = n
    <3>1. head[p] = IF len[p] = 0 THEN NULL ELSE at[p][len[p]]
      BY <1>3
    <3>2. n = 1 <=> len[p] = 0
      BY <1>2
    <3>3. n # 1 => up[p][n - 1] = at[p][len[p]]
      <4>1. n - 1 \in Nat \ {n} /\ n - 1 = len[p]
        BY <1>2
      <4> QED BY <4>1, <1>7
    <3> QED BY <2>1, <3>1, <3>2, <3>3, <1>5, <1>7
  <2>2. CASE ~ (q = p /\ i = n)
    <3>1. i \in 1 .. len[q] /\ up[q][i] = at[q][i]
      BY <2>2, <1>8
    <3>2. i # 1 => up[q][i - 1] = at[q][i - 1]
      <4>1. i # 1 => i - 1 \in 1 .. len[q]
        BY <3>1, <1>1
      <4> QED BY <4>1, <1>9
    <3>3. at[q][i] \in FreeOf(new) /\ new[at[q][i]] = hdr[at[q][i]]
      BY <3>1, <1>4, <1>5, <1>6
    <3> QED BY <3>1, <3>2, <3>3, <1>4
  <2> QED BY <2>1, <2>2
<1>12. ASSUME NEW q \in Places, NEW r \in Places, NEW i \in 1 .. more[q], NEW j \in 1 .. more[r],
              up[q][i] = up[r][j]
       PROVE  q = r /\ i = j
  <2>1. ASSUME NEW o \in Places, NEW k \in 1 .. more[o], up[o][k] = b
        PROVE  o = p /\ k = n
    <3> SUFFICES ASSUME ~ (o = p /\ k = n) PROVE FALSE
      OBVIOUS
    <3>1. k \in 1 .. len[o] /\ up[o][k] = at[o][k]
      BY <1>8
    <3> QED BY <2>1, <3>1, <1>4
  <2>2. CASE up[q][i] = b
    BY <2>1, <2>2, <1>12
  <2>3. CASE up[q][i] # b
    <3>1. ~ (q = p /\ i = n) /\ ~ (r = p /\ j = n)
      BY <2>3, <1>7, <1>12
    <3>2. /\ i \in 1 .. len[q] /\ up[q][i] = at[q][i]
          /\ j \in 1 .. len[r] /\ up[r][j] = at[r][j]
      BY <3>1, <1>8
    <3>3. at[q][i] = at[r][j] => q = r /\ i = j
      BY <3>2 DEF Stacks
    <3> QED BY <3>2, <3>3, <1>12
  <2> QED BY <2>2, <2>3
<1>13. ASSUME NEW d \in FreeOf(new) \ lost
       PROVE  \E q \in Places : \E i \in 1 .. more[q] : d = up[q][i]
  <2>1. CASE d = b
    <3>1. n \in 1 .. more[p] /\ d = up[p][n]
      BY <2>1, <1>2, <1>7
    <3> QED BY <3>1
  <2>2. CASE d # b
    <3>1. PICK q \in Places : \E i \in 1 .. len[q] : d = at[q][i]
      BY <2>2, <1>5 DEF Stacks
    <3>2. PICK i \in 1 .. len[q] : d = at[q][i]
      BY <3>1
    <3>3. i \in 1 .. more[q] /\ d = up[q][i]
      BY <3>2, <1>9
    <3> QED BY <3>3
  <2> QED BY <2>1, <2>2
<1>14. Stacks(new, first, up, more, lost)
  BY <1>7, <1>10, <1>11, <1>12, <1>13 DEF Stacks
<1>15. Lost(new, lost)
  BY <1>5, <1>6 DEF Lost
<1> QED BY <1>14, <1>15 DEF more, n

\* The first block of a list taken out of it.
LEMMA Pop ==
  ASSUME NEW hdr, NEW head, NEW at, NEW len, NEW lost,
         Stacks(hdr, head, at, len, lost), Lost(hdr, lost), DOMAIN hdr \subseteq Nat \ {NULL},
         NEW p \in Places, NEW b, b = head[p], b # NULL,
         NEW new, DOMAIN new = DOMAIN hdr, ~ new[b].is_free,
         \A d \in DOMAIN hdr \ {b} : new[d] = hdr[d],
         NEW first, Redirected(head, first, p, hdr[b].next)
  PROVE  /\ b \in FreeOf(hdr)
         /\ hdr[b].size_class_index = ClassOf[p]
         /\ len[p] \in Nat \ {0}
         /\ Stacks(new, first, at, [len EXCEPT ![p] = len[p] - 1], lost)
         /\ Lost(new, lost)
<1> DEFINE n == len[p]
           less == [len EXCEPT ![p] = n - 1]
<1>. first[p] = hdr[b].next /\ \A q \in Places \ {p} : first[q] = head[q]
  BY DEF Redirected
<1>1. /\ at \in [Places -> [Nat -> Nat]] /\ len \in [Places -> Nat]
      /\ head[p] = IF n = 0 THEN NULL ELSE at[p][n]
  BY DEF Stacks
<1>2. n \in Nat \ {0} /\ b = at[p][n] /\ n \in 1 .. len[p]
  BY <1>1
<1>3. \A q \in Places : head[q] = IF len[q] = 0 THEN NULL ELSE at[q][len[q]]
  BY DEF Stacks
<1>4. \A q \in Places : \A i \in 1 .. len[q] :
        /\ at[q][i] \in FreeOf(hdr) \ lost
        /\ hdr[at[q][i]].size_class_index = ClassOf[q]
        /\ hdr[at[q][i]].next = IF i = 1 THEN NULL ELSE at[q][i - 1]
  BY DEF Stacks
<1>5. \A q \in Places, r \in Places : \A i \in 1 .. len[q], j \in 1 .. len[r] :
        at[q][i] = at[r][j] => q = r /\ i = j
  BY DEF Stacks
<1>6. /\ b \in FreeOf(hdr) \ lost
      /\ hdr[b].size_class_index = ClassOf[p]
      /\ hdr[b].next = IF n = 1 THEN NULL ELSE at[p][n - 1]
  BY <1>2, <1>4
<1>7. FreeOf(new) = FreeOf(hdr) \ {b} /\ \A d \in FreeOf(hdr) \ {b} : new[d] = hdr[d]
  BY <1>6 DEF FreeOf
<1>8. /\ less \in [Places -> Nat]
      /\ less[p] = n - 1 /\ \A q \in Places \ {p} : less[q] = len[q]
  BY <1>1, <1>2
<1> HIDE DEF less
<1>9. ASSUME NEW q \in Places, NEW i \in 1 .. less[q]
      PROVE  i \in 1 .. len[q] /\ ~ (q = p /\ i = n) /\ at[q][i] # b
  <2>1. i \in 1 .. len[q] /\ ~ (q = p /\ i = n)
    <3>1. CASE q = p
      BY <3>1, <1>2, <1>8
    <3>2. CASE q # p
      BY <3>2, <1>8
    <3> QED BY <3>1, <3>2
  <2> QED BY <2>1, <1>2, <1>5
<1>10. ASSUME NEW q \in Places
       PROVE  first[q] = IF less[q] = 0 THEN NULL ELSE at[q][less[q]]
  <2>1. CASE q = p
    <3>1. less[p] = 0 <=> n = 1
      BY <1>2, <1>8
    <3> QED BY <2>1, <3>1, <1>6, <1>8
  <2>2. CASE q # p
    BY <2>2, <1>3, <1>8
  <2> QED BY <2>1, <2>2
<1>11. ASSUME NEW q \in Places, NEW i \in 1 .. less[q]
       PROVE  /\ at[q][i] \in FreeOf(new) \ lost
              /\ new[at[q][i]].size_class_index = ClassOf[q]
              /\ new[at[q][i]].next = IF i = 1 THEN NULL ELSE at[q][i - 1]
  <2>1. i \in 1 .. len[q] /\ at[q][i] # b
    BY <1>9
  <2> QED BY <2>1, <1>4, <1>7
<1>12. ASSUME NEW q \in Places, NEW r \in Places, NEW i \in 1 .. less[q], NEW j \in 1 .. less[r],
              at[q][i] = at[r][j]
       PROVE  q = r /\ i = j
  <2>1. i \in 1 .. len[q] /\ j \in 1 .. len[r]
    BY <1>9
  <2> QED BY <2>1, <1>5, <1>12
<1>13. ASSUME NEW d \in FreeOf(new) \ lost
       PROVE  \E q \in Places : \E i \in 1 .. less[q] : d = at[q][i]
  <2>1. PICK q \in Places : \E i \in 1 .. len[q] : d = at[q][i]
    BY <1>7 DEF Stacks
  <2>2. PICK i \in 1 .. len[q] : d = at[q][i]
    BY <2>1
  <2>3. ~ (q = p /\ i = n)
    BY <2>2, <1>2, <1>7
  <2>4. i \in 1 .. less[q]
    <3>1. CASE q = p
      BY <3>1, <2>2, <2>3, <1>2, <1>8
    <3>2. CASE q # p
      BY <3>2, <2>2, <1>8
    <3> QED BY <3>1, <3>2
  <2> QED BY <2>2, <2>4
<1>14. Stacks(new, first, at, less, lost)
  BY <1>1, <1>8, <1>10, <1>11, <1>12, <1>13 DEF Stacks
<1>15. Lost(new, lost)
  <2>1. b \notin lost /\ lost \subseteq FreeOf(hdr) /\ lost \subseteq FreeOf(new)
    BY <1>6, <1>7 DEF Lost
  <2>2. \A d \in lost : new[d] = hdr[d]
    BY <2>1, <1>7
  <2> QED BY <2>1, <2>2 DEF Lost
<1> QED BY <1>2, <1>6, <1>14, <1>15 DEF less


\* The n blocks of a pool, free blocks of one class, each linked to the one before.
Carved(hdr, new, block, n, c) ==
  /\ block \in [0 .. n - 1 -> Nat]
  /\ \A i, j \in 0 .. n - 1 : block[i] = block[j] => i = j
  /\ \A i \in 0 .. n - 1 : block[i] \notin DOMAIN hdr
  /\ DOMAIN new = DOMAIN hdr \cup {block[i] : i \in 0 .. n - 1}
  /\ \A d \in DOMAIN hdr : new[d] = hdr[d]
  /\ \A i \in 0 .. n - 1 :
       /\ new[block[i]].is_free
       /\ new[block[i]].size_class_index = c
       /\ new[block[i]].next = IF i = 0 THEN NULL ELSE block[i - 1]

\* An empty list given the blocks of a new pool.
LEMMA Carve ==
  ASSUME NEW hdr, NEW head, NEW at, NEW len, NEW lost,
         Stacks(hdr, head, at, len, lost), Lost(hdr, lost), DOMAIN hdr \subseteq Nat \ {NULL},
         NEW p \in Places, head[p] = NULL,
         NEW n \in Nat \ {0}, NEW block, NEW new, Carved(hdr, new, block, n, ClassOf[p]),
         NEW first, Redirected(head, first, p, block[n - 1])
  PROVE  /\ \E up : Stacks(new, first, up, [len EXCEPT ![p] = n], lost)
         /\ Lost(new, lost)
         /\ len[p] = 0
<1> DEFINE row == [i \in Nat |-> IF i \in 1 .. n THEN block[i - 1] ELSE 0]
           up == [at EXCEPT ![p] = row]
           more == [len EXCEPT ![p] = n]
<1>1. /\ at \in [Places -> [Nat -> Nat]] /\ len \in [Places -> Nat]
      /\ \A q \in Places : head[q] = IF len[q] = 0 THEN NULL ELSE at[q][len[q]]
  BY DEF Stacks
<1>2. \A q \in Places : \A i \in 1 .. len[q] :
        /\ at[q][i] \in FreeOf(hdr) \ lost
        /\ hdr[at[q][i]].size_class_index = ClassOf[q]
        /\ hdr[at[q][i]].next = IF i = 1 THEN NULL ELSE at[q][i - 1]
  BY DEF Stacks
<1>3. len[p] = 0
  <2> SUFFICES ASSUME len[p] # 0 PROVE FALSE
    OBVIOUS
  <2>0. len[p] \in Nat
    BY <1>1
  <2>1. len[p] \in 1 .. len[p]
    BY <2>0
  <2>2. at[p][len[p]] = NULL
    BY <1>1
  <2>3. at[p][len[p]] \in DOMAIN hdr
    BY <2>1, <1>2 DEF FreeOf
  <2> QED BY <2>2, <2>3
<1>0. /\ block \in [0 .. n - 1 -> Nat]
      /\ \A i, j \in 0 .. n - 1 : block[i] = block[j] => i = j
      /\ \A i \in 0 .. n - 1 : block[i] \notin DOMAIN hdr
      /\ DOMAIN new = DOMAIN hdr \cup {block[i] : i \in 0 .. n - 1}
      /\ \A d \in DOMAIN hdr : new[d] = hdr[d]
      /\ \A i \in 0 .. n - 1 :
           /\ new[block[i]].is_free
           /\ new[block[i]].size_class_index = ClassOf[p]
           /\ new[block[i]].next = IF i = 0 THEN NULL ELSE block[i - 1]
  BY DEF Carved
<1>. first[p] = block[n - 1] /\ \A q \in Places \ {p} : first[q] = head[q]
  BY DEF Redirected
<1>4. row \in [Nat -> Nat] /\ \A i \in 1 .. n : row[i] = block[i - 1] /\ i - 1 \in 0 .. n - 1
  <2>1. \A i \in 1 .. n : i - 1 \in 0 .. n - 1 /\ block[i - 1] \in Nat
    BY <1>0
  <2> QED BY <2>1
<1> HIDE DEF row
<1>5. /\ up \in [Places -> [Nat -> Nat]]
      /\ more \in [Places -> Nat]
      /\ up[p] = row /\ more[p] = n
      /\ \A q \in Places \ {p} : up[q] = at[q] /\ more[q] = len[q]
  BY <1>1, <1>4
<1> HIDE DEF up, more
<1>6. /\ FreeOf(new) = FreeOf(hdr) \cup {block[i] : i \in 0 .. n - 1}
      /\ lost \subseteq FreeOf(hdr)
      /\ \A d \in FreeOf(hdr) : new[d] = hdr[d] /\ d \in DOMAIN hdr
  BY <1>0 DEF FreeOf, Lost
<1>7. ASSUME NEW i \in 1 .. n
      PROVE  /\ row[i] \in FreeOf(new) \ lost
             /\ row[i] \notin DOMAIN hdr
             /\ new[row[i]].size_class_index = ClassOf[p]
             /\ new[row[i]].next = IF i = 1 THEN NULL ELSE row[i - 1]
  <2>1. row[i] = block[i - 1] /\ i - 1 \in 0 .. n - 1
    BY <1>4
  <2>2. row[i] \in FreeOf(new) /\ row[i] \notin DOMAIN hdr /\ row[i] \notin lost
    BY <2>1, <1>0, <1>6
  <2>3. i # 1 => row[i - 1] = block[(i - 1) - 1]
    <3>1. i # 1 => i - 1 \in 1 .. n
      OBVIOUS
    <3> QED BY <3>1, <1>4
  <2>4. i - 1 = 0 <=> i = 1
    OBVIOUS
  <2> QED BY <2>1, <2>2, <2>3, <2>4, <1>0
<1>8. ASSUME NEW q \in Places
      PROVE  first[q] = IF more[q] = 0 THEN NULL ELSE up[q][more[q]]
  <2>1. n \in 1 .. n
    OBVIOUS
  <2>2. CASE q = p
    BY <2>1, <2>2, <1>4, <1>5
  <2>3. CASE q # p
    <3>1. first[q] = head[q] /\ up[q] = at[q] /\ more[q] = len[q]
      BY <2>3, <1>5
    <3> QED BY <3>1, <1>1
  <2> QED BY <2>2, <2>3
<1>9. ASSUME NEW q \in Places, NEW i \in 1 .. more[q]
      PROVE  /\ up[q][i] \in FreeOf(new) \ lost
             /\ new[up[q][i]].size_class_index = ClassOf[q]
             /\ new[up[q][i]].next = IF i = 1 THEN NULL ELSE up[q][i - 1]
  <2>1. CASE q = p
    BY <2>1, <1>5, <1>7
  <2>2. CASE q # p
    <3>1. up[q] = at[q] /\ i \in 1 .. len[q]
      BY <2>2, <1>5
    <3>2. /\ at[q][i] \in FreeOf(hdr) \ lost
          /\ hdr[at[q][i]].size_class_index = ClassOf[q]
          /\ hdr[at[q][i]].next = IF i = 1 THEN NULL ELSE at[q][i - 1]
      BY <3>1, <1>2
    <3>3. at[q][i] \in FreeOf(new) /\ new[at[q][i]] = hdr[at[q][i]]
      BY <3>2, <1>6
    <3> QED BY <3>1, <3>2, <3>3
  <2> QED BY <2>1, <2>2
<1>10. ASSUME NEW q \in Places, NEW r \in Places, NEW i \in 1 .. more[q], NEW j \in 1 .. more[r],
              up[q][i] = up[r][j]
       PROVE  q = r /\ i = j
  <2>1. \A o \in Places \ {p} : \A k \in 1 .. more[o] : k \in 1 .. len[o] /\ up[o][k] = at[o][k]
    BY <1>5
  <2>2. \A o \in Places \ {p} : \A k \in 1 .. more[o] : up[o][k] \in DOMAIN hdr
    BY <2>1, <1>2, <1>6
  <2>3. \A k \in 1 .. more[p] : k \in 1 .. n /\ up[p][k] = row[k] /\ up[p][k] \notin DOMAIN hdr
    BY <1>5, <1>7
  <2>4. CASE q = p /\ r = p
    <3>1. i \in 1 .. n /\ j \in 1 .. n /\ row[i] = row[j]
      BY <2>3, <2>4, <1>10
    <3>2. /\ i - 1 \in 0 .. n - 1 /\ j - 1 \in 0 .. n - 1
          /\ block[i - 1] = block[j - 1]
      BY <3>1, <1>4
    <3>3. i - 1 = j - 1
      BY <3>2, <1>0
    <3> QED BY <2>4, <3>1, <3>3
  <2>5. CASE q # p /\ r # p
    <3>1. i \in 1 .. len[q] /\ j \in 1 .. len[r] /\ at[q][i] = at[r][j]
      BY <2>1, <2>5, <1>10
    <3>2. \A o \in Places, u \in Places : \A k \in 1 .. len[o], l \in 1 .. len[u] :
            at[o][k] = at[u][l] => o = u /\ k = l
      BY DEF Stacks
    <3> QED BY <3>1, <3>2
  <2> QED BY <2>2, <2>3, <2>4, <2>5, <1>10
<1>11. ASSUME NEW d \in FreeOf(new) \ lost
       PROVE  \E q \in Places : \E i \in 1 .. more[q] : d = up[q][i]
  <2>1. CASE d \in FreeOf(hdr)
    <3>1. PICK q \in Places : \E i \in 1 .. len[q] : d = at[q][i]
      BY <2>1 DEF Stacks
    <3>2. PICK i \in 1 .. len[q] : d = at[q][i]
      BY <3>1
    <3>3. q # p
      BY <3>2, <1>3
    <3>4. i \in 1 .. more[q] /\ d = up[q][i]
      BY <3>2, <3>3, <1>5
    <3> QED BY <3>4
  <2>2. CASE d \notin FreeOf(hdr)
    <3>1. PICK i \in 0 .. n - 1 : d = block[i]
      BY <2>2, <1>6
    <3>2. i + 1 \in 1 .. n /\ (i + 1) - 1 = i
      OBVIOUS
    <3>3. i + 1 \in 1 .. more[p] /\ d = up[p][i + 1]
      BY <3>1, <3>2, <1>4, <1>5
    <3> QED BY <3>3
  <2> QED BY <2>1, <2>2
<1>12. Stacks(new, first, up, more, lost)
  BY <1>5, <1>8, <1>9, <1>10, <1>11 DEF Stacks
<1>13. Lost(new, lost)
  <2>1. lost \subseteq FreeOf(new) /\ \A d \in lost : new[d] = hdr[d]
    BY <1>6
  <2>2. /\ \A b \in lost : hdr[b].next # NULL =>
             /\ hdr[b].next \in lost
             /\ hdr[hdr[b].next].size_class_index = hdr[b].size_class_index
        /\ \A b, d \in lost : hdr[b].next = hdr[d].next /\ hdr[b].next # NULL => b = d
    BY DEF Lost
  <2>3. ASSUME NEW b \in lost, new[b].next # NULL
        PROVE  /\ new[b].next \in lost
               /\ new[new[b].next].size_class_index = new[b].size_class_index
    <3>1. new[b] = hdr[b] /\ hdr[b].next \in lost
      BY <2>1, <2>2, <2>3
    <3>2. new[hdr[b].next] = hdr[hdr[b].next]
      BY <2>1, <3>1
    <3> QED BY <2>2, <2>3, <3>1, <3>2
  <2>4. ASSUME NEW b \in lost, NEW d \in lost, new[b].next = new[d].next, new[b].next # NULL
        PROVE  b = d
    <3>1. hdr[b].next = hdr[d].next /\ hdr[b].next # NULL
      BY <2>1, <2>4
    <3> QED BY <2>2, <3>1
  <2> QED BY <2>1, <2>3, <2>4 DEF Lost
<1> QED BY <1>3, <1>12, <1>13 DEF more

\* The blocks of the lists in D.
OnLists(D, at, len) == UNION {{at[q][i] : i \in 1 .. len[q]} : q \in D}

\* Lists whose heads are forgotten: their blocks are lost.
LEMMA Drop ==
  ASSUME NEW hdr, NEW head, NEW at, NEW len, NEW lost,
         Stacks(hdr, head, at, len, lost), Lost(hdr, lost), DOMAIN hdr \subseteq Nat \ {NULL},
         NEW D \in SUBSET Places,
         NEW first, \A q \in Places : first[q] = IF q \in D THEN NULL ELSE head[q],
         NEW gone, gone = lost \cup OnLists(D, at, len)
  PROVE  /\ Stacks(hdr, first, at, [q \in Places |-> IF q \in D THEN 0 ELSE len[q]], gone)
         /\ Lost(hdr, gone)
<1> DEFINE less == [q \in Places |-> IF q \in D THEN 0 ELSE len[q]]
<1>1. /\ at \in [Places -> [Nat -> Nat]] /\ len \in [Places -> Nat]
      /\ \A q \in Places : head[q] = IF len[q] = 0 THEN NULL ELSE at[q][len[q]]
  BY DEF Stacks
<1>2. \A q \in Places : \A i \in 1 .. len[q] :
        /\ at[q][i] \in FreeOf(hdr) \ lost
        /\ hdr[at[q][i]].size_class_index = ClassOf[q]
        /\ hdr[at[q][i]].next = IF i = 1 THEN NULL ELSE at[q][i - 1]
  BY DEF Stacks
<1>3. \A q \in Places, r \in Places : \A i \in 1 .. len[q], j \in 1 .. len[r] :
        at[q][i] = at[r][j] => q = r /\ i = j
  BY DEF Stacks
<1>4. less \in [Places -> Nat] /\ \A q \in Places : less[q] = IF q \in D THEN 0 ELSE len[q]
  BY <1>1
<1> HIDE DEF less
<1>5. \A q \in Places : \A i \in 1 .. less[q] : q \notin D /\ i \in 1 .. len[q]
  BY <1>4
<1>6. \A q \in Places : first[q] = IF less[q] = 0 THEN NULL ELSE at[q][less[q]]
  BY <1>1, <1>4
<1>7. /\ \A b \in gone : b \in lost \/ \E q \in D : \E i \in 1 .. len[q] : b = at[q][i]
      /\ lost \subseteq gone
      /\ \A q \in D : \A i \in 1 .. len[q] : at[q][i] \in gone
  BY DEF OnLists
<1>8. ASSUME NEW q \in Places, NEW i \in 1 .. less[q]
      PROVE  at[q][i] \notin gone
  <2>1. q \notin D /\ i \in 1 .. len[q]
    BY <1>5
  <2>2. \A r \in D : \A j \in 1 .. len[r] : at[q][i] # at[r][j]
    BY <2>1, <1>3
  <2> QED BY <2>1, <2>2, <1>2, <1>7
<1>9. ASSUME NEW d \in FreeOf(hdr) \ gone
      PROVE  \E q \in Places : \E i \in 1 .. less[q] : d = at[q][i]
  <2>1. PICK q \in Places : \E i \in 1 .. len[q] : d = at[q][i]
    BY <1>7 DEF Stacks
  <2>2. q \notin D
    BY <2>1, <1>7
  <2> QED BY <2>1, <2>2, <1>4
<1>10. Stacks(hdr, first, at, less, gone)
  <2>1. \A q \in Places : \A i \in 1 .. less[q] :
          /\ at[q][i] \in FreeOf(hdr) \ gone
          /\ hdr[at[q][i]].size_class_index = ClassOf[q]
          /\ hdr[at[q][i]].next = IF i = 1 THEN NULL ELSE at[q][i - 1]
    BY <1>2, <1>5, <1>8
  <2>2. \A q \in Places, r \in Places : \A i \in 1 .. less[q], j \in 1 .. less[r] :
          at[q][i] = at[r][j] => q = r /\ i = j
    BY <1>3, <1>5
  <2> QED BY <1>1, <1>4, <1>6, <1>9, <2>1, <2>2 DEF Stacks
<1>11. ASSUME NEW q \in D, NEW i \in 1 .. len[q], hdr[at[q][i]].next # NULL
       PROVE  /\ i - 1 \in 1 .. len[q]
              /\ hdr[at[q][i]].next = at[q][i - 1]
              /\ hdr[at[q][i]].next \in gone \ lost
              /\ hdr[hdr[at[q][i]].next].size_class_index = hdr[at[q][i]].size_class_index
  <2>1. len[q] \in Nat /\ q \in Places
    BY <1>1
  <2>2. i # 1 /\ hdr[at[q][i]].next = at[q][i - 1]
    BY <2>1, <1>2, <1>11
  <2>3. i - 1 \in 1 .. len[q]
    BY <2>1, <2>2
  <2> QED BY <2>1, <2>2, <2>3, <1>2, <1>7
<1>12. Lost(hdr, gone)
  <2>1. gone \subseteq FreeOf(hdr)
    BY <1>2, <1>7 DEF Lost
  <2>2. ASSUME NEW b \in gone, hdr[b].next # NULL
        PROVE  /\ hdr[b].next \in gone
               /\ hdr[hdr[b].next].size_class_index = hdr[b].size_class_index
    <3>1. CASE b \in lost
      BY <2>2, <3>1, <1>7 DEF Lost
    <3>2. CASE \E q \in D : \E i \in 1 .. len[q] : b = at[q][i]
      BY <2>2, <3>2, <1>11
    <3> QED BY <3>1, <3>2, <1>7
  <2>3. ASSUME NEW b \in gone, NEW d \in gone, hdr[b].next = hdr[d].next, hdr[b].next # NULL
        PROVE  b = d
    <3>1. CASE b \in lost /\ d \in lost
      BY <2>3, <3>1 DEF Lost
    <3>2. \A e \in lost : hdr[e].next # NULL => hdr[e].next \in lost
      BY DEF Lost
    <3>3. ASSUME NEW q \in D, NEW i \in 1 .. len[q], b = at[q][i],
                 NEW r \in D, NEW j \in 1 .. len[r], d = at[r][j]
          PROVE  b = d
      <4>1. /\ i - 1 \in 1 .. len[q] /\ hdr[b].next = at[q][i - 1]
            /\ j - 1 \in 1 .. len[r] /\ hdr[d].next = at[r][j - 1]
        BY <2>3, <3>3, <1>11
      <4>2. q = r /\ i - 1 = j - 1
        <5> DEFINE k == i - 1
                   l == j - 1
        <5>1. k \in 1 .. len[q] /\ l \in 1 .. len[r] /\ at[q][k] = at[r][l]
          BY <4>1, <2>3
        <5> HIDE DEF k, l
        <5>2. q = r /\ k = l
          BY <5>1, <1>3
        <5> QED BY <5>2 DEF k, l
      <4>3. i = j
        BY <4>2
      <4> QED BY <3>3, <4>2, <4>3
    <3>4. ASSUME NEW e \in gone, hdr[e].next # NULL, e \notin lost PROVE hdr[e].next \notin lost
      BY <3>4, <1>7, <1>11
    <3>5. CASE b \notin lost /\ d \notin lost
      BY <3>3, <3>5, <1>7
    <3> QED BY <2>3, <3>1, <3>2, <3>4, <3>5
  <2> QED BY <2>1, <2>2, <2>3 DEF Lost
<1> QED BY <1>10, <1>12 DEF less

\* The blocks that are handed out.
Busy(s) == DOMAIN s.hdr \ FreeBlocks(s)

Marked(s) == \A b \in DOMAIN s.hdr : s.hdr[b].is_free <=> s.hdr[b].magic = "FREED"

\* The lists and the bins are stacks, with as many blocks in a bin as it counts.
Listing(s, bins, lost) ==
  /\ Lost(s.hdr, lost)
  /\ \E at, len :
       /\ Stacks(s.hdr, Heads(s, bins), at, len, lost)
       /\ \A t \in Threads, c \in Classes : bins[t][c].count = len[BinOf(t, c)]

\* Good blocks, marked and listed, and finitely many.
InOrder(s, bins, lost) ==
  /\ GoodBlocks(s)
  /\ GoodBins(s, bins)
  /\ Marked(s)
  /\ IsFiniteSet(DOMAIN s.hdr)
  /\ Listing(s, bins, lost)

\* A central list loses its first block.
LEMMA TakeFirstInOrder ==
  ASSUME NEW s, NEW bins, NEW lost, InOrder(s, bins, lost),
         NEW c \in Classes, s.free_class_list[c] # NULL
  PROVE  LET o == TakeFirst(s, c)
         IN  /\ InOrder(o.small, bins, lost)
             /\ o.block = s.free_class_list[c]
             /\ o.block \in FreeBlocks(s)
             /\ s.hdr[o.block].size_class_index = c
             /\ SameBlocks(s, o.small)
             /\ Busy(o.small) = Busy(s) \cup {o.block}
<1> DEFINE g == TakeFirst(s, c).small
           b == s.free_class_list[c]
           p == Central(c)
<1>1. IsSmall(s) /\ b \in DOMAIN s.hdr /\ DOMAIN s.hdr \subseteq Nat \ {NULL}
  BY DEF InOrder, GoodBlocks, Known, IsSmall
<1>2. /\ TakeFirst(s, c).block = b
      /\ SameBlocks(s, g)
      /\ \A d \in Classes : g.free_class_list[d] =
           IF d = c THEN s.hdr[b].next ELSE s.free_class_list[d]
      /\ ~ g.hdr[b].is_free
      /\ g.hdr[b].magic = "SMALL"
      /\ \A d \in DOMAIN s.hdr \ {b} : g.hdr[d] = s.hdr[d]
  BY <1>1, TakeFirstFacts
<1>3. GoodBlocks(g)
  BY TakeFirstGood DEF InOrder
<1> HIDE DEF g
<1>4. PICK at, len :
        /\ Stacks(s.hdr, Heads(s, bins), at, len, lost)
        /\ \A t \in Threads, d \in Classes : bins[t][d].count = len[BinOf(t, d)]
  BY DEF InOrder, Listing
<1>5. DOMAIN g.hdr = DOMAIN s.hdr
  BY <1>2 DEF SameBlocks
<1> DEFINE head == Heads(s, bins)
           first == Heads(g, bins)
<1>6. p \in Places /\ ClassOf[p] = c /\ head[p] = b
  BY PlacesFacts, HeadsFacts
<1>7. Redirected(head, first, p, s.hdr[b].next)
  BY <1>2, HeadsCentral
<1> HIDE DEF head, first, b, p
<1>8. /\ b \in FreeOf(s.hdr)
      /\ s.hdr[b].size_class_index = ClassOf[p]
      /\ Stacks(g.hdr, first, at, [len EXCEPT ![p] = len[p] - 1], lost)
      /\ Lost(g.hdr, lost)
  <2>1. /\ Stacks(s.hdr, head, at, len, lost)
        /\ Lost(s.hdr, lost)
        /\ b # NULL
    BY <1>4 DEF InOrder, Listing, head, b
  <2>2. /\ ~ g.hdr[b].is_free
        /\ \A d \in DOMAIN s.hdr \ {b} : g.hdr[d] = s.hdr[d]
    BY <1>2
  <2>3. DOMAIN s.hdr \subseteq Nat \ {NULL}
    BY <1>1
  <2>4. p \in Places /\ b = head[p]
    BY <1>6
  <2> DEFINE hdr == s.hdr
             new == g.hdr
  <2>5. /\ Stacks(hdr, head, at, len, lost)
        /\ Lost(hdr, lost)
        /\ DOMAIN hdr \subseteq Nat \ {NULL}
        /\ DOMAIN new = DOMAIN hdr
        /\ ~ new[b].is_free
        /\ \A d \in DOMAIN hdr \ {b} : new[d] = hdr[d]
        /\ Redirected(head, first, p, hdr[b].next)
    BY <2>1, <2>2, <2>3, <1>5, <1>7
  <2> HIDE DEF hdr, new
  <2>6. /\ b \in FreeOf(hdr)
        /\ hdr[b].size_class_index = ClassOf[p]
        /\ Stacks(new, first, at, [len EXCEPT ![p] = len[p] - 1], lost)
        /\ Lost(new, lost)
    BY <2>1, <2>4, <2>5, Pop
  <2> QED BY <2>6 DEF hdr, new
<1>9. Listing(g, bins, lost)
  <2> DEFINE less == [len EXCEPT ![p] = len[p] - 1]
  <2>1. \A t \in Threads, d \in Classes : less[BinOf(t, d)] = len[BinOf(t, d)]
    <3>1. len \in [Places -> Nat]
      BY <1>4 DEF Stacks
    <3>2. \A t \in Threads, d \in Classes : BinOf(t, d) \in Places /\ BinOf(t, d) # p
      BY PlacesFacts DEF p
    <3> QED BY <3>1, <3>2
  <2>2. Stacks(g.hdr, Heads(g, bins), at, less, lost) /\ Lost(g.hdr, lost)
    BY <1>8 DEF first
  <2>3. \A t \in Threads, d \in Classes : bins[t][d].count = less[BinOf(t, d)]
    BY <2>1, <1>4
  <2> HIDE DEF less
  <2> QED BY <2>2, <2>3 DEF Listing
<1>10. Marked(g)
  BY <1>2, <1>5 DEF InOrder, Marked
<1>11. InOrder(g, bins, lost)
  <2>1. GoodBins(g, bins)
    BY <1>2, ExtendsBins DEF InOrder, SameBlocks, Extends
  <2> QED BY <2>1, <1>3, <1>5, <1>9, <1>10 DEF InOrder
<1>12. Busy(g) = Busy(s) \cup {b}
  BY <1>1, <1>2, <1>5 DEF Busy, FreeBlocks
<1> QED BY <1>2, <1>6, <1>8, <1>11, <1>12 DEF g, b, FreeOf, FreeBlocks

\* create_small_pool fills an empty list.
LEMMA NewPoolInOrder ==
  ASSUME NEW s, NEW bins, NEW lost, InOrder(s, bins, lost),
         NEW c \in Classes, s.free_class_list[c] = NULL,
         NEW base \in FreeBases(s, PoolSize(c))
  PROVE  LET g == NewPool(s, base, c)
         IN  /\ InOrder(g, bins, lost)
             /\ g.free_class_list[c] # NULL
             /\ g.free_class_list[c] \notin DOMAIN s.hdr
             /\ Extends(s, g)
             /\ Busy(g) = Busy(s)
<1> DEFINE g == NewPool(s, base, c)
           n == SIZE_CLASS_BLOCKS_PER_POOL
           At(i) == BlockAt(base, c, i)
           blocks == {At(i) : i \in 0 .. n - 1}
           block == [i \in 0 .. n - 1 |-> At(i)]
           p == Central(c)
<1>1. /\ IsSmall(s) /\ Apart(s) /\ DOMAIN s.hdr \subseteq Nat \ {NULL}
      /\ base \in Nat \ {0}
      /\ n \in Nat \ {0}
  BY SmallAssumption DEF InOrder, GoodBlocks, IsSmall, FreeBases
<1>2. /\ DOMAIN g.hdr = DOMAIN s.hdr \cup blocks
      /\ blocks \cap DOMAIN s.hdr = {}
      /\ \A b \in DOMAIN s.hdr : g.hdr[b] = s.hdr[b]
      /\ \A d \in Classes : g.free_class_list[d] =
           IF d = c THEN At(n - 1) ELSE s.free_class_list[d]
      /\ \A i \in 0 .. n - 1 :
           /\ g.hdr[At(i)].size_class_index = c
           /\ g.hdr[At(i)].is_free
           /\ g.hdr[At(i)].magic = "FREED"
           /\ g.hdr[At(i)].next = IF i = 0 THEN s.free_class_list[c] ELSE At(i - 1)
  BY <1>1, NewPoolFacts
<1>3. GoodBlocks(g) /\ Extends(s, g) /\ g.free_class_list[c] # NULL
  BY NewPoolGood DEF InOrder
<1>4. /\ \A i \in 0 .. n - 1 : At(i) \in Nat
      /\ \A i, j \in 0 .. n - 1 : At(i) = At(j) => i = j
  <2>1. /\ \A i \in 0 .. n - 1 : At(i) \in Nat \ {0}
        /\ \A i, j \in 0 .. n - 1 : i < j => At(i) + Stride(c) <= At(j)
    BY <1>1, Carving
  <2>2. Stride(c) \in Nat \ {0}
    BY ClassSizes
  <2> HIDE DEF At
  <2>3. ASSUME NEW i \in 0 .. n - 1, NEW j \in 0 .. n - 1, i < j PROVE At(i) # At(j)
    <3>1. At(i) \in Nat /\ At(j) \in Nat /\ At(i) + Stride(c) <= At(j)
      BY <2>1, <2>3
    <3> QED BY <2>2, <3>1
  <2>4. ASSUME NEW i \in 0 .. n - 1, NEW j \in 0 .. n - 1, At(i) = At(j) PROVE i = j
    <3>1. ~ (i < j) /\ ~ (j < i)
      BY <2>3, <2>4
    <3> QED BY <3>1, <1>1
  <2> QED BY <2>1, <2>4
<1> HIDE DEF g, At
<1>5. PICK at, len :
        /\ Stacks(s.hdr, Heads(s, bins), at, len, lost)
        /\ \A t \in Threads, d \in Classes : bins[t][d].count = len[BinOf(t, d)]
  BY DEF InOrder, Listing
<1> DEFINE head == Heads(s, bins)
           first == Heads(g, bins)
<1> HIDE DEF n
<1>6. n - 1 \in 0 .. n - 1 /\ \A i \in 0 .. n - 1 : i # 0 => i - 1 \in 0 .. n - 1
  BY <1>1
<1>7. /\ block \in [0 .. n - 1 -> Nat]
      /\ \A i \in 0 .. n - 1 : block[i] = At(i)
      /\ {block[i] : i \in 0 .. n - 1} = blocks
  BY <1>4
<1>8. p \in Places /\ ClassOf[p] = c /\ head[p] = NULL
  BY PlacesFacts, HeadsFacts
<1>9. Redirected(head, first, p, At(n - 1))
  BY <1>2, HeadsCentral
<1>10. IsFiniteSet(DOMAIN g.hdr)
  <2>1. IsFiniteSet(0 .. n - 1)
    <3>1. 0 \in Int /\ n - 1 \in Int
      BY <1>1
    <3> QED BY <3>1, FS_Interval, Zenon
  <2>2. IsFiniteSet(blocks)
    <3>1. block \in Surjection(0 .. n - 1, blocks)
      <4>1. \A x \in blocks : \E i \in 0 .. n - 1 : block[i] = x
        BY <1>7
      <4>2. block \in [0 .. n - 1 -> blocks]
        BY <1>7
      <4> HIDE DEF block, blocks
      <4> QED BY <4>1, <4>2 DEF Surjection
    <3> HIDE DEF block, blocks
    <3> QED BY <2>1, <3>1, FS_Surjection, Zenon
  <2>3. IsFiniteSet(DOMAIN s.hdr)
    BY DEF InOrder
  <2>4. DOMAIN g.hdr = DOMAIN s.hdr \cup blocks
    BY <1>2
  <2> HIDE DEF blocks
  <2>5. IsFiniteSet(DOMAIN s.hdr \cup blocks)
    BY <2>2, <2>3, FS_Union, Zenon
  <2> QED BY <2>4, <2>5
<1>11. /\ \A i, j \in 0 .. n - 1 : block[i] = block[j] => i = j
       /\ \A i \in 0 .. n - 1 : block[i] \notin DOMAIN s.hdr
       /\ DOMAIN g.hdr = DOMAIN s.hdr \cup {block[i] : i \in 0 .. n - 1}
       /\ block[n - 1] = At(n - 1)
  <2>1. \A i \in 0 .. n - 1 : At(i) \in blocks
    OBVIOUS
  <2> HIDE DEF block, blocks, first, p
  <2> QED BY <1>2, <1>4, <1>6, <1>7, <2>1
<1>12. \A i \in 0 .. n - 1 :
         /\ g.hdr[block[i]].is_free
         /\ g.hdr[block[i]].size_class_index = ClassOf[p]
         /\ g.hdr[block[i]].next = IF i = 0 THEN NULL ELSE block[i - 1]
  <2> HIDE DEF block, blocks, p
  <2> QED BY <1>2, <1>6, <1>7, <1>8
<1> HIDE DEF head, first, p, block
<1>13. /\ \E up : Stacks(g.hdr, first, up, [len EXCEPT ![p] = n], lost)
       /\ Lost(g.hdr, lost)
  <2>1. /\ Stacks(s.hdr, head, at, len, lost)
        /\ Lost(s.hdr, lost)
    BY <1>5 DEF InOrder, Listing, head
  <2>2. \A d \in DOMAIN s.hdr : g.hdr[d] = s.hdr[d]
    BY <1>2
  <2>4. p \in Places /\ head[p] = NULL
    BY <1>8
  <2>5. block \in [0 .. n - 1 -> Nat]
    BY <1>7
  <2>6. DOMAIN s.hdr \subseteq Nat \ {NULL} /\ n \in Nat \ {0}
    BY <1>1
  <2> HIDE DEF blocks, n
  <2> DEFINE hdr == s.hdr
             new == g.hdr
  <2>7. /\ Stacks(hdr, head, at, len, lost)
        /\ Lost(hdr, lost)
        /\ DOMAIN hdr \subseteq Nat \ {NULL}
        /\ Redirected(head, first, p, block[n - 1])
    BY <2>1, <2>6, <1>9, <1>11
  <2>9. Carved(hdr, new, block, n, ClassOf[p])
    BY <2>2, <2>5, <1>11, <1>12 DEF Carved
  <2> HIDE DEF hdr, new
  <2>8. /\ \E up : Stacks(new, first, up, [len EXCEPT ![p] = n], lost)
        /\ Lost(new, lost)
    BY <2>4, <2>6, <2>7, <2>9, Carve
  <2> QED BY <2>8 DEF new
<1>14. Listing(g, bins, lost)
  <2> DEFINE more == [len EXCEPT ![p] = n]
  <2>1. \A t \in Threads, d \in Classes : more[BinOf(t, d)] = len[BinOf(t, d)]
    <3>1. len \in [Places -> Nat]
      BY <1>5 DEF Stacks
    <3>2. \A t \in Threads, d \in Classes : BinOf(t, d) \in Places /\ BinOf(t, d) # p
      BY PlacesFacts DEF p
    <3> QED BY <3>1, <3>2
  <2>2. PICK up : Stacks(g.hdr, Heads(g, bins), up, more, lost)
    BY <1>13 DEF first
  <2>3. \A t \in Threads, d \in Classes : bins[t][d].count = more[BinOf(t, d)]
    BY <2>1, <1>5
  <2> HIDE DEF more
  <2> QED BY <2>2, <2>3, <1>13 DEF Listing
<1>15. Marked(g)
  BY <1>2 DEF InOrder, Marked
<1>16. InOrder(g, bins, lost)
  <2>1. GoodBins(g, bins)
    BY <1>3, ExtendsBins DEF InOrder
  <2> QED BY <2>1, <1>3, <1>10, <1>14, <1>15 DEF InOrder
<1>17. Busy(g) = Busy(s)
  BY <1>2 DEF Busy, FreeBlocks
<1>18. g.free_class_list[c] \notin DOMAIN s.hdr
  BY <1>2, <1>6
<1> QED BY <1>3, <1>16, <1>17, <1>18 DEF g

\* dam_small_malloc_internal hands out a free block, of the class it was asked for.
LEMMA MallocInOrder ==
  ASSUME NEW s, NEW bins, NEW lost, InOrder(s, bins, lost), NEW c \in Classes,
         NEW o \in MallocOutcomes(s, c)
  PROVE  /\ InOrder(o.small, bins, lost)
         /\ Extends(s, o.small)
         /\ o.block = NULL => o.small = s
         /\ o.block # NULL =>
              /\ o.block \notin Busy(s)
              /\ o.small.hdr[o.block].size_class_index = c
              /\ Busy(o.small) = Busy(s) \cup {o.block}
<1>1. CASE s.free_class_list[c] # NULL
  <2>1. o = TakeFirst(s, c)
    BY <1>1 DEF MallocOutcomes
  <2>2. /\ InOrder(o.small, bins, lost)
        /\ o.block = s.free_class_list[c]
        /\ o.block \in FreeBlocks(s)
        /\ s.hdr[o.block].size_class_index = c
        /\ SameBlocks(s, o.small)
        /\ Busy(o.small) = Busy(s) \cup {o.block}
    BY <1>1, <2>1, TakeFirstInOrder
  <2>3. o.block \in DOMAIN s.hdr /\ o.block \notin Busy(s)
    BY <2>2 DEF Busy, FreeBlocks
  <2> QED BY <1>1, <2>2, <2>3 DEF SameBlocks, Extends
<1>2. CASE o.small = s /\ o.block = NULL
  BY <1>2 DEF Extends
<1>3. ASSUME NEW base \in FreeBases(s, PoolSize(c)), s.free_class_list[c] = NULL,
             o = TakeFirst(NewPool(s, base, c), c)
      PROVE  /\ InOrder(o.small, bins, lost)
             /\ Extends(s, o.small)
             /\ o.block # NULL
             /\ o.block \notin Busy(s)
             /\ o.small.hdr[o.block].size_class_index = c
             /\ Busy(o.small) = Busy(s) \cup {o.block}
  <2> DEFINE g == NewPool(s, base, c)
  <2>1. /\ InOrder(g, bins, lost)
        /\ g.free_class_list[c] # NULL
        /\ g.free_class_list[c] \notin DOMAIN s.hdr
        /\ Extends(s, g)
        /\ Busy(g) = Busy(s)
    BY <1>3, NewPoolInOrder
  <2> HIDE DEF g
  <2>2. o = TakeFirst(g, c)
    BY <1>3 DEF g
  <2>3. /\ InOrder(o.small, bins, lost)
        /\ o.block = g.free_class_list[c]
        /\ o.block \in FreeBlocks(g)
        /\ g.hdr[o.block].size_class_index = c
        /\ SameBlocks(g, o.small)
        /\ Busy(o.small) = Busy(g) \cup {o.block}
    BY <2>1, <2>2, TakeFirstInOrder
  <2>4. o.block \in DOMAIN g.hdr /\ o.block \notin Busy(g)
    BY <2>3 DEF Busy, FreeBlocks
  <2> QED BY <2>1, <2>3, <2>4 DEF SameBlocks, Extends
<1> QED BY <1>1, <1>2, <1>3 DEF MallocOutcomes

\* A block that was handed out is not marked free.
LEMMA BusyUsed ==
  ASSUME NEW s, NEW bins, NEW lost, InOrder(s, bins, lost), NEW b \in Busy(s)
  PROVE  /\ b \in DOMAIN s.hdr /\ b \notin FreeOf(s.hdr) /\ b # NULL
         /\ s.hdr[b].magic # "FREED"
         /\ s.hdr[b].size_class_index \in Classes
<1>1. b \in DOMAIN s.hdr /\ ~ s.hdr[b].is_free
  BY DEF Busy, FreeBlocks
<1>2. s.hdr[b].size_class_index \in Classes /\ b # NULL
  BY <1>1, HeaderTypes DEF InOrder, GoodBlocks
<1> QED BY <1>1, <1>2 DEF InOrder, Marked, FreeOf

\* dam_small_free_internal puts the block in front of its central list.
LEMMA FreeInternalInOrder ==
  ASSUME NEW s, NEW bins, NEW lost, InOrder(s, bins, lost), NEW b \in Busy(s)
  PROVE  /\ InOrder(FreeInternal(s, b), bins, lost)
         /\ SameBlocks(s, FreeInternal(s, b))
         /\ Busy(FreeInternal(s, b)) = Busy(s) \ {b}
<1> DEFINE c == s.hdr[b].size_class_index
           list == s.free_class_list[c]
           f == Freed(s, b, list)
           g == FreeInternal(s, b)
           p == Central(c)
           head == Heads(s, bins)
           first == Heads(g, bins)
<1>1. /\ b \in DOMAIN s.hdr /\ b \notin FreeOf(s.hdr) /\ b \in Nat
      /\ s.hdr[b].magic # "FREED"
      /\ c \in Classes
      /\ IsSmall(s) /\ DOMAIN s.hdr \subseteq Nat \ {NULL}
      /\ s.free_class_list[c] \in Nat
  BY BusyUsed DEF InOrder, GoodBlocks, IsSmall
<1>2. GoodBlocks(g) /\ SameBlocks(s, g)
  BY <1>1, FreeInternalGood DEF InOrder
<1>3. g = [f EXCEPT !.free_class_list[c] = b]
  BY <1>1 DEF FreeInternal
<1>4. /\ IsSmall(f)
      /\ SameBlocks(s, f)
      /\ f.free_class_list = s.free_class_list
      /\ f.hdr[b].is_free
      /\ f.hdr[b].magic = "FREED"
      /\ f.hdr[b].next = s.free_class_list[c]
      /\ \A d \in DOMAIN s.hdr \ {b} : f.hdr[d] = s.hdr[d]
  <2>1. IsSmall(s) /\ b \in DOMAIN s.hdr /\ list \in Nat
    BY <1>1
  <2> HIDE DEF list
  <2>2. /\ IsSmall(f)
        /\ SameBlocks(s, f)
        /\ f.free_class_list = s.free_class_list
        /\ f.hdr[b].is_free
        /\ f.hdr[b].magic = "FREED"
        /\ f.hdr[b].next = list
        /\ \A d \in DOMAIN s.hdr \ {b} : f.hdr[d] = s.hdr[d]
    BY ONLY <2>1, FreedFacts DEF f
  <2> HIDE DEF f
  <2> QED BY <2>2 DEF list
<1> HIDE DEF f, c
<1>5. /\ g.hdr = f.hdr
      /\ g.free_class_list = [s.free_class_list EXCEPT ![c] = b]
  BY <1>1, <1>3, <1>4, SetList
<1> HIDE DEF g
<1>6. p \in Places /\ ClassOf[p] = c /\ head[p] = s.free_class_list[c]
  BY <1>1, PlacesFacts, HeadsFacts
<1>7. Redirected(head, first, p, b)
  <2>1. \A d \in Classes : g.free_class_list[d] = IF d = c THEN b ELSE s.free_class_list[d]
    BY <1>1, <1>5 DEF IsSmall
  <2> QED BY <2>1, <1>1, HeadsCentral
<1>8. DOMAIN g.hdr = DOMAIN s.hdr
  BY <1>2 DEF SameBlocks
<1>9. PICK at, len :
        /\ Stacks(s.hdr, Heads(s, bins), at, len, lost)
        /\ \A t \in Threads, d \in Classes : bins[t][d].count = len[BinOf(t, d)]
  BY DEF InOrder, Listing
<1> HIDE DEF head, first, p
<1>10. /\ \E up : Stacks(g.hdr, first, up, [len EXCEPT ![p] = len[p] + 1], lost)
       /\ Lost(g.hdr, lost)
  <2> DEFINE hdr == s.hdr
             new == g.hdr
  <2>1. /\ Stacks(hdr, head, at, len, lost)
        /\ Lost(hdr, lost)
        /\ DOMAIN hdr \subseteq Nat \ {NULL}
        /\ b \in DOMAIN hdr
        /\ b \notin FreeOf(hdr)
        /\ DOMAIN new = DOMAIN hdr
        /\ new[b].is_free
        /\ new[b].next = head[p]
        /\ \A d \in DOMAIN hdr \ {b} : new[d] = hdr[d]
    BY <1>1, <1>4, <1>5, <1>6, <1>8, <1>9 DEF InOrder, Listing, head
  <2>2. new[b].size_class_index = ClassOf[p]
    BY <1>1, <1>2, <1>6 DEF SameBlocks, c
  <2>3. p \in Places
    BY <1>6
  <2> HIDE DEF hdr, new
  <2>4. /\ \E up : Stacks(new, first, up, [len EXCEPT ![p] = len[p] + 1], lost)
        /\ Lost(new, lost)
    BY <2>1, <2>2, <2>3, <1>7, Push
  <2> QED BY <2>4 DEF new
<1>11. Listing(g, bins, lost)
  <2> DEFINE more == [len EXCEPT ![p] = len[p] + 1]
  <2>1. \A t \in Threads, d \in Classes : more[BinOf(t, d)] = len[BinOf(t, d)]
    <3>1. len \in [Places -> Nat]
      BY <1>9 DEF Stacks
    <3>2. \A t \in Threads, d \in Classes : BinOf(t, d) \in Places /\ BinOf(t, d) # p
      BY PlacesFacts DEF p
    <3> QED BY <3>1, <3>2
  <2>2. PICK up : Stacks(g.hdr, Heads(g, bins), up, more, lost)
    BY <1>10 DEF first
  <2>3. \A t \in Threads, d \in Classes : bins[t][d].count = more[BinOf(t, d)]
    BY <2>1, <1>9
  <2> HIDE DEF more
  <2> QED BY <2>2, <2>3, <1>10 DEF Listing
<1>12. Marked(g)
  BY <1>4, <1>5, <1>8 DEF InOrder, Marked
<1>13. GoodBins(g, bins)
  BY <1>2, ExtendsBins DEF InOrder, SameBlocks, Extends
<1>14. Busy(g) = Busy(s) \ {b}
  BY <1>1, <1>4, <1>5, <1>8 DEF Busy, FreeBlocks
<1>15. InOrder(g, bins, lost)
  BY <1>2, <1>8, <1>11, <1>12, <1>13 DEF InOrder
<1> QED BY <1>2, <1>14, <1>15 DEF g

\* A counter above zero is decremented without a wrap.
LEMMA DecrementPositive ==
  ASSUME NEW n \in 1 .. SIZE_MAX
  PROVE  Decrement(n) = n - 1
<1>1. SIZE_MAX \in Nat
  BY SmallAssumption
<1> DEFINE m == SIZE_MAX + 1
           r == n - 1
<1>2. m \in Nat \ {0} /\ r \in 0 .. m - 1 /\ n + SIZE_MAX = (m * 1) + r
  BY <1>1
<1> HIDE DEF m, r
<1>3. ((m * 1) + r) % m = r
  BY <1>2, SMTT(30)
<1> QED BY <1>2, <1>3 DEF Decrement, m, r

\* One bin of one thread given another list and another count.
LEMMA SetBinCount ==
  ASSUME NEW s, NEW bins, GoodBins(s, bins), NEW t \in Threads, NEW c \in Classes,
         NEW first \in Known(s), first \in Nat, NEW count \in 0 .. SIZE_MAX
  PROVE  LET new == [bins EXCEPT ![t][c] = [free_list |-> first, count |-> count]]
         IN  GoodBins(s, new) /\ Rebound(bins, new, t, c, first, count)
<1> DEFINE bin == [free_list |-> first, count |-> count]
           new == [bins EXCEPT ![t][c] = bin]
<1>1. bin.count = count
  OBVIOUS
<1>2. /\ GoodBins(s, new)
      /\ \A u \in Threads, d \in Classes :
           new[u][d].free_list = IF u = t /\ d = c THEN first ELSE bins[u][d].free_list
  BY SetBin
<1> HIDE DEF bin
<1>3. bins \in [Threads -> [Classes -> Bin]]
  BY DEF GoodBins
<1>4. \A u \in Threads, d \in Classes :
        new[u][d].count = IF u = t /\ d = c THEN count ELSE bins[u][d].count
  BY <1>1, <1>3
<1> HIDE DEF new
<1> QED BY <1>2, <1>4 DEF Rebound, new, bin

\* No bin counts more than its limit.
Bounded(bins) ==
  \A t \in Threads, c \in Classes : bins[t][c].count <= THREAD_CACHE_MAX_BLOCKS_PER_CLASS

\* A bin loses its first block.
LEMMA UncachedInOrder ==
  ASSUME NEW s, NEW bins, NEW lost, InOrder(s, bins, lost), Bounded(bins),
         NEW t \in Threads, NEW c \in Classes, NEW b, b = bins[t][c].free_list, b # NULL,
         NEW new, GoodBins(s, new),
         Rebound(bins, new, t, c, s.hdr[b].next, Decrement(bins[t][c].count))
  PROVE  /\ InOrder(Uncached(s, b), new, lost)
         /\ Bounded(new)
         /\ b \in FreeBlocks(s)
         /\ s.hdr[b].size_class_index = c
         /\ SameBlocks(s, Uncached(s, b))
         /\ Busy(Uncached(s, b)) = Busy(s) \cup {b}
<1> DEFINE g == Uncached(s, b)
           p == BinOf(t, c)
           head == Heads(s, bins)
           first == Heads(g, new)
           next == s.hdr[b].next
           count == bins[t][c].count
<1>1. /\ GoodBlocks(s) /\ IsSmall(s)
      /\ b \in DOMAIN s.hdr
      /\ DOMAIN s.hdr \subseteq Nat \ {NULL}
      /\ GoodBins(s, bins)
      /\ count \in 0 .. SIZE_MAX
  BY DEF InOrder, GoodBlocks, GoodBins, IsSmall, Known, Bin
<1>2. /\ GoodBlocks(g)
      /\ SameBlocks(s, g)
      /\ g.free_class_list = s.free_class_list
      /\ ~ g.hdr[b].is_free
      /\ g.hdr[b].magic = "SMALL"
      /\ \A d \in DOMAIN s.hdr \ {b} : g.hdr[d] = s.hdr[d]
  BY <1>1, UncachedGood
<1> HIDE DEF g, next, count
<1>3. Rebound(bins, new, t, c, next, Decrement(count))
  BY DEF next, count
<1>4. \A u \in Threads, d \in Classes :
        new[u][d].count = IF u = t /\ d = c THEN Decrement(count) ELSE bins[u][d].count
  BY <1>3 DEF Rebound
<1>7. DOMAIN g.hdr = DOMAIN s.hdr
  BY <1>2 DEF SameBlocks
<1>8. PICK at, len :
        /\ Stacks(s.hdr, Heads(s, bins), at, len, lost)
        /\ \A u \in Threads, d \in Classes : bins[u][d].count = len[BinOf(u, d)]
  BY DEF InOrder, Listing
<1>9. p \in Places /\ ClassOf[p] = c /\ head[p] = b
  BY PlacesFacts, HeadsFacts
<1>10. Redirected(head, first, p, next)
  BY <1>2, <1>3, HeadsBin
<1> HIDE DEF head, first, p
<1>11. /\ b \in FreeOf(s.hdr)
       /\ s.hdr[b].size_class_index = ClassOf[p]
       /\ len[p] \in Nat \ {0}
       /\ Stacks(g.hdr, first, at, [len EXCEPT ![p] = len[p] - 1], lost)
       /\ Lost(g.hdr, lost)
  <2> DEFINE hdr == s.hdr
             free == g.hdr
  <2>1. /\ Stacks(hdr, head, at, len, lost)
        /\ Lost(hdr, lost)
        /\ DOMAIN hdr \subseteq Nat \ {NULL}
        /\ DOMAIN free = DOMAIN hdr
        /\ ~ free[b].is_free
        /\ \A d \in DOMAIN hdr \ {b} : free[d] = hdr[d]
        /\ Redirected(head, first, p, hdr[b].next)
    BY <1>1, <1>2, <1>7, <1>8, <1>10 DEF InOrder, Listing, head, next
  <2>2. p \in Places /\ b = head[p]
    BY <1>9
  <2> HIDE DEF hdr, free
  <2>3. /\ b \in FreeOf(hdr)
        /\ hdr[b].size_class_index = ClassOf[p]
        /\ len[p] \in Nat \ {0}
        /\ Stacks(free, first, at, [len EXCEPT ![p] = len[p] - 1], lost)
        /\ Lost(free, lost)
    BY <2>1, <2>2, Pop
  <2> QED BY <2>3 DEF hdr, free
<1>12. Decrement(count) = len[p] - 1 /\ count = len[p] /\ count \in Nat
  <2>1. count = len[p] /\ count \in Nat
    BY <1>1, <1>8 DEF count, p
  <2>2. count \in 1 .. SIZE_MAX
    BY <2>1, <1>1, <1>11, SmallAssumption
  <2> QED BY <2>1, <2>2, DecrementPositive
<1>13. Listing(g, new, lost)
  <2> DEFINE less == [len EXCEPT ![p] = len[p] - 1]
  <2>1. len \in [Places -> Nat]
    BY <1>8 DEF Stacks
  <2>2. ASSUME NEW u \in Threads, NEW d \in Classes PROVE new[u][d].count = less[BinOf(u, d)]
    <3>1. CASE u = t /\ d = c
      BY <3>1, <2>1, <1>4, <1>9, <1>12 DEF p
    <3>2. CASE ~ (u = t /\ d = c)
      <4>1. BinOf(u, d) \in Places /\ BinOf(u, d) # p
        BY <3>2, PlacesFacts DEF p
      <4> QED BY <3>2, <4>1, <2>1, <1>4, <1>8
    <3> QED BY <3>1, <3>2
  <2>3. Stacks(g.hdr, Heads(g, new), at, less, lost) /\ Lost(g.hdr, lost)
    BY <1>11 DEF first
  <2>4. \A u \in Threads, d \in Classes : new[u][d].count = less[BinOf(u, d)]
    BY <2>2
  <2> HIDE DEF less
  <2> QED BY <2>3, <2>4 DEF Listing
<1>14. Marked(g)
  BY <1>2, <1>7 DEF InOrder, Marked
<1>15. GoodBins(g, new)
  <2>1. Extends(s, g)
    BY <1>2 DEF SameBlocks, Extends
  <2> QED BY <2>1, ExtendsBins
<1>16. InOrder(g, new, lost)
  BY <1>2, <1>7, <1>13, <1>14, <1>15 DEF InOrder
<1>17. Bounded(new)
  <2>1. THREAD_CACHE_MAX_BLOCKS_PER_CLASS \in Nat /\ count <= THREAD_CACHE_MAX_BLOCKS_PER_CLASS
    BY SmallAssumption DEF Bounded, count
  <2>2. Decrement(count) <= THREAD_CACHE_MAX_BLOCKS_PER_CLASS
    BY <2>1, <1>11, <1>12
  <2> QED BY <2>2, <1>4 DEF Bounded
<1>18. Busy(g) = Busy(s) \cup {b}
  BY <1>1, <1>2, <1>7 DEF Busy, FreeBlocks
<1> QED BY <1>2, <1>9, <1>11, <1>16, <1>17, <1>18 DEF g, FreeOf, FreeBlocks

\* A bin gets another first block.
LEMMA FreedInOrder ==
  ASSUME NEW s, NEW bins, NEW lost, InOrder(s, bins, lost), Bounded(bins),
         NEW t \in Threads, NEW b \in Busy(s), NEW c, c = s.hdr[b].size_class_index,
         HasRoom(bins[t][c]),
         NEW new, GoodBins(s, new), Rebound(bins, new, t, c, b, bins[t][c].count + 1)
  PROVE  LET g == Freed(s, b, bins[t][c].free_list)
         IN  /\ InOrder(g, new, lost)
             /\ Bounded(new)
             /\ SameBlocks(s, g)
             /\ Busy(g) = Busy(s) \ {b}
<1> DEFINE list == bins[t][c].free_list
           g == Freed(s, b, list)
           p == BinOf(t, c)
           head == Heads(s, bins)
           first == Heads(g, new)
           count == bins[t][c].count
<1>1. /\ GoodBlocks(s) /\ IsSmall(s)
      /\ b \in DOMAIN s.hdr /\ b \notin FreeOf(s.hdr) /\ b \in Nat
      /\ c \in Classes
      /\ DOMAIN s.hdr \subseteq Nat \ {NULL}
      /\ GoodBins(s, bins)
  BY BusyUsed DEF InOrder, GoodBlocks, IsSmall
<1>2. /\ count \in 0 .. SIZE_MAX
      /\ count < THREAD_CACHE_MAX_BLOCKS_PER_CLASS
      /\ list \in Known(s) /\ list \in Nat
  BY <1>1, SMTT(30) DEF GoodBins, Bin, HasRoom
<1>3. /\ SameBlocks(s, g)
      /\ g.free_class_list = s.free_class_list
      /\ g.hdr[b].is_free
      /\ g.hdr[b].magic = "FREED"
      /\ g.hdr[b].next = list
      /\ \A d \in DOMAIN s.hdr \ {b} : g.hdr[d] = s.hdr[d]
  <2>1. IsSmall(s) /\ b \in DOMAIN s.hdr /\ list \in Nat
    BY <1>1, <1>2
  <2> HIDE DEF list
  <2> QED BY ONLY <2>1, FreedFacts DEF g
<1>4. GoodBlocks(g)
  BY <1>1, <1>2, FreedGood
<1> HIDE DEF list, count, g
<1>5. count + 1 <= THREAD_CACHE_MAX_BLOCKS_PER_CLASS
  BY <1>2, SmallAssumption
<1>6. Rebound(bins, new, t, c, b, count + 1)
  BY DEF count
<1>7. \A u \in Threads, d \in Classes :
        new[u][d].count = IF u = t /\ d = c THEN count + 1 ELSE bins[u][d].count
  BY <1>6 DEF Rebound
<1>8. DOMAIN g.hdr = DOMAIN s.hdr
  BY <1>3 DEF SameBlocks
<1>9. PICK at, len :
        /\ Stacks(s.hdr, Heads(s, bins), at, len, lost)
        /\ \A u \in Threads, d \in Classes : bins[u][d].count = len[BinOf(u, d)]
  BY DEF InOrder, Listing
<1>10. p \in Places /\ ClassOf[p] = c /\ head[p] = list
  BY <1>1, PlacesFacts, HeadsFacts DEF list
<1>11. Redirected(head, first, p, b)
  <2>1. g.free_class_list = s.free_class_list /\ c \in Classes
    BY <1>1, <1>3
  <2> QED BY <2>1, <1>6, HeadsBin
<1> HIDE DEF head, first, p
<1>12. /\ \E up : Stacks(g.hdr, first, up, [len EXCEPT ![p] = len[p] + 1], lost)
       /\ Lost(g.hdr, lost)
  <2> DEFINE hdr == s.hdr
             free == g.hdr
  <2>1. /\ Stacks(hdr, head, at, len, lost)
        /\ Lost(hdr, lost)
        /\ DOMAIN hdr \subseteq Nat \ {NULL}
        /\ b \in DOMAIN hdr
        /\ b \notin FreeOf(hdr)
        /\ DOMAIN free = DOMAIN hdr
        /\ free[b].is_free
        /\ free[b].next = head[p]
        /\ \A d \in DOMAIN hdr \ {b} : free[d] = hdr[d]
    BY <1>1, <1>3, <1>8, <1>9, <1>10 DEF InOrder, Listing, head
  <2>2. free[b].size_class_index = ClassOf[p]
    BY <1>1, <1>3, <1>10 DEF SameBlocks
  <2>3. p \in Places
    BY <1>10
  <2> HIDE DEF hdr, free
  <2>4. /\ \E up : Stacks(free, first, up, [len EXCEPT ![p] = len[p] + 1], lost)
        /\ Lost(free, lost)
    BY <2>1, <2>2, <2>3, <1>11, Push
  <2> QED BY <2>4 DEF free
<1>13. Listing(g, new, lost)
  <2> DEFINE more == [len EXCEPT ![p] = len[p] + 1]
  <2>1. len \in [Places -> Nat]
    BY <1>9 DEF Stacks
  <2>2. ASSUME NEW u \in Threads, NEW d \in Classes PROVE new[u][d].count = more[BinOf(u, d)]
    <3>1. CASE u = t /\ d = c
      <4>1. count = len[p]
        BY <1>1, <1>9 DEF count, p
      <4> QED BY <3>1, <4>1, <2>1, <1>7, <1>10 DEF p
    <3>2. CASE ~ (u = t /\ d = c)
      <4>1. BinOf(u, d) \in Places /\ BinOf(u, d) # p
        BY <3>2, PlacesFacts DEF p
      <4> QED BY <3>2, <4>1, <2>1, <1>7, <1>9
    <3> QED BY <3>1, <3>2
  <2>3. PICK up : Stacks(g.hdr, Heads(g, new), up, more, lost)
    BY <1>12 DEF first
  <2>4. Lost(g.hdr, lost)
    BY <1>12
  <2>5. \A u \in Threads, d \in Classes : new[u][d].count = more[BinOf(u, d)]
    BY <2>2
  <2> HIDE DEF more
  <2> QED BY <2>3, <2>4, <2>5 DEF Listing
<1>14. Marked(g)
  BY <1>3, <1>8 DEF InOrder, Marked
<1>15. GoodBins(g, new)
  <2>1. Extends(s, g)
    BY <1>3 DEF SameBlocks, Extends
  <2> QED BY <2>1, ExtendsBins
<1>16. InOrder(g, new, lost)
  BY <1>4, <1>8, <1>13, <1>14, <1>15 DEF InOrder
<1>17. Bounded(new)
  BY <1>5, <1>7 DEF Bounded
<1>18. Busy(g) = Busy(s) \ {b}
  BY <1>1, <1>3, <1>8 DEF Busy, FreeBlocks
<1> QED BY <1>3, <1>16, <1>17, <1>18 DEF g, list

\* A thread that ends takes its bins with it: what they held is lost.
LEMMA ExitInOrder ==
  ASSUME NEW s, NEW bins, NEW lost, InOrder(s, bins, lost), Bounded(bins),
         NEW t \in Threads
  PROVE  LET new == [bins EXCEPT ![t] = EmptyBins]
         IN  Bounded(new) /\ \E gone : InOrder(s, new, gone)
<1> DEFINE new == [bins EXCEPT ![t] = EmptyBins]
           D == {BinOf(t, c) : c \in Classes}
           head == Heads(s, bins)
           first == Heads(s, new)
<1>1. /\ EmptyBins \in [Classes -> Bin]
      /\ \A c \in Classes : EmptyBins[c].free_list = NULL /\ EmptyBins[c].count = 0
  BY SmallAssumption DEF EmptyBins, Bin, NULL
<1>2. bins \in [Threads -> [Classes -> Bin]] /\ DOMAIN s.hdr \subseteq Nat \ {NULL}
  BY DEF InOrder, GoodBins, GoodBlocks, IsSmall
<1>3. /\ new \in [Threads -> [Classes -> Bin]]
      /\ \A u \in Threads, c \in Classes :
           /\ new[u][c].free_list = IF u = t THEN NULL ELSE bins[u][c].free_list
           /\ new[u][c].count = IF u = t THEN 0 ELSE bins[u][c].count
  BY <1>1, <1>2
<1> HIDE DEF new
<1>4. GoodBins(s, new)
  BY <1>3 DEF InOrder, GoodBins, Known
<1>5. Bounded(new)
  BY <1>3, SmallAssumption DEF Bounded
<1>6. PICK at, len :
        /\ Stacks(s.hdr, Heads(s, bins), at, len, lost)
        /\ \A u \in Threads, d \in Classes : bins[u][d].count = len[BinOf(u, d)]
  BY DEF InOrder, Listing
<1>7. /\ D \in SUBSET Places
      /\ \A c \in Classes : Central(c) \notin D
      /\ \A u \in Threads, c \in Classes : BinOf(u, c) \in D <=> u = t
  BY PlacesFacts
<1>8. ASSUME NEW q \in Places PROVE first[q] = IF q \in D THEN NULL ELSE head[q]
  <2>1. CASE \E c \in Classes : q = Central(c)
    BY <2>1, <1>7, HeadsFacts
  <2>2. CASE \E u \in Threads, c \in Classes : q = BinOf(u, c)
    <3>1. PICK u \in Threads, c \in Classes : q = BinOf(u, c)
      BY <2>2
    <3>2. first[q] = new[u][c].free_list /\ head[q] = bins[u][c].free_list
      <4> HIDE DEF D
      <4> QED BY <3>1, HeadsFacts
    <3>3. q \in D <=> u = t
      BY <3>1, <1>7
    <3> HIDE DEF D, head, first
    <3> QED BY <3>2, <3>3, <1>3
  <2> QED BY <2>1, <2>2, PlacesFacts
<1> DEFINE gone == lost \cup OnLists(D, at, len)
           less == [q \in Places |-> IF q \in D THEN 0 ELSE len[q]]
<1> HIDE DEF head, first
<1>9. Stacks(s.hdr, first, at, less, gone) /\ Lost(s.hdr, gone)
  <2> DEFINE hdr == s.hdr
  <2>1. /\ Stacks(hdr, head, at, len, lost)
        /\ Lost(hdr, lost)
        /\ DOMAIN hdr \subseteq Nat \ {NULL}
    BY <1>2, <1>6 DEF InOrder, Listing, head
  <2>2. D \in SUBSET Places
    BY <1>7
  <2>3. gone = lost \cup OnLists(D, at, len)
    OBVIOUS
  <2> HIDE DEF D, gone, hdr
  <2>4. Stacks(hdr, first, at, less, gone) /\ Lost(hdr, gone)
    BY <2>1, <2>2, <2>3, <1>8, Drop
  <2> QED BY <2>4 DEF hdr
<1>10. \A u \in Threads, c \in Classes : new[u][c].count = less[BinOf(u, c)]
  BY <1>3, <1>6, <1>7, PlacesFacts
<1> HIDE DEF gone, less
<1>11. Listing(s, new, gone)
  BY <1>9, <1>10 DEF Listing, first
<1>12. InOrder(s, new, gone)
  BY <1>4, <1>11 DEF InOrder
<1> QED BY <1>5, <1>12 DEF new

-----------------------------------------------------------------------------
\* The steps of careful clients: they pass no pointer they freed.

Careful == Calls \cap {"free", "realloc"} = {}

\* The blocks that are handed out are those the clients hold; the others are on the lists,
\* but for those a thread took with it when it ended.
Ordered ==
  /\ Busy(small) = DOMAIN live
  /\ Bounded(tc_bins)
  /\ \E lost : InOrder(small, tc_bins, lost) /\ ("exit" \notin Calls => lost = {})

ListsInv == PlacesInv /\ Ordered

\* malloc of a cached block.
LEMMA CacheHitOrdered ==
  ASSUME ListsInv, NEW t \in Threads, NEW size \in Sizes, NEW traced \in BOOLEAN,
         CacheHit(t, size, traced)
  PROVE  Ordered' /\ \E b \in DOMAIN small.hdr \ DOMAIN live : live' = Hold(b, size, traced)
<1> DEFINE c == SizeToClass(size, traced)
           b == tc_bins[t][c].free_list
           n == Decrement(tc_bins[t][c].count)
           g == Uncached(small, b)
           new == [tc_bins EXCEPT ![t][c] = [free_list |-> small.hdr[b].next, count |-> n]]
<1>1. size \in Nat /\ c \in Classes
  BY SizeToClassType, SmallAssumption
<1> HIDE DEF c
<1>2. /\ b # NULL
      /\ tc_bins' = new
      /\ small' = g
      /\ live' = Hold(b, size, traced)
  BY DEF CacheHit, c
<1>3. PICK lost : InOrder(small, tc_bins, lost) /\ ("exit" \notin Calls => lost = {})
  BY DEF ListsInv, Ordered
<1>4. GoodBins(small, new) /\ Rebound(tc_bins, new, t, c, small.hdr[b].next, n)
  <2>1. GoodBlocks(small) /\ GoodBins(small, tc_bins) /\ IsSmall(small)
    BY DEF ListsInv, PlacesInv, GoodBlocks
  <2>2. b \in DOMAIN small.hdr /\ tc_bins[t][c].count \in 0 .. SIZE_MAX
    BY <2>1, <1>1, <1>2 DEF GoodBins, Known, Bin
  <2>3. /\ n \in 0 .. SIZE_MAX
        /\ small.hdr[b].next \in Known(small) /\ small.hdr[b].next \in Nat
    BY <2>1, <2>2, HeaderTypes, DecrementType DEF GoodBlocks
  <2> HIDE DEF b, n, new
  <2> DEFINE next == small.hdr[b].next
             bin == [tc_bins EXCEPT ![t][c] = [free_list |-> next, count |-> n]]
  <2> HIDE DEF next
  <2>4. GoodBins(small, bin) /\ Rebound(tc_bins, bin, t, c, next, n)
    BY <1>1, <2>1, <2>3, SetBinCount DEF next
  <2> QED BY <2>4 DEF next, new
<1> HIDE DEF new, g
<1>5. /\ InOrder(g, new, lost)
      /\ Bounded(new)
      /\ b \in FreeBlocks(small)
      /\ Busy(g) = Busy(small) \cup {b}
  <2>1. Bounded(tc_bins)
    BY DEF ListsInv, Ordered
  <2> QED BY <2>1, <1>1, <1>2, <1>3, <1>4, UncachedInOrder DEF g
<1> HIDE DEF b
<1>6. Busy(small) = DOMAIN live /\ Allocations(live)
  BY DEF ListsInv, Ordered, PlacesInv, Others
<1>7. b \in DOMAIN small.hdr \ DOMAIN live
  BY <1>5, <1>6 DEF Busy, FreeBlocks
<1>8. DOMAIN live' = DOMAIN live \cup {b}
  BY <1>1, <1>2, <1>6, HoldTypes
<1> QED BY <1>2, <1>3, <1>5, <1>6, <1>7, <1>8 DEF Ordered

\* malloc from a central list.
LEMMA MallocCentralOrdered ==
  ASSUME ListsInv, NEW t \in Threads, NEW size \in Sizes, NEW traced \in BOOLEAN,
         MallocCentral(t, size, traced)
  PROVE  Ordered'
<1> DEFINE c == SizeToClass(size, traced)
<1>1. size \in Nat /\ c \in Classes
  BY SizeToClassType, SmallAssumption
<1>2. PICK o \in MallocOutcomes(small, c) :
        /\ small' = o.small
        /\ live' = IF o.block = NULL THEN live ELSE Hold(o.block, size, traced)
  BY DEF MallocCentral
<1> HIDE DEF c
<1>3. PICK lost : InOrder(small, tc_bins, lost) /\ ("exit" \notin Calls => lost = {})
  BY DEF ListsInv, Ordered
<1>4. /\ InOrder(o.small, tc_bins, lost)
      /\ o.block = NULL => o.small = small
      /\ o.block # NULL => Busy(o.small) = Busy(small) \cup {o.block}
  BY <1>1, <1>3, MallocInOrder
<1>5. /\ Busy(small) = DOMAIN live
      /\ Bounded(tc_bins)
      /\ Allocations(live)
  BY DEF ListsInv, Ordered, PlacesInv, Others
<1>6. tc_bins' = tc_bins
  BY DEF MallocCentral
<1>7. o.block # NULL => DOMAIN live' = DOMAIN live \cup {o.block}
  BY <1>1, <1>2, <1>5, HoldTypes
<1>8. Busy(small') = DOMAIN live'
  BY <1>2, <1>4, <1>5, <1>7
<1> QED BY <1>2, <1>3, <1>4, <1>5, <1>6, <1>8 DEF Ordered

\* free of a block its client holds.
LEMMA FreeOrdered ==
  ASSUME ListsInv, NEW t \in Threads, NEW b \in DOMAIN live, Free(t, b)
  PROVE  Ordered'
<1> DEFINE c == small.hdr[b].size_class_index
           first == tc_bins[t][c].free_list
           n == tc_bins[t][c].count + 1
           g == Freed(small, b, first)
           new == [tc_bins EXCEPT ![t][c] = [free_list |-> b, count |-> n]]
<1>1. PICK lost : InOrder(small, tc_bins, lost) /\ ("exit" \notin Calls => lost = {})
  BY DEF ListsInv, Ordered
<1>2. /\ b \in Busy(small)
      /\ Busy(small) = DOMAIN live
      /\ Bounded(tc_bins)
      /\ Allocations(live)
  BY DEF ListsInv, Ordered, PlacesInv, Others
<1>3. DOMAIN live' = DOMAIN live \ {b}
  <2>1. live' = LetGo(b)
    BY DEF Free, FreeCached, FreeCentral
  <2> QED BY <2>1, <1>2, LetGoTypes
<1>4. CASE FreeCached(t, b)
  <2>1. /\ HasRoom(tc_bins[t][c])
        /\ small' = g
        /\ tc_bins' = new
    BY <1>4 DEF FreeCached
  <2>2. /\ c \in Classes
        /\ b \in Known(small) /\ b \in Nat
        /\ GoodBins(small, tc_bins)
    <3>1. c \in Classes /\ b \in DOMAIN small.hdr
      BY <1>1, <1>2, BusyUsed
    <3> QED BY <3>1 DEF ListsInv, PlacesInv, GoodBlocks, IsSmall, Known
  <2>3. GoodBins(small, new) /\ Rebound(tc_bins, new, t, c, b, n)
    <3>1. n \in 0 .. SIZE_MAX
      <4>1. /\ tc_bins[t][c].count \in 0 .. SIZE_MAX
            /\ tc_bins[t][c].count < THREAD_CACHE_MAX_BLOCKS_PER_CLASS
        BY <2>1, <2>2 DEF GoodBins, Bin, HasRoom
      <4> QED BY <4>1, CacheLimit
    <3> HIDE DEF c, n
    <3> QED BY <2>2, <3>1, SetBinCount
  <2> HIDE DEF new
  <2>4. /\ InOrder(g, new, lost)
        /\ Bounded(new)
        /\ Busy(g) = Busy(small) \ {b}
    <3>1. /\ InOrder(small, tc_bins, lost) /\ Bounded(tc_bins) /\ b \in Busy(small)
          /\ HasRoom(tc_bins[t][c]) /\ GoodBins(small, new)
          /\ Rebound(tc_bins, new, t, c, b, tc_bins[t][c].count + 1)
          /\ t \in Threads
      BY <1>1, <1>2, <2>1, <2>3
    <3> QED BY ONLY <3>1, FreedInOrder DEF g, first, c
  <2> HIDE DEF g
  <2>5. Busy(small') = DOMAIN live'
    BY <1>2, <1>3, <2>1, <2>4
  <2> QED BY <1>1, <2>1, <2>4, <2>5 DEF Ordered
<1>5. CASE FreeCentral(t, b)
  <2> DEFINE h == FreeInternal(small, b)
  <2>1. small' = h /\ tc_bins' = tc_bins
    BY <1>5 DEF FreeCentral
  <2>2. InOrder(h, tc_bins, lost) /\ Busy(h) = Busy(small) \ {b}
    BY <1>1, <1>2, FreeInternalInOrder
  <2> HIDE DEF h
  <2>3. Busy(small') = DOMAIN live'
    BY <1>2, <1>3, <2>1, <2>2
  <2> QED BY <1>1, <1>2, <2>1, <2>2, <2>3 DEF Ordered
<1> QED BY <1>4, <1>5 DEF Free

\* realloc of a block its client holds.
LEMMA ReallocOrdered ==
  ASSUME ListsInv, NEW t \in Threads, NEW b \in DOMAIN live, NEW size \in Sizes,
         Realloc(t, b, size)
  PROVE  Ordered'
<1>1. PICK lost : InOrder(small, tc_bins, lost) /\ ("exit" \notin Calls => lost = {})
  BY DEF ListsInv, Ordered
<1>2. /\ b \in Busy(small)
      /\ Busy(small) = DOMAIN live
      /\ Bounded(tc_bins)
      /\ Allocations(live)
  BY DEF ListsInv, Ordered, PlacesInv, Others
<1>3. size \in Nat
  BY SmallAssumption
<1>4. CASE ReallocInPlace(b, size)
  <2>1. live' = Hold(b, size, FALSE) /\ small' = small /\ tc_bins' = tc_bins
    BY <1>4 DEF ReallocInPlace
  <2>2. DOMAIN live' = DOMAIN live \cup {b}
    BY <1>2, <1>3, <2>1, HoldTypes
  <2>3. DOMAIN live' = DOMAIN live
    BY <2>2
  <2> QED BY <1>1, <1>2, <2>1, <2>3 DEF Ordered
<1>5. CASE ReallocGrow(b, size)
  <2> DEFINE c == SizeToClass(size, FALSE)
  <2>1. c \in Classes
    BY <1>3, SizeToClassType
  <2>2. PICK o \in MallocOutcomes(small, c) :
          \/ o.block = NULL /\ small' = small /\ live' = live
          \/ /\ o.block # NULL
             /\ small' = FreeInternal(o.small, b)
             /\ DOMAIN live' = (DOMAIN live \ {b}) \cup {o.block}
    BY <1>5 DEF ReallocGrow
  <2>3. tc_bins' = tc_bins
    BY <1>5 DEF ReallocGrow
  <2> HIDE DEF c
  <2>4. /\ InOrder(o.small, tc_bins, lost)
        /\ o.block # NULL =>
             /\ o.block \notin Busy(small)
             /\ Busy(o.small) = Busy(small) \cup {o.block}
    BY <1>1, <2>1, MallocInOrder
  <2>5. CASE o.block = NULL
    <3>1. small' = small /\ live' = live
      BY <2>2, <2>5
    <3> QED BY <1>1, <1>2, <2>3, <3>1 DEF Ordered
  <2>6. CASE o.block # NULL
    <3> DEFINE h == FreeInternal(o.small, b)
    <3>1. small' = h /\ DOMAIN live' = (DOMAIN live \ {b}) \cup {o.block}
      BY <2>2, <2>6
    <3>2. b \in Busy(o.small) /\ o.block # b
      BY <1>2, <2>4, <2>6
    <3>3. InOrder(h, tc_bins, lost) /\ Busy(h) = Busy(o.small) \ {b}
      BY <2>4, <3>2, FreeInternalInOrder
    <3> HIDE DEF h
    <3>4. Busy(small') = DOMAIN live'
      BY <1>2, <2>4, <2>6, <3>1, <3>2, <3>3
    <3> QED BY <1>1, <1>2, <2>3, <3>1, <3>3, <3>4 DEF Ordered
  <2> QED BY <2>5, <2>6
<1>6. CASE ReallocOut(t, b, size)
  BY <1>6, FreeOrdered DEF ReallocOut
<1> QED BY <1>4, <1>5, <1>6 DEF Realloc

\* The end of a thread.
LEMMA ExitOrdered ==
  ASSUME ListsInv, NEW t \in Threads, Exit(t)
  PROVE  Ordered'
<1> DEFINE new == [tc_bins EXCEPT ![t] = EmptyBins]
<1>1. PICK lost : InOrder(small, tc_bins, lost)
  BY DEF ListsInv, Ordered
<1>2. Busy(small) = DOMAIN live /\ Bounded(tc_bins)
  BY DEF ListsInv, Ordered
<1>3. "exit" \in Calls /\ tc_bins' = new /\ small' = small /\ live' = live
  BY DEF Exit
<1>4. Bounded(new) /\ \E gone : InOrder(small, new, gone)
  BY <1>1, <1>2, ExitInOrder
<1> HIDE DEF new
<1> QED BY <1>2, <1>3, <1>4 DEF Ordered

\* Every step of careful clients keeps the lists in order.
LEMMA NextOrdered == Careful /\ ListsInv /\ [Next]_vars => ListsInv'
<1> SUFFICES ASSUME Careful, ListsInv, [Next]_vars PROVE ListsInv'
  OBVIOUS
<1>0. PlacesInv'
  BY NextPlaces DEF ListsInv
<1>1. CASE UNCHANGED vars
  BY <1>0, <1>1 DEF vars, ListsInv, Ordered
<1>2. ASSUME NEW t \in Threads, Call(t) PROVE Ordered'
  <2>1. ASSUME NEW size \in Sizes, NEW traced \in BOOLEAN,
               CacheHit(t, size, traced) \/ MallocCentral(t, size, traced)
        PROVE  Ordered'
    BY <2>1, CacheHitOrdered, MallocCentralOrdered
  <2>2. ASSUME NEW b \in DOMAIN live, Free(t, b) PROVE Ordered'
    BY <2>2, FreeOrdered
  <2>3. ASSUME NEW b \in DOMAIN live, NEW size \in Sizes, Realloc(t, b, size) PROVE Ordered'
    BY <2>3, ReallocOrdered
  <2>4. "free" \notin Calls /\ "realloc" \notin Calls
    BY DEF Careful
  <2> QED BY <1>2, <2>1, <2>2, <2>3, <2>4 DEF Call
<1>3. ASSUME NEW t \in Threads, CacheFault(t) \/ Snapshot(t) PROVE Ordered'
  BY <1>3 DEF CacheFault, Snapshot, ListsInv, Ordered
<1>4. ASSUME NEW t \in Threads, Exit(t) PROVE Ordered'
  BY <1>4, ExitOrdered
<1> QED BY <1>0, <1>1, <1>2, <1>3, <1>4 DEF Next, ListsInv

\* No block, no list: all in order.
LEMMA InitOrdered == Init => ListsInv
<1> SUFFICES ASSUME Init PROVE ListsInv
  OBVIOUS
<1>1. PlacesInv
  BY InitPlaces
<1>2. DOMAIN small.hdr = {} /\ DOMAIN live = {}
  BY DEF Init
<1>3. /\ \A c \in Classes : small.free_class_list[c] = NULL
      /\ \A t \in Threads, c \in Classes :
           tc_bins[t][c].free_list = NULL /\ tc_bins[t][c].count = 0
  BY DEF Init, EmptyBins
<1> DEFINE at == [p \in Places |-> [i \in Nat |-> 0]]
           len == [p \in Places |-> 0]
           head == Heads(small, tc_bins)
<1>4. \A p \in Places : head[p] = NULL
  BY <1>3, HeadsFacts, PlacesFacts
<1> HIDE DEF head
<1>5. at \in [Places -> [Nat -> Nat]] /\ len \in [Places -> Nat] /\ \A p \in Places : len[p] = 0
  OBVIOUS
<1> HIDE DEF at, len
<1>6. FreeOf(small.hdr) = {}
  BY <1>2 DEF FreeOf
<1>7. Stacks(small.hdr, head, at, len, {})
  BY <1>4, <1>5, <1>6 DEF Stacks
<1>8. Listing(small, tc_bins, {})
  <2>1. \A t \in Threads, c \in Classes : tc_bins[t][c].count = len[BinOf(t, c)]
    BY <1>3, <1>5, PlacesFacts
  <2>2. Lost(small.hdr, {})
    BY DEF Lost
  <2> QED BY <1>7, <2>1, <2>2 DEF Listing, head
<1>9. InOrder(small, tc_bins, {})
  BY <1>1, <1>2, <1>8, FS_EmptySet DEF InOrder, PlacesInv, Marked
<1>10. Bounded(tc_bins)
  BY <1>3, SmallAssumption DEF Bounded
<1>11. Busy(small) = DOMAIN live
  BY <1>2 DEF Busy
<1> QED BY <1>1, <1>9, <1>10, <1>11 DEF ListsInv, Ordered

\* A pointer of a list that is in order is the head of a stack, the next of a block of a
\* stack or the next of a lost block.
Headed(l, p, at, len) ==
  /\ len[p] \in 1 .. len[p]
  /\ l = [from |-> p, class |-> ClassOf[p], to |-> at[p][len[p]]]

Inner(l, p, i, at, len) ==
  /\ i - 1 \in 1 .. len[p]
  /\ l = [from |-> After(at[p][i]), class |-> ClassOf[p], to |-> at[p][i - 1]]

Dropped(l, b, hdr, lost) ==
  /\ hdr[b].next \in lost
  /\ l = [from |-> After(b), class |-> hdr[b].size_class_index, to |-> hdr[b].next]

Linked(l, hdr, at, len, lost) ==
  \/ \E p \in Places : Headed(l, p, at, len)
  \/ \E p \in Places : \E i \in 1 .. len[p] : Inner(l, p, i, at, len)
  \/ \E b \in lost : Dropped(l, b, hdr, lost)

\* It is one of these.
LEMMA LinkOfStack ==
  ASSUME NEW s, NEW bins, NEW lost, NEW at, NEW len,
         Stacks(s.hdr, Heads(s, bins), at, len, lost), Lost(s.hdr, lost),
         NEW l \in Links(s, bins), l.to # NULL
  PROVE  Linked(l, s.hdr, at, len, lost)
<1>1. /\ len \in [Places -> Nat]
      /\ \A p \in Places : Heads(s, bins)[p] = IF len[p] = 0 THEN NULL ELSE at[p][len[p]]
  BY DEF Stacks
<1>2. \A p \in Places : \A i \in 1 .. len[p] :
        /\ s.hdr[at[p][i]].size_class_index = ClassOf[p]
        /\ s.hdr[at[p][i]].next = IF i = 1 THEN NULL ELSE at[p][i - 1]
  BY DEF Stacks
<1>3. \A b \in FreeOf(s.hdr) \ lost : \E p \in Places : \E i \in 1 .. len[p] : b = at[p][i]
  BY DEF Stacks
<1>4. ASSUME NEW p \in Places, l = [from |-> p, class |-> ClassOf[p], to |-> Heads(s, bins)[p]]
      PROVE  Linked(l, s.hdr, at, len, lost)
  <2>1. len[p] \in Nat /\ l.to = Heads(s, bins)[p]
    BY <1>1, <1>4
  <2>2. len[p] # 0
    BY <2>1, <1>1
  <2>3. Headed(l, p, at, len)
    BY <2>1, <2>2, <1>1, <1>4 DEF Headed
  <2> QED BY <2>3 DEF Linked
<1>5. CASE l \in {[from |-> Central(c), class |-> c, to |-> s.free_class_list[c]] : c \in Classes}
  <2>1. PICK c \in Classes : l = [from |-> Central(c), class |-> c, to |-> s.free_class_list[c]]
    BY <1>5
  <2>2. /\ Central(c) \in Places /\ ClassOf[Central(c)] = c
        /\ Heads(s, bins)[Central(c)] = s.free_class_list[c]
    BY PlacesFacts, HeadsFacts
  <2> QED BY <2>1, <2>2, <1>4
<1>6. CASE l \in {[from |-> BinOf(t, c), class |-> c, to |-> bins[t][c].free_list] :
                    t \in Threads, c \in Classes}
  <2>1. PICK t \in Threads, c \in Classes :
          l = [from |-> BinOf(t, c), class |-> c, to |-> bins[t][c].free_list]
    BY <1>6
  <2>2. /\ BinOf(t, c) \in Places /\ ClassOf[BinOf(t, c)] = c
        /\ Heads(s, bins)[BinOf(t, c)] = bins[t][c].free_list
    BY PlacesFacts, HeadsFacts
  <2> QED BY <2>1, <2>2, <1>4
<1>7. ASSUME NEW b \in FreeBlocks(s),
             l = [from |-> After(b), class |-> s.hdr[b].size_class_index, to |-> s.hdr[b].next]
      PROVE  Linked(l, s.hdr, at, len, lost)
  <2>1. b \in FreeOf(s.hdr) /\ s.hdr[b].next # NULL
    BY <1>7 DEF FreeBlocks, FreeOf
  <2>2. CASE b \in lost
    <3>1. Dropped(l, b, s.hdr, lost)
      BY <2>1, <2>2, <1>7 DEF Lost, Dropped
    <3> QED BY <2>2, <3>1 DEF Linked
  <2>3. CASE b \notin lost
    <3>1. PICK p \in Places : \E i \in 1 .. len[p] : b = at[p][i]
      BY <2>1, <2>3, <1>3
    <3>2. PICK i \in 1 .. len[p] : b = at[p][i]
      BY <3>1
    <3>3. i # 1 /\ s.hdr[b].next = at[p][i - 1] /\ s.hdr[b].size_class_index = ClassOf[p]
      BY <3>2, <2>1, <1>2
    <3>4. i - 1 \in 1 .. len[p]
      BY <3>3, <1>1
    <3>5. Inner(l, p, i, at, len)
      BY <3>2, <3>3, <3>4, <1>7 DEF Inner
    <3> QED BY <3>5 DEF Linked
  <2> QED BY <2>2, <2>3
<1>8. CASE l \in {[from |-> After(b), class |-> s.hdr[b].size_class_index, to |-> s.hdr[b].next] :
                    b \in FreeBlocks(s)}
  BY <1>7, <1>8
<1> QED BY <1>5, <1>6, <1>8 DEF Links

\* Lists that are in order are sound.
LEMMA ListsInvSound == ListsInv => ListsSound
<1> SUFFICES ASSUME ListsInv PROVE ListsSound
  OBVIOUS
<1> DEFINE hdr == small.hdr
<1>1. PICK lost : InOrder(small, tc_bins, lost)
  BY DEF ListsInv, Ordered
<1>2. PICK at, len : Stacks(hdr, Heads(small, tc_bins), at, len, lost)
  BY <1>1 DEF InOrder, Listing
<1>3. Lost(hdr, lost)
  BY <1>1 DEF InOrder, Listing
<1>4. /\ \A p \in Places : \A i \in 1 .. len[p] :
           at[p][i] \in FreeOf(hdr) \ lost /\ hdr[at[p][i]].size_class_index = ClassOf[p]
      /\ \A p, q \in Places : \A i \in 1 .. len[p], j \in 1 .. len[q] :
           at[p][i] = at[q][j] => p = q /\ i = j
      /\ len \in [Places -> Nat]
  BY <1>2 DEF Stacks
<1>5. /\ lost \subseteq FreeOf(hdr)
      /\ \A b \in lost : hdr[b].next # NULL =>
           hdr[hdr[b].next].size_class_index = hdr[b].size_class_index
      /\ \A b, d \in lost : hdr[b].next = hdr[d].next /\ hdr[b].next # NULL => b = d
  BY <1>3 DEF Lost
<1>6. FreeOf(hdr) \subseteq FreeBlocks(small) \ DOMAIN live
  BY DEF ListsInv, Ordered, Busy, FreeBlocks, FreeOf
<1>7. ASSUME NEW l \in Links(small, tc_bins), l.to # NULL PROVE Linked(l, hdr, at, len, lost)
  BY <1>2, <1>3, <1>7, LinkOfStack
<1>8. ASSUME NEW l \in Links(small, tc_bins), l.to # NULL
      PROVE  l.to \in FreeOf(hdr) /\ hdr[l.to].size_class_index = l.class
  <2>1. ASSUME NEW p \in Places, Headed(l, p, at, len)
        PROVE  l.to \in FreeOf(hdr) /\ hdr[l.to].size_class_index = l.class
    BY <2>1, <1>4 DEF Headed
  <2>2. ASSUME NEW p \in Places, NEW i \in 1 .. len[p], Inner(l, p, i, at, len)
        PROVE  l.to \in FreeOf(hdr) /\ hdr[l.to].size_class_index = l.class
    BY <2>2, <1>4 DEF Inner
  <2>3. ASSUME NEW b \in lost, Dropped(l, b, hdr, lost)
        PROVE  l.to \in FreeOf(hdr) /\ hdr[l.to].size_class_index = l.class
    BY <2>3, <1>5, <1>8 DEF Dropped
  <2> QED BY <2>1, <2>2, <2>3, <1>7, <1>8 DEF Linked
\* Where a pointer comes from follows from where it leads.
<1>9. ASSUME NEW l \in Links(small, tc_bins), l.to # NULL
      PROVE  /\ \A p \in Places : \A j \in 1 .. len[p] : l.to = at[p][j] =>
                  l.from = IF j = len[p] THEN p ELSE After(at[p][j + 1])
             /\ \A b \in lost : l.to = hdr[b].next => l.from = After(b)
  <2>1. ASSUME NEW p \in Places, Headed(l, p, at, len)
        PROVE  /\ l.to \notin lost
               /\ \A q \in Places : \A j \in 1 .. len[q] : l.to = at[q][j] =>
                    l.from = IF j = len[q] THEN q ELSE After(at[q][j + 1])
    <3>1. l.to = at[p][len[p]] /\ l.from = p /\ len[p] \in 1 .. len[p]
      BY <2>1 DEF Headed
    <3> QED BY <3>1, <1>4
  <2>2. ASSUME NEW p \in Places, NEW i \in 1 .. len[p], Inner(l, p, i, at, len)
        PROVE  /\ l.to \notin lost
               /\ \A q \in Places : \A j \in 1 .. len[q] : l.to = at[q][j] =>
                    l.from = IF j = len[q] THEN q ELSE After(at[q][j + 1])
    <3> DEFINE k == i - 1
    <3>1. /\ l.to = at[p][k] /\ l.from = After(at[p][i]) /\ k \in 1 .. len[p]
          /\ i = k + 1 /\ k # len[p]
      BY <2>2, <1>4 DEF Inner
    <3> HIDE DEF k
    <3> QED BY <3>1, <1>4
  <2>3. ASSUME NEW b \in lost, Dropped(l, b, hdr, lost)
        PROVE  /\ l.to \in lost
               /\ \A d \in lost : l.to = hdr[d].next => l.from = After(d)
    <3>1. l.to = hdr[b].next /\ l.from = After(b)
      BY <2>3 DEF Dropped
    <3> QED BY <2>3, <3>1, <1>5, <1>9 DEF Dropped
  <2>4. \A d \in lost : l.to = hdr[d].next => l.to \in lost
    BY <1>3, <1>9 DEF Lost
  <2>5. CASE l.to \in lost
    BY <2>1, <2>2, <2>3, <2>5, <1>4, <1>7, <1>9 DEF Linked
  <2>6. CASE l.to \notin lost
    BY <2>1, <2>2, <2>3, <2>4, <2>6, <1>7, <1>9 DEF Linked
  <2> QED BY <2>5, <2>6
<1>10. ASSUME NEW l \in Links(small, tc_bins), NEW m \in Links(small, tc_bins),
              l.to = m.to, l.to # NULL
       PROVE  l.from = m.from
  <2>1. ASSUME NEW p \in Places, NEW j \in 1 .. len[p], m.to = at[p][j] PROVE l.from = m.from
    BY <2>1, <1>9, <1>10
  <2>2. ASSUME NEW b \in lost, m.to = hdr[b].next PROVE l.from = m.from
    BY <2>2, <1>9, <1>10
  <2>3. \/ \E p \in Places : \E j \in 1 .. len[p] : m.to = at[p][j]
        \/ \E b \in lost : m.to = hdr[b].next
    BY <1>7, <1>10 DEF Linked, Headed, Inner, Dropped
  <2> QED BY <2>1, <2>2, <2>3
<1> QED BY <1>6, <1>8, <1>10 DEF ListsSound

\* As long as clients free and resize only what they hold, no list of the layer or of a
\* cache leads to a block a client holds or to one of another class, and no two pointers
\* lead to the same block, whatever the order the threads run in and whether or not they
\* end (dam_small_malloc, dam_small_free, dam_small_realloc, create_small_pool).
THEOREM ListsAlwaysSound ==
  ASSUME Careful
  PROVE  Spec => []ListsSound
<1>1. ListsInv /\ [Next]_vars => ListsInv'
  BY NextOrdered
<1> QED BY <1>1, InitOrdered, ListsInvSound, PTL DEF Spec

-----------------------------------------------------------------------------
\* Walking the lists.

\* What a walk does at position i.
WalkStep(walk, first, i) ==
  IF i = 0 THEN first
  ELSE IF walk[i - 1] = NULL THEN NULL ELSE small.hdr[walk[i - 1]].next

\* A function that does as the walk does is the walk.
LEMMA WalkIs ==
  ASSUME NEW n \in Nat, n = Cardinality(DOMAIN small.hdr), NEW first, NEW walk,
         walk = [i \in 0 .. n |-> WalkStep(walk, first, i)]
  PROVE  Walk(first) = walk
<1> DEFINE w == Walk(first)
<1> DEFINE Does(at) == at = [i \in 0 .. n |-> IF i = 0 THEN first
                               ELSE IF at[i - 1] = NULL THEN NULL
                                    ELSE small.hdr[at[i - 1]].next]
<1>1. Does(walk)
  BY DEF WalkStep
<1>2. w = CHOOSE at : Does(at)
  BY DEF Walk
<1>3. Does(w)
  <2> HIDE DEF Does, w
  <2> QED BY <1>1, <1>2
<1> HIDE DEF w
<1>4. \A i \in 0 .. n : walk[i] = WalkStep(walk, first, i)
  BY <1>1 DEF WalkStep
<1>5. \A i \in 0 .. n : w[i] = WalkStep(w, first, i)
  BY <1>3 DEF WalkStep
<1> DEFINE wrong == {i \in 0 .. n : w[i] # walk[i]}
<1>6. wrong = {}
  <2> SUFFICES ASSUME wrong # {} PROVE FALSE
    OBVIOUS
  <2>1. wrong \subseteq Nat
    OBVIOUS
  <2>2. PICK i \in wrong : \A j \in wrong : i <= j
    BY <2>1, LeastNumber
  <2>3. CASE i = 0
    BY <2>2, <2>3, <1>4, <1>5 DEF WalkStep
  <2>4. CASE i # 0
    <3>1. i - 1 \in 0 .. n /\ i - 1 < i /\ i \in 0 .. n /\ w[i] # walk[i]
      BY <2>2, <2>4
    <3>2. w[i - 1] = walk[i - 1]
      BY <2>2, <3>1
    <3>3. /\ w[i] = IF w[i - 1] = NULL THEN NULL ELSE small.hdr[w[i - 1]].next
          /\ walk[i] = IF walk[i - 1] = NULL THEN NULL ELSE small.hdr[walk[i - 1]].next
      <4>1. w[i] = WalkStep(w, first, i) /\ walk[i] = WalkStep(walk, first, i)
        BY <3>1, <1>4, <1>5
      <4> QED BY <4>1, <2>4 DEF WalkStep
    <3> QED BY <3>1, <3>2, <3>3
  <2> QED BY <2>3, <2>4
<1>7. \A i \in 0 .. n : w[i] = walk[i]
  BY <1>6
<1>8. w = [i \in 0 .. n |-> w[i]] /\ walk = [i \in 0 .. n |-> walk[i]]
  BY <1>1, <1>3
<1> QED BY <1>7, <1>8 DEF w

\* A walk along a stack meets its blocks, each once.
LEMMA ListedStack ==
  ASSUME NEW head, NEW at, NEW len, NEW lost,
         Stacks(small.hdr, head, at, len, lost), DOMAIN small.hdr \subseteq Nat \ {NULL},
         IsFiniteSet(DOMAIN small.hdr), NEW p \in Places
  PROVE  /\ Listed(head[p]) = {at[p][i] : i \in 1 .. len[p]}
         /\ Cardinality(Listed(head[p])) = len[p]
<1> DEFINE hdr == small.hdr
           n == Cardinality(DOMAIN hdr)
           l == len[p]
           blocks == {at[p][i] : i \in 1 .. l}
           row == [i \in 1 .. l |-> at[p][i]]
           walk == [i \in 0 .. n |-> IF i < l THEN at[p][l - i] ELSE NULL]
<1>1. /\ l \in Nat
      /\ head[p] = IF l = 0 THEN NULL ELSE at[p][l]
  BY DEF Stacks
<1>2. \A i \in 1 .. l : /\ at[p][i] \in DOMAIN hdr
                        /\ at[p][i] # NULL
                        /\ hdr[at[p][i]].next = IF i = 1 THEN NULL ELSE at[p][i - 1]
  BY DEF Stacks, FreeOf
<1>3. \A i, j \in 1 .. l : at[p][i] = at[p][j] => i = j
  BY DEF Stacks
<1>4. n \in Nat
  BY FS_CardinalityType
<1> HIDE DEF l, n, hdr
<1>5. IsFiniteSet(1 .. l) /\ Cardinality(1 .. l) = l
  <2>1. 1 \in Int /\ l \in Int
    BY <1>1
  <2>2. /\ IsFiniteSet(1 .. l)
        /\ Cardinality(1 .. l) = IF 1 > l THEN 0 ELSE l - 1 + 1
    BY <2>1, FS_Interval, Zenon
  <2> QED BY <2>2, <1>1
<1>6. l <= n
  <2>1. row \in Injection(1 .. l, DOMAIN hdr)
    <3>1. row \in [1 .. l -> DOMAIN hdr] /\ \A i, j \in 1 .. l : row[i] = row[j] => i = j
      BY <1>2, <1>3
    <3> HIDE DEF row
    <3> QED BY <3>1 DEF Injection, IsInjective
  <2>2. Cardinality(1 .. l) <= Cardinality(DOMAIN hdr)
    <3>1. IsFiniteSet(DOMAIN hdr)
      BY DEF hdr
    <3> HIDE DEF row
    <3> QED BY <2>1, <3>1, FS_Injection, Zenon
  <2> QED BY <2>2, <1>5 DEF n
<1>7. Walk(head[p]) = walk
  <2>1. ASSUME NEW i \in 0 .. n
        PROVE  WalkStep(walk, head[p], i) = IF i < l THEN at[p][l - i] ELSE NULL
    <3>1. CASE i = 0
      BY <3>1, <1>1 DEF WalkStep
    <3>2. CASE i # 0
      <4>1. i - 1 \in 0 .. n
        BY <3>2, <1>4
      <4>2. walk[i - 1] = IF i - 1 < l THEN at[p][l - (i - 1)] ELSE NULL
        BY <4>1
      <4> HIDE DEF walk
      <4>3. WalkStep(walk, head[p], i) =
              IF walk[i - 1] = NULL THEN NULL ELSE hdr[walk[i - 1]].next
        BY <3>2 DEF WalkStep, hdr
      <4>4. CASE i - 1 >= l
        BY <4>2, <4>3, <4>4, <1>1, <1>4
      <4>5. CASE i - 1 < l
        <5> DEFINE k == l - (i - 1)
        <5>1. k \in 1 .. l /\ walk[i - 1] = at[p][k] /\ k - 1 = l - i /\ (k = 1 <=> ~ (i < l))
          BY <3>2, <4>2, <4>5, <1>1, <1>4
        <5> HIDE DEF k
        <5>2. WalkStep(walk, head[p], i) = IF k = 1 THEN NULL ELSE at[p][k - 1]
          BY <4>3, <5>1, <1>2
        <5> QED BY <5>1, <5>2
      <4> QED BY <4>4, <4>5, <1>1, <1>4
    <3> QED BY <3>1, <3>2
  <2>2. walk = [i \in 0 .. n |-> WalkStep(walk, head[p], i)]
    BY <2>1
  <2>3. n \in Nat /\ n = Cardinality(DOMAIN small.hdr)
    BY <1>4 DEF n, hdr
  <2> HIDE DEF walk
  <2> QED BY <2>2, <2>3, WalkIs
<1>8. Listed(head[p]) = blocks
  <2>1. DOMAIN walk = 0 .. n /\ \A i \in 0 .. n : walk[i] = IF i < l THEN at[p][l - i] ELSE NULL
    OBVIOUS
  <2> HIDE DEF walk
  <2>2. Listed(head[p]) = {walk[i] : i \in 0 .. n} \ {NULL}
    BY <1>7, <2>1 DEF Listed
  <2>3. ASSUME NEW i \in 0 .. n, walk[i] # NULL PROVE walk[i] \in blocks
    <3>1. i < l /\ l - i \in 1 .. l /\ walk[i] = at[p][l - i]
      BY <2>1, <2>3, <1>1, <1>4
    <3> QED BY <3>1
  <2>4. ASSUME NEW i \in 1 .. l PROVE at[p][i] \in {walk[j] : j \in 0 .. n} \ {NULL}
    <3> DEFINE j == l - i
    <3>1. j \in 0 .. n /\ j < l /\ l - j = i
      BY <1>1, <1>4, <1>6
    <3> HIDE DEF j
    <3>2. walk[j] = at[p][i]
      BY <2>1, <3>1
    <3> QED BY <3>1, <3>2, <1>2
  <2> QED BY <2>2, <2>3, <2>4
<1>9. Cardinality(blocks) = l
  <2>1. row \in Surjection(1 .. l, blocks) /\ row \in Injection(1 .. l, blocks)
    <3>1. /\ row \in [1 .. l -> blocks]
          /\ \A i, j \in 1 .. l : row[i] = row[j] => i = j
          /\ \A x \in blocks : \E i \in 1 .. l : row[i] = x
      BY <1>3
    <3> HIDE DEF row, blocks
    <3> QED BY <3>1 DEF Surjection, Injection, IsInjective
  <2> HIDE DEF row, blocks
  <2>2. Cardinality(blocks) = Cardinality(1 .. l)
    BY <2>1, <1>5, FS_Surjection, Zenon
  <2> QED BY <2>2, <1>5
<1> QED BY <1>8, <1>9 DEF l

\* Bins that are in order are counted.
LEMMA ListsInvCounted == ListsInv => BinsCounted
<1> SUFFICES ASSUME ListsInv, NEW t \in Threads, NEW c \in Classes
             PROVE  /\ tc_bins[t][c].count = Cardinality(Listed(tc_bins[t][c].free_list))
                    /\ tc_bins[t][c].count <= THREAD_CACHE_MAX_BLOCKS_PER_CLASS
  BY DEF BinsCounted
<1>1. PICK lost : InOrder(small, tc_bins, lost)
  BY DEF ListsInv, Ordered
<1>2. PICK at, len :
        /\ Stacks(small.hdr, Heads(small, tc_bins), at, len, lost)
        /\ \A u \in Threads, d \in Classes : tc_bins[u][d].count = len[BinOf(u, d)]
  BY <1>1 DEF InOrder, Listing
<1>3. DOMAIN small.hdr \subseteq Nat \ {NULL} /\ IsFiniteSet(DOMAIN small.hdr)
  BY <1>1 DEF InOrder, GoodBlocks, IsSmall
<1> DEFINE head == Heads(small, tc_bins)
           p == BinOf(t, c)
<1>4. p \in Places /\ head[p] = tc_bins[t][c].free_list
  BY PlacesFacts, HeadsFacts
<1> HIDE DEF head
<1>5. Cardinality(Listed(head[p])) = len[p]
  <2>1. Stacks(small.hdr, head, at, len, lost)
    BY <1>2 DEF head
  <2> HIDE DEF p
  <2> QED BY <2>1, <1>3, <1>4, ListedStack
<1>6. tc_bins[t][c].count = len[p]
  BY <1>2
<1> QED BY <1>4, <1>5, <1>6 DEF ListsInv, Ordered, Bounded

\* Lists that are in order lead to every block that is not handed out, when no thread ends.
LEMMA ListsInvNothingLost == "exit" \notin Calls /\ ListsInv => NothingLost
<1> DEFINE central == UNION {Listed(small.free_class_list[c]) : c \in Classes}
           cached == UNION {Listed(tc_bins[t][c].free_list) : t \in Threads, c \in Classes}
<1> SUFFICES ASSUME "exit" \notin Calls, ListsInv PROVE NothingLost
  OBVIOUS
<1>0. SUFFICES ASSUME NEW b \in DOMAIN small.hdr \ DOMAIN live PROVE b \in central \cup cached
  <2>1. DOMAIN small.hdr \ DOMAIN live \subseteq central \cup cached
    <3> HIDE DEF central, cached
    <3> QED OBVIOUS
  <2> QED BY <2>1 DEF NothingLost
<1>1. InOrder(small, tc_bins, {})
  BY DEF ListsInv, Ordered
<1>2. PICK at, len : Stacks(small.hdr, Heads(small, tc_bins), at, len, {})
  BY <1>1 DEF InOrder, Listing
<1>3. DOMAIN small.hdr \subseteq Nat \ {NULL} /\ IsFiniteSet(DOMAIN small.hdr)
  BY <1>1 DEF InOrder, GoodBlocks, IsSmall
<1>4. b \in FreeOf(small.hdr)
  BY DEF ListsInv, Ordered, Busy, FreeBlocks, FreeOf
<1> DEFINE head == Heads(small, tc_bins)
<1>5. PICK p \in Places : \E i \in 1 .. len[p] : b = at[p][i]
  BY <1>2, <1>4 DEF Stacks
<1>6. b \in Listed(head[p])
  <2>1. Stacks(small.hdr, head, at, len, {})
    BY <1>2
  <2> HIDE DEF head
  <2>2. Listed(head[p]) = {at[p][i] : i \in 1 .. len[p]}
    BY <2>1, <1>3, ListedStack
  <2> QED BY <2>2, <1>5
<1>7. CASE \E c \in Classes : p = Central(c)
  BY <1>6, <1>7, HeadsFacts
<1>8. CASE \E t \in Threads, c \in Classes : p = BinOf(t, c)
  BY <1>6, <1>8, HeadsFacts
<1> QED BY <1>7, <1>8, PlacesFacts

\* A cache's count is the length of its list, and within its limit, for clients that free
\* only what they hold: malloc from a bin, which looks at the list alone, never takes the
\* count below zero (dam_small_malloc, dam_small_free).
THEOREM BinsAlwaysCounted ==
  ASSUME Careful
  PROVE  Spec => []BinsCounted
<1>1. ListsInv /\ [Next]_vars => ListsInv'
  BY NextOrdered
<1> QED BY <1>1, InitOrdered, ListsInvCounted, PTL DEF Spec

\* No block is lost as long as no thread ends: a list leads to every block no client holds
\* (thread.c registers no destructor, so a thread that ends takes its blocks with it).
THEOREM NothingEverLost ==
  ASSUME Careful, "exit" \notin Calls
  PROVE  Spec => []NothingLost
<1>1. ListsInv /\ [Next]_vars => ListsInv'
  BY NextOrdered
<1>2. ListsInv => NothingLost
  BY ListsInvNothingLost
<1> QED BY <1>1, <1>2, InitOrdered, PTL DEF Spec

-----------------------------------------------------------------------------
\* The abstract heap.

\* Every block starts at an aligned address and ends in the address space.
Aligned(s) == \A b \in DOMAIN s.hdr : b % ALIGNMENT = 0 /\ End(s, b) <= ADDRESS_SPACE

\* Flags and links have no part in it.
LEMMA SameBlocksAligned ==
  ASSUME NEW s, NEW g, SameBlocks(s, g), Aligned(s)
  PROVE  Aligned(g)
  BY DEF SameBlocks, Aligned, End

\* The carving loop steps from aligned address to aligned address.
LEMMA BlockAtAligned ==
  ASSUME NEW base \in Nat, base % ALIGNMENT = 0, NEW c \in Classes, NEW i \in Nat
  PROVE  BlockAt(base, c, i) % ALIGNMENT = 0
<1> DEFINE s == Stride(c)
           k == s \div ALIGNMENT
<1>1. /\ ALIGNMENT \in Nat \ {0}
      /\ POOL_HEADER_SIZE \in Nat /\ POOL_HEADER_SIZE % ALIGNMENT = 0
      /\ SIZE_CLASS_HEADER_SIZE \in Nat /\ SIZE_CLASS_HEADER_SIZE % ALIGNMENT = 0
      /\ BlockSize(c) \in Nat /\ BlockSize(c) % ALIGNMENT = 0
  BY SmallAssumption, ConfigAssumption
<1>2. s \in Nat /\ s % ALIGNMENT = 0
  <2>1. s = SIZE_CLASS_HEADER_SIZE + BlockSize(c)
    BY DEF Stride
  <2>2. (SIZE_CLASS_HEADER_SIZE + BlockSize(c)) % ALIGNMENT = 0
    BY <1>1, SumAligned, Zenon
  <2> QED BY <1>1, <2>1, <2>2
<1>3. BlockAt(base, c, i) = (base + POOL_HEADER_SIZE) + i * s
  BY <1>1, AlignUpAligned DEF BlockAt
<1> HIDE DEF s
<1>4. k \in Nat /\ s = ALIGNMENT * k
  <2>1. s = (ALIGNMENT * k) + (s % ALIGNMENT)
    BY <1>1, <1>2, DivMod, Zenon
  <2>2. k \in Nat
    BY <1>1, <1>2
  <2> HIDE DEF k
  <2> QED BY <1>1, <1>2, <2>1, <2>2
<1> HIDE DEF k
<1>5. i * s = ALIGNMENT * (i * k) /\ i * k \in Nat
  BY <1>1, <1>4
<1>6. (i * s) % ALIGNMENT = 0
  <2>1. \A m \in Nat : (ALIGNMENT * m) % ALIGNMENT = 0
    BY <1>1
  <2> QED BY <1>5, <2>1
<1>7. (base + POOL_HEADER_SIZE) % ALIGNMENT = 0 /\ base + POOL_HEADER_SIZE \in Nat
  <2>1. (base + POOL_HEADER_SIZE) % ALIGNMENT = 0
    BY <1>1, SumAligned, Zenon
  <2> QED BY <1>1, <2>1
<1>8. i * s \in Nat
  BY <1>2
<1> QED BY <1>1, <1>3, <1>6, <1>7, <1>8, SumAligned

\* The blocks of a new pool.
LEMMA NewPoolAligned ==
  ASSUME NEW s, GoodBlocks(s), Aligned(s), NEW c \in Classes,
         NEW base \in FreeBases(s, PoolSize(c))
  PROVE  Aligned(NewPool(s, base, c))
<1> DEFINE g == NewPool(s, base, c)
           n == SIZE_CLASS_BLOCKS_PER_POOL
           At(i) == BlockAt(base, c, i)
           blocks == {At(i) : i \in 0 .. n - 1}
<1>1. /\ base \in Nat \ {0} /\ base % ALIGNMENT = 0
      /\ base + PoolSize(c) <= ADDRESS_SPACE
  BY SmallAssumption DEF FreeBases
<1>2. /\ DOMAIN g.hdr = DOMAIN s.hdr \cup blocks
      /\ \A b \in DOMAIN s.hdr : g.hdr[b] = s.hdr[b]
      /\ \A i \in 0 .. n - 1 : g.hdr[At(i)].size_class_index = c
  <2>1. IsSmall(s) /\ Apart(s)
    BY DEF GoodBlocks
  <2> QED BY <2>1, NewPoolFacts
<1>3. PoolSize(c) \in Nat
      /\ \A i \in 0 .. n - 1 : At(i) \in Nat /\ At(i) + Stride(c) <= base + PoolSize(c)
  BY <1>1, Carving
<1> HIDE DEF g
<1>4. ASSUME NEW b \in DOMAIN s.hdr PROVE b % ALIGNMENT = 0 /\ End(g, b) <= ADDRESS_SPACE
  BY <1>2 DEF Aligned, End
<1>5. ASSUME NEW i \in 0 .. n - 1
      PROVE  At(i) % ALIGNMENT = 0 /\ End(g, At(i)) <= ADDRESS_SPACE
  <2>1. At(i) % ALIGNMENT = 0
    <3>1. i \in Nat
      BY SmallAssumption
    <3> QED BY <3>1, <1>1, BlockAtAligned
  <2>2. g.hdr[At(i)].size_class_index = c
    BY <1>2
  <2>3. At(i) \in Nat /\ At(i) + Stride(c) <= base + PoolSize(c)
    BY <1>3
  <2> HIDE DEF At
  <2>4. End(g, At(i)) = At(i) + Stride(c)
    BY <2>2, <2>3, SmallAssumption DEF End, Stride
  <2>5. ADDRESS_SPACE \in Nat /\ Stride(c) \in Nat
    BY SmallAssumption, ClassSizes
  <2> QED BY <1>1, <1>3, <2>1, <2>3, <2>4, <2>5
<1> HIDE DEF At
<1> QED BY <1>2, <1>4, <1>5 DEF Aligned, g

\* dam_small_malloc_internal, whether it finds a block or not.
LEMMA MallocAligned ==
  ASSUME NEW s, GoodBlocks(s), Aligned(s), NEW c \in Classes, NEW o \in MallocOutcomes(s, c)
  PROVE  Aligned(o.small)
<1>1. ASSUME NEW g, GoodBlocks(g), Aligned(g), g.free_class_list[c] # NULL
      PROVE  Aligned(TakeFirst(g, c).small)
  BY <1>1, TakeFirstGood, SameBlocksAligned
<1>2. ASSUME NEW base \in FreeBases(s, PoolSize(c)), o = TakeFirst(NewPool(s, base, c), c)
      PROVE  Aligned(o.small)
  <2> DEFINE g == NewPool(s, base, c)
  <2>1. GoodBlocks(g) /\ g.free_class_list[c] # NULL /\ Aligned(g)
    BY NewPoolGood, NewPoolAligned
  <2> HIDE DEF g
  <2>2. o = TakeFirst(g, c)
    BY <1>2 DEF g
  <2> QED BY <1>1, <2>1, <2>2
<1> QED BY <1>1, <1>2 DEF MallocOutcomes

\* The allocations of the clients as AbstractHeap sees them.
Allocs(held) ==
  [p \in {Payload(b) : b \in DOMAIN held} |-> Takes(held[p - SIZE_CLASS_HEADER_SIZE])]

\* The pointer says where the block is.
LEMMA PayloadBlock ==
  ASSUME NEW b \in Nat
  PROVE  Payload(b) \in Nat /\ Payload(b) - SIZE_CLASS_HEADER_SIZE = b
  BY SmallAssumption DEF Payload

\* What a client points to is an aligned address of the address space.
LEMMA PayloadAligned ==
  ASSUME NEW s, IsSmall(s), Aligned(s), NEW b \in DOMAIN s.hdr
  PROVE  Payload(b) \in {p \in 1 .. ADDRESS_SPACE : p % ALIGNMENT = 0}
<1>1. b \in Nat \ {0} /\ s.hdr[b].size_class_index \in Classes
  BY HeaderTypes DEF NULL
<1>2. /\ SIZE_CLASS_HEADER_SIZE \in Nat /\ SIZE_CLASS_HEADER_SIZE % ALIGNMENT = 0
      /\ ADDRESS_SPACE \in Nat /\ ALIGNMENT \in Nat \ {0}
  BY SmallAssumption, ConfigAssumption
<1>3. b % ALIGNMENT = 0 /\ End(s, b) <= ADDRESS_SPACE
  BY DEF Aligned
<1>4. Payload(b) % ALIGNMENT = 0
  BY <1>1, <1>2, <1>3, SumAligned DEF Payload
<1>5. BlockSize(s.hdr[b].size_class_index) \in Nat
  BY <1>1, ClassSizes
<1>6. Payload(b) \in 1 .. ADDRESS_SPACE
  BY <1>1, <1>2, <1>3, <1>5 DEF Payload, End
<1> QED BY <1>4, <1>6

\* Allocations that fit their blocks share no byte.
LEMMA OwnBytes ==
  ASSUME NEW s, IsSmall(s), Apart(s), NEW b \in DOMAIN s.hdr, NEW c \in DOMAIN s.hdr, b # c,
         NEW m \in Nat, Room(m, s.hdr[b].size_class_index),
         NEW n \in Nat, Room(n, s.hdr[c].size_class_index)
  PROVE  Payload(b) + m <= Payload(c) \/ Payload(c) + n <= Payload(b)
<1>1. /\ b \in Nat /\ BlockSize(s.hdr[b].size_class_index) \in Nat
      /\ c \in Nat /\ BlockSize(s.hdr[c].size_class_index) \in Nat
      /\ SIZE_CLASS_HEADER_SIZE \in Nat
  BY HeaderTypes, ClassSizes, SmallAssumption
<1>2. End(s, b) <= c \/ End(s, c) <= b
  BY DEF Apart
<1> QED BY <1>1, <1>2 DEF Payload, End, Room

\* Each block a client holds is an allocation of what it takes.
LEMMA AllocsFacts ==
  ASSUME NEW held, DOMAIN held \subseteq Nat
  PROVE  /\ DOMAIN Allocs(held) = {Payload(b) : b \in DOMAIN held}
         /\ \A b \in DOMAIN held : Allocs(held)[Payload(b)] = Takes(held[b])
         /\ Allocs(held) = [q \in DOMAIN Allocs(held) |-> Allocs(held)[q]]
<1>1. \A b \in DOMAIN held : Payload(b) - SIZE_CLASS_HEADER_SIZE = b
  BY PayloadBlock
<1> QED BY <1>1 DEF Allocs

\* The clients gave up the blocks gone and hold b now, for another request or the first one.
Takeover(held, new, gone, b) ==
  /\ gone \subseteq DOMAIN held
  /\ DOMAIN new = (DOMAIN held \ gone) \cup {b}
  /\ \A x \in DOMAIN new \ {b} : new[x] = held[x]

\* The same of the allocations.
Replaced(held, gone, b, n) ==
  [q \in (DOMAIN Allocs(held) \ {Payload(x) : x \in gone}) \cup {Payload(b)} |->
     IF q = Payload(b) THEN n ELSE Allocs(held)[q]]

\* A takeover of blocks is one of allocations.
LEMMA AllocsAfter ==
  ASSUME NEW held, NEW new, DOMAIN held \subseteq Nat, NEW gone, NEW b \in Nat,
         Takeover(held, new, gone, b)
  PROVE  Allocs(new) = Replaced(held, gone, b, Takes(new[b]))
<1> DEFINE D == (DOMAIN Allocs(held) \ {Payload(x) : x \in gone}) \cup {Payload(b)}
<1>0. /\ gone \subseteq DOMAIN held
      /\ DOMAIN new = (DOMAIN held \ gone) \cup {b}
      /\ \A x \in DOMAIN new \ {b} : new[x] = held[x]
  BY DEF Takeover
<1>1. DOMAIN new \subseteq Nat
  BY <1>0
<1>2. \A x, y \in Nat : Payload(x) = Payload(y) => x = y
  BY SmallAssumption DEF Payload
<1>3. /\ DOMAIN Allocs(held) = {Payload(x) : x \in DOMAIN held}
      /\ \A x \in DOMAIN held : Allocs(held)[Payload(x)] = Takes(held[x])
  BY AllocsFacts
<1>4. /\ DOMAIN Allocs(new) = {Payload(x) : x \in DOMAIN new}
      /\ \A x \in DOMAIN new : Allocs(new)[Payload(x)] = Takes(new[x])
      /\ Allocs(new) = [q \in DOMAIN Allocs(new) |-> Allocs(new)[q]]
  BY <1>1, AllocsFacts
<1>5. \A q \in DOMAIN Allocs(new) : q \in D
  BY <1>0, <1>1, <1>2, <1>3, <1>4
<1>6. \A q \in D : q \in DOMAIN Allocs(new)
  BY <1>0, <1>2, <1>3, <1>4
<1>7. DOMAIN Allocs(new) = D
  BY <1>5, <1>6
<1>8. \A q \in D : Allocs(new)[q] = IF q = Payload(b) THEN Takes(new[b]) ELSE Allocs(held)[q]
  BY <1>0, <1>1, <1>2, <1>3, <1>4, <1>7
<1> HIDE DEF D
<1>9. Allocs(new) = [q \in D |-> IF q = Payload(b) THEN Takes(new[b]) ELSE Allocs(held)[q]]
  BY <1>4, <1>7, <1>8
<1> QED BY <1>9 DEF D, Replaced

\* What the requests of the clients take of their blocks.
Asked == Sizes \cup {size + TRACE_SIZE : size \in Sizes}

\* The bytes of a block keep clear of those of every allocation in another block.
LEMMA Clear ==
  ASSUME NEW s, NEW held, IsSmall(s), Apart(s), Allocations(held), Fit(s, held),
         DOMAIN held \subseteq DOMAIN s.hdr, NEW b \in DOMAIN s.hdr,
         NEW n \in Nat, Room(n, s.hdr[b].size_class_index)
  PROVE  \A q \in DOMAIN Allocs(held) \ {Payload(b)} :
           Payload(b) + n <= q \/ q + Allocs(held)[q] <= Payload(b)
<1>1. DOMAIN held \subseteq Nat
  BY DEF IsSmall
<1>2. /\ DOMAIN Allocs(held) = {Payload(x) : x \in DOMAIN held}
      /\ \A x \in DOMAIN held : Allocs(held)[Payload(x)] = Takes(held[x])
  BY <1>1, AllocsFacts
<1>3. ASSUME NEW x \in DOMAIN held, Payload(x) # Payload(b)
      PROVE  \/ Payload(b) + n <= Payload(x)
             \/ Payload(x) + Takes(held[x]) <= Payload(b)
  <2>1. Takes(held[x]) \in Nat
    BY SmallAssumption DEF Allocations, Takes
  <2>2. Room(Takes(held[x]), s.hdr[x].size_class_index)
    BY DEF Fit
  <2> QED BY <1>3, <2>1, <2>2, OwnBytes
<1> QED BY <1>2, <1>3

\* A client holds a block it did not hold, or one it held for another request.
LEMMA HoldImplements ==
  ASSUME Allocations(live), NEW g, IsSmall(g), Apart(g), Aligned(g),
         DOMAIN live \subseteq DOMAIN g.hdr, Fit(g, live),
         NEW b \in DOMAIN g.hdr, NEW size \in Sizes, NEW traced \in BOOLEAN,
         live' = Hold(b, size, traced),
         Room(size + IF traced THEN TRACE_SIZE ELSE 0, g.hdr[b].size_class_index)
  PROVE  [Abstract!Next]_(Allocs(live))
<1> DEFINE n == size + IF traced THEN TRACE_SIZE ELSE 0
           p == Payload(b)
           r == [size |-> size, traced |-> traced]
<1>1. n \in Nat /\ n \in Asked /\ Takes(r) = n /\ size \in Nat
  BY SmallAssumption DEF Takes, Asked
<1>2. b \in Nat /\ DOMAIN live \subseteq Nat
  BY DEF IsSmall
<1> HIDE DEF n
<1>3. Room(n, g.hdr[b].size_class_index)
  BY DEF n
<1>4. p \in {q \in 1 .. ADDRESS_SPACE : q % ALIGNMENT = 0}
  BY PayloadAligned
<1>5. \A q \in DOMAIN Allocs(live) \ {p} : p + n <= q \/ q + Allocs(live)[q] <= p
  BY <1>1, <1>3, Clear
<1> HIDE DEF r
<1>6. live' = [x \in DOMAIN live \cup {b} |-> IF x = b THEN r ELSE live[x]]
  BY DEF Hold, r
<1>7. Allocs(live') = [q \in DOMAIN Allocs(live) \cup {p} |->
                         IF q = p THEN n ELSE Allocs(live)[q]]
  <2> DEFINE new == live'
  <2>1. Takeover(live, new, {}, b) /\ new[b] = r
    BY <1>6 DEF Takeover
  <2> HIDE DEF new
  <2>2. Allocs(new) = Replaced(live, {}, b, n)
    BY <1>1, <1>2, <2>1, AllocsAfter
  <2>3. Replaced(live, {}, b, n) =
          [q \in DOMAIN Allocs(live) \cup {p} |-> IF q = p THEN n ELSE Allocs(live)[q]]
    <3>1. DOMAIN Allocs(live) \ {Payload(x) : x \in {}} = DOMAIN Allocs(live)
      OBVIOUS
    <3> QED BY <3>1 DEF Replaced
  <2> QED BY <2>2, <2>3 DEF new
<1> HIDE DEF p
<1>8. CASE p \notin DOMAIN Allocs(live)
  <2>1. Abstract!Allocate(p, n)
    BY <1>5, <1>7 DEF Abstract!Allocate, Abstract!Vacant, Allocs, Bytes, Takes
  <2>2. p \in {q \in 1 .. ADDRESS_SPACE : q % ALIGNMENT = 0} \ DOMAIN Allocs(live)
    BY <1>4, <1>8
  <2> QED BY <1>1, <2>1, <2>2 DEF Abstract!Next, Allocs, Asked
<1>9. CASE p \in DOMAIN Allocs(live)
  <2>1. Allocs(live) = [q \in DOMAIN Allocs(live) |-> Allocs(live)[q]]
    BY <1>2, AllocsFacts
  <2>2. Allocs(live') = [Allocs(live) EXCEPT ![p] = n]
    BY <1>7, <1>9, <2>1
  <2>3. Abstract!Resize(p, n)
    BY <1>5, <2>2 DEF Abstract!Resize, Abstract!Vacant, Allocs, Bytes, Takes
  <2> QED BY <1>1, <1>9, <2>3 DEF Abstract!Next, Allocs, Asked
<1> QED BY <1>8, <1>9

\* A client gives a block up.
LEMMA LetGoImplements ==
  ASSUME DOMAIN live \subseteq Nat, NEW b \in DOMAIN live, live' = LetGo(b)
  PROVE  [Abstract!Next]_(Allocs(live))
<1> DEFINE p == Payload(b)
           new == live'
<1>1. DOMAIN new = DOMAIN live \ {b} /\ \A x \in DOMAIN new : new[x] = live[x]
  BY DEF LetGo
<1> HIDE DEF new
<1>2. \A x, y \in Nat : Payload(x) = Payload(y) => x = y
  BY SmallAssumption DEF Payload
<1>3. /\ DOMAIN Allocs(live) = {Payload(x) : x \in DOMAIN live}
      /\ \A x \in DOMAIN live : Allocs(live)[Payload(x)] = Takes(live[x])
  BY AllocsFacts
<1>4. /\ DOMAIN Allocs(new) = {Payload(x) : x \in DOMAIN new}
      /\ \A x \in DOMAIN new : Allocs(new)[Payload(x)] = Takes(new[x])
      /\ Allocs(new) = [q \in DOMAIN Allocs(new) |-> Allocs(new)[q]]
  <2>1. DOMAIN new \subseteq Nat
    BY <1>1
  <2> QED BY <2>1, AllocsFacts
<1>5. DOMAIN Allocs(new) = DOMAIN Allocs(live) \ {p}
  BY <1>1, <1>2, <1>3, <1>4
<1>6. \A q \in DOMAIN Allocs(new) : Allocs(new)[q] = Allocs(live)[q]
  BY <1>1, <1>3, <1>4
<1>7. Allocs(new) = [q \in DOMAIN Allocs(live) \ {p} |-> Allocs(live)[q]]
  BY <1>4, <1>5, <1>6
<1>8. p \in DOMAIN Allocs(live)
  BY <1>3
<1> HIDE DEF p
<1>9. Abstract!Release(p)
  BY <1>7 DEF Abstract!Release, Allocs, Bytes, Takes, new
<1> QED BY <1>8, <1>9 DEF Abstract!Next, Allocs

\* A client gives up b for another block, c, that answers its request.
LEMMA MoveImplements ==
  ASSUME Allocations(live), NEW g, IsSmall(g), Apart(g), Aligned(g),
         DOMAIN live \subseteq DOMAIN g.hdr, Fit(g, live),
         NEW b \in DOMAIN live, NEW c \in DOMAIN g.hdr, c \notin DOMAIN live,
         NEW size \in Sizes, Room(size, g.hdr[c].size_class_index),
         live' = [x \in (DOMAIN live \ {b}) \cup {c} |->
                    IF x = c THEN [size |-> size, traced |-> FALSE] ELSE live[x]]
  PROVE  [Abstract!Next]_(Allocs(live))
<1> DEFINE p == Payload(b)
           q == Payload(c)
           r == [size |-> size, traced |-> FALSE]
           new == live'
<1>1. size \in Nat /\ size \in Asked /\ Takes(r) = size
  BY SmallAssumption DEF Takes, Asked
<1>2. b \in Nat /\ c \in Nat /\ DOMAIN live \subseteq Nat
  BY DEF IsSmall
<1>3. q \in {a \in 1 .. ADDRESS_SPACE : a % ALIGNMENT = 0}
  BY PayloadAligned
<1>4. \A a \in DOMAIN Allocs(live) \ {q} : q + size <= a \/ a + Allocs(live)[a] <= q
  BY <1>1, Clear
<1>5. p \in DOMAIN Allocs(live) /\ q \notin DOMAIN Allocs(live)
  <2>1. DOMAIN Allocs(live) = {Payload(x) : x \in DOMAIN live}
    BY <1>2, AllocsFacts
  <2>2. \A x, y \in Nat : Payload(x) = Payload(y) => x = y
    BY SmallAssumption DEF Payload
  <2> QED BY <1>2, <2>1, <2>2
<1> HIDE DEF r
<1>6. Takeover(live, new, {b}, c) /\ new[c] = r
  BY DEF Takeover, r
<1> HIDE DEF new
<1>7. Allocs(new) = Replaced(live, {b}, c, size)
  BY <1>1, <1>2, <1>6, AllocsAfter
<1>8. Replaced(live, {b}, c, size) =
        [a \in (DOMAIN Allocs(live) \ {p}) \cup {q} |->
           IF a = q THEN size ELSE Allocs(live)[a]]
  <2>1. {Payload(x) : x \in {b}} = {p}
    OBVIOUS
  <2> QED BY <2>1 DEF Replaced
<1> HIDE DEF p, q
<1>9. Abstract!Move(p, q, size)
  BY <1>4, <1>7, <1>8 DEF Abstract!Move, Abstract!Vacant, Allocs, Bytes, Takes, new
<1>10. q \in {a \in 1 .. ADDRESS_SPACE : a % ALIGNMENT = 0} \ DOMAIN Allocs(live)
  BY <1>3, <1>5
<1> QED BY <1>1, <1>5, <1>9, <1>10 DEF Abstract!Next, Allocs, Asked

\* Pools are only added, blocks keep their class, and all stay aligned.
LEMMA NextExtends ==
  ASSUME PlacesInv, Aligned(small), [Next]_vars
  PROVE  Extends(small, small') /\ Aligned(small')
<1>1. GoodBlocks(small) /\ GoodBins(small, tc_bins) /\ DOMAIN live \subseteq DOMAIN small.hdr
  BY DEF PlacesInv, Others
<1>2. ASSUME SameBlocks(small, small')
      PROVE  Extends(small, small') /\ Aligned(small')
  BY <1>2, SameBlocksAligned DEF SameBlocks, Extends
<1>3. ASSUME small' = small PROVE Extends(small, small') /\ Aligned(small')
  BY <1>3, <1>2 DEF SameBlocks
<1>4. ASSUME NEW t \in Threads, NEW b \in DOMAIN small.hdr, Free(t, b)
      PROVE  SameBlocks(small, small')
  <2> DEFINE c == small.hdr[b].size_class_index
  <2>1. c \in Classes
    BY <1>1, HeaderTypes DEF GoodBlocks
  <2>2. CASE FreeCached(t, b)
    <3>1. small' = Freed(small, b, tc_bins[t][c].free_list)
      BY <2>2 DEF FreeCached
    <3>2. tc_bins[t][c].free_list \in Known(small)
      BY <1>1, <2>1 DEF GoodBins
    <3> QED BY <1>1, <3>1, <3>2, FreedGood
  <2>3. CASE FreeCentral(t, b)
    BY <1>1, <2>3, FreeInternalGood DEF FreeCentral
  <2> QED BY <1>4, <2>2, <2>3 DEF Free
<1>5. ASSUME NEW t \in Threads, NEW b \in DOMAIN small.hdr, NEW size \in Sizes,
             Realloc(t, b, size)
      PROVE  Extends(small, small') /\ Aligned(small')
  <2> DEFINE c == SizeToClass(size, FALSE)
  <2>1. c \in Classes
    BY SizeToClassType, SmallAssumption
  <2>2. CASE ReallocInPlace(b, size)
    BY <2>2, <1>3 DEF ReallocInPlace
  <2>3. CASE ReallocGrow(b, size)
    <3>1. PICK o \in MallocOutcomes(small, c) :
            \/ small' = small
            \/ small' = FreeInternal(o.small, b)
      BY <2>3 DEF ReallocGrow
    <3> HIDE DEF c
    <3>2. GoodBlocks(o.small) /\ Extends(small, o.small) /\ Aligned(o.small)
      BY <1>1, <2>1, MallocGood, MallocAligned
    <3>3. ASSUME small' = FreeInternal(o.small, b)
          PROVE  Extends(small, small') /\ Aligned(small')
      <4>1. b \in DOMAIN o.small.hdr
        BY <3>2 DEF Extends
      <4>2. SameBlocks(o.small, small')
        BY <3>2, <3>3, <4>1, FreeInternalGood
      <4> QED BY <3>2, <4>2, SameBlocksAligned DEF SameBlocks, Extends
    <3> QED BY <1>3, <3>1, <3>3
  <2>4. CASE ReallocOut(t, b, size)
    BY <2>4, <1>2, <1>4 DEF ReallocOut
  <2> QED BY <1>5, <2>2, <2>3, <2>4 DEF Realloc
<1>6. ASSUME NEW t \in Threads, NEW size \in Sizes, NEW traced \in BOOLEAN,
             CacheHit(t, size, traced)
      PROVE  SameBlocks(small, small')
  <2> DEFINE c == SizeToClass(size, traced)
             b == tc_bins[t][c].free_list
  <2>1. small' = Uncached(small, b) /\ b # NULL
    BY <1>6 DEF CacheHit
  <2>2. c \in Classes
    BY SizeToClassType, SmallAssumption
  <2> HIDE DEF c
  <2>3. b \in DOMAIN small.hdr
    BY <1>1, <2>1, <2>2 DEF GoodBins, Known
  <2> HIDE DEF b
  <2> QED BY <1>1, <2>1, <2>3, UncachedGood
<1>7. ASSUME NEW t \in Threads, NEW size \in Sizes, NEW traced \in BOOLEAN,
             MallocCentral(t, size, traced)
      PROVE  Extends(small, small') /\ Aligned(small')
  <2>1. SizeToClass(size, traced) \in Classes
    BY SizeToClassType, SmallAssumption
  <2>2. \E o \in MallocOutcomes(small, SizeToClass(size, traced)) : small' = o.small
    BY <1>7 DEF MallocCentral
  <2> QED BY <1>1, <2>1, <2>2, MallocGood, MallocAligned
<1>8. ASSUME NEW t \in Threads, Call(t) PROVE Extends(small, small') /\ Aligned(small')
  <2>1. DOMAIN live \subseteq DOMAIN small.hdr /\ Stale \subseteq DOMAIN small.hdr
    BY <1>1 DEF Stale
  <2> QED BY <1>2, <1>4, <1>5, <1>6, <1>7, <1>8, <2>1 DEF Call
<1>9. ASSUME NEW t \in Threads, CacheFault(t) \/ Snapshot(t) \/ Exit(t) PROVE small' = small
  BY <1>9 DEF CacheFault, Snapshot, Exit
<1>10. CASE UNCHANGED vars
  BY <1>3, <1>10 DEF vars
<1> QED BY <1>3, <1>8, <1>9, <1>10 DEF Next

\* A malloc that answers with a block answers with one that was on a list.
LEMMA MallocFresh ==
  ASSUME ListsInv, NEW t \in Threads, NEW size \in Sizes, NEW traced \in BOOLEAN,
         CacheHit(t, size, traced) \/ MallocCentral(t, size, traced), PlacesInv'
  PROVE  \/ live' = live
         \/ \E b \in DOMAIN small'.hdr \ DOMAIN live : live' = Hold(b, size, traced)
<1>1. Busy(small) = DOMAIN live /\ Allocations(live)
  BY DEF ListsInv, Ordered, PlacesInv, Others
<1>2. size \in Nat /\ SizeToClass(size, traced) \in Classes
  BY SizeToClassType, SmallAssumption
<1>3. DOMAIN live' \subseteq DOMAIN small'.hdr
  BY DEF PlacesInv, Others
<1>4. ASSUME NEW b, b \notin DOMAIN live, live' = Hold(b, size, traced)
      PROVE  b \in DOMAIN small'.hdr \ DOMAIN live
  <2>1. DOMAIN live' = DOMAIN live \cup {b}
    BY <1>1, <1>2, <1>4, HoldTypes
  <2> QED BY <1>3, <1>4, <2>1
<1>5. CASE CacheHit(t, size, traced)
  BY <1>4, <1>5, CacheHitOrdered
<1>6. CASE MallocCentral(t, size, traced)
  <2> DEFINE c == SizeToClass(size, traced)
  <2>1. PICK o \in MallocOutcomes(small, c) :
          live' = IF o.block = NULL THEN live ELSE Hold(o.block, size, traced)
    BY <1>6 DEF MallocCentral
  <2> HIDE DEF c
  <2>2. PICK lost : InOrder(small, tc_bins, lost)
    BY DEF ListsInv, Ordered
  <2>3. o.block # NULL => o.block \notin Busy(small)
    BY <1>2, <2>2, MallocInOrder DEF c
  <2> QED BY <1>1, <1>4, <2>1, <2>3
<1> QED BY <1>5, <1>6

\* Nothing is handed out twice, for clients that free only what they hold: the block a
\* malloc answers with is no client's, whatever the threads' caches went through before.
THEOREM MallocAlwaysGivesFreshBlocks ==
  ASSUME Careful
  PROVE  Spec => MallocGivesFreshBlocks
<1> DEFINE A == \A t \in Threads, size \in Sizes, traced \in BOOLEAN :
                  CacheHit(t, size, traced) \/ MallocCentral(t, size, traced) =>
                    \/ live' = live
                    \/ \E b \in DOMAIN small'.hdr \ DOMAIN live : live' = Hold(b, size, traced)
<1>1. ListsInv /\ [Next]_vars => ListsInv' /\ [A]_vars
  <2> SUFFICES ASSUME ListsInv, [Next]_vars PROVE ListsInv' /\ [A]_vars
    OBVIOUS
  <2>1. ListsInv'
    BY NextOrdered
  <2>2. PlacesInv'
    BY <2>1 DEF ListsInv
  <2>3. A
    BY <2>2, MallocFresh
  <2> HIDE DEF A
  <2> QED BY <2>1, <2>3
<1> QED BY <1>1, InitOrdered, PTL DEF Spec, MallocGivesFreshBlocks

\* What the refinement needs: lists in order, requests that fit, blocks where they belong.
HeapInv == ListsInv /\ RequestsInv /\ Aligned(small)

\* It holds of no block at all and is kept.
LEMMA HeapInvariance == Careful /\ TracesFit =>
  (Init => HeapInv) /\ (HeapInv /\ [Next]_vars => HeapInv')
<1> SUFFICES ASSUME Careful, TracesFit
             PROVE  (Init => HeapInv) /\ (HeapInv /\ [Next]_vars => HeapInv')
  OBVIOUS
<1>1. ASSUME Init PROVE HeapInv
  <2>1. DOMAIN small.hdr = {}
    BY <1>1 DEF Init
  <2>2. Aligned(small)
    BY <2>1 DEF Aligned
  <2> QED BY <1>1, <2>2, InitOrdered, InitRequests DEF HeapInv
<1>2. ASSUME HeapInv, [Next]_vars PROVE HeapInv'
  <2>1. ListsInv /\ RequestsInv /\ PlacesInv /\ Aligned(small)
    BY <1>2 DEF HeapInv, ListsInv
  <2>2. ListsInv'
    BY <1>2, <2>1, NextOrdered
  <2>3. RequestsInv'
    BY <1>2, <2>1, NextRequests
  <2>4. Aligned(small')
    BY <1>2, <2>1, NextExtends
  <2> QED BY <2>2, <2>3, <2>4 DEF HeapInv
<1> QED BY <1>1, <1>2

\* The blocks after a step, with what the clients held before it.
LEMMA BlocksAfter ==
  ASSUME HeapInv, HeapInv', [Next]_vars
  PROVE  /\ IsSmall(small') /\ Apart(small') /\ Aligned(small')
         /\ DOMAIN live \subseteq DOMAIN small'.hdr
         /\ Fit(small', live)
         /\ DOMAIN live' \subseteq DOMAIN small'.hdr
         /\ Fit(small', live')
         /\ Allocations(live)
<1>1. /\ PlacesInv /\ Aligned(small) /\ Fit(small, live)
      /\ DOMAIN live \subseteq DOMAIN small.hdr /\ Allocations(live)
  BY DEF HeapInv, RequestsInv, PlacesInv, Others
<1>2. Extends(small, small')
  BY <1>1, NextExtends
<1>3. /\ IsSmall(small') /\ Apart(small') /\ Aligned(small')
      /\ DOMAIN live' \subseteq DOMAIN small'.hdr
      /\ Fit(small', live')
  BY DEF HeapInv, RequestsInv, PlacesInv, GoodBlocks, Others
<1>4. DOMAIN live \subseteq DOMAIN small'.hdr /\ Fit(small', live)
  BY <1>1, <1>2 DEF Extends, Fit
<1> QED BY <1>1, <1>3, <1>4

\* A malloc that succeeds and a realloc in place.
LEMMA HoldStep ==
  ASSUME HeapInv, HeapInv', [Next]_vars, NEW b, NEW size \in Sizes, NEW traced \in BOOLEAN,
         live' = Hold(b, size, traced)
  PROVE  [Abstract!Next]_(Allocs(live))
<1> DEFINE g == small'
           new == live'
           r == [size |-> size, traced |-> traced]
<1>1. /\ IsSmall(g) /\ Apart(g) /\ Aligned(g)
      /\ DOMAIN live \subseteq DOMAIN g.hdr
      /\ Fit(g, live)
      /\ DOMAIN new \subseteq DOMAIN g.hdr
      /\ Fit(g, new)
      /\ Allocations(live)
  BY BlocksAfter
<1>2. b \in DOMAIN new /\ new[b] = r
  BY DEF Hold
<1>3. Takes(r) = size + IF traced THEN TRACE_SIZE ELSE 0
  BY DEF Takes
<1> HIDE DEF r, new
<1>4. Room(size + IF traced THEN TRACE_SIZE ELSE 0, g.hdr[b].size_class_index)
  BY <1>1, <1>2, <1>3 DEF Fit
<1>5. b \in DOMAIN g.hdr
  BY <1>1, <1>2
<1> HIDE DEF g
<1> QED BY <1>1, <1>4, <1>5, HoldImplements

\* free of a block a client holds.
LEMMA FreeStep ==
  ASSUME HeapInv, NEW t \in Threads, NEW b \in DOMAIN live, Free(t, b)
  PROVE  [Abstract!Next]_(Allocs(live))
<1>1. DOMAIN live \subseteq Nat
  BY DEF HeapInv, ListsInv, PlacesInv, GoodBlocks, IsSmall, Others
<1>2. live' = LetGo(b)
  BY DEF Free, FreeCached, FreeCentral
<1> QED BY <1>1, <1>2, LetGoImplements

\* realloc of a block a client holds.
LEMMA ReallocStep ==
  ASSUME HeapInv, HeapInv', [Next]_vars, NEW t \in Threads, NEW b \in DOMAIN live,
         NEW size \in Sizes, Realloc(t, b, size)
  PROVE  [Abstract!Next]_(Allocs(live))
<1>1. CASE ReallocInPlace(b, size)
  BY <1>1, HoldStep DEF ReallocInPlace
<1>2. CASE ReallocOut(t, b, size)
  BY <1>2, FreeStep DEF ReallocOut
<1>3. CASE ReallocGrow(b, size)
  <2> DEFINE c == SizeToClass(size, FALSE)
             r == [size |-> size, traced |-> FALSE]
             g == small'
             new == live'
  <2>1. c \in Classes /\ size \in Nat
    BY SizeToClassType, SmallAssumption
  <2>2. PICK o \in MallocOutcomes(small, c) :
          \/ new = live
          \/ /\ o.block # NULL
             /\ new = [x \in (DOMAIN live \ {b}) \cup {o.block} |->
                         IF x = o.block THEN r ELSE live[x]]
    BY <1>3 DEF ReallocGrow
  <2>3. CASE new = live
    BY <2>3
  <2>4. CASE /\ o.block # NULL
             /\ new = [x \in (DOMAIN live \ {b}) \cup {o.block} |->
                         IF x = o.block THEN r ELSE live[x]]
    <3>1. PICK lost : InOrder(small, tc_bins, lost)
      BY DEF HeapInv, ListsInv, Ordered
    <3>2. Busy(small) = DOMAIN live
      BY DEF HeapInv, ListsInv, Ordered
    <3> HIDE DEF c, r
    <3>3. o.block \notin DOMAIN live
      BY <2>1, <2>4, <3>1, <3>2, MallocInOrder
    <3>4. /\ IsSmall(g) /\ Apart(g) /\ Aligned(g)
          /\ DOMAIN live \subseteq DOMAIN g.hdr
          /\ Fit(g, live)
          /\ DOMAIN new \subseteq DOMAIN g.hdr
          /\ Fit(g, new)
          /\ Allocations(live)
      BY BlocksAfter
    <3> HIDE DEF new
    <3>5. o.block \in DOMAIN new /\ new[o.block] = r
      BY <2>4
    <3>6. Takes(r) = size
      BY <2>1 DEF Takes, r
    <3>7. Room(size, g.hdr[o.block].size_class_index) /\ o.block \in DOMAIN g.hdr
      BY <3>4, <3>5, <3>6 DEF Fit
    <3>8. live' = [x \in (DOMAIN live \ {b}) \cup {o.block} |->
                     IF x = o.block THEN [size |-> size, traced |-> FALSE] ELSE live[x]]
      BY <2>4 DEF new, r
    <3> HIDE DEF g
    <3> QED BY <3>3, <3>4, <3>7, <3>8, MoveImplements
  <2> QED BY <2>2, <2>3, <2>4
<1> QED BY <1>1, <1>2, <1>3 DEF Realloc

\* To careful clients the layer is nothing but a set of allocations, each with bytes of its
\* own at an aligned address: every step of every thread is one malloc, free or realloc of one
\* of them or is none of the clients' business.
THEOREM ImplementsHeap ==
  ASSUME Careful, TracesFit
  PROVE  Spec => ImplementsAbstractHeap
<1>1. (Init => HeapInv) /\ (HeapInv /\ [Next]_vars => HeapInv')
  BY HeapInvariance
<1>2. Init => Abstract!Init
  <2> SUFFICES ASSUME Init PROVE Abstract!Init
    OBVIOUS
  <2>1. {Payload(b) : b \in DOMAIN live} = {}
    BY DEF Init
  <2> QED BY <2>1 DEF Abstract!Init
<1>3. HeapInv /\ [Next]_vars => [Abstract!Next]_Abstract!vars
  <2> SUFFICES ASSUME HeapInv, [Next]_vars, HeapInv'
               PROVE  [Abstract!Next]_(Allocs(live))
    BY <1>1 DEF Abstract!vars, Allocs, Bytes, Takes
  <2>1. ASSUME live' = live PROVE [Abstract!Next]_(Allocs(live))
    BY <2>1
  <2>2. ASSUME NEW t \in Threads, Call(t) PROVE [Abstract!Next]_(Allocs(live))
    <3>1. ASSUME NEW size \in Sizes, NEW traced \in BOOLEAN,
                 CacheHit(t, size, traced) \/ MallocCentral(t, size, traced)
          PROVE  [Abstract!Next]_(Allocs(live))
      <4>1. \/ live' = live
            \/ \E b \in DOMAIN small'.hdr \ DOMAIN live : live' = Hold(b, size, traced)
        BY <3>1, MallocFresh DEF HeapInv, ListsInv
      <4> QED BY <2>1, <4>1, HoldStep
    <3>2. "free" \notin Calls /\ "realloc" \notin Calls
      BY DEF Careful
    <3> QED BY <2>2, <3>1, <3>2, FreeStep, ReallocStep DEF Call
  <2>3. ASSUME NEW t \in Threads, CacheFault(t) \/ Snapshot(t) \/ Exit(t) PROVE live' = live
    BY <2>3 DEF CacheFault, Snapshot, Exit
  <2>4. CASE UNCHANGED vars
    BY <2>1, <2>4 DEF vars
  <2> QED BY <2>1, <2>2, <2>3, <2>4 DEF Next
<1> QED BY <1>1, <1>2, <1>3, PTL DEF Spec, ImplementsAbstractHeap, Abstract!Spec

=============================================================================
