---------------------------- MODULE DispatchProofs ----------------------------
(***************************************************************************)
(* For every program of OrdinaryCalls the public calls give each pointer   *)
(* the room it was asked for, do no harm and keep the contents.            *)
(*                                                                         *)
(* Each call yields a set of outcomes.  The lemmas say of each set which   *)
(* of four forms its members have: nothing happens, a pointer is granted,  *)
(* freed, or granted anew.  The theorems follow from the forms.            *)
(***************************************************************************)
EXTENDS Dispatch, DamLemmas

\* What is so of every allocation of such a program: the client's bytes lie within the
\* size its header records, and these within the block.
Good(a) ==
  /\ a \in Allocation
  /\ a.traced = a.byTrace
  /\ a.traced => a.layer = "DIRECT"
  /\ a.layer = "SMALL" => a.user = a.block /\ a.block <= DAM_SMALL_MAX
  /\ a.intact <= a.asked
  /\ a.asked <= a.user
  /\ a.user <= Room(a)

IInv ==
  /\ allocs = [p \in DOMAIN allocs |-> allocs[p]]
  /\ DOMAIN allocs \subseteq Pointers
  /\ \A p \in DOMAIN allocs : Good(allocs[p])
  /\ harm = "none"

\* allocs with the pointers of D only, and a at q.
Put(D, q, a) == [r \in D \cup {q} |-> IF r = q THEN a ELSE allocs[r]]

\* The four forms of an outcome.
Nothing(o) == o = Outcome(NULL, allocs, "none")

Grants(o, n, intact, byTrace) ==
  \E p \in Fresh, a \in Allocation :
    /\ Good(a)
    /\ a.asked = n
    /\ a.intact = intact
    /\ a.byTrace = byTrace
    /\ o = Outcome(p, Put(DOMAIN allocs, p, a), "none")

Frees(o, p) == o = Outcome(NULL, Without(p), "none")

Regrants(o, p, n) ==
  \E q \in {p} \cup Fresh, a \in Allocation :
    /\ Good(a)
    /\ a.asked = n
    /\ a.intact = IF allocs[p].intact <= n THEN allocs[p].intact ELSE n
    /\ a.byTrace = allocs[p].byTrace
    /\ o = Outcome(q, Put(DOMAIN allocs \ {p}, q, a), "none")

-----------------------------------------------------------------------------
\* Sizes.

\* The smaller of two numbers.
LEMMA MinTwo ==
  ASSUME NEW x \in Nat, NEW y \in Nat
  PROVE  Min({x, y}) = IF x <= y THEN x ELSE y
<1>1. Min({x, y}) \in {x, y} /\ \A z \in {x, y} : Min({x, y}) <= z
  BY LeastNumber
<1> QED BY <1>1

\* The smallest of three.
LEMMA MinThree ==
  ASSUME NEW x \in Nat, NEW y \in Nat, NEW z \in Nat
  PROVE  /\ Min({x, y, z}) \in {x, y, z}
         /\ Min({x, y, z}) <= x /\ Min({x, y, z}) <= y /\ Min({x, y, z}) <= z
BY LeastNumber

\* What size_t holds stays as it is.
LEMMA SizeTFits ==
  ASSUME NEW n \in Nat, n <= SIZE_MAX
  PROVE  SizeT(n) = n
BY DispatchAssumption DEF SizeT

\* Rounding up does not pass a multiple (align_up).
LEMMA AlignUpBelow ==
  ASSUME NEW x \in Nat, NEW a \in Nat \ {0}, NEW m \in Nat, m % a = 0, x <= m
  PROVE  AlignUp(x, a) <= m
<1> DEFINE y == AlignUp(x, a)
           j == y \div a
           k == m \div a
<1>1. y \in Nat /\ y % a = 0
  BY AlignUpFacts
<1>8. y < x + a
  BY DEF AlignUp
<1>2. j \in Nat /\ y = a * j
  <2> HIDE DEF y
  <2> QED BY <1>1, DivMod
<1>3. k \in Nat /\ m = a * k
  BY DivMod
<1>4. a * j < a * k + a
  BY <1>8, <1>2, <1>3
<1>5. a * k + a = a * (k + 1)
  BY <1>3
<1>6. j < k + 1
  <2> HIDE DEF j, k
  <2>1. SUFFICES ASSUME j >= k + 1 PROVE FALSE
    BY <1>2, <1>3
  <2>2. a * j >= a * (k + 1)
    BY <2>1, <1>2, <1>3, SMTT(30)
  <2> QED BY <2>2, <1>4, <1>5, <1>2, <1>3
<1>7. a * j <= a * k
  <2> HIDE DEF j, k
  <2> QED BY <1>6, <1>2, <1>3, SMTT(30)
<1> QED BY <1>7, <1>2, <1>3

\* A mapping has room for its headers and the request, or wraps to nothing, which mmap
\* refuses (dam_direct_malloc_internal).
LEMMA MappingFits ==
  ASSUME NEW n \in Nat, n + Headers <= SIZE_MAX + 1
  PROVE  DirectTotal(n) \in Nat /\ (DirectTotal(n) = 0 \/ DirectTotal(n) >= n + Headers)
<1> DEFINE x == POOL_HEADER_SIZE + BLOCK_HEADER_SIZE + n
           y == AlignUp(x, PAGE_SIZE)
<1>0. /\ POOL_HEADER_SIZE \in Nat /\ BLOCK_HEADER_SIZE \in Nat /\ SIZE_MAX \in Nat
      /\ PAGE_SIZE \in Nat \ {0} /\ (SIZE_MAX + 1) % PAGE_SIZE = 0
  BY DispatchAssumption, ConfigAssumption
<1>1. x \in Nat /\ x = n + Headers /\ x <= SIZE_MAX + 1 /\ SIZE_MAX + 1 \in Nat
  BY <1>0 DEF Headers
<1> HIDE DEF x
<1>2. y \in Nat /\ y >= x
  BY <1>0, <1>1, AlignUpFacts
<1>3. y <= SIZE_MAX + 1
  BY <1>0, <1>1, AlignUpBelow
<1>4. DirectTotal(n) = y % (SIZE_MAX + 1)
  BY DEF DirectTotal, SizeT, x
<1> HIDE DEF y
<1>5. CASE y = SIZE_MAX + 1
  <2>1. y % (SIZE_MAX + 1) = 0
    BY <1>5, <1>0
  <2> QED BY <2>1, <1>4
<1>6. CASE y < SIZE_MAX + 1
  <2>1. y % (SIZE_MAX + 1) = y
    BY <1>6, <1>2, <1>0
  <2> QED BY <2>1, <1>4, <1>2, <1>1
<1> QED BY <1>2, <1>3, <1>5, <1>6, <1>0

\* The block of the class of a request holds it (size_to_class).
LEMMA ClassHolds ==
  ASSUME NEW n \in 1 .. DAM_SMALL_MAX
  PROVE  ClassFor(n) \in Nat /\ n <= ClassFor(n) /\ ClassFor(n) <= DAM_SMALL_MAX
<1> DEFINE C == {c \in ClassSizes : n <= c}
<1>0. DAM_SMALL_MAX \in Nat /\ n \in Nat /\ n <= DAM_SMALL_MAX
  BY ConfigAssumption
<1>1. DAM_SMALL_MAX \in C /\ C \subseteq Nat
  BY <1>0, DispatchAssumption
<1>2. Min(C) \in C
  <2> HIDE DEF C
  <2> QED BY <1>1, LeastNumber
<1>3. ~ \A c \in ClassSizes : c < n
  BY <1>0, DispatchAssumption
<1>4. ClassFor(n) = Min(C)
  BY <1>3 DEF ClassFor
<1> HIDE DEF C
<1>5. Min(C) \in ClassSizes /\ n <= Min(C)
  BY <1>2 DEF C
<1> QED BY <1>0, <1>4, <1>5, DispatchAssumption

\* A general block holds the bytes asked for and the canary, by malloc and by realloc.
LEMMA BlocksHold ==
  ASSUME NEW n \in Nat
  PROVE  /\ ActualSize(n) \in Nat /\ n + CANARY_SIZE <= ActualSize(n)
         /\ ReallocSize(n) \in Nat /\ n + CANARY_SIZE <= ReallocSize(n)
<1>0. ALIGNMENT \in Nat \ {0} /\ CANARY_SIZE \in Nat
  BY ConfigAssumption
<1>1. AlignUp(n, ALIGNMENT) \in Nat /\ AlignUp(n, ALIGNMENT) >= n
  BY <1>0, AlignUpFacts
<1> DEFINE k == AlignUp(n, ALIGNMENT) + CANARY_SIZE
           l == n + CANARY_SIZE
<1>2. k \in Nat /\ k >= l /\ l \in Nat
  BY <1>0, <1>1
<1>3. ActualSize(n) = AlignUp(k, ALIGNMENT) /\ ReallocSize(n) = AlignUp(l, ALIGNMENT)
  BY DEF ActualSize, ReallocSize
<1> HIDE DEF k
<1>4. AlignUp(k, ALIGNMENT) \in Nat /\ AlignUp(k, ALIGNMENT) >= k
  BY <1>0, <1>2, AlignUpFacts
<1>5. AlignUp(l, ALIGNMENT) \in Nat /\ AlignUp(l, ALIGNMENT) >= l
  <2> HIDE DEF l
  <2> QED BY <1>0, <1>2, AlignUpFacts
<1> QED BY <1>2, <1>3, <1>4, <1>5

-----------------------------------------------------------------------------
\* Places.

\* What a layer gives to a request of n bytes.
PlaceGood(place, n, traced) ==
  /\ place \in [layer: Layers \ {"ERROR"}, block: Nat, user: Nat, traced: BOOLEAN]
  /\ place.traced = traced
  /\ traced => place.layer = "DIRECT"
  /\ place.layer = "SMALL" => place.user = place.block /\ place.block <= DAM_SMALL_MAX
  /\ place.layer = "GENERAL" => place.user = n /\ n + CANARY_SIZE <= place.block
  /\ n <= place.user
  /\ place.user <= Room(place)

\* A request such a program makes.
Asked(n, traced) == IF traced THEN n \in TracedSizes ELSE n \in Requests

\* Its size is a size_t.
LEMMA AskedSize ==
  ASSUME OrdinaryCalls, NEW traced \in BOOLEAN, NEW n, Asked(n, traced)
  PROVE  n \in Nat /\ n <= SIZE_MAX
<1>0. SIZE_MAX \in Nat /\ Headers \in Nat /\ Headers > 0
  BY DispatchAssumption, ConfigAssumption DEF Headers
<1>1. CASE traced
  <2>1. n \in TracedSizes
    BY <1>1 DEF Asked
  <2>2. TracedSizes \subseteq 0 .. SIZE_MAX
    BY DispatchAssumption
  <2> QED BY <2>1, <2>2, <1>0
<1>2. CASE ~ traced
  <2>1. n \in Requests /\ n + Headers <= SIZE_MAX + 1
    BY <1>2 DEF Asked, OrdinaryCalls
  <2>2. n \in Nat
    <3>1. CASE n \in Sizes
      BY <3>1, <1>0, DispatchAssumption
    <3>2. CASE n \in {product[1] * product[2] : product \in Products}
      <4>1. PICK product \in Products : n = product[1] * product[2]
        BY <3>2
      <4>2. product[1] \in Nat /\ product[2] \in Nat
        BY <1>0, DispatchAssumption
      <4> QED BY <4>1, <4>2
    <3> QED BY <2>1, <3>1, <3>2 DEF Requests
  <2> QED BY <2>1, <2>2, <1>0
<1> QED BY <1>1, <1>2

\* The layer of a size.
LEMMA LayerBounds ==
  ASSUME NEW n \in Nat
  PROVE  /\ LayerForSize(n) \in Layers
         /\ LayerForSize(n) = "ERROR" <=> n = 0
         /\ LayerForSize(n) = "SMALL" <=> n \in 1 .. DAM_SMALL_MAX
         /\ LayerForSize(n) = "DIRECT" <=> n > DAM_GENERAL_MAX
BY ConfigAssumption DEF LayerForSize, Layers

\* Small blocks (dam_small_malloc_internal).
LEMMA SmallFits ==
  ASSUME NEW n \in 1 .. DAM_SMALL_MAX, n <= SIZE_MAX, NEW place \in SmallPlaces(n, FALSE)
  PROVE  PlaceGood(place, n, FALSE) /\ place.block = ClassFor(n)
<1>1. n \in Nat /\ SizeT(n + Trace(FALSE)) = n
  <2>1. n \in Nat
    BY ConfigAssumption
  <2> QED BY <2>1, SizeTFits DEF Trace
<1>2. place = Place("SMALL", ClassFor(n), ClassFor(n), FALSE)
  BY <1>1 DEF SmallPlaces
<1>3. ClassFor(n) \in Nat /\ n <= ClassFor(n) /\ ClassFor(n) <= DAM_SMALL_MAX
  BY ClassHolds
<1> QED BY <1>1, <1>2, <1>3 DEF Place, PlaceGood, Room, Trace, Layers

\* General blocks (dam_general_malloc_internal).
LEMMA GeneralFits ==
  ASSUME NEW n \in Nat, NEW place \in GeneralPlaces(n, FALSE)
  PROVE  PlaceGood(place, n, FALSE)
<1>1. PICK slack \in Slacks : place = Place("GENERAL", ActualSize(n) + slack, n, FALSE)
  BY DEF GeneralPlaces
<1>2. slack \in Nat /\ CANARY_SIZE \in Nat
  BY DispatchAssumption, ConfigAssumption
<1>3. ActualSize(n) \in Nat /\ n + CANARY_SIZE <= ActualSize(n)
  BY BlocksHold
<1> QED BY <1>1, <1>2, <1>3 DEF Place, PlaceGood, Room, Trace, Layers

\* Mappings (dam_direct_malloc_internal).
LEMMA DirectFits ==
  ASSUME OrdinaryCalls, NEW traced \in BOOLEAN, NEW n, Asked(n, traced),
         NEW place \in DirectPlaces(n, traced)
  PROVE  PlaceGood(place, n, traced)
<1>0. n \in Nat /\ TRACE_SIZE \in Nat /\ Headers \in Nat /\ MEMORY \in Nat
      /\ POOL_HEADER_SIZE \in Nat /\ BLOCK_HEADER_SIZE \in Nat
  BY AskedSize, DispatchAssumption, ConfigAssumption DEF Headers
<1> DEFINE total == DirectTotal(n)
<1>1. place = Place("DIRECT", total - POOL_HEADER_SIZE - BLOCK_HEADER_SIZE, n, traced)
      /\ total \in 1 .. MEMORY
  BY DEF DirectPlaces
<1>2. total \in Nat /\ total # 0
  BY <1>0, <1>1
<1>3. total >= n + Headers + Trace(traced)
  <2>1. CASE traced
    BY <2>1, <1>2 DEF Asked, OrdinaryCalls, Trace
  <2>2. CASE ~ traced
    <3>1. n + Headers <= SIZE_MAX + 1
      BY <2>2 DEF Asked, OrdinaryCalls
    <3>2. total >= n + Headers
      BY <3>1, <1>0, <1>2, MappingFits
    <3> QED BY <3>2, <2>2, <1>0 DEF Trace
  <2> QED BY <2>1, <2>2
<1> HIDE DEF total
<1>4. Trace(traced) \in Nat
  BY <1>0 DEF Trace
<1>5. total - POOL_HEADER_SIZE - BLOCK_HEADER_SIZE - Trace(traced) >= n
      /\ total - POOL_HEADER_SIZE - BLOCK_HEADER_SIZE \in Nat
  BY <1>0, <1>2, <1>3, <1>4 DEF Headers
<1> QED BY <1>0, <1>1, <1>5 DEF Place, PlaceGood, Room, Layers

\* Whatever the layer (dam_malloc, dam_trace_malloc).
LEMMA PlacesFit ==
  ASSUME OrdinaryCalls, NEW traced \in BOOLEAN, NEW n, Asked(n, traced),
         NEW place \in Places(n, traced)
  PROVE  PlaceGood(place, n, traced) /\ n # 0
<1>1. n \in Nat /\ n <= SIZE_MAX
  BY AskedSize
<1>2. traced => LayerForSize(n) = "DIRECT"
  BY <1>1, LayerBounds DEF Asked, OrdinaryCalls
<1>3. CASE LayerForSize(n) = "ERROR"
  BY <1>3 DEF Places
<1>4. CASE LayerForSize(n) = "SMALL"
  <2>1. place \in SmallPlaces(n, FALSE) /\ traced = FALSE /\ n \in 1 .. DAM_SMALL_MAX
    BY <1>1, <1>2, <1>4, LayerBounds DEF Places
  <2>2. n # 0
    BY <2>1, <1>1
  <2>3. PlaceGood(place, n, FALSE)
    BY <2>1, <1>1, SmallFits
  <2> QED BY <2>1, <2>2, <2>3
<1>5. CASE LayerForSize(n) = "GENERAL"
  <2>1. place \in GeneralPlaces(n, FALSE) /\ traced = FALSE /\ n # 0
    BY <1>1, <1>2, <1>5, LayerBounds DEF Places
  <2> QED BY <2>1, <1>1, GeneralFits
<1>6. CASE LayerForSize(n) = "DIRECT"
  <2>1. place \in DirectPlaces(n, traced) /\ n # 0
    BY <1>1, <1>6, LayerBounds DEF Places
  <2> QED BY <2>1, DirectFits
<1> QED BY <1>1, <1>3, <1>4, <1>5, <1>6, LayerBounds DEF Layers

-----------------------------------------------------------------------------
\* Outcomes.

\* An allocation's fields.
LEMMA Fields ==
  ASSUME NEW a, Good(a)
  PROVE  /\ a \in Allocation
         /\ a.layer \in {"SMALL", "GENERAL", "DIRECT"}
         /\ a.block \in Nat /\ a.user \in Nat /\ a.asked \in Nat /\ a.intact \in Nat
         /\ a.traced \in BOOLEAN /\ a.byTrace \in BOOLEAN
         /\ Trace(a.traced) \in Nat
         /\ a.traced = FALSE => Room(a) = a.block
         /\ Room(a) \in Nat
<1>1. /\ a \in Allocation
      /\ a.layer \in {"SMALL", "GENERAL", "DIRECT"}
      /\ a.block \in Nat /\ a.user \in Nat /\ a.asked \in Nat /\ a.intact \in Nat
      /\ a.traced \in BOOLEAN /\ a.byTrace \in BOOLEAN
  BY DEF Good, Allocation, Layers
<1>2. TRACE_SIZE \in Nat
  BY DispatchAssumption
<1>3. Trace(a.traced) \in Nat
  BY <1>2 DEF Trace
<1>4. Room(a) \in Int /\ a.user <= Room(a)
  BY <1>1, <1>3 DEF Good, Room
<1>5. a.traced = FALSE => Room(a) = a.block
  BY <1>1 DEF Room, Trace
<1> QED BY <1>1, <1>3, <1>4, <1>5

\* A place and the allocation made of it.
LEMMA PlaceFields ==
  ASSUME NEW n \in Nat, NEW traced \in BOOLEAN, NEW place, PlaceGood(place, n, traced),
         NEW intact \in Nat, intact <= n
  PROVE  /\ Good(Allocated(place, traced, n, intact))
         /\ Allocated(place, traced, n, intact).asked = n
         /\ Allocated(place, traced, n, intact).intact = intact
         /\ Allocated(place, traced, n, intact).byTrace = traced
         /\ Room(place) \in Nat
         /\ n <= Room(place)
         /\ Written(place, n) <= Room(place)
         /\ Written(place, place.user) <= Room(place)
<1> DEFINE a == Allocated(place, traced, n, intact)
<1>1. /\ place.layer \in {"SMALL", "GENERAL", "DIRECT"}
      /\ place.block \in Nat /\ place.user \in Nat /\ place.traced = traced
      /\ n <= place.user /\ place.user <= Room(place)
  BY DEF PlaceGood, Layers
<1>2. /\ a \in Allocation
      /\ a.layer = place.layer /\ a.block = place.block /\ a.user = place.user
      /\ a.traced = traced /\ a.byTrace = traced /\ a.asked = n /\ a.intact = intact
  BY <1>1 DEF Allocated, Allocation, Layers
<1>3. Room(a) = Room(place)
  BY <1>1, <1>2 DEF Room
<1> HIDE DEF a
<1>4. TRACE_SIZE \in Nat /\ CANARY_SIZE \in Nat
  BY DispatchAssumption, ConfigAssumption
<1>5. Trace(traced) \in Nat /\ (traced = FALSE => Room(place) = place.block)
      /\ Room(place) \in Int
  BY <1>1, <1>4 DEF Room, Trace
<1>6. Room(place) \in Nat /\ n <= Room(place)
  BY <1>1, <1>5
<1>7. Good(a)
  BY <1>1, <1>2, <1>3 DEF Good, PlaceGood
<1>8. ASSUME NEW m \in {n, place.user} PROVE Written(place, m) <= Room(place)
  <2>1. CASE place.layer = "GENERAL"
    <3>1. place.user = n /\ n + CANARY_SIZE <= place.block /\ traced = FALSE
      BY <2>1 DEF PlaceGood
    <3>2. Written(place, m) = n + CANARY_SIZE
      BY <2>1, <3>1 DEF Written
    <3> QED BY <3>1, <3>2, <1>5
  <2>2. CASE place.layer # "GENERAL"
    <3>1. Written(place, m) = 0
      BY <2>2 DEF Written
    <3> QED BY <3>1, <1>6
  <2> QED BY <2>1, <2>2
<1> QED BY <1>2, <1>6, <1>7, <1>8 DEF a

\* A pointer is granted (dam_malloc, dam_trace_malloc).
LEMMA TakenGrants ==
  ASSUME OrdinaryCalls, IInv, NEW traced \in BOOLEAN, NEW n, Asked(n, traced),
         NEW place \in Places(n, traced), NEW k \in {0, n},
         NEW o \in Taken(place, traced, n, k)
  PROVE  Grants(o, n, k, traced)
<1>1. n \in Nat /\ k \in Nat /\ k <= n
  BY AskedSize
<1>2. PlaceGood(place, n, traced)
  BY PlacesFit
<1> DEFINE a == Allocated(place, traced, n, k)
<1>3. /\ Good(a) /\ a.asked = n /\ a.intact = k /\ a.byTrace = traced
      /\ Room(place) \in Nat /\ n <= Room(place)
      /\ Written(place, place.user) <= Room(place)
  BY <1>1, <1>2, PlaceFields
<1>4. HarmIf(Written(place, place.user) > Room(place) \/ k > Room(place)) = "none"
  <2>1. ~ (k > Room(place))
    BY <1>1, <1>3
  <2>2. Written(place, place.user) \in Int
    <3>1. place.user \in Nat /\ CANARY_SIZE \in Nat
      BY <1>2, ConfigAssumption DEF PlaceGood
    <3> QED BY <3>1 DEF Written
  <2>3. ~ (Written(place, place.user) > Room(place))
    BY <2>2, <1>3
  <2> QED BY <2>1, <2>3 DEF HarmIf, IInv
<1>5. PICK p \in Fresh : o = Outcome(p, Put(DOMAIN allocs, p, a), "none")
  BY <1>4 DEF Taken, Put
<1> HIDE DEF a
<1>6. a \in Allocation
  BY <1>3 DEF Good
<1> QED BY <1>3, <1>5, <1>6 DEF Grants

\* Copied somewhere else, then freed.
LEMMA MovedRegrants ==
  ASSUME IInv, NEW p \in DOMAIN allocs, NEW n \in Nat, NEW place,
         PlaceGood(place, n, allocs[p].byTrace),
         allocs[p].layer = "SMALL" => allocs[p].block <= Room(place),
         NEW o \in MovedTo(p, place, n)
  PROVE  Regrants(o, p, n)
<1> DEFINE a == allocs[p]
           copy == Copy(a, n)
           intact == IF a.intact <= n THEN a.intact ELSE n
           new == Allocated(place, a.byTrace, n, intact)
<1>1. Good(a)
  BY DEF IInv
<1>2. /\ a.layer \in {"SMALL", "GENERAL", "DIRECT"}
      /\ a.block \in Nat /\ a.user \in Nat /\ a.asked \in Nat /\ a.intact \in Nat
      /\ a.byTrace \in BOOLEAN /\ Room(a) \in Nat /\ a.traced \in BOOLEAN
      /\ (a.traced = FALSE => Room(a) = a.block)
  BY <1>1, Fields
<1>3. /\ a.intact <= a.asked /\ a.asked <= a.user /\ a.user <= Room(a)
      /\ (a.layer = "SMALL" => a.user = a.block /\ a.traced = FALSE)
      /\ (a.traced => a.layer = "DIRECT")
  BY <1>1, <1>2 DEF Good
<1>4. FreeReadsHeader(a)
  BY <1>3 DEF FreeReadsHeader
<1>5. copy = IF a.layer = "SMALL" THEN a.block ELSE IF a.user <= n THEN a.user ELSE n
  BY <1>2, MinTwo DEF Copy
<1> HIDE DEF a, copy
<1>6. copy \in Nat /\ (a.intact <= copy \/ n <= copy) /\ copy <= Room(a)
  BY <1>2, <1>3, <1>5
<1>7. intact \in Nat /\ intact <= n
  BY <1>2
<1>8. Min({a.intact, copy, n}) = intact
  <2>1. /\ Min({a.intact, copy, n}) \in {a.intact, copy, n}
        /\ Min({a.intact, copy, n}) <= a.intact /\ Min({a.intact, copy, n}) <= copy
        /\ Min({a.intact, copy, n}) <= n
    BY <1>2, <1>6, MinThree
  <2> QED BY <2>1, <1>2, <1>6
<1>9. /\ Good(new) /\ new.asked = n /\ new.intact = intact /\ new.byTrace = a.byTrace
      /\ Room(place) \in Nat /\ n <= Room(place) /\ Written(place, n) <= Room(place)
  <2>1. PlaceGood(place, n, a.byTrace)
    BY DEF a
  <2> HIDE DEF intact
  <2> QED BY <1>2, <1>7, <2>1, PlaceFields
<1>10. copy <= Room(place)
  <2>1. a.layer = "SMALL" => a.block <= Room(place)
    BY DEF a
  <2> QED BY <2>1, <1>2, <1>5, <1>9
<1> HIDE DEF intact
<1>11. Written(place, n) \in Int
  <2>1. CANARY_SIZE \in Nat
    BY ConfigAssumption
  <2> QED BY <2>1 DEF Written
<1>12. HarmIf(Written(place, n) > Room(place) \/ copy > Room(place) \/ copy > Room(a)) = "none"
  <2>1. ~ (Written(place, n) > Room(place)) /\ ~ (copy > Room(place)) /\ ~ (copy > Room(a))
    BY <1>2, <1>6, <1>9, <1>10, <1>11
  <2> QED BY <2>1 DEF HarmIf, IInv
<1>13. PICK q \in Fresh : o = Outcome(q, Put(DOMAIN allocs \ {p}, q, new), "none")
  BY <1>4, <1>8, <1>12 DEF MovedTo, Put, a, copy
<1> HIDE DEF new
<1>14. new \in Allocation /\ new.byTrace = allocs[p].byTrace
       /\ new.intact = IF allocs[p].intact <= n THEN allocs[p].intact ELSE n
  BY <1>9 DEF Good, a, intact
<1> QED BY <1>9, <1>13, <1>14 DEF Regrants

\* Left where it is.
LEMMA InPlaceRegrants ==
  ASSUME IInv, NEW p \in DOMAIN allocs, NEW n \in Nat, NEW block \in Nat, NEW user \in Nat,
         n <= user, user <= block - Trace(allocs[p].traced),
         allocs[p].layer = "GENERAL" => n + CANARY_SIZE <= block,
         allocs[p].layer = "SMALL" => user = block /\ block <= DAM_SMALL_MAX,
         NEW o \in InPlace(p, block, user, n)
  PROVE  Regrants(o, p, n)
<1> DEFINE a == allocs[p]
           intact == IF a.intact <= n THEN a.intact ELSE n
           b == [a EXCEPT !.block = block, !.user = user, !.asked = n, !.intact = intact]
<1>1. Good(a)
  BY DEF IInv
<1>2. /\ a \in Allocation /\ a.layer \in {"SMALL", "GENERAL", "DIRECT"} /\ a.intact \in Nat
      /\ a.traced \in BOOLEAN /\ Trace(a.traced) \in Nat
  BY <1>1, Fields
<1>3. a.traced = a.byTrace /\ (a.traced => a.layer = "DIRECT")
  BY <1>1 DEF Good
<1>4. intact \in Nat /\ intact <= n /\ Min({a.intact, n}) = intact
  BY <1>2, MinTwo
<1>5. o = Outcome(p, [allocs EXCEPT ![p] = b], HarmIf(Written(b, n) > Room(b)))
  BY <1>4 DEF InPlace
<1>h. /\ user <= block - Trace(a.traced)
      /\ (a.layer = "GENERAL" => n + CANARY_SIZE <= block)
      /\ (a.layer = "SMALL" => user = block /\ block <= DAM_SMALL_MAX)
      /\ a = allocs[p]
  OBVIOUS
<1>i. intact = IF allocs[p].intact <= n THEN allocs[p].intact ELSE n
  OBVIOUS
<1> HIDE DEF intact, a
<1>6. /\ b \in Allocation
      /\ b.layer = a.layer /\ b.block = block /\ b.user = user /\ b.asked = n
      /\ b.intact = intact /\ b.traced = a.traced /\ b.byTrace = a.byTrace
  BY <1>2, <1>4 DEF Allocation
<1> HIDE DEF b
<1>7. Room(b) = block - Trace(a.traced) /\ n <= Room(b)
  BY <1>2, <1>6, <1>h DEF Room
<1>8. Good(b)
  BY <1>3, <1>4, <1>6, <1>7, <1>h DEF Good
<1>9. HarmIf(Written(b, n) > Room(b)) = "none"
  <2>1. CASE a.layer = "GENERAL"
    <3>1. Written(b, n) = n + CANARY_SIZE
      BY <2>1, <1>6 DEF Written
    <3>2. Room(b) = block /\ CANARY_SIZE \in Nat
      BY <2>1, <1>2, <1>3, <1>7, ConfigAssumption DEF Trace
    <3>3. ~ (Written(b, n) > Room(b))
      BY <3>1, <3>2, <2>1, <1>h
    <3> QED BY <3>3 DEF HarmIf, IInv
  <2>2. CASE a.layer # "GENERAL"
    <3>1. Written(b, n) = 0 /\ Room(b) \in Int
      BY <2>2, <1>2, <1>6, <1>7 DEF Written
    <3>2. ~ (Written(b, n) > Room(b))
      BY <3>1, <1>7
    <3> QED BY <3>2 DEF HarmIf, IInv
  <2> QED BY <2>1, <2>2
<1>10. [allocs EXCEPT ![p] = b] = Put(DOMAIN allocs \ {p}, p, b)
  BY DEF Put, IInv
<1>11. o = Outcome(p, Put(DOMAIN allocs \ {p}, p, b), "none")
  BY <1>5, <1>9, <1>10
<1> QED BY <1>6, <1>8, <1>11, <1>h, <1>i DEF Regrants

-----------------------------------------------------------------------------
\* The layers' reallocs.

\* To a place found by the public calls, or nowhere.
LEMMA MovedForms ==
  ASSUME OrdinaryCalls, IInv, NEW p \in DOMAIN allocs,
         NEW n, Asked(n, allocs[p].byTrace), LayerForSize(n) # "SMALL",
         NEW o \in Moved(p, Places(n, allocs[p].byTrace), n)
  PROVE  Nothing(o) \/ Regrants(o, p, n)
<1>1. /\ allocs[p].byTrace \in BOOLEAN /\ allocs[p].block \in Nat
      /\ (allocs[p].layer = "SMALL" => allocs[p].block <= DAM_SMALL_MAX)
  BY Fields DEF IInv, Good
<1>2. n \in Nat
  BY <1>1, AskedSize
<1>3. CASE o = Refused
  BY <1>3 DEF Refused, Nothing, IInv
<1>4. ASSUME NEW place \in Places(n, allocs[p].byTrace), o \in MovedTo(p, place, n)
      PROVE  Regrants(o, p, n)
  <2>1. PlaceGood(place, n, allocs[p].byTrace) /\ n # 0
    BY <1>1, PlacesFit
  <2>2. n > DAM_SMALL_MAX /\ DAM_SMALL_MAX \in Nat
    BY <1>2, <2>1, LayerBounds, ConfigAssumption
  <2>3. n <= Room(place) /\ Room(place) \in Nat
    BY <1>1, <1>2, <2>1, PlaceFields
  <2>4. allocs[p].layer = "SMALL" => allocs[p].block <= Room(place)
    BY <1>1, <1>2, <2>2, <2>3
  <2> QED BY <1>2, <1>4, <2>1, <2>4, MovedRegrants
<1> QED BY <1>3, <1>4 DEF Moved

\* dam_small_realloc.
LEMMA SmallReallocForms ==
  ASSUME OrdinaryCalls, IInv, NEW p \in DOMAIN allocs, allocs[p].layer = "SMALL",
         NEW n, Asked(n, allocs[p].byTrace), n # 0, NEW o \in SmallRealloc(p, n)
  PROVE  Nothing(o) \/ Regrants(o, p, n)
<1> DEFINE a == allocs[p]
<1>1. Good(a)
  BY DEF IInv
<1>2. /\ a.block \in Nat /\ a.user = a.block /\ a.block <= DAM_SMALL_MAX
      /\ a.traced = FALSE /\ a.byTrace = FALSE
  BY <1>1, Fields DEF Good
<1>3. n \in Nat /\ n <= SIZE_MAX
  BY <1>2, AskedSize
<1>4. CASE LayerForSize(n) # "SMALL"
  BY <1>4, MovedForms DEF SmallRealloc
<1>5. CASE LayerForSize(n) = "SMALL"
  <2>1. n \in 1 .. DAM_SMALL_MAX
    BY <1>3, <1>5, LayerBounds
  <2>2. SizeT(n + Trace(a.byTrace)) = n
    BY <1>2, <1>3, SizeTFits DEF Trace
  <2>3. ClassFor(n) \in Nat /\ n <= ClassFor(n)
    BY <2>1, ClassHolds
  <2>4. CASE ClassFor(n) <= a.block
    <3>1. o \in InPlace(p, a.block, a.user, n)
      BY <1>5, <2>2, <2>4 DEF SmallRealloc
    <3>2. n <= a.user /\ a.user <= a.block - Trace(a.traced)
      BY <1>2, <1>3, <2>3, <2>4 DEF Trace
    <3> QED BY <1>2, <1>3, <3>1, <3>2, InPlaceRegrants
  <2>5. CASE ~ (ClassFor(n) <= a.block)
    <3>1. o \in Moved(p, SmallPlaces(n, FALSE), n)
      BY <1>2, <1>5, <2>2, <2>5 DEF SmallRealloc
    <3>2. CASE o = Refused
      BY <3>2 DEF Refused, Nothing, IInv
    <3>3. ASSUME NEW place \in SmallPlaces(n, FALSE), o \in MovedTo(p, place, n)
          PROVE  Regrants(o, p, n)
      <4>1. PlaceGood(place, n, FALSE) /\ place.block = ClassFor(n)
        BY <1>3, <2>1, SmallFits
      <4>2. Room(place) = ClassFor(n)
        BY <2>3, <4>1 DEF Room, Trace, PlaceGood
      <4>3. a.block <= Room(place)
        BY <1>2, <2>3, <2>5, <4>2
      <4> QED BY <1>2, <1>3, <3>3, <4>1, <4>3, MovedRegrants
    <3> QED BY <3>1, <3>2, <3>3 DEF Moved
  <2> QED BY <2>4, <2>5
<1> QED BY <1>4, <1>5

\* dam_general_realloc.
LEMMA GeneralReallocForms ==
  ASSUME OrdinaryCalls, IInv, NEW p \in DOMAIN allocs, allocs[p].layer = "GENERAL",
         NEW n, Asked(n, allocs[p].byTrace), n # 0, NEW o \in GeneralRealloc(p, n)
  PROVE  Nothing(o) \/ Regrants(o, p, n)
<1> DEFINE a == allocs[p]
           need == ReallocSize(n)
<1>1. Good(a)
  BY DEF IInv
<1>2. a.block \in Nat /\ a.traced = FALSE /\ a.byTrace = FALSE /\ CANARY_SIZE \in Nat
  BY <1>1, Fields, ConfigAssumption DEF Good
<1>3. n \in Nat /\ n <= SIZE_MAX
  BY <1>2, AskedSize
<1>4. need \in Nat /\ n + CANARY_SIZE <= need
  BY <1>3, BlocksHold
<1> HIDE DEF need
<1>5. ASSUME NEW block \in Nat, need <= block, o \in InPlace(p, block, n, n)
      PROVE  Regrants(o, p, n)
  <2>1. n + CANARY_SIZE <= block /\ n <= block - Trace(a.traced)
    BY <1>2, <1>3, <1>4, <1>5 DEF Trace
  <2> QED BY <1>3, <1>5, <2>1, InPlaceRegrants
<1>6. CASE o \in Moved(p, Places(n, a.byTrace), n)
  <2>1. CASE o = Refused
    BY <2>1 DEF Refused, Nothing, IInv
  <2>2. ASSUME NEW place \in Places(n, a.byTrace), o \in MovedTo(p, place, n)
        PROVE  Regrants(o, p, n)
    <3>1. PlaceGood(place, n, a.byTrace)
      BY <1>2, PlacesFit
    <3> QED BY <1>3, <2>2, <3>1, MovedRegrants
  <2> QED BY <1>6, <2>1, <2>2 DEF Moved
<1>7. CASE a.block >= need /\ \E block \in {need, a.block} : o \in InPlace(p, block, n, n)
  BY <1>2, <1>4, <1>5, <1>7
<1>8. CASE \E slack \in Slacks : o \in InPlace(p, need + slack, n, n)
  <2>1. PICK slack \in Slacks : o \in InPlace(p, need + slack, n, n)
    BY <1>8
  <2>2. slack \in Nat
    BY DispatchAssumption
  <2> QED BY <1>4, <1>5, <2>1, <2>2
<1>9. \/ o \in Moved(p, Places(n, a.byTrace), n)
      \/ a.block >= need /\ \E block \in {need, a.block} : o \in InPlace(p, block, n, n)
      \/ \E slack \in Slacks : o \in InPlace(p, need + slack, n, n)
  BY DEF GeneralRealloc, need
<1> QED BY <1>6, <1>7, <1>8, <1>9

\* dam_direct_realloc.
LEMMA DirectReallocForms ==
  ASSUME OrdinaryCalls, IInv, NEW p \in DOMAIN allocs, allocs[p].layer = "DIRECT",
         NEW n, Asked(n, allocs[p].byTrace), n # 0, NEW o \in DirectRealloc(p, n)
  PROVE  Nothing(o) \/ Regrants(o, p, n)
<1> DEFINE a == allocs[p]
<1>1. Good(a)
  BY DEF IInv
<1>2. /\ a.block \in Nat /\ a.user \in Nat /\ a.traced = a.byTrace /\ a.byTrace \in BOOLEAN
      /\ a.user <= Room(a) /\ Room(a) = a.block - Trace(a.traced)
  BY <1>1, Fields DEF Good, Room
<1>3. n \in Nat
  BY <1>2, AskedSize
<1>4. ASSUME NEW place, PlaceGood(place, n, a.byTrace), o \in MovedTo(p, place, n)
      PROVE  Regrants(o, p, n)
  BY <1>3, <1>4, MovedRegrants
<1>5. CASE o = Refused
  BY <1>5 DEF Refused, Nothing, IInv
<1>6. CASE LayerForSize(n) # "DIRECT"
  <2>1. a.byTrace = FALSE
    BY <1>2, <1>3, <1>6, LayerBounds DEF Asked, OrdinaryCalls
  <2>2. \A place \in Places(n, FALSE) : PlaceGood(place, n, FALSE)
    BY <2>1, PlacesFit
  <2> QED BY <1>4, <1>5, <1>6, <2>1, <2>2 DEF DirectRealloc, Moved
<1>7. CASE LayerForSize(n) = "DIRECT" /\ Remaps(a, n)
  <2>1. \A place \in DirectPlaces(n, a.byTrace) : PlaceGood(place, n, a.byTrace)
    BY <1>2, DirectFits
  <2> QED BY <1>4, <1>5, <1>7, <2>1 DEF DirectRealloc, Moved
<1>8. CASE LayerForSize(n) = "DIRECT" /\ ~ Remaps(a, n)
  <2>1. n <= a.user
    BY <1>2, <1>3, <1>8 DEF Remaps
  <2>2. o \in InPlace(p, a.block, a.user, n)
    BY <1>8 DEF DirectRealloc
  <2> QED BY <1>2, <1>3, <2>1, <2>2, InPlaceRegrants
<1> QED BY <1>6, <1>7, <1>8

-----------------------------------------------------------------------------
\* The public calls.

\* dam_malloc, dam_trace_malloc.
LEMMA MallocForms ==
  ASSUME OrdinaryCalls, IInv, NEW traced \in BOOLEAN, NEW n, Asked(n, traced),
         NEW o \in MallocOutcomes(n, traced)
  PROVE  Nothing(o) \/ Grants(o, n, 0, traced)
<1>1. CASE o = Refused
  BY <1>1 DEF Refused, Nothing, IInv
<1>2. ASSUME NEW place \in Places(n, traced), o \in Taken(place, traced, n, 0)
      PROVE  Grants(o, n, 0, traced)
  BY <1>2, TakenGrants
<1> QED BY <1>1, <1>2 DEF MallocOutcomes

\* dam_calloc.
LEMMA CallocForms ==
  ASSUME OrdinaryCalls, IInv, NEW product \in Products,
         NEW o \in CallocOutcomes(product[1], product[2])
  PROVE  Nothing(o) \/ Grants(o, product[1] * product[2], product[1] * product[2], FALSE)
<1> DEFINE n == product[1] * product[2]
<1>1. Asked(n, FALSE)
  BY DEF Asked, Requests
<1>2. SizeT(n) = n
  <2> HIDE DEF n
  <2>1. n \in Nat /\ n <= SIZE_MAX
    BY <1>1, AskedSize
  <2> QED BY <2>1, SizeTFits
<1>3. o = Refused \/ \E place \in Places(n, FALSE) : o \in Taken(place, FALSE, n, n)
  BY <1>2 DEF CallocOutcomes
<1> HIDE DEF n
<1>4. ASSUME o = Refused PROVE Nothing(o)
  BY <1>4 DEF Refused, Nothing, IInv
<1>5. ASSUME NEW place \in Places(n, FALSE), o \in Taken(place, FALSE, n, n)
      PROVE  Grants(o, n, n, FALSE)
  <2>1. FALSE \in BOOLEAN /\ n \in {0, n}
    OBVIOUS
  <2> QED BY <1>1, <1>5, <2>1, TakenGrants
<1>6. Nothing(o) \/ Grants(o, n, n, FALSE)
  BY <1>3, <1>4, <1>5
<1> QED BY <1>6 DEF n

\* dam_free.
LEMMA FreeForm ==
  ASSUME IInv, NEW p \in DOMAIN allocs
  PROVE  Frees(FreeOutcome(p), p)
<1>1. allocs[p].traced => allocs[p].layer = "DIRECT"
  BY DEF IInv, Good
<1> QED BY <1>1 DEF FreeOutcome, FreeReadsHeader, Frees, IInv

\* dam_realloc, dam_trace_realloc.
LEMMA ReallocForms ==
  ASSUME OrdinaryCalls, IInv, NEW p \in DOMAIN allocs, NEW n, Asked(n, allocs[p].byTrace),
         NEW o \in ReallocOutcomes(p, n)
  PROVE  IF n = 0 THEN Frees(o, p) ELSE Nothing(o) \/ Regrants(o, p, n)
<1>1. CASE n = 0
  BY <1>1, FreeForm DEF ReallocOutcomes
<1>2. CASE n # 0
  <2>1. Good(allocs[p])
    BY DEF IInv
  <2>2. allocs[p].layer \in {"SMALL", "GENERAL", "DIRECT"}
        /\ allocs[p].traced \in BOOLEAN /\ allocs[p].byTrace \in BOOLEAN
    BY <2>1, Fields
  <2>3. ReallocReadsHeader(allocs[p])
    BY <2>1, <2>2 DEF Good, ReallocReadsHeader
  <2>4. CASE allocs[p].layer = "SMALL"
    BY <1>2, <2>3, <2>4, SmallReallocForms DEF ReallocOutcomes
  <2>5. CASE allocs[p].layer = "GENERAL"
    BY <1>2, <2>3, <2>5, GeneralReallocForms DEF ReallocOutcomes
  <2>6. CASE allocs[p].layer = "DIRECT"
    BY <1>2, <2>3, <2>6, DirectReallocForms DEF ReallocOutcomes
  <2> QED BY <1>2, <2>2, <2>4, <2>5, <2>6
<1> QED BY <1>1, <1>2

\* dam_uaf_free.
LEMMA UafFreeForm ==
  ASSUME OrdinaryCalls, IInv, NEW p \in DOMAIN allocs,
         <<allocs[p].layer, allocs[p].byTrace>> \in UafCalls
  PROVE  Frees(UafFreeOutcome(p), p)
<1>1. Good(allocs[p])
  BY DEF IInv
<1>2. allocs[p].user \in Nat /\ Room(allocs[p]) \in Nat /\ allocs[p].user <= Room(allocs[p])
  BY <1>1, Fields DEF Good
<1>3. allocs[p].layer # "GENERAL" /\ allocs[p].byTrace = FALSE
  BY DEF OrdinaryCalls
<1>4. allocs[p].traced = FALSE
  BY <1>1, <1>3 DEF Good
<1>5. HarmIf(allocs[p].user > Room(allocs[p])) = "none"
  BY <1>2 DEF HarmIf, IInv
<1> QED BY <1>3, <1>4, <1>5 DEF UafFreeOutcome, Frees

-----------------------------------------------------------------------------
\* Steps.

\* What an outcome of each form does to the invariant and to the contents.
LEMMA FormSteps ==
  ASSUME IInv, NEW o, Happens(o)
  PROVE  /\ Nothing(o) => IInv' /\ allocs' = allocs
         /\ \A n, k, t : Grants(o, n, k, t) =>
              /\ IInv'
              /\ o.ret \in Fresh
              /\ allocs' = Put(DOMAIN allocs, o.ret, allocs'[o.ret])
              /\ DOMAIN allocs' = DOMAIN allocs \cup {o.ret}
              /\ allocs'[o.ret].asked = n /\ allocs'[o.ret].intact = k
              /\ allocs'[o.ret].byTrace = t
         /\ \A p \in DOMAIN allocs : Frees(o, p) =>
              IInv' /\ allocs' = Without(p) /\ DOMAIN allocs' = DOMAIN allocs \ {p}
         /\ \A p \in DOMAIN allocs : \A n : Regrants(o, p, n) =>
              /\ IInv'
              /\ o.ret \in {p} \cup Fresh
              /\ allocs' = Put(DOMAIN allocs \ {p}, o.ret, allocs'[o.ret])
              /\ DOMAIN allocs' = (DOMAIN allocs \ {p}) \cup {o.ret}
              /\ allocs'[o.ret].asked = n
              /\ allocs'[o.ret].intact =
                   IF allocs[p].intact <= n THEN allocs[p].intact ELSE n
              /\ allocs'[o.ret].byTrace = allocs[p].byTrace
<1>1. ASSUME NEW D \in SUBSET DOMAIN allocs, NEW q \in Pointers, NEW a, Good(a),
             o = Outcome(q, Put(D, q, a), "none")
      PROVE  /\ IInv' /\ o.ret = q
             /\ allocs' = Put(D, q, a) /\ allocs'[q] = a /\ DOMAIN allocs' = D \cup {q}
  <2>1. allocs' = Put(D, q, a) /\ harm' = "none" /\ o.ret = q
    BY <1>1 DEF Happens, Outcome
  <2>2. /\ DOMAIN allocs' = D \cup {q}
        /\ allocs' = [r \in DOMAIN allocs' |-> allocs'[r]]
        /\ allocs'[q] = a
        /\ \A r \in D \cup {q} : allocs'[r] = IF r = q THEN a ELSE allocs[r]
    BY <2>1 DEF Put
  <2>3. \A r \in DOMAIN allocs' : Good(allocs'[r])
    BY <1>1, <2>2 DEF IInv
  <2>4. D \cup {q} \subseteq Pointers
    BY DEF IInv
  <2> QED BY <2>1, <2>2, <2>3, <2>4 DEF IInv
<1>2. ASSUME Nothing(o) PROVE IInv' /\ allocs' = allocs
  BY <1>2 DEF Nothing, Happens, Outcome, IInv
<1>3. ASSUME NEW n, NEW k, NEW t, Grants(o, n, k, t)
      PROVE  /\ IInv'
             /\ o.ret \in Fresh
             /\ allocs' = Put(DOMAIN allocs, o.ret, allocs'[o.ret])
             /\ DOMAIN allocs' = DOMAIN allocs \cup {o.ret}
             /\ allocs'[o.ret].asked = n /\ allocs'[o.ret].intact = k
             /\ allocs'[o.ret].byTrace = t
  <2>1. PICK p \in Fresh, a \in Allocation :
          /\ Good(a) /\ a.asked = n /\ a.intact = k /\ a.byTrace = t
          /\ o = Outcome(p, Put(DOMAIN allocs, p, a), "none")
    BY <1>3 DEF Grants
  <2>2. p \in Pointers
    BY DEF Fresh
  <2>3. /\ IInv' /\ o.ret = p /\ allocs' = Put(DOMAIN allocs, p, a) /\ allocs'[p] = a
        /\ DOMAIN allocs' = DOMAIN allocs \cup {p}
    BY <1>1, <2>1, <2>2
  <2> QED BY <2>1, <2>3
<1>4. ASSUME NEW p \in DOMAIN allocs, Frees(o, p)
      PROVE  IInv' /\ allocs' = Without(p) /\ DOMAIN allocs' = DOMAIN allocs \ {p}
  <2>1. allocs' = Without(p) /\ harm' = "none"
    BY <1>4 DEF Frees, Happens, Outcome
  <2>2. /\ DOMAIN allocs' = DOMAIN allocs \ {p}
        /\ allocs' = [r \in DOMAIN allocs' |-> allocs'[r]]
        /\ \A r \in DOMAIN allocs \ {p} : allocs'[r] = allocs[r]
    BY <2>1 DEF Without
  <2> QED BY <2>1, <2>2 DEF IInv
<1>5. ASSUME NEW p \in DOMAIN allocs, NEW n, Regrants(o, p, n)
      PROVE  /\ IInv'
             /\ o.ret \in {p} \cup Fresh
             /\ allocs' = Put(DOMAIN allocs \ {p}, o.ret, allocs'[o.ret])
             /\ DOMAIN allocs' = (DOMAIN allocs \ {p}) \cup {o.ret}
             /\ allocs'[o.ret].asked = n
             /\ allocs'[o.ret].intact =
                  IF allocs[p].intact <= n THEN allocs[p].intact ELSE n
             /\ allocs'[o.ret].byTrace = allocs[p].byTrace
  <2>1. PICK q \in {p} \cup Fresh, a \in Allocation :
          /\ Good(a) /\ a.asked = n
          /\ a.intact = IF allocs[p].intact <= n THEN allocs[p].intact ELSE n
          /\ a.byTrace = allocs[p].byTrace
          /\ o = Outcome(q, Put(DOMAIN allocs \ {p}, q, a), "none")
    BY <1>5 DEF Regrants
  <2>2. q \in Pointers /\ DOMAIN allocs \ {p} \in SUBSET DOMAIN allocs
    BY DEF Fresh, IInv
  <2>3. /\ IInv' /\ o.ret = q /\ allocs' = Put(DOMAIN allocs \ {p}, q, a)
        /\ allocs'[q] = a /\ DOMAIN allocs' = (DOMAIN allocs \ {p}) \cup {q}
    BY <1>1, <2>1, <2>2
  <2> QED BY <2>1, <2>3
<1> QED BY <1>2, <1>3, <1>4, <1>5

\* What the client holds, as AbstractContents sees it.
HeldNow ==
  [p \in DOMAIN allocs |-> [size |-> allocs[p].asked, intact |-> allocs[p].intact]]

\* The pointers of a set stay as they are, and one is added or changed.
LEMMA HeldPut ==
  ASSUME NEW D \in SUBSET DOMAIN allocs, NEW q, allocs' = Put(D, q, allocs'[q])
  PROVE  HeldNow' = [r \in D \cup {q} |->
                       IF r = q THEN [size |-> allocs'[q].asked, intact |-> allocs'[q].intact]
                       ELSE HeldNow[r]]
<1>1. DOMAIN allocs' = D \cup {q}
  BY DEF Put
<1>2. \A r \in D \cup {q} : r # q => allocs'[r] = allocs[r]
  BY DEF Put
<1>3. HeldNow' = [r \in D \cup {q} |->
                    [size |-> allocs'[r].asked, intact |-> allocs'[r].intact]]
  BY <1>1 DEF HeldNow
<1>4. \A r \in D \cup {q} :
        [size |-> allocs'[r].asked, intact |-> allocs'[r].intact]
          = IF r = q THEN [size |-> allocs'[q].asked, intact |-> allocs'[q].intact]
            ELSE HeldNow[r]
  BY <1>2 DEF HeldNow
<1> QED BY <1>3, <1>4

\* dam_malloc, dam_trace_malloc: nothing, or a malloc of the abstraction.
LEMMA MallocStep ==
  ASSUME OrdinaryCalls, IInv, NEW traced \in BOOLEAN, NEW n, Asked(n, traced),
         NEW o \in MallocOutcomes(n, traced), Happens(o)
  PROVE  IInv' /\ (HeldNow' = HeldNow \/ \E p \in Fresh : Contents!Malloc(p, n))
<1>1. CASE Nothing(o)
  BY <1>1, FormSteps DEF HeldNow
<1>2. CASE Grants(o, n, 0, traced)
  <2>1. /\ IInv' /\ o.ret \in Fresh
        /\ allocs' = Put(DOMAIN allocs, o.ret, allocs'[o.ret])
        /\ allocs'[o.ret].asked = n /\ allocs'[o.ret].intact = 0
    BY <1>2, FormSteps, ZenonT(40)
  <2>h. DOMAIN HeldNow = DOMAIN allocs /\ DOMAIN allocs \in SUBSET DOMAIN allocs
    BY DEF HeldNow
  <2>p. HeldNow' = [r \in DOMAIN HeldNow \cup {o.ret} |->
                      IF r = o.ret THEN [size |-> n, intact |-> 0] ELSE HeldNow[r]]
    <3>1. HeldNow' = [r \in DOMAIN allocs \cup {o.ret} |->
                        IF r = o.ret
                          THEN [size |-> allocs'[o.ret].asked, intact |-> allocs'[o.ret].intact]
                        ELSE HeldNow[r]]
      BY <2>1, <2>h, HeldPut
    <3> QED BY <2>1, <2>h, <3>1
  <2>2. Contents!Malloc(o.ret, n)
    BY <2>p DEF Contents!Malloc, Contents!Hold, HeldNow
  <2> QED BY <2>1, <2>2
<1> QED BY <1>1, <1>2, MallocForms

\* dam_calloc.
LEMMA CallocStep ==
  ASSUME OrdinaryCalls, IInv, NEW product \in Products,
         NEW o \in CallocOutcomes(product[1], product[2]), Happens(o)
  PROVE  IInv' /\ (HeldNow' = HeldNow \/ \E p \in Fresh, n \in Requests : Contents!Calloc(p, n))
<1> DEFINE n == product[1] * product[2]
<1>0. n \in Requests
  BY DEF Requests
<1>1. Nothing(o) \/ Grants(o, n, n, FALSE)
  BY CallocForms
<1> HIDE DEF n
<1>2. CASE Nothing(o)
  BY <1>2, FormSteps DEF HeldNow
<1>3. CASE Grants(o, n, n, FALSE)
  <2>1. /\ IInv' /\ o.ret \in Fresh
        /\ allocs' = Put(DOMAIN allocs, o.ret, allocs'[o.ret])
        /\ allocs'[o.ret].asked = n /\ allocs'[o.ret].intact = n
    BY <1>3, FormSteps, ZenonT(40)
  <2>h. DOMAIN HeldNow = DOMAIN allocs /\ DOMAIN allocs \in SUBSET DOMAIN allocs
    BY DEF HeldNow
  <2>p. HeldNow' = [r \in DOMAIN HeldNow \cup {o.ret} |->
                      IF r = o.ret THEN [size |-> n, intact |-> n] ELSE HeldNow[r]]
    <3>1. HeldNow' = [r \in DOMAIN allocs \cup {o.ret} |->
                        IF r = o.ret
                          THEN [size |-> allocs'[o.ret].asked, intact |-> allocs'[o.ret].intact]
                        ELSE HeldNow[r]]
      BY <2>1, <2>h, HeldPut
    <3> QED BY <2>1, <2>h, <3>1
  <2>2. Contents!Calloc(o.ret, n)
    BY <2>p DEF Contents!Calloc, Contents!Hold, HeldNow
  <2> QED BY <1>0, <2>1, <2>2
<1> QED BY <1>1, <1>2, <1>3

\* dam_free, and what frees as it does.
LEMMA FreeStep ==
  ASSUME IInv, NEW p \in DOMAIN allocs, NEW o, Happens(o), Frees(o, p)
  PROVE  IInv' /\ Contents!Free(p)
<1>1. IInv' /\ allocs' = Without(p) /\ DOMAIN allocs' = DOMAIN allocs \ {p}
  BY FormSteps
<1>2. \A r \in DOMAIN allocs \ {p} : allocs'[r] = allocs[r]
  BY <1>1 DEF Without
<1>3. HeldNow' = [r \in DOMAIN allocs \ {p} |-> HeldNow[r]]
  BY <1>1, <1>2 DEF HeldNow
<1> QED BY <1>1, <1>3 DEF Contents!Free, HeldNow

\* dam_realloc, dam_trace_realloc.
LEMMA ReallocStep ==
  ASSUME OrdinaryCalls, IInv, NEW p \in DOMAIN allocs, NEW n, Asked(n, allocs[p].byTrace),
         NEW o \in ReallocOutcomes(p, n), Happens(o)
  PROVE  /\ IInv'
         /\ \/ HeldNow' = HeldNow
            \/ Contents!Free(p)
            \/ \E q \in {p} \cup Fresh : Contents!Realloc(p, q, n)
<1>1. CASE n = 0
  <2>1. Frees(o, p)
    BY <1>1, ReallocForms
  <2> QED BY <2>1, FreeStep
<1>2. CASE n # 0 /\ Nothing(o)
  BY <1>2, FormSteps DEF HeldNow
<1>3. CASE n # 0 /\ Regrants(o, p, n)
  <2>1. /\ IInv' /\ o.ret \in {p} \cup Fresh
        /\ allocs' = Put(DOMAIN allocs \ {p}, o.ret, allocs'[o.ret])
        /\ allocs'[o.ret].asked = n
        /\ allocs'[o.ret].intact = IF allocs[p].intact <= n THEN allocs[p].intact ELSE n
    BY <1>3, FormSteps
  <2>2. allocs[p].byTrace \in BOOLEAN /\ allocs[p].intact \in Nat
    BY Fields DEF IInv
  <2>3. n \in Nat
    BY <2>2, AskedSize
  <2>4. allocs'[o.ret].intact = Contents!Least(HeldNow[p].intact, n)
    BY <2>1, <2>2, <2>3 DEF Contents!Least, HeldNow
  <2>h. DOMAIN HeldNow = DOMAIN allocs /\ DOMAIN allocs \ {p} \in SUBSET DOMAIN allocs
    BY DEF HeldNow
  <2>p. HeldNow' = [r \in (DOMAIN HeldNow \ {p}) \cup {o.ret} |->
                      IF r = o.ret THEN [size |-> n, intact |-> Contents!Least(HeldNow[p].intact, n)]
                      ELSE HeldNow[r]]
    <3>1. HeldNow' = [r \in (DOMAIN allocs \ {p}) \cup {o.ret} |->
                        IF r = o.ret
                          THEN [size |-> allocs'[o.ret].asked, intact |-> allocs'[o.ret].intact]
                        ELSE HeldNow[r]]
      BY <2>1, <2>h, HeldPut
    <3> QED BY <2>1, <2>4, <2>h, <3>1
  <2>5. Contents!Realloc(p, o.ret, n)
    BY <2>p DEF Contents!Realloc, Contents!Least, HeldNow
  <2> QED BY <2>1, <2>5
<1> QED BY <1>1, <1>2, <1>3, ReallocForms

\* The client writes what it asked for.
LEMMA WriteStep ==
  ASSUME IInv, NEW p \in DOMAIN allocs, Write(p)
  PROVE  IInv' /\ Contents!Write(p)
<1> DEFINE a == [allocs[p] EXCEPT !.intact = allocs[p].asked]
<1>1. Good(allocs[p])
  BY DEF IInv
<1>2. /\ allocs[p] \in Allocation
      /\ allocs[p].asked \in Nat
  BY <1>1, Fields
<1>3. /\ a \in Allocation
      /\ a.layer = allocs[p].layer /\ a.block = allocs[p].block /\ a.user = allocs[p].user
      /\ a.traced = allocs[p].traced /\ a.byTrace = allocs[p].byTrace
      /\ a.asked = allocs[p].asked /\ a.intact = allocs[p].asked
  BY <1>2 DEF Allocation
<1>4. allocs' = [allocs EXCEPT ![p] = a] /\ harm' = harm
  BY DEF Write
<1> HIDE DEF a
<1>5. Good(a)
  BY <1>1, <1>2, <1>3 DEF Good, Room
<1>6. /\ DOMAIN allocs' = DOMAIN allocs /\ allocs'[p] = a
      /\ \A r \in DOMAIN allocs : r # p => allocs'[r] = allocs[r]
      /\ allocs' = [r \in DOMAIN allocs' |-> allocs'[r]]
  BY <1>4
<1>7. IInv'
  BY <1>4, <1>5, <1>6 DEF IInv
<1>8. allocs' = Put(DOMAIN allocs, p, allocs'[p])
  BY <1>6 DEF Put
<1>9. HeldNow[p].size = allocs[p].asked
  BY DEF HeldNow
<1> QED BY <1>3, <1>6, <1>7, <1>8, <1>9, HeldPut DEF Contents!Write, Contents!Hold, HeldNow

\* The invariant, which AllocFit alone would not give: after a realloc in place what fits
\* is what the header records, so that has to be bounded too.
LEMMA IInvInit == Init => IInv
<1> SUFFICES ASSUME Init PROVE IInv
  OBVIOUS
<1>1. allocs = <<>> /\ harm = "none" /\ DOMAIN allocs = {}
  BY DEF Init
<1>2. allocs = [p \in DOMAIN allocs |-> allocs[p]]
  BY <1>1
<1> QED BY <1>1, <1>2 DEF IInv

\* Every call keeps it, and is a call of the abstraction or changes nothing of the
\* contents.
LEMMA IInvNext ==
  ASSUME OrdinaryCalls, IInv, Next
  PROVE  IInv' /\ (HeldNow' = HeldNow \/ Contents!Next)
<1>h. DOMAIN HeldNow = DOMAIN allocs /\ Fresh = Pointers \ DOMAIN HeldNow
  BY DEF HeldNow, Fresh
<1>n. Requests \subseteq Requests \cup TracedSizes /\ TracedSizes \subseteq Requests \cup TracedSizes
      /\ Sizes \subseteq Requests
  BY DEF Requests
<1>1. ASSUME NEW n \in Sizes, Malloc(n) PROVE IInv' /\ (HeldNow' = HeldNow \/ Contents!Next)
  <2>1. Asked(n, FALSE) /\ FALSE \in BOOLEAN
    BY <1>n DEF Asked
  <2>2. PICK o \in MallocOutcomes(n, FALSE) : Happens(o)
    BY <1>1 DEF Malloc
  <2>3. IInv' /\ (HeldNow' = HeldNow \/ \E p \in Fresh : Contents!Malloc(p, n))
    BY <2>1, <2>2, MallocStep
  <2> QED BY <1>h, <1>n, <2>3 DEF Contents!Next, HeldNow
<1>2. ASSUME NEW n \in TracedSizes, TraceMalloc(n)
      PROVE  IInv' /\ (HeldNow' = HeldNow \/ Contents!Next)
  <2>1. Asked(n, TRUE) /\ TRUE \in BOOLEAN
    BY DEF Asked
  <2>2. PICK o \in MallocOutcomes(n, TRUE) : Happens(o)
    BY <1>2 DEF TraceMalloc
  <2>3. IInv' /\ (HeldNow' = HeldNow \/ \E p \in Fresh : Contents!Malloc(p, n))
    BY <2>1, <2>2, MallocStep
  <2> QED BY <1>h, <1>n, <2>3 DEF Contents!Next, HeldNow
<1>3. ASSUME NEW product \in Products, Calloc(product[1], product[2])
      PROVE  IInv' /\ (HeldNow' = HeldNow \/ Contents!Next)
  <2>1. PICK o \in CallocOutcomes(product[1], product[2]) : Happens(o)
    BY <1>3 DEF Calloc
  <2>2. IInv' /\ (HeldNow' = HeldNow \/ \E p \in Fresh, n \in Requests : Contents!Calloc(p, n))
    BY <2>1, CallocStep
  <2> QED BY <1>h, <1>n, <2>2 DEF Contents!Next, HeldNow
<1>4. ASSUME NEW p \in DOMAIN allocs, Write(p)
      PROVE  IInv' /\ (HeldNow' = HeldNow \/ Contents!Next)
  BY <1>4, <1>h, WriteStep DEF Contents!Next, HeldNow
<1>5. ASSUME NEW p \in DOMAIN allocs, Free(p)
      PROVE  IInv' /\ (HeldNow' = HeldNow \/ Contents!Next)
  <2>1. IInv' /\ Contents!Free(p)
    BY <1>5, FreeForm, FreeStep DEF Free
  <2> QED BY <1>h, <2>1 DEF Contents!Next, HeldNow
<1>6. ASSUME NEW p \in DOMAIN allocs, UafFree(p)
      PROVE  IInv' /\ (HeldNow' = HeldNow \/ Contents!Next)
  <2>1. IInv' /\ Contents!Free(p)
    BY <1>6, UafFreeForm, FreeStep DEF UafFree
  <2> QED BY <1>h, <2>1 DEF Contents!Next, HeldNow
<1>7. ASSUME NEW p \in DOMAIN allocs,
             NEW n \in IF allocs[p].byTrace THEN TracedSizes ELSE Sizes, Realloc(p, n)
      PROVE  IInv' /\ (HeldNow' = HeldNow \/ Contents!Next)
  <2>1. Asked(n, allocs[p].byTrace) /\ n \in Requests \cup TracedSizes
    BY <1>n DEF Asked
  <2>2. PICK o \in ReallocOutcomes(p, n) : Happens(o)
    BY <1>7 DEF Realloc
  <2>3. /\ IInv'
        /\ \/ HeldNow' = HeldNow
           \/ Contents!Free(p)
           \/ \E q \in {p} \cup Fresh : Contents!Realloc(p, q, n)
    BY <2>1, <2>2, ReallocStep
  <2> QED BY <1>h, <2>1, <2>3 DEF Contents!Next, HeldNow
<1>8. CASE Request
  BY <1>8, <1>1, <1>2, <1>3 DEF Request
<1>9. CASE \E p \in DOMAIN allocs : Use(p)
  BY <1>9, <1>4, <1>5, <1>6, <1>7 DEF Use
<1> QED BY <1>8, <1>9 DEF Next

-----------------------------------------------------------------------------
\* The theorems.

\* The inductive invariant.
THEOREM Invariance == OrdinaryCalls => (Spec => []IInv)
<1> SUFFICES ASSUME OrdinaryCalls PROVE Spec => []IInv
  OBVIOUS
<1>1. IInv /\ [Next]_<<allocs, harm>> => IInv'
  <2> SUFFICES ASSUME IInv, [Next]_<<allocs, harm>> PROVE IInv'
    OBVIOUS
  <2>1. CASE UNCHANGED <<allocs, harm>>
    BY <2>1 DEF IInv
  <2> QED BY <2>1, IInvNext
<1> QED BY <1>1, IInvInit, PTL DEF Spec

\* What it says of room and harm.
LEMMA IInvFits == IInv => AllocFit /\ NoHarm
<1> SUFFICES ASSUME IInv PROVE AllocFit /\ NoHarm
  OBVIOUS
<1>1. ASSUME NEW p \in DOMAIN allocs PROVE allocs[p].asked <= Room(allocs[p])
  <2>1. Good(allocs[p])
    BY DEF IInv
  <2>2. allocs[p].asked \in Nat /\ allocs[p].user \in Nat /\ Room(allocs[p]) \in Nat
    BY <2>1, Fields
  <2> QED BY <2>1, <2>2 DEF Good
<1> QED BY <1>1 DEF IInv, AllocFit, NoHarm, Harmless

\* For every configuration and every program of OrdinaryCalls, every pointer has room for
\* what was asked for it, whichever call, layer, rounding and move gave it.
THEOREM AllocationsFit == OrdinaryCalls => (Spec => []AllocFit)
BY Invariance, IInvFits, PTL

\* None of its calls reads a header that is not one, or copies, clears or marks a byte
\* outside the allocation it is about.
THEOREM CallsDoNoHarm == OrdinaryCalls => (Spec => []NoHarm)
BY Invariance, IInvFits, PTL

\* And none loses contents: the public calls implement the contents C promises.
THEOREM ContentsKept == OrdinaryCalls => (Spec => KeepsContents)
<1> SUFFICES ASSUME OrdinaryCalls PROVE Spec => KeepsContents
  OBVIOUS
<1>1. Init => Contents!Init
  BY DEF Init, Contents!Init
<1>2. IInv /\ [Next]_<<allocs, harm>> => [Contents!Next]_Contents!vars
  <2> SUFFICES ASSUME IInv, [Next]_<<allocs, harm>> PROVE [Contents!Next]_Contents!vars
    OBVIOUS
  <2>1. CASE UNCHANGED <<allocs, harm>>
    BY <2>1 DEF Contents!vars
  <2>2. CASE Next
    BY <2>2, IInvNext DEF Contents!vars, HeldNow
  <2> QED BY <2>1, <2>2
<1> QED BY <1>1, <1>2, Invariance, PTL DEF Spec, KeepsContents, Contents!Spec

=============================================================================
