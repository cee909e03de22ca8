------------------------------- MODULE Dispatch -------------------------------
(***************************************************************************)
(* The public calls (src/core/core.c): which layer a call is sent to, the  *)
(* direct layer (src/core/direct.c) whole, and of the other two what they  *)
(* do with an allocation that changes layer: how much room it gets, how    *)
(* many bytes are copied, where its header is looked for.                  *)
(*                                                                         *)
(* An allocation is one entry of allocs.  Addresses, lists and locks are   *)
(* the other modules'; a call is one step, and may fail wherever a layer   *)
(* may find no memory.  A call that would read a header where there is     *)
(* none, or write outside an allocation, does harm, and what follows is    *)
(* not modelled.                                                           *)
(***************************************************************************)
EXTENDS DamConfig, FiniteSetsExt

CONSTANTS
  ClassSizes,                  \* the block sizes of the small layer
  POOL_HEADER_SIZE,            \* sizeof(pool_header_t)
  PAGE_SIZE,
  TRACE_SIZE,
  DAM_DIRECT_SHRINK_PERCENTAGE,
  SIZE_MAX,                    \* the largest size_t
  MEMORY,                      \* mmap refuses more
  Slacks,                      \* what a general block may have beyond its request
  Pointers,
  NULL,
  Sizes,                       \* what clients ask dam_malloc and dam_realloc for
  TracedSizes,                 \* what they ask dam_trace_malloc and _realloc for
  Products,                    \* what they ask dam_calloc for, pairs
  UafCalls                     \* whose memory they give to dam_uaf_free: pairs of a
                               \* layer and whether it is by the traced calls

ASSUME DispatchAssumption ==
  /\ ClassSizes \subseteq Nat \ {0}
  /\ DAM_SMALL_MAX \in ClassSizes
  /\ \A n \in ClassSizes : n <= DAM_SMALL_MAX
  /\ POOL_HEADER_SIZE \in Nat
  /\ PAGE_SIZE \in Nat \ {0}
  /\ TRACE_SIZE \in Nat
  /\ DAM_DIRECT_SHRINK_PERCENTAGE \in 0 .. 100
  /\ SIZE_MAX \in Nat
  /\ (SIZE_MAX + 1) % PAGE_SIZE = 0
  /\ MEMORY \in Nat
  /\ MEMORY * 100 <= SIZE_MAX
  /\ Slacks \subseteq 0 .. BLOCK_HEADER_SIZE + MIN_BLOCK_SIZE - 1
  /\ NULL \notin Pointers
  /\ Sizes \subseteq 0 .. SIZE_MAX
  /\ TracedSizes \subseteq 0 .. SIZE_MAX
  /\ Products \subseteq (0 .. SIZE_MAX) \X (0 .. SIZE_MAX)
  /\ UafCalls \subseteq Layers \X BOOLEAN

VARIABLES
  allocs,  \* the allocations clients hold
  harm     \* "overrun": bytes of others written; "misread": a header read where none is

\* block: the bytes behind the header; user: the size the header records; asked, intact:
\* what the client asked for, and how many of its bytes are as they should be.
Allocation ==
  [layer: Layers \ {"ERROR"}, block: Nat, user: Nat, traced: BOOLEAN,
   byTrace: BOOLEAN,   \* the client has it from the traced calls
   asked: Nat, intact: Nat]

TypeOK ==
  /\ allocs \in [DOMAIN allocs -> Allocation]
  /\ DOMAIN allocs \subseteq Pointers
  /\ harm \in {"none", "overrun", "misread"}

SizeT(n) == n % (SIZE_MAX + 1)

-----------------------------------------------------------------------------
\* Where each layer puts a request.

\* The smallest class that holds the request, and the last class when none does.
ClassFor(n) ==
  IF \A c \in ClassSizes : c < n THEN DAM_SMALL_MAX ELSE Min({c \in ClassSizes : n <= c})

Trace(traced) == IF traced THEN TRACE_SIZE ELSE 0

Place(layer, block, user, traced) ==
  [layer |-> layer, block |-> block, user |-> user, traced |-> traced]

SmallPlaces(n, traced) ==
  {Place("SMALL", c, c, traced) : c \in {ClassFor(SizeT(n + Trace(traced)))}}

GeneralPlaces(n, traced) ==
  {Place("GENERAL", ActualSize(n) + slack, n, traced) : slack \in Slacks}

\* Mutant: the pool header is not counted.
DirectTotalBare(n) == SizeT(AlignUp(BLOCK_HEADER_SIZE + n, PAGE_SIZE))

\* What dam_direct_malloc_internal maps.
DirectTotal(n) == SizeT(AlignUp(POOL_HEADER_SIZE + BLOCK_HEADER_SIZE + n, PAGE_SIZE))

DirectPlaces(n, traced) ==
  {Place("DIRECT", total - POOL_HEADER_SIZE - BLOCK_HEADER_SIZE, n, traced) :
     total \in {DirectTotal(n)} \cap 1 .. MEMORY}

\* dam_malloc and dam_trace_malloc.
Places(n, traced) ==
  CASE LayerForSize(n) = "ERROR"   -> {}
    [] LayerForSize(n) = "SMALL"   -> SmallPlaces(n, traced)
    [] LayerForSize(n) = "GENERAL" -> GeneralPlaces(n, traced)
    [] LayerForSize(n) = "DIRECT"  -> DirectPlaces(n, traced)

\* From the pointer to the end of the block.
Room(a) == a.block - Trace(a.traced)

\* The general layer writes a canary behind the bytes asked for.
Written(a, n) == IF a.layer = "GENERAL" THEN n + CANARY_SIZE ELSE 0

-----------------------------------------------------------------------------
\* What a call may do: the pointer it returns, the allocations and the harm done.

Fresh == Pointers \ DOMAIN allocs

Outcome(ret, after, wrong) == [ret |-> ret, allocs |-> after, harm |-> wrong]

\* NULL is returned and nothing happens.
Refused == Outcome(NULL, allocs, harm)
Misread == Outcome(NULL, allocs, "misread")

Allocated(place, byTrace, asked, intact) ==
  [layer |-> place.layer, block |-> place.block, user |-> place.user,
   traced |-> place.traced, byTrace |-> byTrace, asked |-> asked, intact |-> intact]

HarmIf(condition) == IF condition THEN "overrun" ELSE harm

Without(p) == [q \in DOMAIN allocs \ {p} |-> allocs[q]]

\* A new allocation, of which n bytes are written.
Taken(place, byTrace, asked, n) ==
  {Outcome(p, [q \in DOMAIN allocs \cup {p} |->
                 IF q = p THEN Allocated(place, byTrace, asked, n) ELSE allocs[q]],
           HarmIf(Written(place, place.user) > Room(place) \/ n > Room(place))) :
     p \in Fresh}

MallocOutcomes(n, traced) ==
  {Refused} \cup UNION {Taken(place, traced, n, 0) : place \in Places(n, traced)}

\* The product wraps.  Zeros: memset up to DAM_GENERAL_MAX, a fresh mapping above.
CallocOutcomes(m, n) ==
  {Refused} \cup UNION {Taken(place, FALSE, m * n, SizeT(m * n)) :
                          place \in Places(SizeT(m * n), FALSE)}

\* The header dam_free looks for stands before the trace of a traced pointer; for the
\* direct layer it looks for the pool only.
FreeReadsHeader(a) == a.layer = "DIRECT" \/ ~ a.traced

FreeOutcome(p) ==
  IF p \in DOMAIN allocs /\ FreeReadsHeader(allocs[p]) THEN Outcome(NULL, Without(p), harm)
  ELSE Misread

\* dam_realloc uses the headers of untraced pointers, dam_trace_realloc those of traced
\* pointers, but for the small layer.
ReallocReadsHeader(a) == a.traced = (a.byTrace /\ a.layer # "SMALL")

\* Mutant: the recorded size bounds the copy, whatever the new size.
CopyRecorded(a, n) == a.user

\* How much of a is copied to an allocation of n bytes.
Copy(a, n) == IF a.layer = "SMALL" THEN a.block ELSE Min({a.user, n})

\* Copied to a new place, then freed.
MovedTo(p, place, n) ==
  LET a == allocs[p]
      copy == Copy(a, n)
      new == Allocated(place, a.byTrace, n, Min({a.intact, copy, n}))
      after(q) == [r \in (DOMAIN allocs \ {p}) \cup {q} |-> IF r = q THEN new ELSE allocs[r]]
  IN  {IF ~ FreeReadsHeader(a) THEN Misread
       ELSE Outcome(q, after(q), HarmIf(\/ Written(place, n) > Room(place)
                                        \/ copy > Room(place)
                                        \/ copy > Room(a))) : q \in Fresh}

\* Somewhere else, or nowhere.
Moved(p, places, n) == {Refused} \cup UNION {MovedTo(p, place, n) : place \in places}

InPlace(p, block, user, n) ==
  LET a == allocs[p]
      b == [a EXCEPT !.block = block, !.user = user, !.asked = n, !.intact = Min({a.intact, n})]
  IN  {Outcome(p, [allocs EXCEPT ![p] = b], HarmIf(Written(b, n) > Room(b)))}

\* dam_small_realloc.
SmallRealloc(p, n) ==
  LET a == allocs[p]
  IN  IF LayerForSize(n) # "SMALL" THEN Moved(p, Places(n, a.byTrace), n)
      ELSE IF ClassFor(SizeT(n + Trace(a.byTrace))) <= a.block
        THEN InPlace(p, a.block, a.user, n)
      ELSE Moved(p, SmallPlaces(n, a.byTrace), n)

\* Mutant: in place, the header keeps the size it had.
GeneralReallocStale(p, n) ==
  LET a == allocs[p]
      need == ReallocSize(n)
      splits == a.block >= need + BLOCK_HEADER_SIZE + MIN_BLOCK_SIZE
  IN  Moved(p, Places(n, a.byTrace), n)
        \cup IF a.block >= need THEN InPlace(p, IF splits THEN need ELSE a.block, a.user, n)
             ELSE UNION {InPlace(p, need + slack, a.user, n) : slack \in Slacks}

\* dam_general_realloc: in place, splitting off what is left over; into a free block
\* behind, if there is one; elsewhere, from a quarantined pool always.
GeneralRealloc(p, n) ==
  LET a == allocs[p]
      need == ReallocSize(n)
      splits == a.block >= need + BLOCK_HEADER_SIZE + MIN_BLOCK_SIZE
  IN  Moved(p, Places(n, a.byTrace), n)
        \cup IF a.block >= need THEN InPlace(p, IF splits THEN need ELSE a.block, n, n)
             ELSE UNION {InPlace(p, need + slack, n, n) : slack \in Slacks}

\* Small enough against what the header records, or too large for it.
Remaps(a, n) ==
  \/ SizeT(n * 100) <= SizeT(a.user * DAM_DIRECT_SHRINK_PERCENTAGE)
  \/ n > a.user

\* dam_direct_realloc.  To a lower layer it goes by dam_malloc, without the trace; what
\* stays where it is keeps the size it had in its header.
DirectRealloc(p, n) ==
  LET a == allocs[p]
  IN  IF LayerForSize(n) # "DIRECT" THEN Moved(p, Places(n, FALSE), n)
      ELSE IF Remaps(a, n) THEN Moved(p, DirectPlaces(n, a.byTrace), n)
      ELSE InPlace(p, a.block, a.user, n)

\* dam_realloc and dam_trace_realloc, each for the pointers it is meant for.
ReallocOutcomes(p, n) ==
  IF n = 0 THEN {FreeOutcome(p)}
  ELSE IF p \notin DOMAIN allocs \/ ~ ReallocReadsHeader(allocs[p]) THEN {Misread}
  ELSE CASE allocs[p].layer = "SMALL"   -> SmallRealloc(p, n)
         [] allocs[p].layer = "GENERAL" -> GeneralRealloc(p, n)
         [] allocs[p].layer = "DIRECT"  -> DirectRealloc(p, n)

\* dam_uaf_free clears as many bytes as one header says and frees by the other: of the
\* general layer's two headers one is always wrong.
UafFreeOutcome(p) ==
  LET a == allocs[p]
  IN  IF a.traced \/ a.layer = "GENERAL" THEN Misread
      ELSE Outcome(NULL, Without(p), HarmIf(a.user > Room(a)))

-----------------------------------------------------------------------------
\* The calls.

Happens(o) == allocs' = o.allocs /\ harm' = o.harm

Malloc(n) == \E o \in MallocOutcomes(n, FALSE) : Happens(o)
TraceMalloc(n) == \E o \in MallocOutcomes(n, TRUE) : Happens(o)
Calloc(m, n) == \E o \in CallocOutcomes(m, n) : Happens(o)
Free(p) == Happens(FreeOutcome(p))
Realloc(p, n) == \E o \in ReallocOutcomes(p, n) : Happens(o)
UafFree(p) ==
  /\ <<allocs[p].layer, allocs[p].byTrace>> \in UafCalls
  /\ Happens(UafFreeOutcome(p))

\* The client fills what it asked for.
Write(p) ==
  /\ allocs' = [allocs EXCEPT ![p] = [@ EXCEPT !.intact = allocs[p].asked]]
  /\ UNCHANGED harm

Request ==
  \/ \E n \in Sizes : Malloc(n)
  \/ \E n \in TracedSizes : TraceMalloc(n)
  \/ \E product \in Products : Calloc(product[1], product[2])

\* The calls with a pointer.
Use(p) ==
  \/ Write(p)
  \/ Free(p)
  \/ UafFree(p)
  \/ \E n \in IF allocs[p].byTrace THEN TracedSizes ELSE Sizes : Realloc(p, n)

Harmless == harm = "none"

Init == allocs = <<>> /\ harm = "none"

Next == Harmless /\ (Request \/ \E p \in DOMAIN allocs : Use(p))

Spec == Init /\ [][Next]_<<allocs, harm>>

-----------------------------------------------------------------------------
\* What makes the public calls correct.

Requests == Sizes \cup {product[1] * product[2] : product \in Products}

Headers == POOL_HEADER_SIZE + BLOCK_HEADER_SIZE

\* The programs the properties are claimed of: no product or size wraps before it is
\* rounded, traced requests go to the direct layer and their last page has room for the
\* trace, dam_uaf_free is given what it finds the header of.
OrdinaryCalls ==
  /\ \A n \in Requests : n + Headers <= SIZE_MAX + 1
  /\ \A n \in TracedSizes :
       /\ n > DAM_GENERAL_MAX
       /\ DirectTotal(n) = 0 \/ DirectTotal(n) >= n + Headers + TRACE_SIZE
  /\ UafCalls \subseteq {"SMALL", "DIRECT"} \X {FALSE}

\* Every pointer has room for what was asked for it, by whichever call, layer and
\* rounding it came (dam_malloc, dam_calloc, dam_trace_malloc, the three reallocs).
AllocFit == \A p \in DOMAIN allocs : allocs[p].asked <= Room(allocs[p])

\* No call reads a header that is not one, or copies, clears or marks bytes outside the
\* allocation it is about.
NoHarm == Harmless

\* The calls keep the contents as C promises it (AbstractContents): nothing is lost on
\* the way from one layer to another.
Contents == INSTANCE AbstractContents WITH
  RequestSizes <- Requests \cup TracedSizes,
  held <- [p \in DOMAIN allocs |-> [size |-> allocs[p].asked, intact |-> allocs[p].intact]]

KeepsContents == Contents!Spec

=============================================================================
