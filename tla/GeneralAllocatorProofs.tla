------------------------ MODULE GeneralAllocatorProofs ------------------------
(***************************************************************************)
(* What TLAPS proves about the general layer, for every configuration,     *)
(* every set of threads and every sequence of calls: its type invariant,   *)
(* the tiling of every pool by its blocks, the exactness of the free lists *)
(* and the ownership of the used blocks; that a pool made for a request    *)
(* serves it; that the layer implements AbstractHeap; and, for one thread, *)
(* that a pool in quarantine gives out nothing.                            *)
(***************************************************************************)
EXTENDS GeneralOperations

\* The four hold together: each step needs all of them.
IInv == TypeOK /\ BlocksTile /\ FreeListsExact /\ EveryBlockOwned

\* The types of what is not on the heap.
ThreadsOK ==
  /\ general_lock \in Threads \cup {NoThread}
  /\ pc \in [Threads -> {"idle", "lock", "move", "free"}]
  /\ req \in [Threads -> Request]

\* The invariant as the operation lemmas speak of it: the heap is good, the threads'
\* registers are typed, every used block has one owner.
LEMMA IInvParts == IInv <=> Good(heap) /\ ThreadsOK /\ EveryBlockOwned
<1>1. ASSUME EveryBlockOwned PROVE live \subseteq DOMAIN heap.hdr
  BY <1>1 DEF EveryBlockOwned, InUse
<1> QED
  BY <1>1 DEF IInv, Good, TypeOK, BlocksTile, FreeListsExact, Contents, ThreadsOK

-----------------------------------------------------------------------------
\* Ownership.

\* A thread that returns to the clients, keeps or takes over blocks of its own or
\* blocks nobody has leaves every used block with one owner.
LEMMA Ownership ==
  ASSUME EveryBlockOwned, NEW t \in Threads,
         \A u \in Threads \ {t} : pc'[u] = pc[u] /\ req'[u] = req[u],
         (live' \cup Held(t)') \cap InUse(heap) \subseteq live \cup Held(t),
         InUse(heap') = (InUse(heap) \ (live \cup Held(t))) \cup live' \cup Held(t)',
         live' \cap Held(t)' = {},
         req'[t].new # NULL => pc'[t] = "free" /\ req'[t].new # req'[t].ptr
  PROVE  EveryBlockOwned'
<1>1. \A u \in Threads \ {t} : Held(u)' = Held(u)
  BY DEF Held
<1>2. /\ InUse(heap) = live \cup UNION {Held(u) : u \in Threads}
      /\ \A u \in Threads : Held(u) \cap live = {}
      /\ \A u, v \in Threads : u # v => Held(u) \cap Held(v) = {}
  BY DEF EveryBlockOwned
<1>3. ASSUME NEW u \in Threads \ {t}
      PROVE  Held(u) \cap (live' \cup Held(t)') = {}
  <2>1. Held(u) \subseteq InUse(heap)
    BY <1>2
  <2> QED BY <2>1, <1>2
<1>4. InUse(heap') = live' \cup UNION {Held(u)' : u \in Threads}
  <2>1. ASSUME NEW c \in InUse(heap') PROVE c \in live' \cup UNION {Held(u)' : u \in Threads}
    <3>1. CASE c \in live' \cup Held(t)'
      BY <3>1
    <3>2. CASE c \in InUse(heap) \ (live \cup Held(t))
      <4>1. PICK u \in Threads : c \in Held(u)
        BY <3>2, <1>2
      <4>2. u # t
        BY <4>1, <3>2
      <4> QED BY <4>1, <4>2, <1>1
    <3> QED BY <2>1, <3>1, <3>2
  <2>2. ASSUME NEW u \in Threads, NEW c \in Held(u)' PROVE c \in InUse(heap')
    <3>1. CASE u = t
      BY <3>1, <2>2
    <3>2. CASE u # t
      <4>1. c \in Held(u)
        BY <3>2, <1>1, <2>2
      <4>2. c \in InUse(heap) /\ c \notin live /\ c \notin Held(t)
        BY <4>1, <3>2, <1>2
      <4> QED BY <4>2
    <3> QED BY <3>1, <3>2
  <2>3. live' \subseteq InUse(heap')
    OBVIOUS
  <2> QED BY <2>1, <2>2, <2>3
<1>5. \A u \in Threads : Held(u)' \cap live' = {}
  BY <1>1, <1>3
<1>6. ASSUME NEW u \in Threads, NEW v \in Threads, u # v PROVE Held(u)' \cap Held(v)' = {}
  BY <1>1, <1>2, <1>3, <1>6
<1>7. \A u \in Threads : req'[u].new # NULL => pc'[u] = "free" /\ req'[u].new # req'[u].ptr
  BY DEF EveryBlockOwned
<1> QED BY <1>4, <1>5, <1>6, <1>7 DEF EveryBlockOwned

\* A step that concerns no used block and no thread leaves the owners alone.
LEMMA OwnershipKept ==
  ASSUME EveryBlockOwned, InUse(heap') = InUse(heap), UNCHANGED <<live, pc, req>>
  PROVE  EveryBlockOwned'
<1>1. \A u \in Threads : Held(u)' = Held(u)
  BY DEF Held
<1>2. UNION {Held(u)' : u \in Threads} = UNION {Held(u) : u \in Threads}
  BY <1>1
<1> QED BY <1>1, <1>2 DEF EveryBlockOwned

-----------------------------------------------------------------------------
\* The steps: one lemma per action, each saying that dam_general_malloc, _free or
\* _realloc, or what happens around them, keeps the invariant.

\* dam_general_malloc.
LEMMA IInvMalloc ==
  ASSUME IInv, NEW t \in Threads, NEW size \in Sizes, Malloc(t, size)
  PROVE  IInv'
<1>1. Good(heap) /\ ThreadsOK /\ EveryBlockOwned
  BY IInvParts
<1>2. PICK o \in MallocOutcomes(heap, size) :
        heap' = o.heap /\ live' = live \cup ({o.block} \ {NULL})
  BY DEF Malloc
<1>3. size \in Nat
  BY GeneralAssumption DEF GeneralAssumption
<1>4. /\ Good(heap')
      /\ o.block = NULL => InUse(heap') = InUse(heap)
      /\ o.block # NULL => o.block \notin InUse(heap) /\ InUse(heap') = InUse(heap) \cup {o.block}
  BY <1>1, <1>2, <1>3, MallocFacts
<1>5. UNCHANGED <<general_lock, pc, req>> /\ pc[t] = "idle"
  BY DEF Malloc, Idle
<1>6. EveryBlockOwned'
  <2>1. Held(t) = {} /\ Held(t)' = {}
    BY <1>5 DEF Held
  <2>2. live \subseteq InUse(heap)
    BY <1>1 DEF EveryBlockOwned
  <2>3. /\ (live' \cup Held(t)') \cap InUse(heap) \subseteq live \cup Held(t)
        /\ InUse(heap') = (InUse(heap) \ (live \cup Held(t))) \cup live' \cup Held(t)'
    BY <2>1, <2>2, <1>2, <1>4
  <2>4. req'[t].new # NULL => pc'[t] = "free" /\ req'[t].new # req'[t].ptr
    BY <1>1, <1>5 DEF EveryBlockOwned
  <2> QED BY <2>1, <2>3, <2>4, <1>1, <1>5, Ownership
<1>7. ThreadsOK'
  BY <1>1, <1>5 DEF ThreadsOK
<1>8. Good(heap)' /\ ThreadsOK' /\ EveryBlockOwned'
  BY <1>4, <1>6, <1>7
<1> QED BY <1>8, IInvParts, PTL

\* dam_general_free, of a block the clients hold or of one that is free already.
LEMMA IInvFree ==
  ASSUME IInv, NEW t \in Threads, NEW b \in live \cup OldPointers, Free(t, b)
  PROVE  IInv'
<1>1. Good(heap) /\ ThreadsOK /\ EveryBlockOwned
  BY IInvParts
<1>2. heap' = FreeInternal(heap, b) /\ live' = live \ {b}
  BY DEF Free
<1>3. live \subseteq InUse(heap) /\ b \in DOMAIN heap.hdr /\ (b \in live \/ b \notin InUse(heap))
  BY <1>1 DEF EveryBlockOwned, OldPointers, InUse
<1>4. Good(heap') /\ InUse(heap') = InUse(heap) \ {b}
  BY <1>1, <1>2, <1>3, FreeFacts
<1>5. UNCHANGED <<general_lock, pc, req>> /\ pc[t] = "idle"
  BY DEF Free, Idle
<1>6. EveryBlockOwned'
  <2>1. Held(t) = {} /\ Held(t)' = {}
    BY <1>5 DEF Held
  <2>2. /\ (live' \cup Held(t)') \cap InUse(heap) \subseteq live \cup Held(t)
        /\ InUse(heap') = (InUse(heap) \ (live \cup Held(t))) \cup live' \cup Held(t)'
    BY <2>1, <1>2, <1>3, <1>4
  <2>3. req'[t].new # NULL => pc'[t] = "free" /\ req'[t].new # req'[t].ptr
    BY <1>1, <1>5 DEF EveryBlockOwned
  <2> QED BY <2>1, <2>2, <2>3, <1>1, <1>5, Ownership
<1>7. ThreadsOK'
  BY <1>1, <1>5 DEF ThreadsOK
<1>8. Good(heap)' /\ ThreadsOK' /\ EveryBlockOwned'
  BY <1>4, <1>6, <1>7
<1> QED BY <1>8, IInvParts, PTL

\* dam_general_realloc up to its lock: the thread takes the block over.
LEMMA IInvReallocEnter ==
  ASSUME IInv, NEW t \in Threads, NEW b \in live, NEW size \in Sizes, ReallocEnter(t, b, size)
  PROVE  IInv'
<1>1. Good(heap) /\ ThreadsOK /\ EveryBlockOwned
  BY IInvParts
<1>2. live \subseteq InUse(heap) /\ b \in DOMAIN heap.hdr /\ b \in InUse(heap)
  BY <1>1 DEF EveryBlockOwned, InUse
<1> DEFINE p == heap.hdr[b].pool_ptr
           r == [ptr |-> b, size |-> size, new |-> NULL, quarantine |-> heap.pool[p].read_only]
<1>3. r \in Request
  <2>1. p \in DOMAIN heap.pool /\ b \in Nat
    BY <1>1, <1>2, BlockTypes DEF Good, Layout, BlockInPool
  <2>2. heap.pool[p].read_only \in BOOLEAN
    BY <2>1, <1>1 DEF Good, IsHeap, PoolHeader
  <2>3. size \in Nat
    BY GeneralAssumption DEF GeneralAssumption
  <2> QED BY <2>1, <2>2, <2>3 DEF Request, NULL
<1>4. /\ pc[t] = "idle" /\ live' = live \ {b} /\ heap' = heap /\ general_lock' = general_lock
      /\ pc' = [pc EXCEPT ![t] = "lock"] /\ req' = [req EXCEPT ![t] = r]
  BY DEF ReallocEnter, Idle
<1>5. r.ptr = b /\ r.new = NULL
  OBVIOUS
<1> HIDE DEF r
<1>6. /\ pc'[t] = "lock" /\ req'[t] = r
      /\ \A u \in Threads \ {t} : pc'[u] = pc[u] /\ req'[u] = req[u]
      /\ ThreadsOK'
  BY <1>1, <1>3, <1>4 DEF ThreadsOK
<1>7. EveryBlockOwned'
  <2>1. Held(t) = {} /\ Held(t)' = {b}
    BY <1>4, <1>5, <1>6 DEF Held
  <2>2. /\ (live' \cup Held(t)') \cap InUse(heap) \subseteq live \cup Held(t)
        /\ InUse(heap') = (InUse(heap) \ (live \cup Held(t))) \cup live' \cup Held(t)'
        /\ live' \cap Held(t)' = {}
    BY <2>1, <1>2, <1>4
  <2> QED BY <2>2, <1>1, <1>5, <1>6, Ownership
<1>8. Good(heap)' /\ ThreadsOK' /\ EveryBlockOwned'
  BY <1>1, <1>4, <1>6, <1>7
<1> QED BY <1>8, IInvParts, PTL

\* A thread inside realloc has a used block of its own, and its replacement is
\* another one.
LEMMA HeldFacts ==
  ASSUME IInv, NEW t \in Threads, pc[t] # "idle"
  PROVE  /\ req[t].ptr \in InUse(heap) /\ req[t].ptr \notin live
         /\ req[t].size \in Nat
         /\ pc[t] # "free" => req[t].new = NULL /\ Held(t) = {req[t].ptr}
         /\ pc[t] = "free" => Held(t) = {req[t].ptr} \cup ({req[t].new} \ {NULL})
         /\ pc[t] = "free" => req[t].new # req[t].ptr
<1>1. Good(heap) /\ ThreadsOK /\ EveryBlockOwned
  BY IInvParts
<1>2. req[t].ptr \in Held(t) /\ Held(t) \subseteq InUse(heap) /\ Held(t) \cap live = {}
  BY <1>1 DEF Held, EveryBlockOwned
<1>3. req[t].size \in Nat
  BY <1>1 DEF ThreadsOK, Request
<1>4. req[t].ptr # NULL
  BY <1>1, <1>2, BlockTypes DEF InUse, Good
<1>5. pc[t] # "free" => req[t].new = NULL /\ Held(t) = {req[t].ptr}
  BY <1>1 DEF Held, EveryBlockOwned
<1>6. pc[t] = "free" => Held(t) = {req[t].ptr} \cup ({req[t].new} \ {NULL})
  BY DEF Held
<1>7. req[t].new # req[t].ptr
  BY <1>1, <1>4 DEF EveryBlockOwned
<1> QED BY <1>2, <1>3, <1>5, <1>6, <1>7

\* A thread that returns gives the block it returns, if any, to the clients.
LEMMA ReturnFacts ==
  ASSUME ThreadsOK, NEW t \in Threads, NEW b, Return(t, b), UNCHANGED general_lock
  PROVE  /\ ThreadsOK'
         /\ live' = live \cup ({b} \ {NULL})
         /\ Held(t)' = {}
         /\ req'[t].new = NULL
         /\ \A u \in Threads \ {t} : pc'[u] = pc[u] /\ req'[u] = req[u]
<1>1. pc' = [pc EXCEPT ![t] = "idle"] /\ req' = [req EXCEPT ![t] = NoRequest]
  BY DEF Return
<1>2. NoRequest \in Request /\ NoRequest.new = NULL
  BY DEF NoRequest, Request, NULL
<1> QED BY <1>1, <1>2 DEF Return, ThreadsOK, Held

\* Cases 1 and 2 of dam_general_realloc: the block stays where it is.
LEMMA IInvReallocInPlace ==
  ASSUME IInv, NEW t \in Threads, ReallocShrink(t) \/ ReallocGrow(t)
  PROVE  IInv'
<1>1. Good(heap) /\ ThreadsOK /\ EveryBlockOwned
  BY IInvParts
<1> DEFINE b == req[t].ptr
<1>2. pc[t] = "lock" /\ Return(t, b) /\ general_lock' = general_lock
  BY DEF ReallocShrink, ReallocGrow
<1>3. b \in InUse(heap) /\ b \notin live /\ req[t].size \in Nat /\ Held(t) = {b}
  BY <1>2, HeldFacts
<1>4. Good(heap') /\ InUse(heap') = InUse(heap)
  <2>1. CASE ReallocShrink(t)
    <3>1. heap.hdr[b].size >= ReallocSize(req[t].size) /\ heap' = Resized(heap, b, req[t].size)
      BY <2>1 DEF ReallocShrink, ShrinkFits
    <3> QED BY <3>1, <1>1, <1>3, ShrinkFacts
  <2>2. CASE ReallocGrow(t)
    <3> DEFINE r == heap.hdr[b].next_ptr
    <3>1. /\ r # NULL /\ heap.hdr[r].is_free
          /\ heap.hdr[b].size + BLOCK_HEADER_SIZE + heap.hdr[r].size >= ReallocSize(req[t].size)
          /\ heap' = Resized(Merge(RemoveFromFreeList(heap, r), b), b, req[t].size)
      BY <2>2 DEF ReallocGrow, GrowFits
    <3> HIDE DEF b
    <3> QED BY <3>1, <1>1, <1>3, GrowFacts
  <2> QED BY <2>1, <2>2
<1>5. /\ ThreadsOK' /\ live' = live \cup ({b} \ {NULL}) /\ Held(t)' = {} /\ req'[t].new = NULL
      /\ \A u \in Threads \ {t} : pc'[u] = pc[u] /\ req'[u] = req[u]
  BY <1>1, <1>2, ReturnFacts
<1>6. b # NULL /\ live \subseteq InUse(heap)
  BY <1>1, <1>3, BlockTypes DEF InUse, Good, EveryBlockOwned
<1>7. EveryBlockOwned'
  <2>1. /\ (live' \cup Held(t)') \cap InUse(heap) \subseteq live \cup Held(t)
        /\ InUse(heap') = (InUse(heap) \ (live \cup Held(t))) \cup live' \cup Held(t)'
        /\ live' \cap Held(t)' = {}
    BY <1>3, <1>4, <1>5, <1>6
  <2> QED BY <2>1, <1>1, <1>5, Ownership
<1>8. Good(heap)' /\ ThreadsOK' /\ EveryBlockOwned'
  BY <1>4, <1>5, <1>7
<1> QED BY <1>8, IInvParts, PTL

\* Case 3, first: the lock is given back.
LEMMA IInvReallocUnlock ==
  ASSUME IInv, NEW t \in Threads, ReallocUnlock(t)
  PROVE  IInv'
<1>1. Good(heap) /\ ThreadsOK /\ EveryBlockOwned
  BY IInvParts
<1>2. pc[t] = "lock" /\ pc' = [pc EXCEPT ![t] = "move"] /\ UNCHANGED <<heap, live, general_lock, req>>
  BY DEF ReallocUnlock
<1>3. ThreadsOK' /\ pc'[t] = "move" /\ \A u \in Threads \ {t} : pc'[u] = pc[u] /\ req'[u] = req[u]
  BY <1>1, <1>2 DEF ThreadsOK
<1>4. req[t].ptr \in InUse(heap) /\ req[t].ptr \notin live /\ req[t].new = NULL /\ Held(t) = {req[t].ptr}
  BY <1>2, HeldFacts
<1>5. EveryBlockOwned'
  <2>1. Held(t)' = Held(t)
    BY <1>2, <1>3 DEF Held
  <2>2. live \subseteq InUse(heap)
    BY <1>1 DEF EveryBlockOwned
  <2>3. /\ (live' \cup Held(t)') \cap InUse(heap) \subseteq live \cup Held(t)
        /\ InUse(heap') = (InUse(heap) \ (live \cup Held(t))) \cup live' \cup Held(t)'
        /\ live' \cap Held(t)' = {}
    BY <2>1, <2>2, <1>2, <1>4
  <2>4. req'[t].new = NULL
    BY <1>2, <1>4
  <2> QED BY <2>3, <2>4, <1>1, <1>3, Ownership
<1>6. Good(heap)' /\ ThreadsOK' /\ EveryBlockOwned'
  BY <1>1, <1>2, <1>3, <1>5
<1> QED BY <1>6, IInvParts, PTL

\* Case 3, then: the malloc of the replacement, which may fail.
LEMMA IInvReallocMove ==
  ASSUME IInv, NEW t \in Threads, ReallocMove(t)
  PROVE  IInv'
<1>1. Good(heap) /\ ThreadsOK /\ EveryBlockOwned
  BY IInvParts
<1> DEFINE b == req[t].ptr
<1>2. pc[t] = "move" /\ general_lock' = general_lock
  BY DEF ReallocMove
<1>3. PICK o \in MallocOutcomes(heap, req[t].size) :
        /\ heap' = o.heap
        /\ \/ o.block = NULL /\ Return(t, b)
           \/ /\ o.block # NULL
              /\ pc' = [pc EXCEPT ![t] = "free"]
              /\ req' = [req EXCEPT ![t] = [req[t] EXCEPT !.new = o.block]]
              /\ UNCHANGED live
  BY DEF ReallocMove
<1>4. /\ b \in InUse(heap) /\ b \notin live /\ req[t].size \in Nat
      /\ req[t].new = NULL /\ Held(t) = {b}
  BY <1>2, HeldFacts
<1>5. /\ Good(heap')
      /\ o.block = NULL => InUse(heap') = InUse(heap)
      /\ o.block # NULL => o.block \notin InUse(heap) /\ InUse(heap') = InUse(heap) \cup {o.block}
  BY <1>1, <1>3, <1>4, MallocFacts
<1>6. b # NULL /\ live \subseteq InUse(heap)
  BY <1>1, <1>4, BlockTypes DEF InUse, Good, EveryBlockOwned
<1>7. CASE o.block = NULL
  <2>1. /\ ThreadsOK' /\ live' = live \cup ({b} \ {NULL}) /\ Held(t)' = {} /\ req'[t].new = NULL
        /\ \A u \in Threads \ {t} : pc'[u] = pc[u] /\ req'[u] = req[u]
    BY <1>1, <1>2, <1>3, <1>7, ReturnFacts
  <2>2. /\ (live' \cup Held(t)') \cap InUse(heap) \subseteq live \cup Held(t)
        /\ InUse(heap') = (InUse(heap) \ (live \cup Held(t))) \cup live' \cup Held(t)'
        /\ live' \cap Held(t)' = {}
    BY <2>1, <1>4, <1>5, <1>6, <1>7
  <2>3. EveryBlockOwned'
    BY <2>1, <2>2, <1>1, Ownership
  <2>4. Good(heap)' /\ ThreadsOK' /\ EveryBlockOwned'
    BY <2>1, <2>3, <1>5
  <2> QED BY <2>4, IInvParts, PTL
<1>8. CASE o.block # NULL
  <2> DEFINE r == [req[t] EXCEPT !.new = o.block]
  <2>0. o.block \in Nat
    BY <1>5, <1>8, BlockTypes DEF InUse, Good
  <2>1. r \in Request /\ r.ptr = b /\ r.new = o.block
    BY <2>0, <1>1 DEF ThreadsOK, Request
  <2>2. /\ pc' = [pc EXCEPT ![t] = "free"] /\ req' = [req EXCEPT ![t] = r] /\ live' = live
    BY <1>3, <1>8
  <2> HIDE DEF r
  <2>3. /\ ThreadsOK' /\ pc'[t] = "free" /\ req'[t] = r
        /\ \A u \in Threads \ {t} : pc'[u] = pc[u] /\ req'[u] = req[u]
    BY <2>1, <2>2, <1>1, <1>2 DEF ThreadsOK
  <2>4. Held(t)' = {b, o.block}
    BY <2>1, <2>3, <1>8 DEF Held
  <2>5. /\ (live' \cup Held(t)') \cap InUse(heap) \subseteq live \cup Held(t)
        /\ InUse(heap') = (InUse(heap) \ (live \cup Held(t))) \cup live' \cup Held(t)'
        /\ live' \cap Held(t)' = {}
    BY <2>2, <2>4, <1>4, <1>5, <1>6, <1>8
  <2>6. req'[t].new # NULL => pc'[t] = "free" /\ req'[t].new # req'[t].ptr
    BY <2>1, <2>3, <1>4, <1>5, <1>8
  <2>7. EveryBlockOwned'
    BY <2>3, <2>5, <2>6, <1>1, Ownership
  <2>8. Good(heap)' /\ ThreadsOK' /\ EveryBlockOwned'
    BY <2>3, <2>7, <1>5
  <2> QED BY <2>8, IInvParts, PTL
<1> QED BY <1>7, <1>8

\* Case 3 when the replacement comes from another layer, or from none.
LEMMA IInvReallocMoveOut ==
  ASSUME IInv, NEW t \in Threads, ReallocMoveOut(t)
  PROVE  IInv'
<1>1. Good(heap) /\ ThreadsOK /\ EveryBlockOwned
  BY IInvParts
<1> DEFINE b == req[t].ptr
<1>2. /\ pc[t] = "move" /\ general_lock' = general_lock /\ heap' = heap
      /\ \/ Return(t, b)
         \/ pc' = [pc EXCEPT ![t] = "free"] /\ UNCHANGED <<live, req>>
  BY DEF ReallocMoveOut
<1>3. b \in InUse(heap) /\ b \notin live /\ req[t].new = NULL /\ Held(t) = {b}
  BY <1>2, HeldFacts
<1>4. b # NULL /\ live \subseteq InUse(heap)
  BY <1>1, <1>3, BlockTypes DEF InUse, Good, EveryBlockOwned
<1>5. CASE Return(t, b)
  <2>1. /\ ThreadsOK' /\ live' = live \cup ({b} \ {NULL}) /\ Held(t)' = {} /\ req'[t].new = NULL
        /\ \A u \in Threads \ {t} : pc'[u] = pc[u] /\ req'[u] = req[u]
    BY <1>1, <1>2, <1>5, ReturnFacts
  <2>2. /\ (live' \cup Held(t)') \cap InUse(heap) \subseteq live \cup Held(t)
        /\ InUse(heap') = (InUse(heap) \ (live \cup Held(t))) \cup live' \cup Held(t)'
        /\ live' \cap Held(t)' = {}
    BY <2>1, <1>2, <1>3, <1>4
  <2>3. EveryBlockOwned'
    BY <2>1, <2>2, <1>1, Ownership
  <2>4. Good(heap)' /\ ThreadsOK' /\ EveryBlockOwned'
    BY <2>1, <2>3, <1>1, <1>2
  <2> QED BY <2>4, IInvParts, PTL
<1>6. CASE pc' = [pc EXCEPT ![t] = "free"] /\ UNCHANGED <<live, req>>
  <2>1. ThreadsOK' /\ pc'[t] = "free" /\ \A u \in Threads \ {t} : pc'[u] = pc[u] /\ req'[u] = req[u]
    BY <1>1, <1>2, <1>6 DEF ThreadsOK
  <2>2. Held(t)' = {b}
    BY <2>1, <1>3, <1>6 DEF Held
  <2>3. /\ (live' \cup Held(t)') \cap InUse(heap) \subseteq live \cup Held(t)
        /\ InUse(heap') = (InUse(heap) \ (live \cup Held(t))) \cup live' \cup Held(t)'
        /\ live' \cap Held(t)' = {}
    BY <2>2, <1>2, <1>3, <1>4, <1>6
  <2>4. req'[t].new = NULL
    BY <1>3, <1>6
  <2>5. EveryBlockOwned'
    BY <2>1, <2>3, <2>4, <1>1, Ownership
  <2>6. Good(heap)' /\ ThreadsOK' /\ EveryBlockOwned'
    BY <2>1, <2>5, <1>1, <1>2
  <2> QED BY <2>6, IInvParts, PTL
<1> QED BY <1>2, <1>5, <1>6

\* Case 3, last: the old block is freed and the replacement returned.
LEMMA IInvReallocFree ==
  ASSUME IInv, NEW t \in Threads, ReallocFree(t)
  PROVE  IInv'
<1>1. Good(heap) /\ ThreadsOK /\ EveryBlockOwned
  BY IInvParts
<1> DEFINE b == req[t].ptr
           n == req[t].new
<1>2. /\ pc[t] = "free" /\ general_lock' = general_lock /\ heap' = FreeInternal(heap, b)
      /\ Return(t, n)
  BY DEF ReallocFree
<1>3. b \in InUse(heap) /\ b \notin live /\ Held(t) = {b} \cup ({n} \ {NULL}) /\ n # b
  BY <1>2, HeldFacts
<1>4. live \subseteq InUse(heap) /\ Held(t) \subseteq InUse(heap) /\ Held(t) \cap live = {}
      /\ b \in DOMAIN heap.hdr
  BY <1>1, <1>3 DEF EveryBlockOwned, InUse
<1>5. Good(heap') /\ InUse(heap') = InUse(heap) \ {b}
  BY <1>1, <1>2, <1>4, FreeFacts
<1>6. /\ ThreadsOK' /\ live' = live \cup ({n} \ {NULL}) /\ Held(t)' = {} /\ req'[t].new = NULL
      /\ \A u \in Threads \ {t} : pc'[u] = pc[u] /\ req'[u] = req[u]
  BY <1>1, <1>2, ReturnFacts
<1>7. /\ (live' \cup Held(t)') \cap InUse(heap) \subseteq live \cup Held(t)
      /\ InUse(heap') = (InUse(heap) \ (live \cup Held(t))) \cup live' \cup Held(t)'
      /\ live' \cap Held(t)' = {}
  BY <1>3, <1>4, <1>5, <1>6
<1>8. EveryBlockOwned'
  BY <1>1, <1>6, <1>7, Ownership
<1>9. Good(heap)' /\ ThreadsOK' /\ EveryBlockOwned'
  BY <1>5, <1>6, <1>8
<1> QED BY <1>9, IInvParts, PTL

\* The rejected realloc that keeps the lock.
LEMMA IInvReallocRejected ==
  ASSUME IInv, NEW t \in Threads, NEW b, ReallocRejected(t, b)
  PROVE  IInv'
<1>1. Good(heap) /\ ThreadsOK /\ EveryBlockOwned
  BY IInvParts
<1>2. general_lock' = t /\ UNCHANGED <<heap, live, pc, req>>
  BY DEF ReallocRejected
<1>3. EveryBlockOwned'
  BY <1>1, <1>2, OwnershipKept
<1>4. Good(heap)' /\ ThreadsOK' /\ EveryBlockOwned'
  BY <1>1, <1>2, <1>3 DEF ThreadsOK
<1> QED BY <1>4, IInvParts, PTL

\* dam_validate_ptr and the quarantine.
LEMMA IInvValidate ==
  ASSUME IInv, NEW t \in Threads, NEW b \in live, Validate(t, b)
  PROVE  IInv'
<1>1. Good(heap) /\ ThreadsOK /\ EveryBlockOwned
  BY IInvParts
<1>2. heap' = Quarantine(heap, heap.hdr[b].pool_ptr) /\ UNCHANGED <<live, general_lock, pc, req>>
  BY DEF Validate
<1>3. heap.hdr[b].pool_ptr \in DOMAIN heap.pool
  BY <1>1 DEF EveryBlockOwned, InUse, Good, Layout, BlockInPool
<1>4. Good(heap') /\ heap'.hdr = heap.hdr
  BY <1>1, <1>2, <1>3, QuarantineFacts
<1>5. EveryBlockOwned'
  BY <1>1, <1>2, <1>4, OwnershipKept DEF InUse
<1>6. Good(heap)' /\ ThreadsOK' /\ EveryBlockOwned'
  BY <1>1, <1>2, <1>4, <1>5 DEF ThreadsOK
<1> QED BY <1>6, IInvParts, PTL

\* A client that writes past its allocation.
LEMMA IInvOverrun ==
  ASSUME IInv, NEW b \in live, Overrun(b)
  PROVE  IInv'
<1>1. Good(heap) /\ ThreadsOK /\ EveryBlockOwned
  BY IInvParts
<1>2. /\ heap' = [heap EXCEPT !.hdr[b] = [heap.hdr[b] EXCEPT !.canary = FALSE]]
      /\ UNCHANGED <<live, general_lock, pc, req>>
  BY DEF Overrun
<1>3. b \in DOMAIN heap.hdr
  BY <1>1 DEF EveryBlockOwned, InUse
<1>4. Good(heap') /\ InUse(heap') = InUse(heap)
  BY <1>1, <1>2, <1>3, OverrunFacts
<1>5. EveryBlockOwned'
  BY <1>1, <1>2, <1>4, OwnershipKept
<1>6. Good(heap)' /\ ThreadsOK' /\ EveryBlockOwned'
  BY <1>1, <1>2, <1>4, <1>5 DEF ThreadsOK
<1> QED BY <1>6, IInvParts, PTL

\* A pool of another layer comes.
LEMMA IInvRegisterOther ==
  ASSUME IInv, NEW type \in {"SMALL", "DIRECT"}, NEW size \in OtherSizes, RegisterOther(type, size)
  PROVE  IInv'
<1>1. Good(heap) /\ ThreadsOK /\ EveryBlockOwned
  BY IInvParts
<1> DEFINE header == [size |-> size, type |-> type, read_only |-> FALSE,
                      has_free |-> FALSE, free_list |-> <<>>]
<1>2. PICK base \in FreeBases(heap, size) : heap' = RegisterPool(heap, base, header)
  BY DEF RegisterOther
<1>3. UNCHANGED <<live, general_lock, pc, req>>
  BY DEF RegisterOther
<1>4. /\ header \in PoolHeader /\ header.type # "GENERAL" /\ header.size = size
      /\ header.free_list = <<>> /\ header.has_free = FALSE
  BY GeneralAssumption DEF GeneralAssumption, PoolHeader, Layers
<1> HIDE DEF header
<1>5. Good(heap') /\ heap'.hdr = heap.hdr
  BY <1>1, <1>2, <1>4, OtherPoolFacts
<1>6. EveryBlockOwned'
  BY <1>1, <1>3, <1>5, OwnershipKept DEF InUse
<1>7. Good(heap)' /\ ThreadsOK' /\ EveryBlockOwned'
  BY <1>1, <1>3, <1>5, <1>6 DEF ThreadsOK
<1> QED BY <1>7, IInvParts, PTL

\* A pool of the direct layer goes.
LEMMA IInvUnregisterDirect ==
  ASSUME IInv, NEW i \in DOMAIN heap.pools, UnregisterDirect(i)
  PROVE  IInv'
<1>1. Good(heap) /\ ThreadsOK /\ EveryBlockOwned
  BY IInvParts
<1>2. /\ heap.pool[heap.pools[i]].type = "DIRECT"
      /\ heap' = [heap EXCEPT !.pools = RemoveAt(heap.pools, i),
                              !.pool = [q \in DOMAIN heap.pool \ {heap.pools[i]} |-> heap.pool[q]]]
      /\ UNCHANGED <<live, general_lock, pc, req>>
  BY DEF UnregisterDirect
<1>3. Good(heap') /\ heap'.hdr = heap.hdr
  BY <1>1, <1>2, UnregisterFacts
<1>4. EveryBlockOwned'
  BY <1>1, <1>2, <1>3, OwnershipKept DEF InUse
<1>5. Good(heap)' /\ ThreadsOK' /\ EveryBlockOwned'
  BY <1>1, <1>2, <1>3, <1>4 DEF ThreadsOK
<1> QED BY <1>5, IInvParts, PTL

-----------------------------------------------------------------------------
\* The theorems.

\* init_general: no pool or, when mmap succeeds, one.
LEMMA IInvInit == Init => IInv
<1> SUFFICES ASSUME Init PROVE IInv
  OBVIOUS
<1> DEFINE empty == [pools |-> <<>>, pool |-> <<>>, hdr |-> <<>>]
<1>1. Good(empty) /\ InUse(empty) = {}
  <2>1. IsHeap(empty)
    BY DEF IsHeap
  <2>2. Layout(empty)
    BY DEF Layout, Apart, Registered, Range, IsInjective
  <2> QED BY <2>1, <2>2 DEF Good, Contents, FreeLists, InUse
<1>2. Good(heap) /\ InUse(heap) = {}
  <2>1. CASE heap = empty
    BY <2>1, <1>1
  <2>2. CASE heap \in Grown(empty, INITIAL_POOL_SIZE)
    <3>1. /\ INITIAL_POOL_SIZE \in Nat
          /\ INITIAL_POOL_SIZE >= POOL_GENERAL_SIZE + BLOCK_HEADER_SIZE + FREE_BLOCK_HEADER_SIZE
      BY GeneralAssumption, Config DEF GeneralAssumption
    <3> HIDE DEF empty
    <3> QED BY <3>1, <2>2, <1>1, GrownFacts
  <2> QED BY <2>1, <2>2 DEF Init
<1>3. ThreadsOK
  <2>1. NoRequest \in Request
    BY DEF NoRequest, Request, NULL
  <2> QED BY <2>1 DEF Init, ThreadsOK
<1>4. EveryBlockOwned
  <2>1. \A t \in Threads : pc[t] = "idle" /\ req[t].new = NULL /\ live = {}
    BY DEF Init, NoRequest
  <2>2. \A t \in Threads : Held(t) = {}
    BY <2>1 DEF Held
  <2>3. live = {}
    BY DEF Init
  <2> QED BY <2>1, <2>2, <2>3, <1>2 DEF EveryBlockOwned
<1> QED BY <1>2, <1>3, <1>4, IInvParts

\* Every step of the layer or its environment keeps the invariant.
LEMMA IInvNext == IInv /\ [Next]_vars => IInv'
<1> SUFFICES ASSUME IInv, [Next]_vars PROVE IInv'
  OBVIOUS
<1>1. CASE UNCHANGED vars
  BY <1>1 DEF vars, IInv, TypeOK, BlocksTile, FreeListsExact, EveryBlockOwned, Held
<1>2. ASSUME NEW t \in Threads, Call(t) PROVE IInv'
  <2>1. ASSUME NEW size \in Sizes, Malloc(t, size) PROVE IInv'
    BY <2>1, IInvMalloc
  <2>2. ASSUME NEW b \in live \cup OldPointers, Free(t, b) PROVE IInv'
    BY <2>2, IInvFree
  <2>3. ASSUME NEW b \in live, Validate(t, b) PROVE IInv'
    BY <2>3, IInvValidate
  <2>4. ASSUME NEW b \in live, NEW size \in Sizes, ReallocEnter(t, b, size) PROVE IInv'
    BY <2>4, IInvReallocEnter
  <2>5. ASSUME NEW b, ReallocRejected(t, b) PROVE IInv'
    BY <2>5, IInvReallocRejected
  <2> QED BY <1>2, <2>1, <2>2, <2>3, <2>4, <2>5 DEF Call
<1>3. ASSUME NEW t \in Threads, ReallocStep(t) PROVE IInv'
  BY <1>3, IInvReallocInPlace, IInvReallocUnlock, IInvReallocMove, IInvReallocMoveOut,
     IInvReallocFree DEF ReallocStep
<1>4. ASSUME Environment PROVE IInv'
  BY <1>4, IInvOverrun, IInvRegisterOther, IInvUnregisterDirect DEF Environment
<1> QED BY <1>1, <1>2, <1>3, <1>4 DEF Next

\* The invariant of every execution.
THEOREM Invariance == Spec => []IInv
  BY IInvInit, IInvNext, PTL DEF Spec

\* Whatever the threads call and in whatever order, the layer's variables keep
\* their types, and the clients hold pointers to blocks.
THEOREM TypeCorrect == Spec => []TypeOK
<1>1. IInv => TypeOK
  BY DEF IInv
<1> QED BY <1>1, Invariance, PTL

\* The blocks of every pool tile it at any time: no split, merge, move or growth
\* in place loses a byte, overlaps two blocks or breaks a link of a block list.
THEOREM BlocksAlwaysTile == Spec => []BlocksTile
<1>1. IInv => BlocksTile
  BY DEF IInv
<1> QED BY <1>1, Invariance, PTL

\* Every free block is in the free list of its pool, once, whenever no thread is
\* in a critical section; no list holds anything else.
THEOREM FreeListsAlwaysExact == Spec => []FreeListsExact
<1>1. IInv => FreeListsExact
  BY DEF IInv
<1> QED BY <1>1, Invariance, PTL

\* No used block is ever lost and none ever has two owners, with any number of
\* threads moving blocks at the same time.
THEOREM BlocksAlwaysOwned == Spec => []EveryBlockOwned
<1>1. IInv => EveryBlockOwned
  BY DEF IInv
<1> QED BY <1>1, Invariance, PTL

-----------------------------------------------------------------------------
\* Growing.

\* The pool create_general_pool maps heads dam_pool_list, and its one block has what the
\* request needs: the pool is large enough for the block and both headers.
LEMMA NewPoolBlock ==
  ASSUME NEW h, Good(h), NEW n \in Nat, NEW g \in Grown(h, MinPoolSize(n))
  PROVE  1 \in Serving(g, n)
<1> DEFINE size == NextPoolSize(h, MinPoolSize(n))
<1>1. PICK base \in FreeBases(h, size) : g = NewPool(h, base, size)
  BY DEF Grown
<1>2. MinPoolSize(n) \in Nat /\ MinPoolSize(n) = POOL_GENERAL_SIZE + BLOCK_HEADER_SIZE + n + MIN_BLOCK_SIZE
  BY Config DEF MinPoolSize
<1>3. size \in Nat /\ size >= MinPoolSize(n)
  BY <1>2, NextPoolSizeFacts DEF Good
<1> HIDE DEF size
<1> DEFINE first == base + POOL_GENERAL_SIZE
           block == [size |-> size - POOL_GENERAL_SIZE - BLOCK_HEADER_SIZE,
                     user_size |-> 0, is_free |-> TRUE, magic |-> "FREED",
                     prev |-> NULL, next_ptr |-> NULL, pool_ptr |-> base,
                     canary |-> FALSE]
           header == [size |-> size, type |-> "GENERAL", read_only |-> FALSE,
                      has_free |-> TRUE, free_list |-> <<first>>]
           f == [c \in DOMAIN h.hdr \cup {first} |-> IF c = first THEN block ELSE h.hdr[c]]
           k == RegisterPool(h, base, header)
<1>4. block.size >= n
  BY <1>2, <1>3, Config
<1>5. g = [k EXCEPT !.hdr = f]
  BY <1>1 DEF NewPool
<1>6. f[first].size >= n
  BY <1>4
<1>7. /\ header.free_list = <<first>> /\ header.type = "GENERAL"
      /\ ~ header.read_only /\ header.has_free
  OBVIOUS
<1> HIDE DEF block, f, header
<1>8. h = [pools |-> h.pools, pool |-> h.pool, hdr |-> h.hdr] /\ h.pools \in Seq(DOMAIN h.pool)
  BY DEF Good, IsHeap
<1>9. /\ k.pools = <<base>> \o h.pools
      /\ k.pool[base] = header
      /\ DOMAIN k = {"pools", "pool", "hdr"}
  BY <1>8 DEF RegisterPool
<1> HIDE DEF k
<1>10. g.pools = <<base>> \o h.pools /\ g.pool[base] = header /\ g.hdr = f
  BY <1>5, <1>9
<1>11. 1 \in DOMAIN g.pools /\ g.pools[1] = base
  BY <1>8, <1>10
<1>12. 1 \in Fitting(g, base, n)
  BY <1>6, <1>7, <1>10 DEF Fitting
<1> QED BY <1>7, <1>10, <1>11, <1>12 DEF Serving

\* "Still no space after creating pool!" is never reached: what create_general_pool has just
\* mapped for a request serves it, whatever the pools before it look like.
THEOREM FreshPoolAlwaysServes == Spec => []FreshPoolServes
<1>1. IInv => FreshPoolServes
  <2> SUFFICES ASSUME IInv, NEW size \in Sizes,
                      NEW g \in Grown(heap, MinPoolSize(ActualSize(size)))
               PROVE  FirstFit(g, ActualSize(size)) # NULL
    BY DEF FreshPoolServes
  <2> DEFINE n == ActualSize(size)
  <2>1. Good(heap)
    BY IInvParts
  <2>2. n \in Nat
    BY RequestSize, GeneralAssumption DEF GeneralAssumption
  <2> HIDE DEF n
  <2>3. Good(g)
    <3>1. /\ MinPoolSize(n) \in Nat
          /\ MinPoolSize(n) >= POOL_GENERAL_SIZE + BLOCK_HEADER_SIZE + FREE_BLOCK_HEADER_SIZE
      BY <2>2, Config DEF MinPoolSize
    <3>2. g \in Grown(heap, MinPoolSize(n))
      BY DEF n
    <3> QED BY <3>1, <3>2, <2>1, GrownFacts
  <2>4. 1 \in Serving(g, n)
    BY <2>1, <2>2, NewPoolBlock DEF n
  <2> DEFINE m == Min(Serving(g, n))
             p == g.pools[m]
             i == Min(Fitting(g, p, n))
  <2>5. m \in Serving(g, n)
    <3>1. Serving(g, n) \subseteq Nat
      BY <2>3 DEF Serving, Good, IsHeap
    <3> QED BY <3>1, <2>4, LeastNumber
  <2> HIDE DEF m
  <2>6. Fitting(g, p, n) # {} /\ p \in DOMAIN g.pool
    <3>1. m \in DOMAIN g.pools /\ Fitting(g, p, n) # {}
      BY <2>5 DEF Serving
    <3>2. g.pools \in Seq(DOMAIN g.pool)
      BY <2>3 DEF Good, IsHeap
    <3> QED BY <3>1, <3>2
  <2> HIDE DEF p
  <2>7. g.pool[p].free_list \in Seq(Nat) /\ FreeList(g, {}, p)
    BY <2>3, <2>6, FreeListsDef DEF Good, IsHeap, PoolHeader
  <2>8. i \in DOMAIN g.pool[p].free_list
    <3>1. Fitting(g, p, n) \subseteq Nat
      BY <2>7 DEF Fitting
    <3>2. i \in Fitting(g, p, n)
      BY <3>1, <2>6, LeastNumber
    <3> QED BY <3>2 DEF Fitting
  <2>9. g.pool[p].free_list[i] \in DOMAIN g.hdr
    <3> HIDE DEF i
    <3>1. g.pool[p].free_list[i] \in Range(g.pool[p].free_list)
      BY <2>8 DEF Range
    <3> QED BY <3>1, <2>7 DEF FreeList, FreeBlocks
  <2>10. g.pool[p].free_list[i] # NULL
    BY <2>9, <2>3 DEF Good, IsHeap
  <2>11. FirstFit(g, n) = g.pool[p].free_list[i]
    BY <2>4 DEF FirstFit, m, p
  <2> QED BY <2>10, <2>11 DEF n
<1> QED BY <1>1, Invariance, PTL

-----------------------------------------------------------------------------
\* The abstract heap.

\* The allocations of a heap as AbstractHeap sees them.
Allocs(h) ==
  [p \in {Payload(b) : b \in InUse(h)} |-> h.hdr[p - BLOCK_HEADER_SIZE].user_size]

\* What a block's client points to is an aligned address of the address space, and says
\* where the block is.
LEMMA PayloadFacts ==
  ASSUME NEW h, Good(h), NEW b \in DOMAIN h.hdr
  PROVE  /\ Payload(b) \in Nat
         /\ Payload(b) - BLOCK_HEADER_SIZE = b
         /\ Payload(b) \in {p \in 1 .. ADDRESS_SPACE : p % ALIGNMENT = 0}
<1> DEFINE p == h.hdr[b].pool_ptr
<1>1. /\ b \in Nat \ {0} /\ End(h, b) \in Nat
      /\ BLOCK_HEADER_SIZE \in Nat /\ BLOCK_HEADER_SIZE % ALIGNMENT = 0 /\ ALIGNMENT \in Nat \ {0}
  BY BlockTypes, Config DEF Good, NULL
<1>2. Payload(b) \in Nat /\ Payload(b) >= 1 /\ Payload(b) - BLOCK_HEADER_SIZE = b
  BY <1>1 DEF Payload
<1>3. b % ALIGNMENT = 0 /\ p \in DOMAIN h.pool /\ End(h, b) <= p + h.pool[p].size
  BY DEF Good, Layout, BlockInPool
<1>4. p + h.pool[p].size <= ADDRESS_SPACE /\ p + h.pool[p].size \in Nat
  BY <1>3 DEF Good, Layout, Registered, IsHeap, PoolHeader
<1>5. Payload(b) <= End(h, b)
  <2>1. h.hdr[b].size \in Nat
    BY BlockTypes DEF Good, BlockHeader
  <2> QED BY <2>1, <1>1 DEF Payload, End
<1>6. Payload(b) % ALIGNMENT = 0
  BY <1>1, <1>3, SumAligned DEF Payload
<1> HIDE DEF p
<1>7. Payload(b) \in 1 .. ADDRESS_SPACE
  BY <1>1, <1>2, <1>3, <1>4, <1>5, GeneralAssumption DEF GeneralAssumption
<1> QED BY <1>2, <1>6, <1>7

\* Each used block is an allocation of the size last asked for it.
LEMMA AllocsFacts ==
  ASSUME NEW h, Good(h)
  PROVE  /\ DOMAIN Allocs(h) = {Payload(b) : b \in InUse(h)}
         /\ \A b \in InUse(h) : Allocs(h)[Payload(b)] = h.hdr[b].user_size
<1>1. \A b \in InUse(h) : Payload(b) - BLOCK_HEADER_SIZE = b
  BY PayloadFacts DEF InUse
<1> QED BY <1>1 DEF Allocs

\* The allocations of two blocks share no byte, whatever was asked for them.
LEMMA OwnBytes ==
  ASSUME NEW h, Good(h), NEW b \in InUse(h), NEW c \in InUse(h), b # c
  PROVE  \/ Payload(b) + h.hdr[b].user_size <= Payload(c)
         \/ Payload(c) + h.hdr[c].user_size <= Payload(b)
<1>1. ASSUME NEW d \in InUse(h)
      PROVE  /\ d \in Nat /\ Payload(d) \in Nat /\ d <= Payload(d)
             /\ h.hdr[d].user_size \in Nat
             /\ End(h, d) \in Nat
             /\ Payload(d) + h.hdr[d].user_size <= End(h, d)
  <2>1. d \in DOMAIN h.hdr /\ ~ h.hdr[d].is_free
    BY DEF InUse
  <2>2. d \in Nat /\ h.hdr[d].user_size \in Nat /\ h.hdr[d].size \in Nat /\ End(h, d) \in Nat
    BY <2>1, BlockTypes DEF Good, BlockHeader
  <2>3. h.hdr[d].user_size + CANARY_SIZE <= h.hdr[d].size
    BY <2>1 DEF Good, Contents, BlockContents
  <2> QED BY <2>2, <2>3, Config DEF Payload, End
<1>2. b \in DOMAIN h.hdr /\ c \in DOMAIN h.hdr
  BY DEF InUse
<1>3. End(h, b) <= c \/ End(h, c) <= b
  BY <1>2 DEF Good, Layout, Apart
<1> QED BY <1>1, <1>3

\* A block that gets used is an allocation in bytes nobody had.
LEMMA Gains ==
  ASSUME NEW h, NEW g, Good(h), Good(g), NEW b, b \notin InUse(h),
         InUse(g) = InUse(h) \cup {b}, SameRequests(h, g)
  PROVE  LET n == g.hdr[b].user_size
             p == Payload(b)
         IN  /\ p \in {q \in 1 .. ADDRESS_SPACE : q % ALIGNMENT = 0} \ DOMAIN Allocs(h)
             /\ \A q \in DOMAIN Allocs(h) : p + n <= q \/ q + Allocs(h)[q] <= p
             /\ Allocs(g) = [q \in DOMAIN Allocs(h) \cup {p} |-> IF q = p THEN n ELSE Allocs(h)[q]]
<1> DEFINE n == g.hdr[b].user_size
           p == Payload(b)
<1>1. b \in InUse(g) /\ b \in DOMAIN g.hdr
  BY DEF InUse
<1>2. p \in {q \in 1 .. ADDRESS_SPACE : q % ALIGNMENT = 0}
  BY <1>1, PayloadFacts
<1>3. \A c \in InUse(h) : Payload(c) # p
  <2>1. \A c \in InUse(g) : Payload(c) - BLOCK_HEADER_SIZE = c
    BY PayloadFacts DEF InUse
  <2> QED BY <1>1, <2>1
<1>4. \A c \in InUse(h) : g.hdr[c].user_size = h.hdr[c].user_size
  BY DEF SameRequests
<1>5. /\ DOMAIN Allocs(h) = {Payload(c) : c \in InUse(h)}
      /\ \A c \in InUse(h) : Allocs(h)[Payload(c)] = h.hdr[c].user_size
      /\ DOMAIN Allocs(g) = DOMAIN Allocs(h) \cup {p}
      /\ \A c \in InUse(g) : Allocs(g)[Payload(c)] = g.hdr[c].user_size
  <2>1. /\ DOMAIN Allocs(h) = {Payload(c) : c \in InUse(h)}
        /\ DOMAIN Allocs(g) = {Payload(c) : c \in InUse(g)}
    BY AllocsFacts
  <2>2. {Payload(c) : c \in InUse(g)} = {Payload(c) : c \in InUse(h)} \cup {p}
    OBVIOUS
  <2> QED BY <2>1, <2>2, AllocsFacts
<1>6. \A c \in InUse(h) : p + n <= Payload(c) \/ Payload(c) + h.hdr[c].user_size <= p
  BY <1>1, <1>4, OwnBytes
<1>7. \A q \in DOMAIN Allocs(h) \cup {p} : Allocs(g)[q] = IF q = p THEN n ELSE Allocs(h)[q]
  BY <1>1, <1>3, <1>4, <1>5
<1>8. Allocs(g) = [q \in DOMAIN Allocs(g) |-> Allocs(g)[q]]
  BY DEF Allocs
<1>9. Allocs(g) = [q \in DOMAIN Allocs(h) \cup {p} |-> IF q = p THEN n ELSE Allocs(h)[q]]
  BY <1>5, <1>7, <1>8
<1>10. \A q \in DOMAIN Allocs(h) : q # p /\ (p + n <= q \/ q + Allocs(h)[q] <= p)
  BY <1>3, <1>5, <1>6
<1> QED BY <1>2, <1>9, <1>10

\* A block that is used no more is an allocation less.
LEMMA Loses ==
  ASSUME NEW h, NEW g, Good(h), Good(g), NEW b \in InUse(h),
         InUse(g) = InUse(h) \ {b}, SameRequests(h, g)
  PROVE  /\ Payload(b) \in DOMAIN Allocs(h)
         /\ Allocs(g) = [q \in DOMAIN Allocs(h) \ {Payload(b)} |-> Allocs(h)[q]]
<1>1. \A c \in InUse(h) : Payload(c) - BLOCK_HEADER_SIZE = c
  BY PayloadFacts DEF InUse
<1>2. \A c \in InUse(g) : g.hdr[c].user_size = h.hdr[c].user_size
  BY DEF SameRequests
<1>3. /\ DOMAIN Allocs(h) = {Payload(c) : c \in InUse(h)}
      /\ \A c \in InUse(h) : Allocs(h)[Payload(c)] = h.hdr[c].user_size
      /\ DOMAIN Allocs(g) = {Payload(c) : c \in InUse(g)}
      /\ \A c \in InUse(g) : Allocs(g)[Payload(c)] = g.hdr[c].user_size
  BY AllocsFacts
<1>4. DOMAIN Allocs(g) = DOMAIN Allocs(h) \ {Payload(b)}
  BY <1>1, <1>3
<1>5. \A q \in DOMAIN Allocs(g) : Allocs(g)[q] = Allocs(h)[q]
  BY <1>2, <1>3
<1>6. Allocs(g) = [q \in DOMAIN Allocs(g) |-> Allocs(g)[q]]
  BY DEF Allocs
<1> QED BY <1>3, <1>4, <1>5, <1>6

\* Blocks that keep their use and their requests are the same allocations.
LEMMA Stays ==
  ASSUME NEW h, NEW g, Good(h), Good(g), InUse(g) = InUse(h), SameRequests(h, g)
  PROVE  Allocs(g) = Allocs(h)
<1>1. \A c \in InUse(h) : g.hdr[c].user_size = h.hdr[c].user_size
  BY DEF SameRequests
<1>2. \A c \in InUse(h) : Payload(c) - BLOCK_HEADER_SIZE = c
  BY PayloadFacts DEF InUse
<1> QED BY <1>1, <1>2 DEF Allocs

\* A block that stays where it is for another request, with the others as they were.
LEMMA Resizes ==
  ASSUME NEW h, NEW g, Good(h), Good(g), NEW b \in InUse(h), InUse(g) = InUse(h),
         \A c \in InUse(h) \ {b} : g.hdr[c].user_size = h.hdr[c].user_size
  PROVE  LET n == g.hdr[b].user_size
             p == Payload(b)
         IN  /\ p \in DOMAIN Allocs(h)
             /\ \A q \in DOMAIN Allocs(h) \ {p} : p + n <= q \/ q + Allocs(h)[q] <= p
             /\ Allocs(g) = [Allocs(h) EXCEPT ![p] = n]
<1> DEFINE n == g.hdr[b].user_size
           p == Payload(b)
<1>1. \A c \in InUse(h) : Payload(c) - BLOCK_HEADER_SIZE = c
  BY PayloadFacts DEF InUse
<1>2. /\ DOMAIN Allocs(h) = {Payload(c) : c \in InUse(h)}
      /\ \A c \in InUse(h) : Allocs(h)[Payload(c)] = h.hdr[c].user_size
      /\ DOMAIN Allocs(g) = {Payload(c) : c \in InUse(g)}
      /\ \A c \in InUse(g) : Allocs(g)[Payload(c)] = g.hdr[c].user_size
  BY AllocsFacts
<1>3. \A c \in InUse(h) \ {b} : p + n <= Payload(c) \/ Payload(c) + h.hdr[c].user_size <= p
  BY OwnBytes
<1>4. \A c \in InUse(h) \ {b} : Payload(c) # p
  BY <1>1
<1>5. /\ Allocs(g) = [q \in DOMAIN Allocs(g) |-> Allocs(g)[q]]
      /\ Allocs(h) = [q \in DOMAIN Allocs(h) |-> Allocs(h)[q]]
  BY DEF Allocs
<1>6. \A q \in DOMAIN Allocs(h) : Allocs(g)[q] = IF q = p THEN n ELSE Allocs(h)[q]
  BY <1>2, <1>4
<1>7. p \in DOMAIN Allocs(h) /\ DOMAIN Allocs(g) = DOMAIN Allocs(h)
  BY <1>2
<1>8. \A q \in DOMAIN Allocs(h) \ {p} : p + n <= q \/ q + Allocs(h)[q] <= p
  BY <1>2, <1>3
<1> HIDE DEF n, p
<1>9. Allocs(g) = [Allocs(h) EXCEPT ![p] = n]
  BY <1>5, <1>6, <1>7
<1> QED BY <1>7, <1>8, <1>9 DEF n, p

\* The sizes threads inside dam_general_realloc carry are sizes clients ask for.
SizesKept == \A t \in Threads : pc[t] # "idle" => req[t].size \in Sizes

\* dam_general_realloc works with the size it was called with until it returns.
LEMMA SizesKeptNext == IInv /\ SizesKept /\ [Next]_vars => SizesKept'
<1> SUFFICES ASSUME IInv, SizesKept, [Next]_vars PROVE SizesKept'
  OBVIOUS
<1>1. pc \in [Threads -> {"idle", "lock", "move", "free"}] /\ req \in [Threads -> Request]
  BY DEF IInv, TypeOK
<1>2. ASSUME UNCHANGED <<pc, req>> PROVE SizesKept'
  BY <1>2 DEF SizesKept
<1>3. ASSUME NEW t \in Threads, NEW b, Return(t, b) PROVE SizesKept'
  BY <1>1, <1>3 DEF SizesKept, Return
<1>4. ASSUME NEW t \in Threads, Call(t) PROVE SizesKept'
  <2>1. ASSUME NEW b, NEW size \in Sizes, ReallocEnter(t, b, size) PROVE SizesKept'
    <3> DEFINE r == [ptr |-> b, size |-> size, new |-> NULL,
                     quarantine |-> heap.pool[heap.hdr[b].pool_ptr].read_only]
    <3>1. pc' = [pc EXCEPT ![t] = "lock"] /\ req' = [req EXCEPT ![t] = r]
      BY <2>1 DEF ReallocEnter
    <3>2. r.size \in Sizes
      OBVIOUS
    <3> HIDE DEF r
    <3> QED BY <3>1, <3>2, <1>1 DEF SizesKept
  <2> QED BY <1>4, <1>2, <2>1 DEF Call, Malloc, Free, Validate, ReallocRejected
<1>5. ASSUME NEW t \in Threads, ReallocStep(t) PROVE SizesKept'
  <2>1. ASSUME pc[t] # "idle", pc' = [pc EXCEPT ![t] = "free"],
               NEW r \in Request, r.size = req[t].size, req' = [req EXCEPT ![t] = r]
        PROVE  SizesKept'
    BY <2>1, <1>1 DEF SizesKept
  <2>2. CASE ReallocMove(t)
    <3>1. ASSUME NEW o \in MallocOutcomes(heap, req[t].size), o.block # NULL,
                 pc' = [pc EXCEPT ![t] = "free"],
                 req' = [req EXCEPT ![t] = [req[t] EXCEPT !.new = o.block]]
          PROVE  SizesKept'
      <4> DEFINE r == [req[t] EXCEPT !.new = o.block]
      <4>1. r.size = req[t].size
        BY <1>1 DEF Request
      <4>2. pc[t] # "idle"
        BY <2>2 DEF ReallocMove
      <4> HIDE DEF r
      <4> QED BY <3>1, <4>1, <4>2, <1>1 DEF SizesKept, r
    <3> QED BY <2>2, <3>1, <1>3 DEF ReallocMove
  <2>3. CASE ReallocMoveOut(t)
    BY <2>3, <1>1, <1>3 DEF ReallocMoveOut, SizesKept
  <2>4. CASE ReallocUnlock(t)
    BY <2>4, <1>1 DEF ReallocUnlock, SizesKept
  <2> QED BY <1>5, <1>3, <2>2, <2>3, <2>4 DEF ReallocStep, ReallocShrink, ReallocGrow, ReallocFree
<1>6. CASE Environment
  BY <1>6, <1>2 DEF Environment, Overrun, RegisterOther, UnregisterDirect
<1> QED BY <1>2, <1>4, <1>5, <1>6 DEF Next, vars

\* A malloc is an allocation of the abstract heap or, when it fails, nothing.
LEMMA MallocImplements ==
  ASSUME Good(heap), NEW size \in Sizes, NEW o \in MallocOutcomes(heap, size), heap' = o.heap
  PROVE  [Abstract!Next]_(Allocs(heap))
<1>1. size \in Nat
  BY GeneralAssumption DEF GeneralAssumption
<1>2. /\ Good(heap') /\ SameRequests(heap, heap')
      /\ o.block = NULL => InUse(heap') = InUse(heap)
      /\ o.block # NULL => /\ o.block \notin InUse(heap)
                           /\ InUse(heap') = InUse(heap) \cup {o.block}
                           /\ heap'.hdr[o.block].user_size = size
  BY <1>1, MallocFacts
<1>3. CASE o.block = NULL
  BY <1>2, <1>3, Stays
<1>4. CASE o.block # NULL
  <2> DEFINE p == Payload(o.block)
  <2>1. /\ p \in {q \in 1 .. ADDRESS_SPACE : q % ALIGNMENT = 0} \ DOMAIN Allocs(heap)
        /\ \A q \in DOMAIN Allocs(heap) : p + size <= q \/ q + Allocs(heap)[q] <= p
        /\ Allocs(heap') = [q \in DOMAIN Allocs(heap) \cup {p} |->
                              IF q = p THEN size ELSE Allocs(heap)[q]]
    BY <1>2, <1>4, Gains
  <2> HIDE DEF p
  <2>2. Abstract!Allocate(p, size)
    BY <2>1 DEF Abstract!Allocate, Abstract!Vacant, Allocs
  <2> QED BY <2>1, <2>2 DEF Abstract!Next, Allocs
<1> QED BY <1>3, <1>4

\* A free is a release or, of a block that is free already, nothing.
LEMMA FreeImplements ==
  ASSUME Good(heap), NEW b \in DOMAIN heap.hdr, heap' = FreeInternal(heap, b)
  PROVE  [Abstract!Next]_(Allocs(heap))
<1>1. Good(heap') /\ SameRequests(heap, heap') /\ InUse(heap') = InUse(heap) \ {b}
  BY FreeFacts
<1>2. CASE b \notin InUse(heap)
  BY <1>1, <1>2, Stays
<1>3. CASE b \in InUse(heap)
  <2>1. /\ Payload(b) \in DOMAIN Allocs(heap)
        /\ Allocs(heap') = [q \in DOMAIN Allocs(heap) \ {Payload(b)} |-> Allocs(heap)[q]]
    BY <1>1, <1>3, Loses
  <2>2. Abstract!Release(Payload(b))
    BY <2>1 DEF Abstract!Release, Allocs
  <2> QED BY <2>1, <2>2 DEF Abstract!Next, Allocs
<1> QED BY <1>2, <1>3

\* A realloc in place is a resize.
LEMMA ResizeImplements ==
  ASSUME IInv, SizesKept, NEW t \in Threads, ReallocShrink(t) \/ ReallocGrow(t)
  PROVE  [Abstract!Next]_(Allocs(heap))
<1> DEFINE b == req[t].ptr
           n == req[t].size
<1>1. Good(heap)
  BY IInvParts
<1>2. pc[t] = "lock"
  BY DEF ReallocShrink, ReallocGrow
<1>3. b \in InUse(heap) /\ n \in Nat /\ n \in Sizes
  BY <1>2, HeldFacts DEF SizesKept
<1>4. /\ Good(heap') /\ InUse(heap') = InUse(heap)
      /\ \A c \in InUse(heap) \ {b} : heap'.hdr[c].user_size = heap.hdr[c].user_size
      /\ heap'.hdr[b].user_size = n
  <2>1. CASE ReallocShrink(t)
    <3>1. heap.hdr[b].size >= ReallocSize(n) /\ heap' = Resized(heap, b, n)
      BY <2>1 DEF ReallocShrink, ShrinkFits
    <3> HIDE DEF b, n
    <3> QED BY <3>1, <1>1, <1>3, ShrinkFacts
  <2>2. CASE ReallocGrow(t)
    <3> DEFINE r == heap.hdr[b].next_ptr
    <3>1. /\ r # NULL /\ heap.hdr[r].is_free
          /\ heap.hdr[b].size + BLOCK_HEADER_SIZE + heap.hdr[r].size >= ReallocSize(n)
          /\ heap' = Resized(Merge(RemoveFromFreeList(heap, r), b), b, n)
      BY <2>2 DEF ReallocGrow, GrowFits
    <3> HIDE DEF b, n
    <3> QED BY <3>1, <1>1, <1>3, GrowFacts
  <2> QED BY <2>1, <2>2
<1> HIDE DEF b, n
<1>5. /\ Payload(b) \in DOMAIN Allocs(heap)
      /\ \A q \in DOMAIN Allocs(heap) \ {Payload(b)} :
           Payload(b) + n <= q \/ q + Allocs(heap)[q] <= Payload(b)
      /\ Allocs(heap') = [Allocs(heap) EXCEPT ![Payload(b)] = n]
  BY <1>1, <1>3, <1>4, Resizes
<1>6. PICK p \in DOMAIN Allocs(heap), m \in Sizes : p = Payload(b) /\ m = n
  BY <1>3, <1>5
<1>7. Abstract!Resize(p, m)
  BY <1>5, <1>6 DEF Abstract!Resize, Abstract!Vacant, Allocs
<1> QED BY <1>7 DEF Abstract!Next, Allocs

\* What leaves used blocks and requests alone changes nothing for the clients.
LEMMA OtherImplements ==
  ASSUME IInv, IInv', heap'.hdr = heap.hdr \/ \E b \in live : Overrun(b)
  PROVE  [Abstract!Next]_(Allocs(heap))
<1>1. Good(heap) /\ EveryBlockOwned
  BY IInvParts
<1>2. Good(heap)'
  BY IInvParts, PTL
<1>3. InUse(heap') = InUse(heap) /\ SameRequests(heap, heap')
  <2>1. CASE heap'.hdr = heap.hdr
    BY <2>1 DEF InUse, SameRequests
  <2>2. ASSUME NEW b \in live, Overrun(b) PROVE InUse(heap') = InUse(heap) /\ SameRequests(heap, heap')
    <3>1. b \in DOMAIN heap.hdr
      BY <1>1 DEF EveryBlockOwned, InUse
    <3>2. heap' = [heap EXCEPT !.hdr[b] = [heap.hdr[b] EXCEPT !.canary = FALSE]]
      BY <2>2 DEF Overrun
    <3> QED BY <3>1, <3>2, <1>1, OverrunFacts
  <2> QED BY <2>1, <2>2
<1> QED BY <1>1, <1>2, <1>3, Stays

\* To its clients the layer is nothing but a set of allocations, each with bytes of its own
\* at an aligned address: every step is one malloc, free or resize of one of them or is none
\* of the clients' business, and that with double frees, overruns and quarantined pools.
THEOREM ImplementsHeap == Spec => ImplementsAbstractHeap
<1> DEFINE Inv == IInv /\ SizesKept
<1>1. Init => Inv
  BY IInvInit DEF Init, SizesKept
<1>2. Inv /\ [Next]_vars => Inv'
  BY IInvNext, SizesKeptNext
<1>3. Init => Abstract!Init
  <2> SUFFICES ASSUME Init PROVE Abstract!Init
    OBVIOUS
  <2>1. InUse(heap) = {}
    <3>1. \A t \in Threads : Held(t) = {}
      BY DEF Init, Held
    <3>2. EveryBlockOwned /\ live = {}
      BY IInvInit DEF IInv, Init
    <3> QED BY <3>1, <3>2 DEF EveryBlockOwned
  <2>2. {Payload(b) : b \in InUse(heap)} = {}
    BY <2>1
  <2> QED BY <2>2 DEF Abstract!Init
<1>4. Inv /\ [Next]_vars => [Abstract!Next]_Abstract!vars
  <2> SUFFICES ASSUME IInv, SizesKept, [Next]_vars, IInv'
               PROVE  [Abstract!Next]_(Allocs(heap))
    BY <1>2 DEF Abstract!vars, Allocs
  <2>1. Good(heap) /\ EveryBlockOwned
    BY IInvParts
  <2>2. live \subseteq DOMAIN heap.hdr /\ OldPointers \subseteq DOMAIN heap.hdr
    BY <2>1 DEF EveryBlockOwned, InUse, OldPointers
  <2>3. ASSUME heap'.hdr = heap.hdr PROVE [Abstract!Next]_(Allocs(heap))
    BY <2>3, OtherImplements
  <2>4. ASSUME NEW t \in Threads, Call(t) PROVE [Abstract!Next]_(Allocs(heap))
    <3>1. ASSUME NEW size \in Sizes, Malloc(t, size) PROVE [Abstract!Next]_(Allocs(heap))
      BY <3>1, <2>1, MallocImplements DEF Malloc
    <3>2. ASSUME NEW b \in live \cup OldPointers, Free(t, b)
          PROVE  [Abstract!Next]_(Allocs(heap))
      BY <3>2, <2>1, <2>2, FreeImplements DEF Free
    <3>3. ASSUME NEW b \in live, Validate(t, b) PROVE [Abstract!Next]_(Allocs(heap))
      <4>1. heap' = Quarantine(heap, heap.hdr[b].pool_ptr)
        BY <3>3 DEF Validate
      <4>2. heap.hdr[b].pool_ptr \in DOMAIN heap.pool
        BY <2>1, <2>2 DEF Good, Layout, BlockInPool
      <4> QED BY <4>1, <4>2, <2>1, <2>3, QuarantineFacts
    <3>4. ASSUME NEW b, NEW size, ReallocEnter(t, b, size) \/ ReallocRejected(t, b)
          PROVE  [Abstract!Next]_(Allocs(heap))
      BY <3>4, <2>3 DEF ReallocEnter, ReallocRejected
    <3> QED BY <2>4, <3>1, <3>2, <3>3, <3>4 DEF Call
  <2>5. ASSUME NEW t \in Threads, ReallocStep(t) PROVE [Abstract!Next]_(Allocs(heap))
    <3>1. CASE ReallocMove(t)
      <4>1. req[t].size \in Sizes
        BY <3>1 DEF ReallocMove, SizesKept
      <4> QED BY <3>1, <4>1, <2>1, MallocImplements DEF ReallocMove
    <3>2. CASE ReallocFree(t)
      <4>1. req[t].ptr \in DOMAIN heap.hdr /\ heap' = FreeInternal(heap, req[t].ptr)
        BY <3>2, HeldFacts DEF ReallocFree, InUse
      <4> QED BY <4>1, <2>1, FreeImplements
    <3>3. CASE ReallocUnlock(t) \/ ReallocMoveOut(t)
      BY <3>3, <2>3 DEF ReallocUnlock, ReallocMoveOut
    <3> QED BY <2>5, <3>1, <3>2, <3>3, ResizeImplements DEF ReallocStep
  <2>6. CASE Environment
    <3>1. ASSUME NEW type \in {"SMALL", "DIRECT"}, NEW size \in OtherSizes,
                 RegisterOther(type, size)
          PROVE  [Abstract!Next]_(Allocs(heap))
      BY <3>1, <2>3 DEF RegisterOther, RegisterPool, IInv, TypeOK, IsHeap
    <3>2. ASSUME NEW i \in DOMAIN heap.pools, UnregisterDirect(i)
          PROVE  [Abstract!Next]_(Allocs(heap))
      BY <3>2, <2>1, <2>3, UnregisterFacts DEF UnregisterDirect
    <3> QED BY <2>6, <3>1, <3>2, OtherImplements DEF Environment
  <2>7. CASE UNCHANGED vars
    BY <2>7, <2>3 DEF vars
  <2> QED BY <2>4, <2>5, <2>6, <2>7 DEF Next
<1> QED BY <1>1, <1>2, <1>3, <1>4, PTL DEF Spec, ImplementsAbstractHeap, Abstract!Spec

-----------------------------------------------------------------------------
\* Quarantine.

\* A thread that waits for general_lock in dam_general_realloc has read the quarantine
\* flag that still holds.
FlagFresh(t) ==
  pc[t] = "lock" =>
    req[t].quarantine = heap.pool[heap.hdr[req[t].ptr].pool_ptr].read_only

\* Steps that leave the headers of all blocks alone, or all but their canaries, give out
\* nothing.
LEMMA OtherCovers ==
  ASSUME IInv, heap'.hdr = heap.hdr \/ \E b \in live : Overrun(b), NEW p
  PROVE  Covered(heap, heap', p)
<1>1. Good(heap) /\ EveryBlockOwned
  BY IInvParts
<1>2. Kept(heap, heap', {})
  <2>1. CASE heap'.hdr = heap.hdr
    BY <2>1 DEF Kept
  <2>2. ASSUME NEW b \in live, Overrun(b) PROVE Kept(heap, heap', {})
    <3> DEFINE block == [heap.hdr[b] EXCEPT !.canary = FALSE]
    <3>1. b \in DOMAIN heap.hdr
      BY <1>1 DEF EveryBlockOwned, InUse
    <3>2. heap' = [heap EXCEPT !.hdr[b] = block]
      BY <2>2 DEF Overrun
    <3>3. /\ block \in BlockHeader /\ block.size = heap.hdr[b].size
          /\ block.is_free = heap.hdr[b].is_free /\ block.pool_ptr = heap.hdr[b].pool_ptr
      BY <3>1, <1>1, BlockTypes DEF Good, BlockHeader
    <3> HIDE DEF block
    <3>4. /\ DOMAIN heap'.hdr = DOMAIN heap.hdr
          /\ heap'.hdr[b] = block
          /\ \A c \in DOMAIN heap.hdr \ {b} : heap'.hdr[c] = heap.hdr[c]
      BY <3>1, <3>2, <3>3, <1>1, SetBlock DEF Good
    <3> QED BY <3>3, <3>4 DEF Kept
  <2> QED BY <2>1, <2>2
<1>3. {} \cap FreeBlocks(heap, p) = {}
  OBVIOUS
<1> QED BY <1>1, <1>2, <1>3, KeptCovered DEF Good

\* A realloc in place takes bytes of the pool of its own block only, and of none in
\* quarantine as long as the flag it goes by is fresh.
LEMMA ResizeCovers ==
  ASSUME IInv, NEW t \in Threads, ReallocShrink(t) \/ (ReallocGrow(t) /\ FlagFresh(t)),
         NEW p \in DOMAIN heap.pool, heap.pool[p].read_only
  PROVE  Covered(heap, heap', p)
<1> DEFINE b == req[t].ptr
           n == req[t].size
           r == heap.hdr[b].next_ptr
<1>1. Good(heap)
  BY IInvParts
<1>2. pc[t] = "lock"
  BY DEF ReallocShrink, ReallocGrow
<1>3. b \in DOMAIN heap.hdr /\ ~ heap.hdr[b].is_free /\ n \in Nat
  BY <1>2, HeldFacts DEF InUse
<1>4. CASE ReallocShrink(t)
  <2>1. heap.hdr[b].size >= ReallocSize(n) /\ heap' = Resized(heap, b, n)
    BY <1>4 DEF ReallocShrink, ShrinkFits
  <2> HIDE DEF b, n
  <2>2. Kept(heap, heap', {b})
    BY <2>1, <1>1, <1>3, ResizedKeeps DEF Good
  <2>3. {b} \cap FreeBlocks(heap, p) = {}
    BY <1>3 DEF FreeBlocks
  <2> QED BY <2>2, <2>3, <1>1, KeptCovered DEF Good
<1>5. CASE ReallocGrow(t) /\ FlagFresh(t)
  <2>1. /\ r # NULL /\ heap.hdr[r].is_free
        /\ heap.hdr[b].size + BLOCK_HEADER_SIZE + heap.hdr[r].size >= ReallocSize(n)
        /\ heap' = Resized(Merge(RemoveFromFreeList(heap, r), b), b, n)
    BY <1>5 DEF ReallocGrow, GrowFits
  <2>2. heap.hdr[b].pool_ptr # p
    BY <1>2, <1>5 DEF ReallocGrow, FlagFresh
  <2> HIDE DEF b, n
  <2>3. Kept(heap, heap', {b, r}) /\ heap.hdr[r].pool_ptr = heap.hdr[b].pool_ptr
    BY <2>1, <1>1, <1>3, GrowKeeps
  <2>4. {b, r} \cap FreeBlocks(heap, p) = {}
    BY <2>2, <2>3 DEF FreeBlocks
  <2> QED BY <2>3, <2>4, <1>1, KeptCovered DEF Good
<1> QED BY <1>4, <1>5

\* The one step that can give out bytes of a pool in quarantine is the growth in place of
\* a thread whose flag is stale, whatever the number of threads.
LEMMA StepExcludes ==
  ASSUME IInv, IInv', [Next]_vars, \A t \in Threads : ReallocGrow(t) => FlagFresh(t),
         NEW p \in DOMAIN heap.pool, heap.pool[p].read_only
  PROVE  FreeBytes(heap, p) \subseteq FreeBytes(heap', p)
<1>1. Good(heap) /\ EveryBlockOwned
  BY IInvParts
<1>2. IsHeap(heap) /\ IsHeap(heap')
  BY DEF IInv, TypeOK
<1>3. live \subseteq DOMAIN heap.hdr /\ OldPointers \subseteq DOMAIN heap.hdr
  BY <1>1 DEF EveryBlockOwned, InUse, OldPointers
<1> SUFFICES Covered(heap, heap', p)
  BY <1>2, CoveredBytes
<1>4. ASSUME heap'.hdr = heap.hdr PROVE Covered(heap, heap', p)
  BY <1>4, OtherCovers
<1>5. ASSUME NEW size \in Nat, NEW o \in MallocOutcomes(heap, size), heap' = o.heap
      PROVE  Covered(heap, heap', p)
  BY <1>1, <1>5, MallocCovers
<1>6. ASSUME NEW b \in DOMAIN heap.hdr, heap' = FreeInternal(heap, b)
      PROVE  Covered(heap, heap', p)
  BY <1>1, <1>6, FreeCovers
<1>7. ASSUME NEW t \in Threads, Call(t) PROVE Covered(heap, heap', p)
  <2>1. ASSUME NEW size \in Sizes, Malloc(t, size) PROVE Covered(heap, heap', p)
    <3>1. size \in Nat
      BY GeneralAssumption DEF GeneralAssumption
    <3> QED BY <2>1, <3>1, <1>5 DEF Malloc
  <2>2. ASSUME NEW b \in live \cup OldPointers, Free(t, b) PROVE Covered(heap, heap', p)
    BY <2>2, <1>3, <1>6 DEF Free
  <2>3. ASSUME NEW b \in live, Validate(t, b) PROVE Covered(heap, heap', p)
    <3>1. heap' = Quarantine(heap, heap.hdr[b].pool_ptr)
      BY <2>3 DEF Validate
    <3>2. heap.hdr[b].pool_ptr \in DOMAIN heap.pool
      BY <1>1, <1>3 DEF Good, Layout, BlockInPool
    <3> QED BY <3>1, <3>2, <1>1, <1>4, QuarantineFacts
  <2>4. ASSUME NEW b, NEW size, ReallocEnter(t, b, size) \/ ReallocRejected(t, b)
        PROVE  Covered(heap, heap', p)
    BY <2>4, <1>4 DEF ReallocEnter, ReallocRejected
  <2> QED BY <1>7, <2>1, <2>2, <2>3, <2>4 DEF Call
<1>8. ASSUME NEW t \in Threads, ReallocStep(t) PROVE Covered(heap, heap', p)
  <2>1. CASE ReallocMove(t)
    <3>1. req[t].size \in Nat
      BY <2>1, HeldFacts DEF ReallocMove
    <3> QED BY <2>1, <3>1, <1>5 DEF ReallocMove
  <2>2. CASE ReallocFree(t)
    <3>1. req[t].ptr \in DOMAIN heap.hdr /\ heap' = FreeInternal(heap, req[t].ptr)
      BY <2>2, HeldFacts DEF ReallocFree, InUse
    <3> QED BY <3>1, <1>6
  <2>3. CASE ReallocUnlock(t) \/ ReallocMoveOut(t)
    BY <2>3, <1>4 DEF ReallocUnlock, ReallocMoveOut
  <2> QED BY <1>8, <2>1, <2>2, <2>3, ResizeCovers DEF ReallocStep
<1>9. CASE Environment
  <2>1. ASSUME NEW type \in {"SMALL", "DIRECT"}, NEW size \in OtherSizes,
               RegisterOther(type, size)
        PROVE  Covered(heap, heap', p)
    BY <2>1, <1>4 DEF RegisterOther, RegisterPool, IInv, TypeOK, IsHeap
  <2>2. ASSUME NEW i \in DOMAIN heap.pools, UnregisterDirect(i)
        PROVE  Covered(heap, heap', p)
    BY <2>2, <1>1, <1>4, UnregisterFacts DEF UnregisterDirect
  <2>3. ASSUME NEW b \in live, Overrun(b) PROVE Covered(heap, heap', p)
    BY <2>3, OtherCovers
  <2> QED BY <1>9, <2>1, <2>2, <2>3 DEF Environment
<1>10. CASE UNCHANGED vars
  BY <1>10, <1>4 DEF vars
<1> QED BY <1>7, <1>8, <1>9, <1>10 DEF Next

\* A block that realloc works on keeps its pool when a pool of another layer comes or
\* goes, and so does that pool its flag.
LEMMA FlagFreshOther ==
  ASSUME IInv, NEW t \in Threads, pc[t] = "lock", FlagFresh(t), pc' = pc, req' = req,
         \/ \E b \in live : Overrun(b)
         \/ \E type \in {"SMALL", "DIRECT"}, size \in OtherSizes : RegisterOther(type, size)
         \/ \E i \in DOMAIN heap.pools : UnregisterDirect(i)
  PROVE  FlagFresh(t)'
<1> DEFINE b == req[t].ptr
           q == heap.hdr[b].pool_ptr
<1>1. Good(heap) /\ EveryBlockOwned
  BY IInvParts
<1>2. b \in DOMAIN heap.hdr
  BY HeldFacts DEF InUse
<1>3. q \in DOMAIN heap.pool /\ heap.pool[q].type = "GENERAL"
  BY <1>1, <1>2 DEF Good, Layout, BlockInPool
<1> SUFFICES /\ heap'.hdr[b].pool_ptr = q
             /\ heap'.pool[q].read_only = heap.pool[q].read_only
  BY DEF FlagFresh
<1> HIDE DEF b, q
<1>4. ASSUME NEW c \in live, Overrun(c)
      PROVE  /\ heap'.hdr[b].pool_ptr = q
             /\ heap'.pool[q].read_only = heap.pool[q].read_only
  <2> DEFINE block == [heap.hdr[c] EXCEPT !.canary = FALSE]
  <2>1. c \in DOMAIN heap.hdr
    BY <1>1 DEF EveryBlockOwned, InUse
  <2>2. heap' = [heap EXCEPT !.hdr[c] = block]
    BY <1>4 DEF Overrun
  <2>3. block \in BlockHeader /\ block.pool_ptr = heap.hdr[c].pool_ptr
    <3>1. heap.hdr[c] \in BlockHeader
      BY <2>1, <1>1, BlockTypes DEF Good
    <3> QED BY <3>1 DEF BlockHeader
  <2> HIDE DEF block
  <2>4. /\ heap'.hdr[c] = block
        /\ \A d \in DOMAIN heap.hdr \ {c} : heap'.hdr[d] = heap.hdr[d]
        /\ heap'.pool = heap.pool
    BY <2>1, <2>2, <2>3, <1>1, SetBlock DEF Good
  <2> QED BY <2>3, <2>4, <1>2 DEF q
<1>5. ASSUME NEW type \in {"SMALL", "DIRECT"}, NEW size \in OtherSizes,
             RegisterOther(type, size)
      PROVE  /\ heap'.hdr[b].pool_ptr = q
             /\ heap'.pool[q].read_only = heap.pool[q].read_only
  <2> DEFINE header == [size |-> size, type |-> type, read_only |-> FALSE,
                        has_free |-> FALSE, free_list |-> <<>>]
  <2>1. PICK base \in FreeBases(heap, size) : heap' = RegisterPool(heap, base, header)
    BY <1>5 DEF RegisterOther
  <2>2. header \in PoolHeader /\ header.size = size
    BY GeneralAssumption DEF GeneralAssumption, PoolHeader, Layers
  <2> HIDE DEF header
  <2>3. heap'.hdr = heap.hdr /\ \A p \in DOMAIN heap.pool : heap'.pool[p] = heap.pool[p]
    BY <2>1, <2>2, <1>1, RegisterFacts DEF Good
  <2> QED BY <2>3, <1>3 DEF q
<1>6. ASSUME NEW i \in DOMAIN heap.pools, UnregisterDirect(i)
      PROVE  /\ heap'.hdr[b].pool_ptr = q
             /\ heap'.pool[q].read_only = heap.pool[q].read_only
  <2> DEFINE pools == RemoveAt(heap.pools, i)
             pool == [p \in DOMAIN heap.pool \ {heap.pools[i]} |-> heap.pool[p]]
  <2>1. /\ heap.pool[heap.pools[i]].type = "DIRECT"
        /\ heap' = [heap EXCEPT !.pools = pools, !.pool = pool]
    BY <1>6 DEF UnregisterDirect
  <2>2. q # heap.pools[i]
    BY <2>1, <1>3
  <2>3. pool[q] = heap.pool[q]
    BY <2>2, <1>3
  <2> HIDE DEF pool, pools
  <2>4. heap'.hdr = heap.hdr /\ heap'.pool = pool
    BY <2>1, <1>1 DEF Good, IsHeap
  <2> QED BY <2>3, <2>4 DEF q
<1> QED BY <1>4, <1>5, <1>6

\* With one thread nobody can put a pool in quarantine while that thread waits for the
\* lock with the flag it has read.
LEMMA FlagFreshNext ==
  ASSUME IInv, [Next]_vars, \A u, v \in Threads : u = v, NEW t \in Threads, FlagFresh(t)
  PROVE  FlagFresh(t)'
<1>1. pc \in [Threads -> {"idle", "lock", "move", "free"}] /\ req \in [Threads -> Request]
  BY DEF IInv, TypeOK
<1>2. CASE Call(t)
  <2>1. ASSUME NEW b \in live, NEW size \in Sizes, ReallocEnter(t, b, size)
        PROVE  FlagFresh(t)'
    <3> DEFINE r == [ptr |-> b, size |-> size, new |-> NULL,
                     quarantine |-> heap.pool[heap.hdr[b].pool_ptr].read_only]
    <3>1. req' = [req EXCEPT ![t] = r] /\ heap' = heap
      BY <2>1 DEF ReallocEnter
    <3>2. r.ptr = b /\ r.quarantine = heap.pool[heap.hdr[b].pool_ptr].read_only
      OBVIOUS
    <3> HIDE DEF r
    <3>3. req'[t] = r
      BY <3>1, <1>1
    <3> QED BY <3>1, <3>2, <3>3 DEF FlagFresh
  <2>2. CASE pc[t] = "idle" /\ pc' = pc
    BY <2>2 DEF FlagFresh
  <2> QED BY <1>2, <2>1, <2>2
        DEF Call, Malloc, Free, Validate, ReallocRejected, Idle
<1>3. CASE ReallocStep(t)
  <2>1. pc'[t] # "lock"
    BY <1>1, <1>3
    DEF ReallocStep, ReallocShrink, ReallocGrow, ReallocUnlock, ReallocMove, ReallocMoveOut,
        ReallocFree, Return
  <2> QED BY <2>1 DEF FlagFresh
<1>4. CASE Environment
  <2>1. pc' = pc /\ req' = req
    BY <1>4 DEF Environment, Overrun, RegisterOther, UnregisterDirect
  <2>2. CASE pc[t] = "lock"
    BY <1>4, <2>1, <2>2, FlagFreshOther DEF Environment
  <2>3. CASE pc[t] # "lock"
    BY <2>1, <2>3 DEF FlagFresh
  <2> QED BY <2>2, <2>3
<1>5. CASE UNCHANGED vars
  BY <1>5 DEF vars, FlagFresh
<1> QED BY <1>2, <1>3, <1>4, <1>5 DEF Next

\* A process with one thread may rely on the quarantine: a pool in which a broken canary
\* was found gives out none of its free bytes, whatever is allocated, resized or freed
\* afterwards ("Exclude pool from future allocations", DESIGN.md).
THEOREM QuarantineAlwaysExcludes ==
  ASSUME \A t, u \in Threads : t = u
  PROVE  Spec => QuarantineExcludes
<1> DEFINE Fresh == \A t \in Threads : FlagFresh(t)
           A == \A p \in DOMAIN heap.pool : heap.pool[p].read_only =>
                  FreeBytes(heap, p) \subseteq FreeBytes(heap', p)
<1>1. Init => Fresh
  BY DEF Init, FlagFresh
<1>2. IInv /\ Fresh /\ [Next]_vars => Fresh'
  <2> SUFFICES ASSUME IInv, Fresh, [Next]_vars, NEW t \in Threads PROVE FlagFresh(t)'
    OBVIOUS
  <2> QED BY FlagFreshNext
<1>3. IInv /\ Fresh /\ [Next]_vars /\ IInv' => A
  BY StepExcludes
<1>4. Spec => []IInv
  BY Invariance
<1> HIDE DEF Fresh
<1>5. [][A]_vars => QuarantineExcludes
  BY DEF QuarantineExcludes
<1> HIDE DEF A
<1> QED BY <1>1, <1>2, <1>3, <1>4, <1>5, PTL DEF Spec

=============================================================================
