----------------------------- MODULE DamPtrProofs -----------------------------
(***************************************************************************)
(* For every program of OrdinaryCalls that resizes no array to nothing,    *)
(* what a unique_ptr holds is freed once, by it alone.                     *)
(***************************************************************************)
EXTENDS DamPtr, DispatchProofs, FiniteSetTheorems

\* The allocations no object holds.
Loose == raw \cup abandoned

\* Objects and raw pointers share out the allocations that are not abandoned: what an
\* object holds it holds alone, and it is not of the traced calls.
Shared ==
  /\ obj \in [Objects -> Object]
  /\ Loose \subseteq DOMAIN allocs
  /\ raw \cap abandoned = {}
  /\ \A o \in Objects :
       obj[o].ptr # NULL =>
         /\ obj[o].alive
         /\ obj[o].ptr \in DOMAIN allocs \ Loose
         /\ allocs[obj[o].ptr].byTrace = FALSE
  /\ \A o, other \in Objects :
       obj[o].ptr # NULL /\ obj[o].ptr = obj[other].ptr => o = other
  /\ \A p \in DOMAIN allocs : p \in Loose \/ \E o \in Objects : obj[o].ptr = p

PtrInv == IInv /\ Shared

-----------------------------------------------------------------------------
\* What the calls do to the pointers they are not about.

\* The allocations of D are as they were.
Kept(D) == \A r \in D : r \in DOMAIN allocs' /\ allocs'[r] = allocs[r]

\* Of an outcome: nothing, or one pointer more.
LEMMA GrantKeeps ==
  ASSUME IInv, NEW o, Happens(o), NEW n, NEW k, NEW t \in BOOLEAN, Nothing(o) \/ Grants(o, n, k, t)
  PROVE  /\ IInv' /\ Kept(DOMAIN allocs)
         /\ \/ o.ret = NULL /\ allocs' = allocs
            \/ /\ o.ret \in Fresh
               /\ DOMAIN allocs' = DOMAIN allocs \cup {o.ret}
               /\ allocs'[o.ret].byTrace = t
<1>1. CASE Nothing(o)
  BY <1>1, FormSteps DEF Nothing, Outcome, Kept
<1>2. CASE Grants(o, n, k, t)
  <2>1. /\ IInv' /\ o.ret \in Fresh
        /\ allocs' = Put(DOMAIN allocs, o.ret, allocs'[o.ret])
        /\ DOMAIN allocs' = DOMAIN allocs \cup {o.ret}
    BY <1>2, FormSteps
  <2>t. allocs'[o.ret].byTrace = t
    <3>1. PICK p \in Fresh, a \in Allocation :
            a.byTrace = t /\ o = Outcome(p, Put(DOMAIN allocs, p, a), "none")
      BY <1>2 DEF Grants
    <3>2. allocs'[p] = a /\ o.ret = p
      BY <3>1 DEF Happens, Outcome, Put
    <3> QED BY <3>1, <3>2
  <2>2. \A r \in DOMAIN allocs : r # o.ret
    BY <2>1 DEF Fresh
  <2>3. Kept(DOMAIN allocs)
    BY <2>1, <2>2 DEF Kept, Put
  <2> QED BY <2>1, <2>3, <2>t
<1> QED BY <1>1, <1>2

\* Of an outcome: a pointer is gone.
LEMMA FreeKeeps ==
  ASSUME IInv, NEW o, Happens(o), NEW p \in DOMAIN allocs, Frees(o, p)
  PROVE  IInv' /\ DOMAIN allocs' = DOMAIN allocs \ {p} /\ Kept(DOMAIN allocs \ {p})
<1>1. IInv' /\ allocs' = Without(p) /\ DOMAIN allocs' = DOMAIN allocs \ {p}
  BY FormSteps
<1> QED BY <1>1 DEF Kept, Without

\* Of an outcome: nothing, or one pointer for another.
LEMMA RegrantKeeps ==
  ASSUME IInv, NEW o, Happens(o), NEW p \in DOMAIN allocs, NEW n, Nothing(o) \/ Regrants(o, p, n)
  PROVE  /\ IInv' /\ Kept(DOMAIN allocs \ {p})
         /\ \/ o.ret = NULL /\ allocs' = allocs
            \/ /\ o.ret \in {p} \cup Fresh
               /\ DOMAIN allocs' = (DOMAIN allocs \ {p}) \cup {o.ret}
               /\ allocs'[o.ret].byTrace = allocs[p].byTrace
<1>1. CASE Nothing(o)
  BY <1>1, FormSteps DEF Nothing, Outcome, Kept
<1>2. CASE Regrants(o, p, n)
  <2>1. /\ IInv' /\ o.ret \in {p} \cup Fresh
        /\ allocs' = Put(DOMAIN allocs \ {p}, o.ret, allocs'[o.ret])
        /\ DOMAIN allocs' = (DOMAIN allocs \ {p}) \cup {o.ret}
        /\ allocs'[o.ret].byTrace = allocs[p].byTrace
    BY <1>2, FormSteps
  <2>2. \A r \in DOMAIN allocs \ {p} : r # o.ret
    BY <2>1 DEF Fresh
  <2>3. Kept(DOMAIN allocs \ {p})
    BY <2>1, <2>2 DEF Kept, Put
  <2> QED BY <2>1, <2>3
<1> QED BY <1>1, <1>2

\* The C calls without a pointer leave the others alone.
LEMMA RequestKeeps ==
  ASSUME OrdinaryCalls, IInv, Request
  PROVE  IInv' /\ Kept(DOMAIN allocs)
<1>1. ASSUME NEW n \in Sizes, Malloc(n) PROVE IInv' /\ Kept(DOMAIN allocs)
  <2>1. Asked(n, FALSE) /\ FALSE \in BOOLEAN
    BY DEF Asked, Requests
  <2>2. PICK o \in MallocOutcomes(n, FALSE) : Happens(o)
    BY <1>1 DEF Malloc
  <2> QED BY <2>1, <2>2, MallocForms, GrantKeeps
<1>2. ASSUME NEW n \in TracedSizes, TraceMalloc(n) PROVE IInv' /\ Kept(DOMAIN allocs)
  <2>1. Asked(n, TRUE) /\ TRUE \in BOOLEAN
    BY DEF Asked
  <2>2. PICK o \in MallocOutcomes(n, TRUE) : Happens(o)
    BY <1>2 DEF TraceMalloc
  <2> QED BY <2>1, <2>2, MallocForms, GrantKeeps
<1>3. ASSUME NEW product \in Products, Calloc(product[1], product[2])
      PROVE  IInv' /\ Kept(DOMAIN allocs)
  <2>1. PICK o \in CallocOutcomes(product[1], product[2]) : Happens(o)
    BY <1>3 DEF Calloc
  <2> QED BY <2>1, CallocForms, GrantKeeps
<1> QED BY <1>1, <1>2, <1>3 DEF Request

\* Those with one leave all others alone.
LEMMA UseKeeps ==
  ASSUME OrdinaryCalls, IInv, NEW p \in DOMAIN allocs, Use(p)
  PROVE  IInv' /\ Kept(DOMAIN allocs \ {p})
<1>1. CASE Write(p)
  BY <1>1, WriteStep DEF Write, Kept
<1>2. CASE Free(p)
  BY <1>2, FreeForm, FreeKeeps DEF Free
<1>3. CASE UafFree(p)
  BY <1>3, UafFreeForm, FreeKeeps DEF UafFree
<1>4. ASSUME NEW n \in IF allocs[p].byTrace THEN TracedSizes ELSE Sizes, Realloc(p, n)
      PROVE  IInv' /\ Kept(DOMAIN allocs \ {p})
  <2>1. Asked(n, allocs[p].byTrace)
    BY DEF Asked, Requests
  <2>2. PICK o \in ReallocOutcomes(p, n) : Happens(o)
    BY <1>4 DEF Realloc
  <2>3. Frees(o, p) \/ Nothing(o) \/ Regrants(o, p, n)
    BY <2>1, <2>2, ReallocForms
  <2> QED BY <2>2, <2>3, FreeKeeps, RegrantKeeps
<1> QED BY <1>1, <1>2, <1>3, <1>4 DEF Use

\* An object's pointer is freed, if it has one.
LEMMA HeldFreed ==
  ASSUME PtrInv, NEW o \in Objects, FreeHeld(o)
  PROVE  /\ IInv' /\ DOMAIN allocs' = DOMAIN allocs \ {obj[o].ptr}
         /\ Kept(DOMAIN allocs \ {obj[o].ptr})
<1>1. CASE obj[o].ptr = NULL
  <2>1. UNCHANGED <<allocs, harm>>
    BY <1>1 DEF FreeHeld
  <2>2. NULL \notin DOMAIN allocs
    BY DispatchAssumption DEF PtrInv, IInv
  <2>3. IInv'
    BY <2>1 DEF PtrInv, IInv
  <2>4. DOMAIN allocs' = DOMAIN allocs \ {obj[o].ptr}
    BY <1>1, <2>1, <2>2
  <2>5. Kept(DOMAIN allocs \ {obj[o].ptr})
    BY <2>1 DEF Kept
  <2> QED BY <2>3, <2>4, <2>5
<1>2. CASE obj[o].ptr # NULL
  <2>1. obj[o].ptr \in DOMAIN allocs
    BY <1>2 DEF PtrInv, Shared
  <2>2. Happens(FreeOutcome(obj[o].ptr))
    BY <1>2 DEF FreeHeld, Free
  <2> QED BY <2>1, <2>2, FreeForm, FreeKeeps DEF PtrInv
<1> QED BY <1>1, <1>2

-----------------------------------------------------------------------------
\* The members of unique_ptr.

\* An object that is written, and those that are not.
LEMMA OneChanged ==
  ASSUME Shared, NEW o \in Objects, NEW b \in Object, obj' = [obj EXCEPT ![o] = b]
  PROVE  /\ obj' \in [Objects -> Object] /\ obj'[o] = b
         /\ \A x \in Objects : x # o => obj'[x] = obj[x]
BY DEF Shared

\* What an object that is not constructed, or is empty, holds: nothing.
LEMMA Values ==
  ASSUME NEW p \in Pointers \cup {NULL}, NEW n \in Nat
  PROVE  /\ Holding(p, n) \in Object /\ Holding(p, n).ptr = p /\ Holding(p, n).alive
         /\ Empty \in Object /\ Empty.ptr = NULL
         /\ Unborn \in Object /\ Unborn.ptr = NULL
BY DEF Holding, Empty, Unborn, Object

\* An object takes a pointer nobody held; it held nothing, or what it held is freed.
LEMMA TakesNew ==
  ASSUME PtrInv, NEW o \in Objects, NEW q \in Pointers, NEW b \in Object,
         b.ptr = q, b.alive, obj' = [obj EXCEPT ![o] = b], UNCHANGED <<raw, abandoned>>,
         q \in {obj[o].ptr} \cup Fresh,
         DOMAIN allocs' = (DOMAIN allocs \ {obj[o].ptr}) \cup {q},
         Kept(DOMAIN allocs \ {obj[o].ptr}), allocs'[q].byTrace = FALSE
  PROVE  Shared'
<1>1. /\ obj' \in [Objects -> Object] /\ obj'[o] = b
      /\ \A x \in Objects : x # o => obj'[x] = obj[x]
  BY OneChanged DEF PtrInv
<1>2. NULL \notin Pointers /\ NULL \notin DOMAIN allocs
  BY DispatchAssumption DEF PtrInv, IInv
<1>0. Loose' = Loose
  BY DEF Loose
<1>3. q \notin Loose
  BY <1>2 DEF PtrInv, Shared, Fresh
<1>4. \A x \in Objects : x # o => obj[x].ptr # q
  BY <1>2 DEF PtrInv, Shared, Fresh
<1>5. obj[o].ptr \notin Loose
  BY <1>2 DEF PtrInv, Shared
<1>6. Loose' \subseteq DOMAIN allocs' /\ raw' \cap abandoned' = {}
  BY <1>5 DEF PtrInv, Shared, Loose
<1>7. ASSUME NEW x \in Objects, obj'[x].ptr # NULL
      PROVE  /\ obj'[x].alive
             /\ obj'[x].ptr \in DOMAIN allocs' \ Loose'
             /\ allocs'[obj'[x].ptr].byTrace = FALSE
  <2>1. CASE x = o
    BY <1>0, <1>1, <1>3, <2>1
  <2>2. CASE x # o
    <3>1. obj'[x] = obj[x] /\ obj[x].ptr \in DOMAIN allocs /\ obj[x].ptr \notin Loose
          /\ obj[x].alive /\ allocs[obj[x].ptr].byTrace = FALSE
      BY <1>1, <1>7, <2>2 DEF PtrInv, Shared
    <3>2. obj[x].ptr # obj[o].ptr
      BY <1>7, <2>2, <3>1 DEF PtrInv, Shared
    <3> QED BY <1>0, <3>1, <3>2 DEF Kept
  <2> QED BY <2>1, <2>2
<1>8. ASSUME NEW x \in Objects, NEW y \in Objects,
             obj'[x].ptr # NULL, obj'[x].ptr = obj'[y].ptr
      PROVE  x = y
  BY <1>1, <1>4, <1>8 DEF PtrInv, Shared
<1>9. ASSUME NEW p \in DOMAIN allocs' PROVE p \in Loose' \/ \E x \in Objects : obj'[x].ptr = p
  <2>1. CASE p = q
    BY <1>1, <2>1
  <2>2. CASE p \in DOMAIN allocs \ {obj[o].ptr}
    <3>1. p \in Loose \/ \E x \in Objects : obj[x].ptr = p /\ x # o
      BY <2>2 DEF PtrInv, Shared
    <3> QED BY <1>0, <1>1, <3>1
  <2> QED BY <2>1, <2>2
<1> QED BY <1>1, <1>6, <1>7, <1>8, <1>9 DEF Shared

\* Nothing is allocated or freed, and no pointer changes hands.
LEMMA SamePointers ==
  ASSUME PtrInv, allocs' = allocs, UNCHANGED <<raw, abandoned>>, obj' \in [Objects -> Object],
         \A x \in Objects : obj'[x].ptr = obj[x].ptr /\ (obj[x].alive => obj'[x].alive)
  PROVE  Shared'
BY DEF PtrInv, Shared, Loose

\* make_unique.
LEMMA ConstructStep ==
  ASSUME OrdinaryCalls, PtrInv, NEW o \in Objects, NEW n \in Lengths, Construct(o, n)
  PROVE  PtrInv'
<1> DEFINE bytes == SIZEOF_T * n
<1>1. bytes \in Sizes /\ n \in Nat
  BY DamPtrAssumption
<1>2. Asked(bytes, FALSE)
  <2> HIDE DEF bytes
  <2> QED BY <1>1 DEF Asked, Requests
<1>3. SizeT(bytes) = bytes
  <2> HIDE DEF bytes
  <2>1. bytes \in Nat /\ bytes <= SIZE_MAX
    BY <1>2, AskedSize
  <2> QED BY <2>1, SizeTFits
<1>4. PICK r : /\ \/ r = Refused
                  \/ \E place \in Places(bytes, FALSE) : r \in Taken(place, FALSE, bytes, bytes)
               /\ Happens(r)
               /\ \/ /\ obj' = [obj EXCEPT ![o] =
                          Holding(r.ret, IF r.ret = NULL \/ o \notin Arrays THEN 0 ELSE n)]
                     /\ UNCHANGED abandoned
                  \/ /\ r.ret # NULL
                     /\ abandoned' = abandoned \cup {r.ret}
                     /\ UNCHANGED obj
  BY <1>3, ZenonT(40) DEF Construct
<1> HIDE DEF bytes
<1>5. Nothing(r) \/ Grants(r, bytes, bytes, FALSE)
  <2>1. CASE r = Refused
    BY <2>1 DEF Refused, Nothing, PtrInv, IInv
  <2>2. ASSUME NEW place \in Places(bytes, FALSE), r \in Taken(place, FALSE, bytes, bytes)
        PROVE  Grants(r, bytes, bytes, FALSE)
    <3>1. FALSE \in BOOLEAN /\ bytes \in {0, bytes}
      OBVIOUS
    <3> QED BY <1>2, <2>2, <3>1, TakenGrants DEF PtrInv
  <2> QED BY <1>4, <2>1, <2>2
<1>6. /\ IInv' /\ Kept(DOMAIN allocs)
      /\ \/ r.ret = NULL /\ allocs' = allocs
         \/ /\ r.ret \in Fresh
            /\ DOMAIN allocs' = DOMAIN allocs \cup {r.ret}
            /\ allocs'[r.ret].byTrace = FALSE
  BY <1>4, <1>5, GrantKeeps DEF PtrInv
<1>7. o \notin Alive /\ UNCHANGED raw
  BY DEF Construct
<1>8. obj[o].ptr = NULL
  BY <1>7 DEF Alive, PtrInv, Shared
<1>9. NULL \notin DOMAIN allocs
  BY DispatchAssumption DEF PtrInv, IInv
<1>10. CASE r.ret = NULL /\ allocs' = allocs
  <2>1. obj' = [obj EXCEPT ![o] = Holding(NULL, 0)] /\ Holding(NULL, 0) \in Object
        /\ Holding(NULL, 0).ptr = NULL /\ UNCHANGED abandoned
    BY <1>4, <1>10, Values
  <2>2. /\ obj' \in [Objects -> Object] /\ obj'[o].ptr = NULL
        /\ \A x \in Objects : x # o => obj'[x] = obj[x]
    BY <2>1, OneChanged DEF PtrInv
  <2>3. ~ obj[o].alive
    BY <1>7 DEF Alive
  <2>4. Shared'
    BY <1>7, <1>8, <1>10, <2>1, <2>2, <2>3, SamePointers
  <2> QED BY <1>6, <2>4 DEF PtrInv
<1>11. CASE r.ret \in Fresh /\ DOMAIN allocs' = DOMAIN allocs \cup {r.ret}
             /\ allocs'[r.ret].byTrace = FALSE /\ UNCHANGED abandoned
  <2> DEFINE size == IF r.ret = NULL \/ o \notin Arrays THEN 0 ELSE n
             b == Holding(r.ret, size)
  <2>1. r.ret \in Pointers /\ size \in Nat
    BY <1>1, <1>11 DEF Fresh
  <2>2. b \in Object /\ b.ptr = r.ret /\ b.alive
    BY <2>1, Values
  <2>3. obj' = [obj EXCEPT ![o] = b]
    <3>1. abandoned' # abandoned \cup {r.ret}
      BY <1>11 DEF PtrInv, Shared, Loose, Fresh
    <3> QED BY <1>4, <3>1
  <2> HIDE DEF b
  <2>4. /\ DOMAIN allocs' = (DOMAIN allocs \ {obj[o].ptr}) \cup {r.ret}
        /\ Kept(DOMAIN allocs \ {obj[o].ptr})
        /\ r.ret \in {obj[o].ptr} \cup Fresh
    BY <1>6, <1>8, <1>9, <1>11
  <2>5. Shared'
    BY <1>7, <1>11, <2>1, <2>2, <2>3, <2>4, TakesNew
  <2> QED BY <1>6, <2>5 DEF PtrInv
\* A constructor threw.
<1>12. CASE r.ret \in Fresh /\ DOMAIN allocs' = DOMAIN allocs \cup {r.ret}
             /\ abandoned' = abandoned \cup {r.ret} /\ UNCHANGED obj
  <2>1. Loose' = Loose \cup {r.ret} /\ UNCHANGED raw
    BY <1>7, <1>12 DEF Loose
  <2>2. Loose' \subseteq DOMAIN allocs' /\ raw' \cap abandoned' = {}
    BY <1>12, <2>1 DEF PtrInv, Shared, Loose, Fresh
  <2>3. \A x \in Objects : obj[x].ptr # NULL =>
          obj[x].ptr \in DOMAIN allocs /\ obj[x].ptr # r.ret
    BY <1>12 DEF PtrInv, Shared, Fresh
  <2>4. Shared'
    BY <1>6, <1>12, <2>1, <2>2, <2>3 DEF PtrInv, Shared, Kept
  <2> QED BY <1>6, <2>4 DEF PtrInv
<1> QED BY <1>4, <1>6, <1>10, <1>11, <1>12

\* resize.
LEMMA ResizeStep ==
  ASSUME OrdinaryCalls, PtrInv, NEW o \in Objects, NEW n \in ResizeLengths, n # 0, Resize(o, n)
  PROVE  PtrInv'
<1> DEFINE bytes == SIZEOF_T * n
           p == obj[o].ptr
<1>1. bytes \in Sizes /\ n \in Nat /\ bytes # 0
  <2>1. n \in Nat /\ SIZEOF_T \in Nat \ {0} /\ bytes \in Sizes
    BY DamPtrAssumption
  <2> QED BY <2>1
<1>2. Asked(bytes, FALSE)
  <2> HIDE DEF bytes
  <2> QED BY <1>1 DEF Asked, Requests
<1>3. SizeT(bytes) = bytes
  <2> HIDE DEF bytes
  <2>1. bytes \in Nat /\ bytes <= SIZE_MAX
    BY <1>2, AskedSize
  <2> QED BY <2>1, SizeTFits
<1>4. PICK r : /\ r \in IF p = NULL THEN MallocOutcomes(bytes, FALSE)
                        ELSE ReallocOutcomes(p, bytes)
               /\ Happens(r)
               /\ obj' = IF r.ret = NULL THEN obj ELSE [obj EXCEPT ![o].ptr = r.ret]
  BY <1>3 DEF Resize
<1> HIDE DEF bytes
<1>5. o \in Alive /\ UNCHANGED <<raw, abandoned>>
  BY DEF Resize
<1>6. obj \in [Objects -> Object] /\ obj[o].alive /\ obj[o] \in Object
  BY <1>5 DEF Alive, PtrInv, Shared
<1>7. NULL \notin DOMAIN allocs /\ NULL \notin Pointers
  BY DispatchAssumption DEF PtrInv, IInv
<1>8. /\ IInv' /\ Kept(DOMAIN allocs \ {p})
      /\ \/ r.ret = NULL /\ allocs' = allocs
         \/ /\ r.ret \in {p} \cup Fresh
            /\ DOMAIN allocs' = (DOMAIN allocs \ {p}) \cup {r.ret}
            /\ allocs'[r.ret].byTrace = FALSE
            /\ r.ret \in Pointers
  <2>1. CASE p = NULL
    <3>1. FALSE \in BOOLEAN /\ r \in MallocOutcomes(bytes, FALSE)
      BY <1>4, <2>1
    <3>2. Nothing(r) \/ Grants(r, bytes, 0, FALSE)
      BY <1>2, <3>1, MallocForms DEF PtrInv
    <3>3. /\ IInv' /\ Kept(DOMAIN allocs)
          /\ \/ r.ret = NULL /\ allocs' = allocs
             \/ /\ r.ret \in Fresh
                /\ DOMAIN allocs' = DOMAIN allocs \cup {r.ret}
                /\ allocs'[r.ret].byTrace = FALSE
      BY <1>4, <3>1, <3>2, GrantKeeps DEF PtrInv
    <3>4. DOMAIN allocs \ {p} = DOMAIN allocs /\ Fresh \subseteq Pointers
      BY <1>7, <2>1 DEF Fresh
    <3> QED BY <3>3, <3>4
  <2>2. CASE p # NULL
    <3>1. p \in DOMAIN allocs /\ allocs[p].byTrace = FALSE /\ p \in Pointers
      BY <2>2 DEF PtrInv, Shared, IInv
    <3>2. r \in ReallocOutcomes(p, bytes) /\ Asked(bytes, allocs[p].byTrace)
      BY <1>2, <1>4, <2>2, <3>1
    <3>3. Nothing(r) \/ Regrants(r, p, bytes)
      BY <1>1, <3>1, <3>2, ReallocForms DEF PtrInv, bytes
    <3>4. /\ IInv' /\ Kept(DOMAIN allocs \ {p})
          /\ \/ r.ret = NULL /\ allocs' = allocs
             \/ /\ r.ret \in {p} \cup Fresh
                /\ DOMAIN allocs' = (DOMAIN allocs \ {p}) \cup {r.ret}
                /\ allocs'[r.ret].byTrace = allocs[p].byTrace
      BY <1>4, <3>1, <3>3, RegrantKeeps DEF PtrInv
    <3>5. Fresh \subseteq Pointers
      BY DEF Fresh
    <3> QED BY <3>1, <3>4, <3>5
  <2> QED BY <2>1, <2>2
<1>9. CASE r.ret = NULL /\ allocs' = allocs
  <2>1. obj' = obj
    BY <1>4, <1>9
  <2>2. Shared'
    BY <1>5, <1>6, <1>9, <2>1, SamePointers
  <2> QED BY <1>8, <2>2 DEF PtrInv
<1>10. CASE /\ r.ret \in {p} \cup Fresh
            /\ DOMAIN allocs' = (DOMAIN allocs \ {p}) \cup {r.ret}
            /\ allocs'[r.ret].byTrace = FALSE
            /\ r.ret \in Pointers
  <2> DEFINE b == [obj[o] EXCEPT !.ptr = r.ret]
  <2>1. obj' = [obj EXCEPT ![o] = b]
    BY <1>4, <1>7, <1>10
  <2>2. b \in Object /\ b.ptr = r.ret /\ b.alive
    BY <1>6, <1>10 DEF Object
  <2> HIDE DEF b
  <2>3. Shared'
    BY <1>5, <1>8, <1>10, <2>1, <2>2, TakesNew
  <2> QED BY <1>8, <2>3 DEF PtrInv
<1> QED BY <1>8, <1>9, <1>10

\* What an object held is freed, and it takes a raw pointer or none: the constructor,
\* reset, the destructor.
LEMMA TakesRaw ==
  ASSUME PtrInv, NEW o \in Objects, NEW p \in {NULL} \cup {q \in raw : ~ allocs[q].byTrace},
         NEW b \in Object, b.ptr = p, b.alive \/ p = NULL,
         obj' = [obj EXCEPT ![o] = b], raw' = raw \ {p}, UNCHANGED abandoned,
         DOMAIN allocs' = DOMAIN allocs \ {obj[o].ptr}, Kept(DOMAIN allocs \ {obj[o].ptr})
  PROVE  Shared'
<1>1. /\ obj' \in [Objects -> Object] /\ obj'[o] = b
      /\ \A x \in Objects : x # o => obj'[x] = obj[x]
  BY OneChanged DEF PtrInv
<1>2. NULL \notin Pointers /\ NULL \notin DOMAIN allocs
  BY DispatchAssumption DEF PtrInv, IInv
<1>3. p # NULL => /\ p \in DOMAIN allocs /\ p \in raw /\ p # obj[o].ptr
                  /\ allocs[p].byTrace = FALSE
  <2> SUFFICES ASSUME p # NULL
               PROVE  /\ p \in DOMAIN allocs /\ p \in raw /\ p # obj[o].ptr
                      /\ allocs[p].byTrace = FALSE
    OBVIOUS
  <2>1. p \in raw /\ ~ allocs[p].byTrace
    OBVIOUS
  <2>2. p \in DOMAIN allocs /\ p # obj[o].ptr
    BY <2>1, <1>2 DEF PtrInv, Shared, Loose
  <2>3. allocs[p].byTrace \in BOOLEAN
    BY <2>2, Fields DEF PtrInv, IInv
  <2> QED BY <2>1, <2>2, <2>3
<1>0. Loose' = Loose \ {p}
  BY <1>2 DEF PtrInv, Shared, Loose
<1>4. obj[o].ptr \notin Loose
  BY <1>2 DEF PtrInv, Shared
<1>5. Loose' \subseteq DOMAIN allocs' /\ raw' \cap abandoned' = {}
  BY <1>4 DEF PtrInv, Shared, Loose
<1>6. ASSUME NEW x \in Objects, obj'[x].ptr # NULL
      PROVE  /\ obj'[x].alive
             /\ obj'[x].ptr \in DOMAIN allocs' \ Loose'
             /\ allocs'[obj'[x].ptr].byTrace = FALSE
  <2>1. CASE x = o
    BY <1>0, <1>1, <1>3, <1>6, <2>1, DispatchAssumption DEF Kept, PtrInv, Shared
  <2>2. CASE x # o
    <3>1. obj'[x] = obj[x] /\ obj[x].ptr \in DOMAIN allocs /\ obj[x].ptr \notin Loose
          /\ obj[x].alive /\ allocs[obj[x].ptr].byTrace = FALSE
      BY <1>1, <1>6, <2>2 DEF PtrInv, Shared
    <3>2. obj[x].ptr # obj[o].ptr
      BY <1>6, <2>2, <3>1 DEF PtrInv, Shared
    <3> QED BY <1>0, <3>1, <3>2 DEF Kept
  <2> QED BY <2>1, <2>2
<1>7. \A x \in Objects : p # NULL => obj[x].ptr # p
  BY <1>2, <1>3 DEF PtrInv, Shared, Loose
<1>8. ASSUME NEW x \in Objects, NEW y \in Objects,
             obj'[x].ptr # NULL, obj'[x].ptr = obj'[y].ptr
      PROVE  x = y
  BY <1>1, <1>7, <1>8 DEF PtrInv, Shared
<1>9. ASSUME NEW r \in DOMAIN allocs' PROVE r \in Loose' \/ \E x \in Objects : obj'[x].ptr = r
  <2>1. CASE r = p
    BY <1>1, <2>1
  <2>2. CASE r # p
    <3>1. r \in DOMAIN allocs /\ r # obj[o].ptr
      BY <1>9
    <3>2. r \in Loose \/ \E x \in Objects : obj[x].ptr = r /\ x # o
      BY <3>1 DEF PtrInv, Shared
    <3> QED BY <1>0, <1>1, <2>2, <3>2
  <2> QED BY <2>1, <2>2
<1> QED BY <1>1, <1>5, <1>6, <1>8, <1>9, ZenonT(40) DEF Shared

\* What an object held is freed, and it takes what another held: the move constructor
\* and the move assignment.
LEMMA TakesFrom ==
  ASSUME PtrInv, NEW o \in Objects, NEW other \in Objects, o # other, obj[other].alive,
         obj' = [obj EXCEPT ![o] = obj[other], ![other] = Empty], UNCHANGED <<raw, abandoned>>,
         DOMAIN allocs' = DOMAIN allocs \ {obj[o].ptr}, Kept(DOMAIN allocs \ {obj[o].ptr})
  PROVE  Shared'
<1>0. Empty \in Object /\ Empty.ptr = NULL /\ obj \in [Objects -> Object]
  <2>1. 0 \in Nat /\ NULL \in Pointers \cup {NULL}
    OBVIOUS
  <2> QED BY <2>1, Values DEF PtrInv, Shared
<1>1. /\ obj' \in [Objects -> Object] /\ obj'[o] = obj[other] /\ obj'[other] = Empty
      /\ \A x \in Objects \ {o, other} : obj'[x] = obj[x]
  BY <1>0
<1>2. NULL \notin Pointers /\ NULL \notin DOMAIN allocs
  BY DispatchAssumption DEF PtrInv, IInv
<1>3. Loose' = Loose
  BY DEF Loose
<1>4. obj[o].ptr \notin Loose
  BY <1>2 DEF PtrInv, Shared
<1>5. Loose' \subseteq DOMAIN allocs' /\ raw' \cap abandoned' = {}
  BY <1>4 DEF PtrInv, Shared, Loose
\* What an object holds afterwards an object other than o held before.
<1>6. \A x \in Objects : obj'[x].ptr # NULL =>
        /\ x # other
        /\ obj'[x] = obj[IF x = o THEN other ELSE x]
        /\ (IF x = o THEN other ELSE x) # o
  BY <1>0, <1>1
<1>7. ASSUME NEW x \in Objects, obj'[x].ptr # NULL
      PROVE  /\ obj'[x].alive
             /\ obj'[x].ptr \in DOMAIN allocs' \ Loose'
             /\ allocs'[obj'[x].ptr].byTrace = FALSE
  <2> DEFINE y == IF x = o THEN other ELSE x
  <2>1. y \in Objects /\ y # o /\ obj'[x] = obj[y] /\ obj[y].ptr # NULL
    BY <1>6, <1>7
  <2> HIDE DEF y
  <2>2. /\ obj[y].ptr \in DOMAIN allocs /\ obj[y].ptr \notin Loose
        /\ obj[y].alive /\ allocs[obj[y].ptr].byTrace = FALSE
        /\ obj[y].ptr # obj[o].ptr
    BY <2>1 DEF PtrInv, Shared
  <2> QED BY <1>3, <2>1, <2>2 DEF Kept
<1>8. ASSUME NEW x \in Objects, NEW y \in Objects,
             obj'[x].ptr # NULL, obj'[x].ptr = obj'[y].ptr
      PROVE  x = y
  BY <1>6, <1>8 DEF PtrInv, Shared
<1>9. ASSUME NEW r \in DOMAIN allocs' PROVE r \in Loose' \/ \E x \in Objects : obj'[x].ptr = r
  <2>1. r \in DOMAIN allocs /\ r # obj[o].ptr
    BY <1>9
  <2>2. r \in Loose \/ \E x \in Objects : obj[x].ptr = r /\ x # o
    BY <2>1 DEF PtrInv, Shared
  <2> QED BY <1>1, <1>3, <2>2
<1> QED BY <1>1, <1>5, <1>7, <1>8, <1>9 DEF Shared

\* release: the pointer is the program's again.
LEMMA ReleaseStep ==
  ASSUME PtrInv, NEW o \in Objects, Release(o)
  PROVE  PtrInv'
<1>0. Empty \in Object /\ Empty.ptr = NULL
  <2>1. 0 \in Nat /\ NULL \in Pointers \cup {NULL}
    OBVIOUS
  <2> QED BY <2>1, Values
<1>1. /\ obj' \in [Objects -> Object] /\ obj'[o] = Empty
      /\ \A x \in Objects : x # o => obj'[x] = obj[x]
  BY <1>0, OneChanged DEF Release, PtrInv
<1>2. /\ raw' = raw \cup ({obj[o].ptr} \ {NULL}) /\ abandoned' = abandoned
      /\ allocs' = allocs /\ harm' = harm
  BY DEF Release
<1>3. Loose' \subseteq DOMAIN allocs' /\ raw' \cap abandoned' = {}
  BY <1>2 DEF PtrInv, Shared, Loose
<1>4. ASSUME NEW x \in Objects, obj'[x].ptr # NULL
      PROVE  /\ obj'[x].alive
             /\ obj'[x].ptr \in DOMAIN allocs' \ Loose'
             /\ allocs'[obj'[x].ptr].byTrace = FALSE
  <2>1. x # o /\ obj'[x] = obj[x]
    BY <1>0, <1>1, <1>4
  <2>2. obj[x].ptr # obj[o].ptr
    BY <1>4, <2>1 DEF PtrInv, Shared
  <2> QED BY <1>2, <1>4, <2>1, <2>2 DEF PtrInv, Shared, Loose
<1>5. ASSUME NEW x \in Objects, NEW y \in Objects,
             obj'[x].ptr # NULL, obj'[x].ptr = obj'[y].ptr
      PROVE  x = y
  BY <1>0, <1>1, <1>5 DEF PtrInv, Shared
<1>6. ASSUME NEW r \in DOMAIN allocs' PROVE r \in Loose' \/ \E x \in Objects : obj'[x].ptr = r
  <2>1. r # NULL
    BY <1>2, DispatchAssumption DEF PtrInv, IInv
  <2>2. r \in Loose \/ \E x \in Objects : obj[x].ptr = r
    BY <1>2 DEF PtrInv, Shared
  <2> QED BY <1>1, <1>2, <2>1, <2>2 DEF Loose
<1>7. IInv'
  BY <1>2 DEF PtrInv, IInv
<1> QED BY <1>1, <1>3, <1>4, <1>5, <1>6, <1>7 DEF PtrInv, Shared

\* The constructor from a raw pointer.
LEMMA AdoptStep ==
  ASSUME PtrInv, NEW o \in Objects, NEW p \in {NULL} \cup {q \in raw : ~ allocs[q].byTrace},
         Adopt(o, p)
  PROVE  PtrInv'
<1>1. /\ obj' = [obj EXCEPT ![o] = Holding(p, 0)] /\ raw' = raw \ {p}
      /\ abandoned' = abandoned /\ allocs' = allocs /\ harm' = harm /\ ~ obj[o].alive
  BY DEF Adopt, Alive
<1>2. p \in Pointers \cup {NULL} /\ 0 \in Nat
  BY DEF PtrInv, Shared, Loose, IInv
<1>3. Holding(p, 0) \in Object /\ Holding(p, 0).ptr = p /\ Holding(p, 0).alive
  BY <1>2, Values
<1>4. obj[o].ptr = NULL /\ NULL \notin DOMAIN allocs
  BY <1>1, DispatchAssumption DEF PtrInv, Shared, IInv
<1>5. DOMAIN allocs' = DOMAIN allocs \ {obj[o].ptr} /\ Kept(DOMAIN allocs \ {obj[o].ptr})
  BY <1>1, <1>4 DEF Kept
<1>6. Shared'
  BY <1>1, <1>3, <1>5, TakesRaw
<1>7. IInv'
  BY <1>1 DEF PtrInv, IInv
<1> QED BY <1>6, <1>7 DEF PtrInv

\* reset.
LEMMA ResetStep ==
  ASSUME PtrInv, NEW o \in Objects, NEW p \in {NULL} \cup {q \in raw : ~ allocs[q].byTrace},
         Reset(o, p)
  PROVE  PtrInv'
<1>1. /\ FreeHeld(o) /\ obj' = [obj EXCEPT ![o] = Holding(p, 0)] /\ raw' = raw \ {p}
      /\ UNCHANGED abandoned
  BY DEF Reset
<1>2. p \in Pointers \cup {NULL} /\ 0 \in Nat
  BY DEF PtrInv, Shared, Loose, IInv
<1>3. Holding(p, 0) \in Object /\ Holding(p, 0).ptr = p /\ Holding(p, 0).alive
  BY <1>2, Values
<1>4. /\ IInv' /\ DOMAIN allocs' = DOMAIN allocs \ {obj[o].ptr}
      /\ Kept(DOMAIN allocs \ {obj[o].ptr})
  BY <1>1, HeldFreed
<1>5. Shared'
  BY <1>1, <1>3, <1>4, TakesRaw
<1> QED BY <1>4, <1>5 DEF PtrInv

\* The destructor.
LEMMA DestroyStep ==
  ASSUME PtrInv, NEW o \in Objects, Destroy(o)
  PROVE  PtrInv'
<1>1. FreeHeld(o) /\ obj' = [obj EXCEPT ![o] = Unborn] /\ UNCHANGED <<raw, abandoned>>
  BY DEF Destroy
<1>2. 0 \in Nat /\ NULL \in Pointers \cup {NULL}
  OBVIOUS
<1>3. Unborn \in Object /\ Unborn.ptr = NULL
  BY <1>2, Values
<1>4. /\ IInv' /\ DOMAIN allocs' = DOMAIN allocs \ {obj[o].ptr}
      /\ Kept(DOMAIN allocs \ {obj[o].ptr})
  BY <1>1, HeldFreed
<1>5. raw' = raw \ {NULL} /\ NULL \in {NULL} \cup {q \in raw : ~ allocs[q].byTrace}
  BY <1>1, DispatchAssumption DEF PtrInv, Shared, Loose, IInv
<1>6. Shared'
  BY <1>1, <1>3, <1>4, <1>5, TakesRaw
<1> QED BY <1>4, <1>6 DEF PtrInv

\* The move constructor.
LEMMA MoveConstructStep ==
  ASSUME PtrInv, NEW o \in Objects, NEW other \in Objects, MoveConstruct(o, other)
  PROVE  PtrInv'
<1>1. /\ ~ obj[o].alive /\ obj[other].alive
      /\ obj' = [obj EXCEPT ![o] = obj[other], ![other] = Empty]
      /\ raw' = raw /\ abandoned' = abandoned /\ allocs' = allocs /\ harm' = harm
  BY DEF MoveConstruct, Alive
<1>2. o # other
  BY <1>1
<1>3. obj[o].ptr = NULL /\ NULL \notin DOMAIN allocs
  BY <1>1, DispatchAssumption DEF PtrInv, Shared, IInv
<1>4. DOMAIN allocs' = DOMAIN allocs \ {obj[o].ptr} /\ Kept(DOMAIN allocs \ {obj[o].ptr})
  BY <1>1, <1>3 DEF Kept
<1>5. Shared'
  BY <1>1, <1>2, <1>4, TakesFrom
<1>6. IInv'
  BY <1>1 DEF PtrInv, IInv
<1> QED BY <1>5, <1>6 DEF PtrInv

\* The move assignment.
LEMMA MoveAssignStep ==
  ASSUME PtrInv, NEW o \in Objects, NEW other \in Objects, MoveAssign(o, other)
  PROVE  PtrInv'
<1>1. CASE o = other
  BY <1>1 DEF MoveAssign, PtrInv, IInv, Shared, Loose
<1>2. CASE o # other
  <2>1. /\ FreeHeld(o) /\ obj[other].alive
        /\ obj' = [obj EXCEPT ![o] = obj[other], ![other] = Empty]
        /\ UNCHANGED <<raw, abandoned>>
    BY <1>2 DEF MoveAssign, Alive
  <2>2. /\ IInv' /\ DOMAIN allocs' = DOMAIN allocs \ {obj[o].ptr}
        /\ Kept(DOMAIN allocs \ {obj[o].ptr})
    BY <2>1, HeldFreed
  <2>3. Shared'
    BY <1>2, <2>1, <2>2, TakesFrom
  <2> QED BY <2>2, <2>3 DEF PtrInv
<1> QED BY <1>1, <1>2

\* The C calls of the rest of the program.
LEMMA CCallStep ==
  ASSUME OrdinaryCalls, PtrInv, CCall
  PROVE  PtrInv'
<1>1. IInv' /\ Kept(DOMAIN allocs \ raw)
  <2>1. CASE Request
    BY <2>1, RequestKeeps DEF PtrInv, Kept
  <2>2. ASSUME NEW p \in raw, Use(p) PROVE IInv' /\ Kept(DOMAIN allocs \ raw)
    BY <2>2, UseKeeps DEF PtrInv, Shared, Loose, Kept
  <2> QED BY <2>1, <2>2 DEF CCall
<1>2. /\ raw' = DOMAIN allocs' \ ({obj[o].ptr : o \in Objects} \cup abandoned)
      /\ obj' = obj /\ abandoned' = abandoned
  BY DEF CCall
<1>3. \A r \in DOMAIN allocs \ raw : r \in DOMAIN allocs'
  BY <1>1 DEF Kept
<1>4. abandoned \subseteq DOMAIN allocs \ raw
  BY DEF PtrInv, Shared, Loose
<1>5. Loose' = DOMAIN allocs' \ {obj[o].ptr : o \in Objects}
  <2>1. ASSUME NEW r \in abandoned PROVE r \in DOMAIN allocs' /\ \A o \in Objects : obj[o].ptr # r
    <3>1. r \in DOMAIN allocs /\ r # NULL
      BY <1>4, DispatchAssumption DEF PtrInv, IInv
    <3> QED BY <1>3, <1>4, <3>1 DEF PtrInv, Shared, Loose
  <2> QED BY <1>2, <2>1 DEF Loose
<1>6. raw' \cap abandoned' = {}
  BY <1>2
<1>7. ASSUME NEW o \in Objects, obj[o].ptr # NULL
      PROVE  /\ obj[o].ptr \in DOMAIN allocs' \ Loose'
             /\ allocs'[obj[o].ptr].byTrace = FALSE
  <2>1. obj[o].ptr \in DOMAIN allocs \ raw /\ allocs[obj[o].ptr].byTrace = FALSE
    BY <1>7 DEF PtrInv, Shared, Loose
  <2> QED BY <1>1, <1>5, <2>1 DEF Kept
<1>8. Shared'
  BY <1>2, <1>5, <1>6, <1>7 DEF PtrInv, Shared
<1> QED BY <1>1, <1>8 DEF PtrInv

-----------------------------------------------------------------------------
\* The theorems.

\* No array is resized to nothing.
NoEmptyResize == 0 \notin ResizeLengths

\* Before anything is constructed.
LEMMA PtrInvInit == PtrInit => PtrInv
<1> SUFFICES ASSUME PtrInit PROVE PtrInv
  OBVIOUS
<1>1. IInv
  BY IInvInit DEF PtrInit
<1>2. DOMAIN allocs = {} /\ raw = {} /\ abandoned = {} /\ obj = [o \in Objects |-> Unborn]
  BY DEF PtrInit, Init
<1>3. Unborn \in Object /\ Unborn.ptr = NULL
  <2>1. 0 \in Nat /\ NULL \in Pointers \cup {NULL}
    OBVIOUS
  <2> QED BY <2>1, Values
<1>4. Shared
  BY <1>2, <1>3 DEF Shared, Loose
<1> QED BY <1>1, <1>4 DEF PtrInv

\* The inductive invariant.
THEOREM PtrInvariance == OrdinaryCalls /\ NoEmptyResize => (PtrSpec => []PtrInv)
<1> SUFFICES ASSUME OrdinaryCalls, NoEmptyResize PROVE PtrSpec => []PtrInv
  OBVIOUS
<1>1. PtrInv /\ [PtrNext]_ptrVars => PtrInv'
  <2> SUFFICES ASSUME PtrInv, [PtrNext]_ptrVars PROVE PtrInv'
    OBVIOUS
  <2>1. CASE CCall
    BY <2>1, CCallStep
  <2>2. ASSUME NEW o \in Objects, NEW n \in Lengths, MakeUnique(o, n) \/ MakeUniqueArray(o, n)
        PROVE  PtrInv'
    BY <2>2, ConstructStep DEF MakeUnique, MakeUniqueArray
  <2>3. ASSUME NEW o \in Objects, NEW other \in Objects,
               MoveConstruct(o, other) \/ MoveAssign(o, other)
        PROVE  PtrInv'
    BY <2>3, MoveConstructStep, MoveAssignStep
  <2>4. ASSUME NEW o \in Objects, NEW p \in {NULL} \cup {q \in raw : ~ allocs[q].byTrace},
               Adopt(o, p) \/ Reset(o, p)
        PROVE  PtrInv'
    BY <2>4, AdoptStep, ResetStep
  <2>5. ASSUME NEW o \in Objects, NEW n \in ResizeLengths, Resize(o, n) PROVE PtrInv'
    <3>1. n # 0
      BY DEF NoEmptyResize
    <3> QED BY <2>5, <3>1, ResizeStep
  <2>6. ASSUME NEW o \in Objects, Release(o) \/ Destroy(o) PROVE PtrInv'
    BY <2>6, ReleaseStep, DestroyStep
  <2>7. CASE UNCHANGED ptrVars
    BY <2>7 DEF ptrVars, PtrInv, IInv, Shared, Loose
  <2> QED BY <2>1, <2>2, <2>3, <2>4, <2>5, <2>6, <2>7 DEF PtrNext
<1> QED BY <1>1, PtrInvInit, PTL DEF PtrSpec

\* The wrappers take nothing from what the public calls give: room for what was asked,
\* with make_unique and resize among the calls.
THEOREM ObjectsFit == OrdinaryCalls /\ NoEmptyResize => (PtrSpec => [](AllocFit /\ NoHarm))
BY PtrInvariance, IInvFits, PTL DEF PtrInv

\* Whatever is moved, released, reset, adopted, resized (to something) and destroyed, each
\* allocation has exactly one owner, but for those a throwing constructor left, which
\* have none for ever; and no object owns what was freed.
THEOREM OwnersUnique == OrdinaryCalls /\ NoEmptyResize => (PtrSpec => []OwnedOnce)
<1>1. PtrInv => OwnedOnce
  <2> SUFFICES ASSUME PtrInv, NEW p \in Pointers
               PROVE  Cardinality({o \in Objects : obj[o].ptr = p}) + Cardinality(raw \cap {p})
                        = IF p \in DOMAIN allocs \ abandoned THEN 1 ELSE 0
    BY DEF OwnedOnce, PtrInv, Shared, Loose
  <2> DEFINE Holders == {o \in Objects : obj[o].ptr = p}
             Claim == raw \cap {p}
  <2> SUFFICES Cardinality(Holders) + Cardinality(Claim)
                 = IF p \in DOMAIN allocs \ abandoned THEN 1 ELSE 0
    OBVIOUS
  <2>0. p # NULL
    BY DispatchAssumption
  <2>1. Cardinality({}) = 0 /\ \A x : Cardinality({x}) = 1
    BY FS_EmptySet, FS_Singleton
  <2>2. CASE p \notin DOMAIN allocs \ abandoned
    <3>1. Holders = {} /\ Claim = {}
      BY <2>0, <2>2 DEF PtrInv, Shared, Loose
    <3>2. Cardinality(Holders) = 0 /\ Cardinality(Claim) = 0
      BY <2>1, <3>1, Zenon
    <3> HIDE DEF Holders, Claim
    <3> QED BY <2>2, <3>2
  <2>3. CASE p \in raw
    <3>1. Holders = {} /\ Claim = {p} /\ p \in DOMAIN allocs \ abandoned
      BY <2>0, <2>3 DEF PtrInv, Shared, Loose
    <3>2. Cardinality(Holders) = 0 /\ Cardinality(Claim) = 1
      BY <2>1, <3>1, Zenon
    <3> HIDE DEF Holders, Claim
    <3> QED BY <3>1, <3>2
  <2>4. CASE p \in DOMAIN allocs \ abandoned /\ p \notin raw
    <3>1. PICK o \in Objects : obj[o].ptr = p
      BY <2>4 DEF PtrInv, Shared, Loose
    <3>2. Holders = {o} /\ Claim = {}
      BY <2>0, <2>4, <3>1 DEF PtrInv, Shared
    <3>3. Cardinality(Holders) = 1 /\ Cardinality(Claim) = 0
      BY <2>1, <3>2, Zenon
    <3> HIDE DEF Holders, Claim
    <3> QED BY <2>4, <3>3
  <2> QED BY <2>2, <2>3, <2>4
<1> QED BY <1>1, PtrInvariance, PTL

-----------------------------------------------------------------------------
\* Contents.

\* What frees is a dam_free of the client, or nothing.
LEMMA FreeHeldContents ==
  ASSUME OrdinaryCalls, PtrInv, NEW o \in Objects, FreeHeld(o)
  PROVE  HeldNow' = HeldNow \/ Contents!Next
<1>1. CASE obj[o].ptr = NULL
  BY <1>1 DEF FreeHeld, HeldNow
<1>2. CASE obj[o].ptr # NULL
  <2>1. obj[o].ptr \in DOMAIN allocs
    BY <1>2 DEF PtrInv, Shared
  <2>2. Free(obj[o].ptr) /\ harm = "none"
    BY <1>2 DEF FreeHeld, PtrInv, IInv
  <2>3. Next
    BY <2>1, <2>2 DEF Next, Use, Harmless
  <2> QED BY <2>3, IInvNext DEF PtrInv
<1> QED BY <1>1, <1>2

\* make_unique hands out bytes that are as they should be: the elements.
LEMMA ConstructContents ==
  ASSUME OrdinaryCalls, PtrInv, NEW o \in Objects, NEW n \in Lengths, Construct(o, n)
  PROVE  HeldNow' = HeldNow \/ Contents!Next
<1> DEFINE bytes == SIZEOF_T * n
<1>1. bytes \in Sizes /\ bytes \in Requests \cup TracedSizes
  BY DamPtrAssumption DEF Requests
<1>2. Asked(bytes, FALSE)
  <2> HIDE DEF bytes
  <2> QED BY <1>1 DEF Asked, Requests
<1>3. SizeT(bytes) = bytes
  <2> HIDE DEF bytes
  <2>1. bytes \in Nat /\ bytes <= SIZE_MAX
    BY <1>2, AskedSize
  <2> QED BY <2>1, SizeTFits
<1>4. PICK r : /\ \/ r = Refused
                  \/ \E place \in Places(bytes, FALSE) : r \in Taken(place, FALSE, bytes, bytes)
               /\ Happens(r)
  BY <1>3 DEF Construct
<1> HIDE DEF bytes
<1>5. CASE r = Refused
  BY <1>4, <1>5 DEF Refused, Happens, Outcome, HeldNow
<1>6. CASE \E place \in Places(bytes, FALSE) : r \in Taken(place, FALSE, bytes, bytes)
  <2>1. FALSE \in BOOLEAN /\ bytes \in {0, bytes}
    OBVIOUS
  <2>2. Grants(r, bytes, bytes, FALSE)
    BY <1>2, <1>6, <2>1, TakenGrants DEF PtrInv
  <2>3. /\ r.ret \in Fresh
        /\ allocs' = Put(DOMAIN allocs, r.ret, allocs'[r.ret])
        /\ allocs'[r.ret].asked = bytes /\ allocs'[r.ret].intact = bytes
    BY <1>4, <2>2, FormSteps, ZenonT(40) DEF PtrInv
  <2>4. DOMAIN HeldNow = DOMAIN allocs /\ DOMAIN allocs \in SUBSET DOMAIN allocs
        /\ Fresh = Pointers \ DOMAIN HeldNow
    BY DEF HeldNow, Fresh
  <2>5. HeldNow' = [q \in DOMAIN HeldNow \cup {r.ret} |->
                      IF q = r.ret THEN [size |-> bytes, intact |-> bytes] ELSE HeldNow[q]]
    <3>1. HeldNow' = [q \in DOMAIN allocs \cup {r.ret} |->
                        IF q = r.ret
                          THEN [size |-> allocs'[r.ret].asked, intact |-> allocs'[r.ret].intact]
                        ELSE HeldNow[q]]
      BY <2>3, <2>4, HeldPut
    <3> QED BY <2>3, <2>4, <3>1
  <2>6. Contents!Calloc(r.ret, bytes)
    BY <2>5 DEF Contents!Calloc, Contents!Hold, HeldNow
  <2> QED BY <1>1, <2>3, <2>4, <2>6 DEF Contents!Next, HeldNow
<1> QED BY <1>4, <1>5, <1>6

\* resize is a dam_malloc or a dam_realloc of the client.
LEMMA ResizeContents ==
  ASSUME OrdinaryCalls, PtrInv, NEW o \in Objects, NEW n \in ResizeLengths, Resize(o, n)
  PROVE  HeldNow' = HeldNow \/ Contents!Next
<1> DEFINE bytes == SIZEOF_T * n
           p == obj[o].ptr
<1>1. bytes \in Sizes
  BY DamPtrAssumption
<1>3. SizeT(bytes) = bytes
  <2> HIDE DEF bytes
  <2>1. Asked(bytes, FALSE) /\ FALSE \in BOOLEAN
    BY <1>1 DEF Asked, Requests
  <2>2. bytes \in Nat /\ bytes <= SIZE_MAX
    BY <2>1, AskedSize
  <2> QED BY <2>2, SizeTFits
<1>4. IF p = NULL THEN Malloc(bytes) ELSE Realloc(p, bytes)
  BY <1>3 DEF Resize, Malloc, Realloc
<1> HIDE DEF bytes
<1>5. p # NULL => p \in DOMAIN allocs /\ allocs[p].byTrace = FALSE
  BY DEF PtrInv, Shared
<1>6. Next
  BY <1>1, <1>4, <1>5 DEF Next, Request, Use, Harmless, PtrInv, IInv
<1> QED BY <1>6, IInvNext DEF PtrInv

\* A program with objects implements the contents C promises, too: no member loses what
\* the client wrote.
THEOREM ObjectsKeepContents ==
  OrdinaryCalls /\ NoEmptyResize => (PtrSpec => KeepsContents)
<1> SUFFICES ASSUME OrdinaryCalls, NoEmptyResize PROVE PtrSpec => KeepsContents
  OBVIOUS
<1>1. PtrInit => Contents!Init
  BY DEF PtrInit, Init, Contents!Init
<1>2. PtrInv /\ [PtrNext]_ptrVars => [Contents!Next]_Contents!vars
  <2> SUFFICES ASSUME PtrInv, [PtrNext]_ptrVars PROVE HeldNow' = HeldNow \/ Contents!Next
    BY DEF Contents!vars, HeldNow
  <2>1. CASE CCall
    <3>1. Next
      BY <2>1 DEF CCall, Next, Harmless, PtrInv, IInv, Shared, Loose
    <3> QED BY <3>1, IInvNext DEF PtrInv
  <2>2. ASSUME NEW o \in Objects, NEW n \in Lengths, MakeUnique(o, n) \/ MakeUniqueArray(o, n)
        PROVE  HeldNow' = HeldNow \/ Contents!Next
    BY <2>2, ConstructContents DEF MakeUnique, MakeUniqueArray
  <2>3. ASSUME NEW o \in Objects, FreeHeld(o) PROVE HeldNow' = HeldNow \/ Contents!Next
    BY <2>3, FreeHeldContents
  <2>4. ASSUME NEW o \in Objects, NEW n \in ResizeLengths, Resize(o, n)
        PROVE  HeldNow' = HeldNow \/ Contents!Next
    BY <2>4, ResizeContents
  <2>5. CASE UNCHANGED allocs
    BY <2>5 DEF HeldNow
  <2>6. ASSUME NEW o \in Objects, NEW other \in Objects,
               MoveConstruct(o, other) \/ MoveAssign(o, other)
        PROVE  FreeHeld(o) \/ UNCHANGED allocs
    BY <2>6 DEF MoveConstruct, MoveAssign
  <2>7. ASSUME NEW o \in Objects, NEW p \in {NULL} \cup {q \in raw : ~ allocs[q].byTrace},
               Adopt(o, p) \/ Reset(o, p)
        PROVE  FreeHeld(o) \/ UNCHANGED allocs
    BY <2>7 DEF Adopt, Reset
  <2>8. ASSUME NEW o \in Objects, Release(o) \/ Destroy(o)
        PROVE  FreeHeld(o) \/ UNCHANGED allocs
    BY <2>8 DEF Release, Destroy
  <2>9. UNCHANGED ptrVars => UNCHANGED allocs
    BY DEF ptrVars
  <2> QED BY <2>1, <2>2, <2>3, <2>4, <2>5, <2>6, <2>7, <2>8, <2>9 DEF PtrNext
<1> QED BY <1>1, <1>2, PtrInvariance, PTL DEF PtrSpec, KeepsContents, Contents!Spec

=============================================================================
