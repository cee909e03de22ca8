-------------------------------- MODULE DamPtr --------------------------------
(***************************************************************************)
(* The C++ wrappers (dam_ptr.hpp) on top of the public calls: a program    *)
(* whose memory is held partly by dam::unique_ptr objects, partly by raw   *)
(* pointers given to the C calls, and moves between the two.               *)
(*                                                                         *)
(* unique_ptr<T[]> and unique_ptr<T> have the same members, but for the    *)
(* size, which nothing reads, and resize, which the second lacks.          *)
(***************************************************************************)
EXTENDS Dispatch

CONSTANTS
  Objects,        \* the places of unique_ptr objects
  Arrays,         \* those of type unique_ptr<T[]>
  SIZEOF_T,
  Lengths,        \* array lengths given to make_unique
  ResizeLengths   \* and to resize

ASSUME DamPtrAssumption ==
  /\ Arrays \subseteq Objects
  /\ SIZEOF_T \in Nat \ {0}
  /\ Lengths \cup ResizeLengths \subseteq Nat
  /\ {SIZEOF_T * n : n \in Lengths \cup ResizeLengths} \subseteq Sizes

VARIABLES
  obj,        \* each object: whether it is constructed and what it holds
  raw,        \* the raw pointers the program is to free
  abandoned   \* history: the allocations whose make_unique threw

ptrVars == <<allocs, harm, obj, raw, abandoned>>

Object == [alive: BOOLEAN, ptr: Pointers \cup {NULL}, size: Nat]

PtrTypeOK ==
  /\ TypeOK
  /\ obj \in [Objects -> Object]
  /\ raw \subseteq Pointers
  /\ abandoned \subseteq Pointers

Unborn == [alive |-> FALSE, ptr |-> NULL, size |-> 0]
Holding(p, n) == [alive |-> TRUE, ptr |-> p, size |-> n]
Empty == Holding(NULL, 0)

Alive == {o \in Objects : obj[o].alive}

SameType(o, other) == o \in Arrays <=> other \in Arrays

\* if (ptr) dam_free(ptr)
FreeHeld(o) == IF obj[o].ptr = NULL THEN UNCHANGED <<allocs, harm>> ELSE Free(obj[o].ptr)

-----------------------------------------------------------------------------
\* Construction.

\* make_unique: the elements are constructed in what dam_malloc returned.  When one of
\* their constructors throws there is no object, and nobody frees the memory.
Construct(o, n) ==
  LET bytes == SIZEOF_T * n
      taken == UNION {Taken(place, FALSE, bytes, bytes) : place \in Places(SizeT(bytes), FALSE)}
  IN  /\ o \notin Alive
      /\ \E r \in {Refused} \cup taken :
           /\ Happens(r)
           /\ \/ /\ obj' = [obj EXCEPT ![o] =
                      Holding(r.ret, IF r.ret = NULL \/ o \notin Arrays THEN 0 ELSE n)]
                 /\ UNCHANGED abandoned
              \/ /\ r.ret # NULL
                 /\ abandoned' = abandoned \cup {r.ret}
                 /\ UNCHANGED obj
      /\ UNCHANGED raw

MakeUnique(o, n) == o \notin Arrays /\ n = 1 /\ Construct(o, n)
MakeUniqueArray(o, n) == o \in Arrays /\ Construct(o, n)

\* The explicit constructor takes over a raw pointer.  A program gives no pointer of the
\* traced calls to an object, which would free it as any other.
Adopt(o, p) ==
  /\ o \notin Alive
  /\ obj' = [obj EXCEPT ![o] = Holding(p, 0)]
  /\ raw' = raw \ {p}
  /\ UNCHANGED <<allocs, harm, abandoned>>

\* Mutant: the source keeps its pointer.
MoveConstructCopies(o, other) ==
  /\ o \notin Alive
  /\ other \in Alive
  /\ SameType(o, other)
  /\ obj' = [obj EXCEPT ![o] = obj[other]]
  /\ UNCHANGED <<allocs, harm, raw, abandoned>>

MoveConstruct(o, other) ==
  /\ o \notin Alive
  /\ other \in Alive
  /\ SameType(o, other)
  /\ obj' = [obj EXCEPT ![o] = obj[other], ![other] = Empty]
  /\ UNCHANGED <<allocs, harm, raw, abandoned>>

-----------------------------------------------------------------------------
\* The members.

\* Assignment to itself does nothing.
MoveAssign(o, other) ==
  /\ {o, other} \subseteq Alive
  /\ SameType(o, other)
  /\ IF o = other THEN UNCHANGED <<allocs, harm, obj>>
     ELSE FreeHeld(o) /\ obj' = [obj EXCEPT ![o] = obj[other], ![other] = Empty]
  /\ UNCHANGED <<raw, abandoned>>

Release(o) ==
  /\ o \in Alive
  /\ raw' = raw \cup ({obj[o].ptr} \ {NULL})
  /\ obj' = [obj EXCEPT ![o] = Empty]
  /\ UNCHANGED <<allocs, harm, abandoned>>

Reset(o, p) ==
  /\ o \in Alive
  /\ FreeHeld(o)
  /\ obj' = [obj EXCEPT ![o] = Holding(p, 0)]
  /\ raw' = raw \ {p}
  /\ UNCHANGED abandoned

\* A NULL from dam_realloc is taken for a failure: the pointer stays.  The size stays
\* in any case.
Resize(o, n) ==
  LET p == obj[o].ptr
      bytes == SizeT(SIZEOF_T * n)
  IN  /\ o \in Alive \cap Arrays
      /\ \E r \in IF p = NULL THEN MallocOutcomes(bytes, FALSE) ELSE ReallocOutcomes(p, bytes) :
           /\ Happens(r)
           /\ obj' = IF r.ret = NULL THEN obj ELSE [obj EXCEPT ![o].ptr = r.ret]
      /\ UNCHANGED <<raw, abandoned>>

Destroy(o) ==
  /\ o \in Alive
  /\ FreeHeld(o)
  /\ obj' = [obj EXCEPT ![o] = Unborn]
  /\ UNCHANGED <<raw, abandoned>>

-----------------------------------------------------------------------------
\* The rest of the program, in C, with the pointers it holds itself.
CCall ==
  /\ Request \/ \E p \in raw : Use(p)
  /\ raw' = DOMAIN allocs' \ ({obj[o].ptr : o \in Objects} \cup abandoned)
  /\ UNCHANGED <<obj, abandoned>>

PtrInit == Init /\ obj = [o \in Objects |-> Unborn] /\ raw = {} /\ abandoned = {}

PtrNext ==
  /\ Harmless
  /\ \/ CCall
     \/ \E o \in Objects :
          \/ \E n \in Lengths : MakeUnique(o, n) \/ MakeUniqueArray(o, n)
          \/ \E other \in Objects : MoveConstruct(o, other) \/ MoveAssign(o, other)
          \/ \E p \in {NULL} \cup {q \in raw : ~ allocs[q].byTrace} : Adopt(o, p) \/ Reset(o, p)
          \/ \E n \in ResizeLengths : Resize(o, n)
          \/ Release(o)
          \/ Destroy(o)

PtrSpec == PtrInit /\ [][PtrNext]_ptrVars

-----------------------------------------------------------------------------

\* "Automatically free memory; enforce lifetime semantics", DESIGN.md:161.  Whatever is
\* moved, released, reset, resized and assigned, each allocation has exactly one owner,
\* who will free it, and no object owns what is freed already.  Only what make_unique had
\* allocated when a constructor threw has no owner, and is never freed (dam_ptr.hpp).
OwnedOnce ==
  /\ abandoned \subseteq DOMAIN allocs
  /\ \A p \in Pointers :
       Cardinality({o \in Objects : obj[o].ptr = p}) + Cardinality(raw \cap {p})
         = IF p \in DOMAIN allocs \ abandoned THEN 1 ELSE 0

=============================================================================
