----------------------------- MODULE AbstractHeap -----------------------------
(***************************************************************************)
(* What any layer of the allocator promises its clients, with no pools,    *)
(* blocks or lists: a set of live allocations, each a range of bytes of    *)
(* its own, at an aligned address.  One step concerns one allocation; the  *)
(* others keep their place and their size.                                 *)
(***************************************************************************)
EXTENDS Integers

CONSTANTS
  Pointers,      \* what malloc may return: aligned addresses
  RequestSizes   \* what clients ask for

VARIABLE allocs  \* pointer |-> size of the allocation it was returned for

vars == <<allocs>>

\* The n bytes from p on hold no byte of any live allocation but p's own.
Vacant(p, n) ==
  \A q \in DOMAIN allocs \ {p} : p + n <= q \/ q + allocs[q] <= p

Init == allocs = [p \in {} |-> 0]

Allocate(p, n) ==
  /\ Vacant(p, n)
  /\ allocs' = [q \in DOMAIN allocs \cup {p} |-> IF q = p THEN n ELSE allocs[q]]

Release(p) == allocs' = [q \in DOMAIN allocs \ {p} |-> allocs[q]]

\* realloc in place.
Resize(p, n) ==
  /\ Vacant(p, n)
  /\ allocs' = [allocs EXCEPT ![p] = n]

\* realloc in one go to a place q, filled while p still has its bytes.
Move(p, q, n) ==
  /\ Vacant(q, n)
  /\ allocs' = [r \in (DOMAIN allocs \ {p}) \cup {q} |-> IF r = q THEN n ELSE allocs[r]]

Next ==
  \/ \E p \in Pointers \ DOMAIN allocs, n \in RequestSizes : Allocate(p, n)
  \/ \E p \in DOMAIN allocs :
       \/ Release(p)
       \/ \E n \in RequestSizes :
            \/ Resize(p, n)
            \/ \E q \in Pointers \ DOMAIN allocs : Move(p, q, n)

Spec == Init /\ [][Next]_vars

=============================================================================
