------------------------------- MODULE MCDamPtr -------------------------------
(***************************************************************************)
(* The public calls and the C++ wrappers on small instances: two or three  *)
(* allocations, two or three objects, sizes of every layer.                *)
(***************************************************************************)
EXTENDS DamPtr, TLC

CONSTANTS p1, p2, a1, a2, s1  \* model values

TwoPointers == {p1, p2}
Plain == {<<"SMALL", FALSE>>, <<"DIRECT", FALSE>>}

\* One of the general layer, one of the direct layer.
TwoProducts == {<<2, 3>>, <<3, 5>>}

Symmetric == Permutations(TwoPointers) \cup Permutations({a1, a2})

=============================================================================
