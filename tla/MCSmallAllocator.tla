--------------------------- MODULE MCSmallAllocator ---------------------------
(***************************************************************************)
(* The small layer on small instances: two size classes, a few pools of    *)
(* one to three blocks, caches of one or two blocks a class.               *)
(***************************************************************************)
EXTENDS SmallAllocator, TLC

CONSTANTS t1, t2  \* model values

OneThread == {t1}
TwoThreads == {t1, t2}

\* Nothing tells the threads apart.
Symmetric == Permutations(TwoThreads)

=============================================================================
