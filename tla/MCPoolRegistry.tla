---------------------------- MODULE MCPoolRegistry ----------------------------
(***************************************************************************)
(* The pool registry with two threads and three places for pools.          *)
(***************************************************************************)
EXTENDS PoolRegistry, TLC

CONSTANTS t1, t2, p1, p2, p3  \* model values

TwoThreads == {t1, t2}
ThreePools == {p1, p2, p3}

\* Every layer, one call at a time, also where the pages have another size; or any one
\* layer, calls at any time.  A snapshot next to calls that unmap may follow the list for
\* ever.
Disciplined ==
  {[layers |-> Layers, snapshots |-> TRUE, turns |-> TRUE, init |-> FALSE, pages |-> b] :
     b \in BOOLEAN}
    \cup {[layers |-> {l}, snapshots |-> l # "DIRECT", turns |-> FALSE, init |-> TRUE,
            pages |-> TRUE] : l \in Layers}

\* Two layers at any time.
TwoLayers ==
  {[layers |-> {"SMALL", "DIRECT"}, snapshots |-> FALSE, turns |-> FALSE, init |-> TRUE,
    pages |-> TRUE]}

=============================================================================
