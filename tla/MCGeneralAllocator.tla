-------------------------- MODULE MCGeneralAllocator --------------------------
(***************************************************************************)
(* The general layer on small instances.  Every run scales the constants   *)
(* of dam_config.h down to one scale, with the relations between them kept:*)
(* alignment, header and list pointers take 2 bytes, the canary one, and   *)
(* what is left of a block is split off from 8 bytes on.                   *)
(***************************************************************************)
EXTENDS FreeListLinks

CONSTANTS t1, t2  \* model values

OneThread == {t1}
TwoThreads == {t1, t2}

-----------------------------------------------------------------------------
\* The linked free list against the sequence, for all lists of up to three blocks.

Blocks == {2, 4, 6}
Lists == {s \in UNION {[1 .. n -> Blocks] : n \in 0 .. 3} : IsInjective(s)}
Memory == LinkMemory(Blocks, Blocks \cup {NULL})
Headers == [Blocks -> [size: {3, 5}]]

\* What the list operations of general.c do is what the model's sequences do, the payload
\* of the blocks that are not listed holding anything.
ASSUME LinksAgree ==
  \A s \in Lists : \A l \in {m \in Memory : Spells(m, s)} :
    /\ \A b \in Blocks \ Range(s) : Spells(LinkFirst(l, b), <<b>> \o s)
    /\ \A b \in Range(s) : Spells(UnlinkBlock(l, b), Unlink(s, b))
    /\ \A hdr \in Headers, n \in {4, 6} :
         LET fitting == {i \in DOMAIN s : hdr[s[i]].size >= n}
         IN  Current(l, hdr, n)[Len(s)]
               = IF fitting = {} THEN NULL ELSE s[Min(fitting)]

=============================================================================
