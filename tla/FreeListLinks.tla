---------------------------- MODULE FreeListLinks ----------------------------
(***************************************************************************)
(* The free list of a pool as general.c keeps it: a head in the pool's     *)
(* header, a prev and a next pointer in the payload of each free block.    *)
(* GeneralAllocator has a sequence in its place; Spells says which one.    *)
(*                                                                         *)
(* l is the memory that matters: the fields free_list and has_free of the  *)
(* pool header, next_ptr and prev_ptr of every block.  Those of a used     *)
(* block are the client's bytes, whatever they are.                        *)
(***************************************************************************)
EXTENDS GeneralAllocator

\* add_to_free_list
LinkFirst(l, b) ==
  LET new == [l EXCEPT !.next_ptr[b] = l.free_list, !.prev_ptr[b] = NULL]
      old == IF l.free_list = NULL THEN new
             ELSE [new EXCEPT !.prev_ptr[l.free_list] = b]
  IN  [old EXCEPT !.free_list = b, !.has_free = TRUE]

\* remove_from_free_list
UnlinkBlock(l, b) ==
  LET prev == l.prev_ptr[b]
      next == l.next_ptr[b]
      ahead == IF prev # NULL THEN [l EXCEPT !.next_ptr[prev] = next]
               ELSE [l EXCEPT !.free_list = next]
      behind == IF next = NULL THEN ahead ELSE [ahead EXCEPT !.prev_ptr[next] = prev]
  IN  [behind EXCEPT !.has_free = IF behind.free_list = NULL THEN FALSE
                                  ELSE behind.has_free]

\* The loop of search_in_free_list: current after i rounds.  It stays where it is
\* when the loop ends, at a block of n bytes or at the end of the list.
Current(l, hdr, n) ==
  LET current[i \in Nat] ==
        IF i = 0 THEN l.free_list
        ELSE LET c == current[i - 1]
             IN  IF c = NULL THEN NULL
                 ELSE IF hdr[c].size >= n THEN c
                 ELSE l.next_ptr[c]
  IN  current

\* The memory there is for these blocks.
LinkMemory(blocks, words) ==
  [free_list: words, has_free: BOOLEAN,
   next_ptr: [blocks -> words], prev_ptr: [blocks -> words]]

\* l is the memory of a pool whose free list is s.
Spells(l, s) ==
  /\ l.free_list = IF s = <<>> THEN NULL ELSE s[1]
  /\ l.has_free <=> s # <<>>
  /\ \A i \in DOMAIN s :
       /\ l.next_ptr[s[i]] = IF i = Len(s) THEN NULL ELSE s[i + 1]
       /\ l.prev_ptr[s[i]] = IF i = 1 THEN NULL ELSE s[i - 1]

=============================================================================
