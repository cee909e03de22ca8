--------------------------- MODULE AbstractContents ---------------------------
(***************************************************************************)
(* What malloc, calloc, realloc and free promise of the bytes they hand    *)
(* out: README's "All realloc operations strictly preserve min(old_size,   *)
(* new_size) bytes, in accordance with C standard semantics".  No layers,  *)
(* no headers; a realloc that fails changes nothing.                       *)
(***************************************************************************)
EXTENDS Integers

CONSTANTS Pointers, RequestSizes

\* pointer |-> what was asked for, and how many bytes from the start hold what they
\* should: the client's own bytes, or calloc's zeros.
VARIABLE held

vars == <<held>>

Least(m, n) == IF m < n THEN m ELSE n

Init == held = [p \in {} |-> 0]

Hold(p, size, intact) ==
  held' = [q \in DOMAIN held \cup {p} |->
             IF q = p THEN [size |-> size, intact |-> intact] ELSE held[q]]

Malloc(p, n) == Hold(p, n, 0)
Calloc(p, n) == Hold(p, n, n)
Write(p) == Hold(p, held[p].size, held[p].size)
Free(p) == held' = [q \in DOMAIN held \ {p} |-> held[q]]

\* In place when q = p.
Realloc(p, q, n) ==
  held' = [r \in (DOMAIN held \ {p}) \cup {q} |->
             IF r = q THEN [size |-> n, intact |-> Least(held[p].intact, n)] ELSE held[r]]

Next ==
  \/ \E p \in Pointers \ DOMAIN held, n \in RequestSizes : Malloc(p, n) \/ Calloc(p, n)
  \/ \E p \in DOMAIN held :
       \/ Write(p)
       \/ Free(p)
       \/ \E n \in RequestSizes, q \in {p} \cup (Pointers \ DOMAIN held) : Realloc(p, q, n)

Spec == Init /\ [][Next]_vars

=============================================================================
