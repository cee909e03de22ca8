------------------------------ MODULE DamConfig ------------------------------
(***************************************************************************)
(* The configuration every layer is compiled with (dam_config.h), the      *)
(* relations between its values that dam_invariants.h asserts statically,  *)
(* and the size arithmetic the layers share.  Sizes and addresses are      *)
(* natural numbers of bytes; a run scales the real values down and keeps   *)
(* the relations between them.                                             *)
(***************************************************************************)
EXTENDS Integers

CONSTANTS
  ALIGNMENT,               \* _Alignof(max_align_t)
  BLOCK_HEADER_SIZE,       \* sizeof(block_header_t), aligned
  FREE_BLOCK_HEADER_SIZE,  \* the two list pointers kept in a free payload
  CANARY_SIZE,             \* sizeof(uint32_t)
  DAM_SMALL_MAX,           \* largest size the small layer serves
  DAM_GENERAL_MAX          \* largest size the general layer serves

\* The static assertions on headers and layer boundaries.  The C file has none
\* for the room of the free-list pointers: the last two conjuncts hold of its
\* values (16 <= 16 and 16 <= 256) and the layout of free blocks needs them.
ASSUME ConfigAssumption ==
  /\ ALIGNMENT \in Nat \ {0}
  /\ BLOCK_HEADER_SIZE \in Nat \ {0}
  /\ FREE_BLOCK_HEADER_SIZE \in Nat \ {0}
  /\ CANARY_SIZE \in Nat \ {0}
  /\ DAM_SMALL_MAX \in Nat \ {0}
  /\ DAM_GENERAL_MAX \in Nat
  /\ BLOCK_HEADER_SIZE % ALIGNMENT = 0
  /\ DAM_SMALL_MAX <= DAM_GENERAL_MAX
  /\ FREE_BLOCK_HEADER_SIZE <= ALIGNMENT
  /\ FREE_BLOCK_HEADER_SIZE <= DAM_SMALL_MAX

\* (x + a - 1) & ~(a - 1), for a power of two a.
AlignUp(x, a) == (x + a - 1) - ((x + a - 1) % a)

MIN_BLOCK_SIZE ==
  AlignUp(BLOCK_HEADER_SIZE + DAM_SMALL_MAX + 1 + CANARY_SIZE, ALIGNMENT)

Layers == {"ERROR", "SMALL", "GENERAL", "DIRECT"}

\* The layer a request of this size is sent to.
LayerForSize(size) ==
  CASE size = 0                -> "ERROR"
    [] size \in 1..DAM_SMALL_MAX -> "SMALL"
    [] size \in DAM_SMALL_MAX + 1..DAM_GENERAL_MAX -> "GENERAL"
    [] OTHER                   -> "DIRECT"

\* What a block of the general layer must have, by malloc and by realloc.
ActualSize(size) == AlignUp(AlignUp(size, ALIGNMENT) + CANARY_SIZE, ALIGNMENT)
ReallocSize(size) == AlignUp(size + CANARY_SIZE, ALIGNMENT)

=============================================================================
