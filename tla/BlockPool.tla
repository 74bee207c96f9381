------------------------------ MODULE BlockPool ------------------------------
(***************************************************************************)
(* The pools of src/src/core/cmp_memory.c: a buffer of blocks of one size, *)
(* those that are free linked through their first word.  A pointer is an   *)
(* offset into the buffer, or near it.                                     *)
(***************************************************************************)
EXTENDS Integers, FiniteSets

CONSTANTS
  BlockSize,  \* after it was rounded up
  Capacity,
  Nowhere     \* NULL

ASSUME PoolAssumption ==
  /\ BlockSize \in Nat \ {0} /\ Capacity \in Nat
  /\ Nowhere \notin Int

VARIABLES
  freeList,   \* pool->free_list
  next,       \* the link in each block
  held        \* the blocks that the callers of cmp_pool_alloc have

poolVars == <<freeList, next, held>>

Size   == BlockSize * Capacity
Blocks == {i * BlockSize : i \in 0 .. Capacity - 1}

\* The addresses from just below the buffer to just above it.
Pointers == -1 .. Size

\* cmp_pool_init links every block to the one before it.
PoolInit ==
  /\ freeList = IF Capacity = 0 THEN Nowhere ELSE Size - BlockSize
  /\ next = [b \in Blocks |-> IF b = 0 THEN Nowhere ELSE b - BlockSize]
  /\ held = {}

\* A pool without blocks answers NULL, an empty one that memory ran out.
AllocBlock ==
  /\ Capacity # 0 /\ freeList # Nowhere
  /\ held' = held \cup {freeList}
  /\ freeList' = next[freeList]
  /\ UNCHANGED next

\* A plausible bug: the address just past the buffer is taken for a block.
IsBlockOrEnd(p) == 0 <= p /\ p <= Size /\ p % BlockSize = 0

\* The checks of cmp_pool_free.
IsBlock(p) == 0 <= p /\ p < Size /\ p % BlockSize = 0

\* A caller frees what it holds, or a pointer that is no block at all.
FreePointer(p) ==
  /\ p \in held \/ p \notin Blocks
  /\ IsBlock(p)
  /\ next' = [b \in Blocks \cup {p} |-> IF b = p THEN freeList ELSE next[b]]
  /\ freeList' = p
  /\ held' = held \ {p}

PoolNext == AllocBlock \/ \E p \in Pointers : FreePointer(p)
PoolSpec == PoolInit /\ [][PoolNext]_poolVars

-----------------------------------------------------------------------------
\* The free list is f: every link leads to the next element, the last nowhere.
Linked(f, n) ==
  /\ freeList = IF n = 0 THEN Nowhere ELSE f[1]
  /\ \A i \in 1 .. n : next[f[i]] = IF i = n THEN Nowhere ELSE f[i + 1]

(* The free list has every block that nobody holds, once, and no other: no   *)
(* order of allocations and frees, of pointers into the middle of a block or *)
(* beside the buffer too, makes two callers share a block or loses one.      *)
BlocksAreConserved ==
  LET n == Cardinality(Blocks \ held)
  IN  /\ held \subseteq Blocks
      /\ \E f \in [1 .. n -> Blocks \ held] :
           /\ \A i, j \in 1 .. n : f[i] = f[j] => i = j
           /\ Linked(f, n)
=============================================================================
