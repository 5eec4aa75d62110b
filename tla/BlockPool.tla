------------------------------ MODULE BlockPool ------------------------------
(***************************************************************************)
(* The physical KV block pool (cpp/src/paged.hpp, paged.cpp: BlockPool).   *)
(* A block id is either on the free list, a stack, or held; refcount says  *)
(* by how many holders (the sequences whose block table names it, and the  *)
(* prefix cache).  The module gives the pool's operations as actions on    *)
(* its two variables; PagedKV and PrefixCache call them.                   *)
(*                                                                         *)
(* The callers always allocate, incref and free a number of blocks in a    *)
(* loop, so the operations are stated on all of them at once: the state    *)
(* they give is the one the loop ends in.  That is exact when no block     *)
(* comes twice, which TablesInjective and CachedDistinct of PrefixCache    *)
(* say of the callers.                                                     *)
(***************************************************************************)
EXTENDS Subsequence

CONSTANTS
  NumBlocks,   \* num_blocks: how many physical blocks the pool preallocates
  BlockSize    \* block_size: token slots in a block

ASSUME PoolAssumption ==
  /\ NumBlocks \in Nat \ {0}
  /\ BlockSize \in Nat \ {0}

VARIABLES
  free_list,   \* free_list_: the ids of the free blocks, the top of the stack last
  refcount     \* refcount_: the number of holders of each block, 0 = free

poolVars == <<free_list, refcount>>

Blocks == 0 .. NumBlocks - 1

PoolInit ==
  /\ free_list = [i \in 1 .. NumBlocks |-> NumBlocks - i]
  /\ refcount = [b \in Blocks |-> 0]

-----------------------------------------------------------------------------
\* Mutation: the ids are read from the bottom of the stack that is popped at the top.
Popped_Bottom(n) == [i \in 1 .. n |-> free_list[i]]

(* The ids that n successive calls of allocate() return, in that order. *)
Popped(n) == [i \in 1 .. n |-> free_list[Len(free_list) + 1 - i]]

(* n successive calls of allocate(); the next call throws if the list is empty. *)
Allocate(n) ==
  /\ n <= Len(free_list)
  /\ free_list' = SubSeq(free_list, 1, Len(free_list) - n)
  /\ refcount' = [b \in Blocks |-> IF b \in Range(Popped(n)) THEN 1 ELSE refcount[b]]

\* Mutation: the holder is not counted.
Incref_Uncounted(B) ==
  /\ \A b \in B : refcount[b] > 0
  /\ UNCHANGED <<refcount, free_list>>

(* incref() of every block of the set B; it throws on a block that is free. *)
Incref(B) ==
  /\ \A b \in B : refcount[b] > 0
  /\ refcount' = [b \in Blocks |-> refcount[b] + IF b \in B THEN 1 ELSE 0]
  /\ UNCHANGED free_list

\* Mutation: a block goes on the free list though others hold it.
Free_Shared(blks) ==
  /\ \A b \in Range(blks) : refcount[b] > 0
  /\ refcount' = [b \in Blocks |-> refcount[b] - IF b \in Range(blks) THEN 1 ELSE 0]
  /\ free_list' = free_list \o blks

(* free() of every block of the sequence blks, in order: a block goes back *)
(* on the free list when its last holder frees it.  It throws on a double  *)
(* free.                                                                   *)
Free(blks) ==
  LET last == {b \in Range(blks) : refcount[b] = 1}
  IN  /\ \A b \in Range(blks) : refcount[b] > 0
      /\ refcount' = [b \in Blocks |-> refcount[b] - IF b \in Range(blks) THEN 1 ELSE 0]
      /\ \E s \in [1 .. Cardinality(last) -> last] :
           InOrder(s, last, blks) /\ free_list' = free_list \o s

=============================================================================
