----------------------------- MODULE PrefixCache -----------------------------
(***************************************************************************)
(* The prefix cache (cpp/python/ni/scheduler.py: PrefixCache) over the     *)
(* paged caches: a map from block-aligned token prefixes to the physical   *)
(* block that holds the last block of that prefix.  It is a holder of      *)
(* every block it stores, so a block outlives the sequence that wrote it.  *)
(*                                                                         *)
(* This module closes the KV storage layer: its specification lets every   *)
(* cache be seeded from the prefix cache, fed, rolled back, registered and *)
(* released in any order, and its invariants say why sharing is exact.     *)
(***************************************************************************)
EXTENDS PagedKV

CONSTANTS
  Prompts,     \* the prompts a sequence may start with
  Chunks       \* the token sequences one forward may be fed

ASSUME StoreAssumption ==
  /\ Prompts \subseteq Seq(Token)
  /\ Chunks \subseteq Seq(Token)
  /\ IsFiniteSet(Caches)

VARIABLE
  cached       \* _blocks: prefix (a token sequence) -> block

vars == <<free_list, refcount, block_table, length, slot, context, cached>>

Init ==
  /\ KVInit
  /\ cached = <<>>

-----------------------------------------------------------------------------
(* held_blocks *)
Held == Cardinality(DOMAIN cached)

(* The key of the first k blocks of toks. *)
Key(toks, k) == SubSeq(toks, 1, k * BlockSize)

(* match(toks) finds n leading blocks: all of them are cached, and the     *)
(* next is not or would leave no token of toks for the suffix.             *)
Matches(toks, n) ==
  LET most == (Len(toks) - 1) \div BlockSize
  IN  /\ n \in 0 .. most
      /\ \A k \in 1 .. n : Key(toks, k) \in DOMAIN cached
      /\ n < most => Key(toks, n + 1) \notin DOMAIN cached

(* The blocks match(toks) returns for n leading blocks. *)
Matched(toks, n) == [k \in 1 .. n |-> cached[Key(toks, k)]]

(* The caller seeds its fresh cache with the longest cached prefix. *)
Seed(c, toks) ==
  \E n \in 1 .. Len(toks) :
    /\ Matches(toks, n)
    /\ SharePrefix(c, Matched(toks, n), Key(toks, n))
    /\ UNCHANGED cached

\* Mutation: register() stores a block again whose prefix has an entry already.
Registered_Again(toks, bt) == {k \in 1 .. (Len(toks) \div BlockSize) : k <= Len(bt)}

(* The logical blocks of toks that register(toks, block_table) adds: those *)
(* that toks fills and whose prefix has no entry yet.                      *)
Registered(toks, bt) ==
  {k \in 1 .. (Len(toks) \div BlockSize) : k <= Len(bt) /\ Key(toks, k) \notin DOMAIN cached}

(* The block of table bt that ends the first len positions. *)
BlockAt(bt, len) == bt[len \div BlockSize]

Register(c, toks) ==
  LET bt   == block_table[c]
      new  == Registered(toks, bt)
      keys == {Key(toks, k) : k \in new}
  IN  /\ Incref({bt[k] : k \in new})
      /\ cached' = [key \in DOMAIN cached \cup keys |->
                      IF key \in keys THEN BlockAt(bt, Len(key)) ELSE cached[key]]
      /\ UNCHANGED <<block_table, length, slot, context>>

(* clear(): give up every block the cache holds.  The entries are distinct *)
(* blocks (CachedDistinct), so the free list grows by each of them   *)
(* that no sequence holds, in the dict's insertion order; the order is     *)
(* left open here.                                                         *)
Clear ==
  \E order \in [1 .. Cardinality(Range(cached)) -> Range(cached)] :
    /\ Range(order) = Range(cached)
    /\ Free(order)
    /\ cached' = <<>>
    /\ UNCHANGED <<block_table, length, slot, context>>

-----------------------------------------------------------------------------
\* Mutation: a caller rolls back into a block that is shared.
MayCut_Anywhere(c, len) == TRUE

(* What truncate() leaves to its callers: the block that len cuts into is  *)
(* written next, so nobody else may hold it.  The speculative scheduler    *)
(* rolls back to positions behind the prompt, whose blocks are the only    *)
(* ones shared.                                                            *)
MayCut(c, len) ==
  len % BlockSize # 0 => refcount[block_table[c][len \div BlockSize + 1]] = 1

Rollback(c, len) ==
  /\ MayCut(c, len)
  /\ Truncate(c, len)
  /\ UNCHANGED cached

Next ==
  \/ \E c \in Caches, toks \in Prompts : Seed(c, toks)
  \/ \E c \in Caches, toks \in Chunks :
       /\ Forward(c, toks) \/ ForwardOutOfBlocks(c, toks)
       /\ UNCHANGED cached
  \/ \E c \in Caches : \E len \in 0 .. length[c] : Rollback(c, len)
  \/ \E c \in Caches : \E m \in 1 .. length[c] : Register(c, SubSeq(context[c], 1, m))
  \/ \E c \in Caches : block_table[c] # <<>> /\ Release(c) /\ UNCHANGED cached
  \/ cached # <<>> /\ Clear

Spec == Init /\ [][Next]_vars

-----------------------------------------------------------------------------
(* Types of the storage layer's state. *)
TypeOK ==
  /\ free_list \in Seq(Blocks)
  /\ refcount \in [Blocks -> Nat]
  /\ block_table \in [Caches -> Seq(Blocks)]
  /\ length \in [Caches -> 0 .. MaxSeq]
  /\ slot \in [Blocks -> [0 .. BlockSize - 1 -> Seq(Token)]]
  /\ context \in [Caches -> Seq(Token)]
  /\ DOMAIN cached \subseteq Seq(Token) /\ \A key \in DOMAIN cached : Len(key) <= MaxSeq
  /\ Range(cached) \subseteq Blocks

(* No block table names a block twice (BlockPool::allocate hands a block   *)
(* to one holder; a seeded table holds one block per prefix).              *)
TablesInjective ==
  \A c \in Caches : \A i, j \in 1 .. Len(block_table[c]) :
    block_table[c][i] = block_table[c][j] => i = j

(* No two prefixes are cached in the same block. *)
CachedDistinct ==
  \A k1, k2 \in DOMAIN cached : cached[k1] = cached[k2] => k1 = k2

(* The sequences and the cached prefixes that hold block b. *)
SeqHolders(b) == {c \in Caches : b \in Range(block_table[c])}
KeyHolders(b) == {k \in DOMAIN cached : cached[k] = b}

(* A block's reference count is exactly the number of its holders, through *)
(* every interleaving of allocation, sharing, rollback, release and clear: *)
(* no leak, no double free (BlockPool::incref / free).                     *)
RefcountExact ==
  \A b \in Blocks :
    refcount[b] = Cardinality(SeqHolders(b)) + Cardinality(KeyHolders(b))

(* The free list names each free block once and no held block.             *)
FreeListExact ==
  /\ \A i, j \in 1 .. Len(free_list) : free_list[i] = free_list[j] => i = j
  /\ Range(free_list) = {b \in Blocks : refcount[b] = 0}

(* So no block leaks, is freed twice or is handed out twice.               *)
BlocksAccounted == RefcountExact /\ FreeListExact

(* Every position of every cache, read through its block table, holds the  *)
(* K/V of exactly the tokens that cache was given up to there: no stale    *)
(* tail after truncate(), no other sequence's write, no recycled block.    *)
KVExact ==
  \A c \in Caches :
    /\ length[c] = Len(context[c])
    /\ length[c] <= BlockSize * Len(block_table[c])
    /\ \A p \in 0 .. length[c] - 1 :
         SlotAt(block_table[c], p) = SubSeq(context[c], 1, p + 1)

(* A cached block holds, in all its slots, the prefix it is cached under,  *)
(* however long ago the sequence that wrote it was released or rolled back.*)
CachedExact ==
  \A key \in DOMAIN cached :
    /\ key # <<>>
    /\ Len(key) % BlockSize = 0
    /\ \A o \in 0 .. BlockSize - 1 :
         slot[cached[key]][o] = SubSeq(key, 1, Len(key) - BlockSize + o + 1)

(* The block a cache writes next, and every block behind it, is its own:   *)
(* what is shared lies wholly before the write frontier.                   *)
FrontierOwned ==
  \A c \in Caches : \A i \in 1 .. Len(block_table[c]) :
    i * BlockSize > length[c] => refcount[block_table[c][i]] = 1

(* The inductive invariant. *)
IInv ==
  /\ TypeOK
  /\ IsFiniteSet(DOMAIN cached)
  /\ TablesInjective
  /\ CachedDistinct
  /\ RefcountExact
  /\ FreeListExact
  /\ FrontierOwned
  /\ KVExact
  /\ CachedExact

(* A step never writes a block that two holders share: copy-on-write is    *)
(* not needed because only whole blocks behind the write frontier are      *)
(* shared (paged.hpp: share_prefix, "the shared blocks stay read-only").   *)
SharedReadOnly ==
  [][\A b \in Blocks : refcount[b] > 1 => slot'[b] = slot[b]]_vars

(* The caches behave as private token histories: what KVHistory promises,  *)
(* with the history read back through the block table.                     *)
Histories == [c \in Caches |-> Encoded(c)]
History == INSTANCE KVHistory WITH history <- Histories
PrivateHistories == History!Spec

=============================================================================
