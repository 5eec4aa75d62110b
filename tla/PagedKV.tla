------------------------------- MODULE PagedKV -------------------------------
(***************************************************************************)
(* The paged KV caches of a set of sequences over one BlockPool            *)
(* (cpp/src/paged.cpp: PagedKVCache; cpp/src/model.cpp: the forward pass   *)
(* that drives it).  A cache maps logical position p to slot p % bs of the *)
(* block block_table[p / bs].                                              *)
(*                                                                         *)
(* Data abstraction.  Attention is causal, so the K/V vector a forward     *)
(* computes for a token depends on that token and on the K/V it reads at   *)
(* the earlier positions.  A slot therefore holds the sequence of tokens   *)
(* its K/V encodes: what was READ at the position before it, through the   *)
(* block table, extended by the token.  A forward that read a stale or a   *)
(* foreign slot would write, and carry on, a wrong sequence.  The layers   *)
(* of a model all do the same writes and reads, so one layer is kept.      *)
(***************************************************************************)
EXTENDS BlockPool

CONSTANTS
  Caches,      \* the sequences' caches
  Token,       \* token ids
  MaxSeq       \* the model's context length: a forward past it throws

ASSUME CacheAssumption == MaxSeq \in Nat \ {0}

VARIABLES
  block_table, \* block_table_: logical block -> physical block
  length,      \* length_: positions the cache holds
  slot,        \* the pool's k_/v_ storage: block -> offset -> token sequence encoded
  context      \* the tokens the caller has put in the cache, as the caller knows them

kvVars == <<free_list, refcount, block_table, length, slot, context>>

KVInit ==
  /\ PoolInit
  /\ block_table = [c \in Caches |-> <<>>]
  /\ length = [c \in Caches |-> 0]
  /\ slot = [b \in Blocks |-> [o \in 0 .. BlockSize - 1 |-> <<>>]]
  /\ context = [c \in Caches |-> <<>>]

-----------------------------------------------------------------------------
(* (positions + bs - 1) / bs: the blocks that hold that many positions. *)
BlocksFor(positions) == (positions + BlockSize - 1) \div BlockSize

(* What the slot of position p holds, read through block table bt. *)
SlotAt(bt, p) == slot[bt[p \div BlockSize + 1]][p % BlockSize]

(* The token sequence that the cache's last position encodes. *)
Encoded(c) == IF length[c] = 0 THEN <<>> ELSE SlotAt(block_table[c], length[c] - 1)

(* The blocks ensure_capacity(positions) has still to allocate. *)
Missing(c, positions) ==
  IF BlocksFor(positions) > Len(block_table[c])
    THEN BlocksFor(positions) - Len(block_table[c]) ELSE 0

(* The positions from..to of a cache with block table bt that slot o of    *)
(* block b is.                                                             *)
PositionsOf(b, o, bt, from, to) ==
  {p \in from .. to : bt[p \div BlockSize + 1] = b /\ p % BlockSize = o}

(* The K/V of toks written behind the cache's length through bt. *)
Written(c, toks, bt) ==
  LET from == length[c]
  IN  [b \in Blocks |-> [o \in 0 .. BlockSize - 1 |->
        LET P == PositionsOf(b, o, bt, from, from + Len(toks) - 1)
        IN  IF P = {} THEN slot[b][o]
            ELSE Encoded(c) \o SubSeq(toks, 1, (CHOOSE p \in P : TRUE) - from + 1)]]

(* forward(toks, cache): ensure_capacity, write, attend, and the one       *)
(* advance() after the last layer.                                         *)
Forward(c, toks) ==
  LET n  == Missing(c, length[c] + Len(toks))
      bt == block_table[c] \o Popped(n)
  IN  /\ length[c] + Len(toks) <= MaxSeq
      /\ Allocate(n)
      /\ block_table' = [block_table EXCEPT ![c] = bt]
      /\ slot' = Written(c, toks, bt)
      /\ length' = [length EXCEPT ![c] = @ + Len(toks)]
      /\ context' = [context EXCEPT ![c] = @ \o toks]

(* forward(toks, cache) when ensure_capacity runs the pool dry: allocate() *)
(* throws with the blocks it got already in the table, nothing is written  *)
(* and the length stays.                                                   *)
ForwardOutOfBlocks(c, toks) ==
  /\ length[c] + Len(toks) <= MaxSeq
  /\ Missing(c, length[c] + Len(toks)) > Len(free_list)
  /\ Allocate(Len(free_list))
  /\ block_table' = [block_table EXCEPT ![c] = @ \o Popped(Len(free_list))]
  /\ UNCHANGED <<slot, length, context>>

(* truncate(len): roll the length back, free the blocks wholly behind it.  *)
(* The block that straddles len keeps its stale tail and is written next.  *)
Truncate(c, len) ==
  LET keep == BlocksFor(len)
      bt   == block_table[c]
  IN  /\ len \in 0 .. length[c]
      /\ Free(SubSeq(bt, keep + 1, Len(bt)))
      /\ block_table' = [block_table EXCEPT ![c] = SubSeq(bt, 1, keep)]
      /\ length' = [length EXCEPT ![c] = len]
      /\ context' = [context EXCEPT ![c] = SubSeq(@, 1, len)]
      /\ UNCHANGED slot

(* share_prefix(blocks, len): seed a fresh cache with blocks that already  *)
(* hold the K/V of toks, taking a reference to each.                       *)
SharePrefix(c, blks, toks) ==
  /\ block_table[c] = <<>>
  /\ length[c] = 0
  /\ Len(toks) = Len(blks) * BlockSize
  /\ Incref(Range(blks))
  /\ block_table' = [block_table EXCEPT ![c] = blks]
  /\ length' = [length EXCEPT ![c] = Len(toks)]
  /\ context' = [context EXCEPT ![c] = toks]
  /\ UNCHANGED slot

(* release(), from the destructor: every block goes back. *)
Release(c) ==
  /\ Free(block_table[c])
  /\ block_table' = [block_table EXCEPT ![c] = <<>>]
  /\ length' = [length EXCEPT ![c] = 0]
  /\ context' = [context EXCEPT ![c] = <<>>]
  /\ UNCHANGED slot

=============================================================================
