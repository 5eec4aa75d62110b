----------------------------- MODULE CudaPagedKV -----------------------------
(***************************************************************************)
(* The paged KV caches on the GPU (cpp/src/cuda/cuda_backend.cu:           *)
(* CudaBlockPool, CudaPagedKVCache).  The pool and the host's block tables *)
(* are those of PagedKV; what is new is the copy of each block table that  *)
(* the kernels read.  It is uploaded by its appended tail only, so it is   *)
(* right as long as the count of uploaded entries follows every rollback.  *)
(***************************************************************************)
EXTENDS PrefixCache

VARIABLES
  d_block_table, \* d_block_table_: the device copies, sized to the pool
  d_bt_count     \* d_bt_count_: how many entries of each have been uploaded

deviceVars == <<d_block_table, d_bt_count>>

\* An entry of device memory that nothing was uploaded to.
Unset == NumBlocks

Unsynced == [i \in 1 .. NumBlocks |-> Unset]

DeviceInit ==
  /\ d_block_table = [c \in Caches |-> Unsynced]
  /\ d_bt_count = [c \in Caches |-> 0]

-----------------------------------------------------------------------------
(* The host table that ensure_capacity(end) leaves when the pool suffices. *)
Grown(c, end) == block_table[c] \o Popped(Missing(c, end))

(* The device table after the entries of host table bt behind the count    *)
(* have been uploaded: sync_device_block_table().                          *)
Synced(c, bt) ==
  [i \in 1 .. NumBlocks |->
    IF i \in d_bt_count[c] + 1 .. Len(bt) THEN bt[i] ELSE d_block_table[c][i]]

(* prepare(end): ensure_capacity and the upload. *)
Prepare(c, end) ==
  /\ Allocate(Missing(c, end))
  /\ block_table' = [block_table EXCEPT ![c] = Grown(c, end)]
  /\ d_block_table' = [d_block_table EXCEPT ![c] = Synced(c, Grown(c, end))]
  /\ d_bt_count' = [d_bt_count EXCEPT ![c] = Len(Grown(c, end))]

(* prepare(end) when allocate() throws: the blocks it got are in the host  *)
(* table, and nothing is uploaded.                                         *)
PrepareOutOfBlocks(c, end) ==
  /\ Missing(c, end) > Len(free_list)
  /\ Allocate(Len(free_list))
  /\ block_table' = [block_table EXCEPT ![c] = @ \o Popped(Len(free_list))]
  /\ UNCHANGED <<slot, length, context, cached, deviceVars>>

(* What a kernel reads at position p through device table dt.  Behind an   *)
(* unset entry is any memory; no history is what stands for it.            *)
DeviceRead(dt, p) ==
  LET b == dt[p \div BlockSize + 1]
  IN  IF b = Unset THEN <<>> ELSE slot[b][p % BlockSize]

(* The K/V of ids written at position from and behind through dt: the      *)
(* write and the attention kernels of one forward.                         *)
DeviceWritten(dt, from, ids) ==
  LET base == IF from = 0 THEN <<>> ELSE DeviceRead(dt, from - 1)
  IN  [b \in Blocks |-> [o \in 0 .. BlockSize - 1 |->
        LET P == PositionsOf(b, o, dt, from, from + Len(ids) - 1)
        IN  IF P = {} THEN slot[b][o]
            ELSE base \o SubSeq(ids, 1, (CHOOSE p \in P : TRUE) - from + 1)]]

(* One pass over cache c that the caller means to append toks: the host    *)
(* prepares and advances by them, the kernels write ids at position from.  *)
Pass(c, toks, from, ids) ==
  LET end == length[c] + Len(toks)
  IN  /\ Prepare(c, end)
      /\ slot' = DeviceWritten(Synced(c, Grown(c, end)), from, ids)
      /\ length' = [length EXCEPT ![c] = end]
      /\ context' = [context EXCEPT ![c] = @ \o toks]
      /\ UNCHANGED cached

\* Mutation: truncate() leaves the count of uploaded entries.
Uncounted_Kept(c, len) == UNCHANGED deviceVars

(* The entries behind len count as not uploaded: a block that is allocated *)
(* there again may be another one.                                         *)
Uncounted(c, len) ==
  /\ d_bt_count' = [d_bt_count EXCEPT ![c] = IF @ > BlocksFor(len) THEN BlocksFor(len) ELSE @]
  /\ UNCHANGED d_block_table

(* truncate(len), where its callers may (MayCut). *)
DeviceRollback(c, len) == Rollback(c, len) /\ Uncounted(c, len)

(* The destructor, and a fresh cache in its place. *)
DeviceRelease(c) ==
  /\ Release(c)
  /\ d_block_table' = [d_block_table EXCEPT ![c] = Unsynced]
  /\ d_bt_count' = [d_bt_count EXCEPT ![c] = 0]
  /\ UNCHANGED cached

(* What the host does without a CUDA call: seed, register and clear. *)
HostStep ==
  /\ \/ \E c \in Caches, toks \in Prompts : Seed(c, toks)
     \/ \E c \in Caches : \E m \in 1 .. length[c] : Register(c, SubSeq(context[c], 1, m))
     \/ cached # <<>> /\ Clear
  /\ UNCHANGED deviceVars

-----------------------------------------------------------------------------
(* The uploaded entries are the host's, whatever was rolled back and       *)
(* allocated again in between (CudaPagedKVCache::truncate, "a later        *)
(* re-allocation may hand a slot a DIFFERENT physical block").             *)
DeviceTableCoherent ==
  \A c \in Caches :
    /\ d_bt_count[c] <= Len(block_table[c])
    /\ \A i \in 1 .. d_bt_count[c] : d_block_table[c][i] = block_table[c][i]

=============================================================================
