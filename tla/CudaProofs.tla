------------------------------ MODULE CudaProofs ------------------------------
(***************************************************************************)
(* Proofs about the GPU's caches and the graph decoder over them, for      *)
(* every pool, set of caches, set of decoders and token.                   *)
(***************************************************************************)
EXTENDS CudaGraphDecoder, PrefixCacheProofs

-----------------------------------------------------------------------------
(* The inductive invariant: the storage layer's, the device tables against *)
(* the host's, and at most one decoder, whose own flags and graph go with  *)
(* it.                                                                     *)
DeviceType ==
  /\ d_block_table \in [Caches -> [1 .. NumBlocks -> 0 .. NumBlocks]]
  /\ d_bt_count \in [Caches -> Nat]

DecodersTrue ==
  /\ cache_ \in [Decoders -> Caches \cup {None}]
  /\ captured \subseteq warmed
  /\ warmed \subseteq Alive
  /\ \A d, e \in Alive : d = e

CudaInv ==
  /\ IInv
  /\ DeviceType
  /\ DeviceTableCoherent
  /\ DecodersTrue
  /\ NoDanglingCursor

-----------------------------------------------------------------------------
(* A block table without repetition fits in the device table.              *)
LEMMA TableFits ==
  ASSUME NEW s \in Seq(Blocks), \A i, j \in 1 .. Len(s) : s[i] = s[j] => i = j
  PROVE  Len(s) <= NumBlocks
<1>1. NumBlocks \in Nat /\ Len(s) \in Nat /\ \A i \in 1 .. Len(s) : s[i] \in Blocks
  BY PoolAssumption
<1>2. IsFiniteSet(Blocks) /\ Cardinality(Blocks) = NumBlocks
  <2>1. Cardinality(0 .. NumBlocks - 1) = NumBlocks /\ IsFiniteSet(0 .. NumBlocks - 1)
    BY <1>1, FS_Interval
  <2>. QED
    BY <2>1 DEF Blocks
<1>3. IsFiniteSet(1 .. Len(s)) /\ Cardinality(1 .. Len(s)) = Len(s)
  <2>1. PICK n \in Nat : n = Len(s)
    BY <1>1
  <2>2. IsFiniteSet(1 .. n) /\ Cardinality(1 .. n) = IF 1 > n THEN 0 ELSE n - 1 + 1
    BY FS_Interval
  <2>. QED
    BY <2>1, <2>2
<1>4. PICK f \in [1 .. Len(s) -> Blocks] : \A i \in 1 .. Len(s) : f[i] = s[i]
  <2>1. [i \in 1 .. Len(s) |-> s[i]] \in [1 .. Len(s) -> Blocks]
    BY <1>1
  <2>. QED
    BY <2>1
<1>5. SUFFICES ASSUME Cardinality(Blocks) < Cardinality(1 .. Len(s)) PROVE FALSE
  BY <1>1, <1>2, <1>3
<1>6. \E i, j \in 1 .. Len(s) : i # j /\ f[i] = f[j]
  BY <1>2, <1>3, <1>5, FS_PigeonHole
<1>. QED
  BY <1>4, <1>6, Zenon

(* The upload of the appended tail leaves the device table equal to the    *)
(* host's.                                                                 *)
LEMMA SyncedIsTable ==
  ASSUME DeviceType, DeviceTableCoherent, NEW c \in Caches, NEW bt \in Seq(Blocks),
         Len(bt) <= NumBlocks, Len(block_table[c]) <= Len(bt),
         Len(block_table[c]) \in Nat,
         \A i \in 1 .. Len(block_table[c]) : bt[i] = block_table[c][i]
  PROVE  /\ Synced(c, bt) \in [1 .. NumBlocks -> 0 .. NumBlocks]
         /\ \A i \in 1 .. Len(bt) : Synced(c, bt)[i] = bt[i]
<1>1. /\ NumBlocks \in Nat /\ Len(bt) \in Nat /\ \A i \in 1 .. Len(bt) : bt[i] \in 0 .. NumBlocks - 1
      /\ d_bt_count[c] \in Nat /\ d_bt_count[c] <= Len(block_table[c])
      /\ \A i \in 1 .. d_bt_count[c] : d_block_table[c][i] = block_table[c][i]
      /\ d_block_table[c] \in [1 .. NumBlocks -> 0 .. NumBlocks]
  BY PoolAssumption DEF DeviceType, DeviceTableCoherent, Blocks
<1>2. ASSUME NEW i \in 1 .. NumBlocks
      PROVE  /\ i \in d_bt_count[c] + 1 .. Len(bt) => Synced(c, bt)[i] = bt[i] /\ i \in 1 .. Len(bt)
             /\ i \notin d_bt_count[c] + 1 .. Len(bt) => Synced(c, bt)[i] = d_block_table[c][i]
  BY <1>1 DEF Synced
<1>3. Synced(c, bt) \in [1 .. NumBlocks -> 0 .. NumBlocks]
  <2>1. ASSUME NEW i \in 1 .. NumBlocks
        PROVE  Synced(c, bt)[i] \in 0 .. NumBlocks
    <3>1. \A j \in 1 .. Len(bt) : bt[j] \in 0 .. NumBlocks
      BY <1>1
    <3>2. d_block_table[c][i] \in 0 .. NumBlocks
      BY <1>1
    <3>. QED
      BY <3>1, <3>2, <1>2
  <2>. QED
    BY <2>1 DEF Synced
<1>4. ASSUME NEW i \in 1 .. Len(bt)
      PROVE  Synced(c, bt)[i] = bt[i]
  <2>1. i \in 1 .. NumBlocks
    BY <1>1
  <2>2. CASE i \in d_bt_count[c] + 1 .. Len(bt)
    BY <2>1, <2>2, <1>2
  <2>3. CASE i \notin d_bt_count[c] + 1 .. Len(bt)
    <3>1. i \in 1 .. d_bt_count[c] /\ i \in 1 .. Len(block_table[c])
      BY <2>3, <1>1
    <3>. QED
      BY <3>1, <2>1, <2>3, <1>1, <1>2
  <2>. QED
    BY <2>2, <2>3
<1>. QED
  BY <1>3, <1>4

(* The host table that prepare(end) leaves, and the device's copy of it.   *)
LEMMA PrepareGrows ==
  ASSUME IInv, NEW c \in Caches, NEW end \in Nat, Prepare(c, end), UNCHANGED cached
  PROVE  /\ Missing(c, end) \in Nat
         /\ Grows(c, Missing(c, end))
         /\ block_table'[c] = Grown(c, end)
         /\ Grown(c, end) \in Seq(Blocks)
         /\ Len(block_table[c]) \in Nat
         /\ Len(Grown(c, end)) = Len(block_table[c]) + Missing(c, end)
         /\ \A i \in 1 .. Len(block_table[c]) : Grown(c, end)[i] = block_table[c][i]
         /\ \A d \in Caches \ {c} : block_table'[d] = block_table[d]
         /\ Len(Grown(c, end)) <= NumBlocks
<1>1. Missing(c, end) \in Nat
  BY MissingEnough
<1>2. Grows(c, Missing(c, end))
  BY DEF Grows, Prepare, Grown, IInv, TypeOK
<1>3. block_table'[c] = Grown(c, end) /\ Len(block_table[c]) \in Nat
  BY DEF Prepare, IInv, TypeOK
<1>4. /\ TablesInjective' /\ block_table' \in [Caches -> Seq(Blocks)]
      /\ \A d \in Caches \ {c} : block_table'[d] = block_table[d]
      /\ Len(block_table'[c]) = Len(block_table[c]) + Missing(c, end)
      /\ \A i \in 1 .. Len(block_table[c]) : block_table'[c][i] = block_table[c][i]
  BY <1>1, <1>2, GrowKeeps
<1>5. /\ Grown(c, end) \in Seq(Blocks)
      /\ \A i, j \in 1 .. Len(Grown(c, end)) : Grown(c, end)[i] = Grown(c, end)[j] => i = j
  BY <1>3, <1>4 DEF TablesInjective
<1>6. Len(Grown(c, end)) <= NumBlocks
  BY <1>5, TableFits
<1>. QED
  BY <1>1, <1>2, <1>3, <1>4, <1>5, <1>6

LEMMA PrepareKeepsDevice ==
  ASSUME IInv, DeviceType, DeviceTableCoherent,
         NEW c \in Caches, NEW end \in Nat, Prepare(c, end), UNCHANGED cached
  PROVE  /\ DeviceType' /\ DeviceTableCoherent'
         /\ \A i \in 1 .. Len(Grown(c, end)) : Synced(c, Grown(c, end))[i] = Grown(c, end)[i]
<1>. DEFINE G == Grown(c, end)
<1>1. /\ block_table'[c] = G /\ G \in Seq(Blocks) /\ Len(G) \in Nat /\ Len(G) <= NumBlocks
      /\ Len(block_table[c]) \in Nat /\ Len(block_table[c]) <= Len(G)
      /\ \A i \in 1 .. Len(block_table[c]) : G[i] = block_table[c][i]
      /\ \A d \in Caches \ {c} : block_table'[d] = block_table[d]
  BY PrepareGrows
<1>2. /\ d_block_table' = [d_block_table EXCEPT ![c] = Synced(c, G)]
      /\ d_bt_count' = [d_bt_count EXCEPT ![c] = Len(G)]
  BY DEF Prepare
<1>. HIDE DEF G
<1>3. /\ Synced(c, G) \in [1 .. NumBlocks -> 0 .. NumBlocks]
      /\ \A i \in 1 .. Len(G) : Synced(c, G)[i] = G[i]
  BY <1>1, SyncedIsTable
<1>4. DeviceType'
  BY <1>1, <1>2, <1>3 DEF DeviceType
<1>5. DeviceTableCoherent'
  BY <1>1, <1>2, <1>3 DEF DeviceTableCoherent, DeviceType
<1>. QED
  BY <1>3, <1>4, <1>5 DEF G

-----------------------------------------------------------------------------
(* A pass whose kernels are fed the position and the tokens of the caller  *)
(* is the forward of the paged caches.                                     *)
LEMMA PassIsForward ==
  ASSUME IInv, DeviceType, DeviceTableCoherent,
         NEW c \in Caches, NEW toks \in Seq(Token),
         length[c] + Len(toks) <= MaxSeq, Pass(c, toks, length[c], toks)
  PROVE  Forward(c, toks) /\ UNCHANGED cached
<1>. DEFINE from == length[c]
            end == length[c] + Len(toks)
            G == Grown(c, end)
            dt == Synced(c, G)
            L == Len(block_table[c])
<1>1. /\ from \in Nat /\ Len(toks) \in Nat /\ end \in Nat /\ L \in Nat
      /\ from <= BlockSize * L /\ block_table[c] \in Seq(Blocks)
      /\ BlockSize \in Nat /\ NumBlocks \in Nat
  BY PoolAssumption, CacheAssumption DEF IInv, TypeOK, KVExact
<1>2. /\ Prepare(c, end) /\ cached' = cached
      /\ slot' = DeviceWritten(dt, from, toks)
      /\ length' = [length EXCEPT ![c] = end]
      /\ context' = [context EXCEPT ![c] = @ \o toks]
  BY DEF Pass
<1>3. /\ G \in Seq(Blocks) /\ Len(G) \in Nat /\ Len(G) = L + Missing(c, end)
      /\ \A i \in 1 .. L : G[i] = block_table[c][i]
  BY <1>1, <1>2, PrepareGrows
<1>4. \A i \in 1 .. Len(G) : dt[i] = G[i]
  BY <1>1, <1>2, PrepareKeepsDevice
<1>5. end <= BlockSize * Len(G)
  BY <1>1, <1>3, MissingEnough
<1>. HIDE DEF G, dt, L, end, from
<1>6. ASSUME NEW p \in from .. from + Len(toks) - 1
      PROVE  dt[p \div BlockSize + 1] = G[p \div BlockSize + 1]
  <2>1. p \in Nat /\ p < BlockSize * Len(G)
    <3>1. end = from + Len(toks) /\ BlockSize * Len(G) \in Nat
      BY <1>1, <1>3 DEF from, end
    <3>. QED
      BY <3>1, <1>1, <1>3, <1>5
  <2>. QED
    BY <2>1, <1>3, <1>4, BlockIndex
<1>7. \A b \in Blocks, o \in 0 .. BlockSize - 1 :
        PositionsOf(b, o, dt, from, from + Len(toks) - 1)
          = PositionsOf(b, o, G, from, from + Len(toks) - 1)
  BY <1>6 DEF PositionsOf
<1>8. (IF from = 0 THEN <<>> ELSE DeviceRead(dt, from - 1)) = Encoded(c)
  <2>1. CASE from = 0
    BY <2>1 DEF Encoded, from
  <2>2. CASE from # 0
    <3>. DEFINE i == (from - 1) \div BlockSize + 1
    <3>1. from - 1 \in Nat /\ from - 1 < BlockSize * L
      BY <2>2, <1>1
    <3>2. i \in 1 .. L /\ i \in 1 .. Len(G)
      <4>1. i \in 1 .. L
        BY <3>1, <1>1, BlockIndex
      <4>2. Missing(c, end) \in Nat
        BY <1>1, MissingEnough
      <4>. HIDE DEF i
      <4>. QED
        BY <4>1, <4>2, <1>1, <1>3
    <3>. HIDE DEF i
    <3>3. dt[i] = block_table[c][i] /\ block_table[c][i] \in Blocks
      BY <3>2, <1>1, <1>3, <1>4 DEF L
    <3>4. dt[i] # Unset
      BY <3>3, <1>1 DEF Unset, Blocks
    <3>5. DeviceRead(dt, from - 1) = slot[block_table[c][i]][(from - 1) % BlockSize]
      BY <3>3, <3>4 DEF DeviceRead, i
    <3>. QED
      BY <2>2, <3>5 DEF Encoded, SlotAt, i, from
  <2>. QED
    BY <2>1, <2>2
<1>9. DeviceWritten(dt, from, toks) = Written(c, toks, G)
  <2>. DEFINE Q(b, o, t) == PositionsOf(b, o, t, from, from + Len(toks) - 1)
              W(b, o, P, base) ==
                IF P = {} THEN slot[b][o]
                ELSE base \o SubSeq(toks, 1, (CHOOSE p \in P : TRUE) - from + 1)
  <2>1. DeviceWritten(dt, from, toks)
          = [b \in Blocks |-> [o \in 0 .. BlockSize - 1 |->
               W(b, o, Q(b, o, dt), IF from = 0 THEN <<>> ELSE DeviceRead(dt, from - 1))]]
    BY Zenon DEF DeviceWritten
  <2>2. Written(c, toks, G)
          = [b \in Blocks |-> [o \in 0 .. BlockSize - 1 |-> W(b, o, Q(b, o, G), Encoded(c))]]
    BY Zenon DEF Written, from
  <2>3. \A b \in Blocks, o \in 0 .. BlockSize - 1 : Q(b, o, dt) = Q(b, o, G)
    BY <1>7
  <2>. HIDE DEF Q, W
  <2>. QED
    BY <1>8, <2>1, <2>2, <2>3
<1>10. Forward(c, toks)
  <2>1. /\ Allocate(Missing(c, end)) /\ G = block_table[c] \o Popped(Missing(c, end))
        /\ block_table' = [block_table EXCEPT ![c] = G]
    BY <1>2 DEF Prepare, G, Grown
  <2>2. slot' = Written(c, toks, G)
    BY <1>2, <1>9
  <2>. QED
    BY <2>1, <2>2, <1>2 DEF Forward, end
<1>. QED
  BY <1>2, <1>10

-----------------------------------------------------------------------------
(* The steps.  Each is a step of the storage layer, or a table that grows, *)
(* and keeps the device's tables.                                          *)
Storage == Next \/ \E c \in Caches, n \in 0 .. NumBlocks : Reserve(c, n)

DeviceKept == DeviceType' /\ DeviceTableCoherent'

(* A prepared table behind which nothing is written.                       *)
LEMMA PrepareReserves ==
  ASSUME IInv, DeviceType, DeviceTableCoherent, NEW c \in Caches, NEW end \in Nat,
         Prepare(c, end), UNCHANGED <<slot, length, context, cached>>
  PROVE  Storage /\ DeviceKept
<1>1. /\ Missing(c, end) \in Nat /\ Len(block_table[c]) \in Nat
      /\ Len(block_table[c]) + Missing(c, end) <= NumBlocks
  BY PrepareGrows
<1>2. Missing(c, end) \in 0 .. NumBlocks
  BY <1>1, PoolAssumption
<1>3. Reserve(c, Missing(c, end))
  BY DEF Reserve, Prepare, Grown, IInv, TypeOK
<1>4. DeviceKept
  BY PrepareKeepsDevice DEF DeviceKept
<1>. QED
  BY <1>2, <1>3, <1>4 DEF Storage

(* The blocks that prepare() got before it ran the pool dry.               *)
LEMMA OutOfBlocksReserves ==
  ASSUME IInv, DeviceType, DeviceTableCoherent, NEW c \in Caches, NEW end \in Nat,
         PrepareOutOfBlocks(c, end)
  PROVE  Storage /\ DeviceKept
<1>. DEFINE n == Len(free_list)
<1>1. n \in Nat /\ free_list \in Seq(Blocks)
  BY DEF IInv, TypeOK
<1>2. n <= NumBlocks
  BY <1>1, TableFits DEF IInv, FreeListExact
<1>3. Reserve(c, n) /\ UNCHANGED deviceVars
  BY DEF PrepareOutOfBlocks, Reserve
<1>4. Storage
  <2>1. n \in 0 .. NumBlocks
    BY <1>1, <1>2, PoolAssumption
  <2>. QED
    BY <2>1, <1>3 DEF Storage
<1>5. /\ \A d \in Caches \ {c} : block_table'[d] = block_table[d]
      /\ Len(block_table'[c]) = Len(block_table[c]) + n
      /\ \A i \in 1 .. Len(block_table[c]) : block_table'[c][i] = block_table[c][i]
      /\ Len(block_table[c]) \in Nat
  <2>1. Grows(c, n)
    BY <1>3 DEF Grows, Reserve
  <2>. QED
    BY <2>1, <1>1, GrowKeeps DEF IInv, TypeOK
<1>6. d_block_table' = d_block_table /\ d_bt_count' = d_bt_count
  BY <1>3 DEF deviceVars
<1>. HIDE DEF n
<1>7. DeviceType'
  BY <1>6 DEF DeviceType
<1>8. DeviceTableCoherent'
  <2>. SUFFICES ASSUME NEW d \in Caches
                PROVE  /\ d_bt_count[d] <= Len(block_table'[d])
                       /\ \A i \in 1 .. d_bt_count[d] : d_block_table[d][i] = block_table'[d][i]
    BY <1>6 DEF DeviceTableCoherent
  <2>1. /\ d_bt_count[d] \in Nat /\ d_bt_count[d] <= Len(block_table[d])
        /\ \A i \in 1 .. d_bt_count[d] : d_block_table[d][i] = block_table[d][i]
    BY DEF DeviceType, DeviceTableCoherent
  <2>2. CASE d = c
    BY <2>1, <2>2, <1>1, <1>5
  <2>3. CASE d # c
    BY <2>1, <2>3, <1>5
  <2>. QED
    BY <2>2, <2>3
<1>. QED
  BY <1>4, <1>7, <1>8 DEF DeviceKept

(* A pass that the device words, or the host, feed rightly.                *)
LEMMA PassStep ==
  ASSUME IInv, DeviceType, DeviceTableCoherent, NEW c \in Caches, NEW toks \in Chunks,
         length[c] + Len(toks) <= MaxSeq, Pass(c, toks, length[c], toks)
  PROVE  Storage /\ DeviceKept
<1>1. toks \in Seq(Token)
  BY StoreAssumption
<1>2. Forward(c, toks) /\ UNCHANGED cached
  BY <1>1, PassIsForward
<1>3. Storage
  BY <1>2 DEF Storage, Next
<1>4. length[c] + Len(toks) \in Nat
  BY <1>1, CacheAssumption DEF IInv, TypeOK
<1>5. Prepare(c, length[c] + Len(toks)) /\ UNCHANGED cached
  BY DEF Pass
<1>6. DeviceKept
  BY <1>4, <1>5, PrepareKeepsDevice DEF DeviceKept
<1>. QED
  BY <1>3, <1>6

(* The blocks a rollback keeps are in the table.                           *)
LEMMA KeepInTable ==
  ASSUME IInv, NEW c \in Caches, NEW len \in 0 .. length[c]
  PROVE  BlocksFor(len) \in 0 .. Len(block_table[c])
<1>. DEFINE L == Len(block_table[c])
            k == BlocksFor(len)
            B == BlockSize
<1>1. /\ len \in Nat /\ L \in Nat /\ B \in Nat \ {0} /\ len <= B * L
  BY PoolAssumption, CacheAssumption DEF IInv, TypeOK, KVExact
<1>2. k \in Nat /\ \A i \in Nat : i <= k <=> B * (i - 1) < len \/ i = 0
  BY <1>1, BlocksForCovers
<1>. HIDE DEF L, k, B
<1>3. L + 1 <= k <=> B * (L + 1 - 1) < len \/ L + 1 = 0
  BY <1>1, <1>2
<1>4. L + 1 - 1 = L /\ L + 1 # 0
  BY <1>1
<1>5. B * L \in Nat
  BY <1>1
<1>. QED
  BY <1>1, <1>2, <1>3, <1>4, <1>5 DEF L, k

(* A rollback forgets the uploads behind it.                               *)
LEMMA DeviceRollbackKeeps ==
  ASSUME IInv, DeviceType, DeviceTableCoherent,
         NEW c \in Caches, NEW len \in 0 .. length[c], DeviceRollback(c, len)
  PROVE  Storage /\ DeviceKept
<1>. DEFINE keep == BlocksFor(len)
            bt == block_table[c]
<1>1. Storage
  BY DEF DeviceRollback, Storage, Next
<1>2. /\ len \in Nat /\ keep \in Nat /\ bt \in Seq(Blocks) /\ Len(bt) \in Nat
  BY BlocksForCovers, CacheAssumption DEF IInv, TypeOK
<1>3. block_table' = [block_table EXCEPT ![c] = SubSeq(bt, 1, keep)]
  BY DEF DeviceRollback, Rollback, Truncate
<1>4. /\ d_bt_count' = [d_bt_count EXCEPT ![c] = IF @ > keep THEN keep ELSE @]
      /\ d_block_table' = d_block_table
  BY DEF DeviceRollback, Uncounted
<1>. HIDE DEF keep
<1>5. DeviceType'
  BY <1>2, <1>4 DEF DeviceType
<1>6. DeviceTableCoherent'
  <2>. SUFFICES ASSUME NEW d \in Caches
                PROVE  /\ d_bt_count'[d] <= Len(block_table'[d])
                       /\ \A i \in 1 .. d_bt_count'[d] : d_block_table[d][i] = block_table'[d][i]
    BY <1>4 DEF DeviceTableCoherent
  <2>1. /\ d_bt_count[d] \in Nat /\ d_bt_count[d] <= Len(block_table[d])
        /\ \A i \in 1 .. d_bt_count[d] : d_block_table[d][i] = block_table[d][i]
    BY DEF DeviceType, DeviceTableCoherent
  <2>2. CASE d = c
    <3>1. keep <= Len(bt)
      <4>1. keep \in 0 .. Len(bt)
        BY KeepInTable DEF keep
      <4>. QED
        BY <4>1, <1>2
    <3>2. /\ block_table'[c] = SubSeq(bt, 1, keep)
          /\ d_bt_count'[c] = IF d_bt_count[c] > keep THEN keep ELSE d_bt_count[c]
      BY <1>3, <1>4 DEF IInv, TypeOK, DeviceType
    <3>3. Len(block_table'[c]) = keep /\ \A i \in 1 .. keep : block_table'[c][i] = bt[i]
      BY <3>1, <3>2, <1>2
    <3>. QED
      BY <2>1, <2>2, <3>2, <3>3, <1>2
  <2>3. CASE d # c
    BY <2>1, <2>3, <1>3, <1>4 DEF IInv, TypeOK, DeviceType
  <2>. QED
    BY <2>2, <2>3
<1>. QED
  BY <1>1, <1>5, <1>6 DEF DeviceKept

(* The host's own steps, none of which touches a table that was uploaded.  *)
LEMMA HostKeeps ==
  ASSUME IInv, DeviceType, DeviceTableCoherent, Host
  PROVE  Storage /\ DeviceKept
<1>1. CASE HostStep
  <2>1. CASE \E d \in Caches, toks \in Prompts : Seed(d, toks)
    <3>1. PICK d \in Caches, toks \in Prompts : Seed(d, toks)
      BY <2>1
    <3>2. Storage
      BY <3>1 DEF Storage, Next
    <3>3. PICK blks : block_table[d] = <<>> /\ block_table' = [block_table EXCEPT ![d] = blks]
      BY <3>1 DEF Seed, SharePrefix
    <3>4. d_bt_count[d] = 0
      BY <3>3 DEF DeviceType, DeviceTableCoherent
    <3>5. DeviceType'
      BY <1>1 DEF DeviceType, HostStep, deviceVars
    <3>6. DeviceTableCoherent'
      <4>. SUFFICES ASSUME NEW e \in Caches
                    PROVE  /\ d_bt_count[e] <= Len(block_table'[e])
                           /\ \A i \in 1 .. d_bt_count[e] : d_block_table[e][i] = block_table'[e][i]
        BY <1>1 DEF DeviceTableCoherent, HostStep, deviceVars
      <4>1. CASE e = d
        <5>1. IInv'
          BY <3>1, SeedKeeps
        <5>2. Len(block_table'[e]) \in Nat
          BY <5>1 DEF IInv, TypeOK
        <5>. QED
          BY <4>1, <5>2, <3>4
      <4>2. CASE e # d
        BY <4>2, <3>3 DEF DeviceTableCoherent, IInv, TypeOK
      <4>. QED
        BY <4>1, <4>2
    <3>. QED
      BY <3>2, <3>5, <3>6 DEF DeviceKept
  <2>2. CASE \/ \E d \in Caches : \E m \in 1 .. length[d] : Register(d, SubSeq(context[d], 1, m))
             \/ cached # <<>> /\ Clear
    <3>1. Storage
      BY <2>2 DEF Storage, Next
    <3>2. block_table' = block_table /\ UNCHANGED deviceVars
      BY <2>2, <1>1 DEF Register, Clear, HostStep
    <3>. QED
      BY <3>1, <3>2 DEF DeviceKept, DeviceType, DeviceTableCoherent, deviceVars
  <2>. QED
    BY <1>1, <2>1, <2>2 DEF HostStep
<1>2. ASSUME NEW c \in Caches, NEW len \in 0 .. length[c], DeviceRollback(c, len)
      PROVE  Storage /\ DeviceKept
  BY <1>2, DeviceRollbackKeeps
<1>3. ASSUME NEW c \in Caches, block_table[c] # <<>>, DeviceRelease(c)
      PROVE  Storage /\ DeviceKept
  <2>1. Storage
    BY <1>3 DEF DeviceRelease, Storage, Next
  <2>2. /\ block_table' = [block_table EXCEPT ![c] = <<>>]
        /\ d_block_table' = [d_block_table EXCEPT ![c] = Unsynced]
        /\ d_bt_count' = [d_bt_count EXCEPT ![c] = 0]
    BY <1>3 DEF DeviceRelease, Release
  <2>3. Unsynced \in [1 .. NumBlocks -> 0 .. NumBlocks]
    BY PoolAssumption DEF Unsynced, Unset
  <2>4. DeviceType'
    BY <2>2, <2>3 DEF DeviceType
  <2>5. DeviceTableCoherent'
    <3>. SUFFICES ASSUME NEW d \in Caches
                  PROVE  /\ d_bt_count'[d] <= Len(block_table'[d])
                         /\ \A i \in 1 .. d_bt_count'[d] : d_block_table'[d][i] = block_table'[d][i]
      BY DEF DeviceTableCoherent
    <3>1. CASE d = c
      BY <3>1, <2>2 DEF DeviceType, IInv, TypeOK
    <3>2. CASE d # c
      BY <3>2, <2>2 DEF DeviceType, IInv, TypeOK, DeviceTableCoherent
    <3>. QED
      BY <3>1, <3>2
  <2>. QED
    BY <2>1, <2>4, <2>5 DEF DeviceKept
<1>. QED
  BY <1>1, <1>2, <1>3 DEF Host

(* An eager forward: the host's length and the host's tokens feed it.      *)
LEMMA EagerStep ==
  ASSUME IInv, DeviceType, DeviceTableCoherent, NEW c \in Caches, NEW toks \in Chunks,
         Eager(c, toks)
  PROVE  Storage /\ DeviceKept
<1>1. Position(c) = length[c] /\ Ids(toks) = toks
  BY DEF Eager, MayForward, Position, Ids
<1>2. Pass(c, toks, length[c], toks) /\ length[c] + Len(toks) <= MaxSeq
  BY <1>1 DEF Eager
<1>. QED
  BY <1>2, PassStep

(* A launch of the captured graph, at the position just fed.               *)
LEMMA LaunchStep ==
  ASSUME IInv, DeviceType, DeviceTableCoherent, NEW c \in Caches, NEW tok \in Decoded,
         length[c] < MaxSeq, Launch(c, tok)
  PROVE  Storage /\ DeviceKept
<1>1. <<tok>> \in Chunks /\ Len(<<tok>>) = 1
  BY GraphAssumption
<1>2. length[c] + Len(<<tok>>) <= MaxSeq
  BY <1>1, CacheAssumption DEF IInv, TypeOK
<1>3. Pass(c, <<tok>>, length[c], <<tok>>)
  BY DEF Launch
<1>. QED
  BY <1>1, <1>2, <1>3, PassStep

-----------------------------------------------------------------------------
(* What a decoder that is alive, and not captured, knows of the others.    *)
LEMMA OneDecoder ==
  ASSUME DecodersTrue, NEW d \in Alive \ captured
  PROVE  captured = {} /\ d \in Decoders /\ cache_[d] \in Caches
<1>1. d \in Decoders /\ cache_[d] \in Caches
  BY DEF DecodersTrue, Alive
<1>2. \A e \in captured : e = d
  BY DEF DecodersTrue
<1>. QED
  BY <1>1, <1>2

(* The steps of the decoders. *)
LEMMA DecoderSteps ==
  ASSUME CudaInv, NEW d \in Decoders
  PROVE  /\ DecodeOutOfBlocks(d) \/ DecodeWarmRaises(d) => Storage /\ DeviceKept
         /\ \A tok \in Decoded :
              DecodeWarm(d, tok) \/ DecodeCapture(d, tok) \/ DecodeCaptureRaises(d, tok)
                \/ DecodeReplay(d, tok) => Storage /\ DeviceKept
<1>. DEFINE c == cache_[d]
<1>1. IInv /\ DeviceType /\ DeviceTableCoherent /\ DecodersTrue
  BY DEF CudaInv
<1>2. d \in Alive => c \in Caches /\ length[c] \in Nat /\ MaxSeq \in Nat
  BY <1>1, CacheAssumption DEF Alive, DecodersTrue, IInv, TypeOK
<1>3. ASSUME DecodeOutOfBlocks(d) PROVE Storage /\ DeviceKept
  <2>1. d \in Alive /\ PrepareOutOfBlocks(c, length[c] + 1)
    BY <1>3 DEF DecodeOutOfBlocks
  <2>2. c \in Caches /\ length[c] + 1 \in Nat
    BY <2>1, <1>2
  <2>. QED
    BY <2>1, <2>2, <1>1, OutOfBlocksReserves
<1>4. ASSUME DecodeWarmRaises(d) PROVE Storage /\ DeviceKept
  <2>1. d \in Alive /\ Prepare(c, MaxSeq + 1) /\ UNCHANGED <<slot, length, context, cached>>
    BY <1>4 DEF DecodeWarmRaises
  <2>2. c \in Caches /\ MaxSeq + 1 \in Nat
    BY <2>1, <1>2
  <2>. QED
    BY <2>1, <2>2, <1>1, PrepareReserves
<1>5. ASSUME NEW tok \in Decoded, DecodeWarm(d, tok) PROVE Storage /\ DeviceKept
  <2>1. d \in Alive /\ Eager(c, <<tok>>) /\ <<tok>> \in Chunks
    BY <1>5, GraphAssumption DEF DecodeWarm
  <2>. QED
    BY <2>1, <1>1, <1>2, EagerStep
<1>6. ASSUME NEW tok \in Decoded, DecodeCapture(d, tok) PROVE Storage /\ DeviceKept
  <2>1. d \in Alive /\ length[c] < MaxSeq /\ Launch(c, tok)
    BY <1>6 DEF DecodeCapture
  <2>. QED
    BY <2>1, <1>1, <1>2, LaunchStep
<1>7. ASSUME NEW tok \in Decoded, DecodeReplay(d, tok) PROVE Storage /\ DeviceKept
  <2>1. d \in Alive /\ length[c] < MaxSeq /\ Launch(c, tok)
    BY <1>7, <1>1 DEF DecodeReplay, DecodersTrue
  <2>. QED
    BY <2>1, <1>1, <1>2, LaunchStep
<1>8. ASSUME NEW tok \in Decoded, DecodeCaptureRaises(d, tok) PROVE Storage /\ DeviceKept
  <2>1. /\ d \in Alive \ captured /\ Prepare(c, length[c] + 1)
        /\ length' = [length EXCEPT ![c] = @ + IF @ < MaxSeq /\ captured # {} THEN 1 ELSE 0]
        /\ UNCHANGED <<slot, context, cached>>
    BY <1>8 DEF DecodeCaptureRaises
  <2>2. captured = {} /\ c \in Caches /\ length[c] + 1 \in Nat
    BY <2>1, <1>1, <1>2, OneDecoder
  <2>3. length' = length
    BY <2>1, <2>2, <1>1, <1>2 DEF IInv, TypeOK
  <2>. QED
    BY <2>1, <2>2, <2>3, <1>1, PrepareReserves
<1>. QED
  BY <1>3, <1>4, <1>5, <1>6, <1>7, <1>8

(* A step keeps the decoders' flags, and the globals never name a decoder  *)
(* that is gone.                                                           *)
LEMMA DecodersKept ==
  ASSUME DecodersTrue, NoDanglingCursor, CudaNext
  PROVE  DecodersTrue' /\ NoDanglingCursor'
<1>. USE DEF DecodersTrue, NoDanglingCursor, Alive
<1>1. CASE Host \/ \E c \in Caches, toks \in Prefilled : EagerForward(c, toks) \/ EagerOutOfBlocks(c, toks)
  BY <1>1 DEF Host, EagerForward, EagerOutOfBlocks, graphVars
<1>2. ASSUME NEW d \in Decoders, NEW c \in Caches, Construct(d, c)
      PROVE  DecodersTrue' /\ NoDanglingCursor'
  <2>1. /\ cache_' = [cache_ EXCEPT ![d] = c] /\ Alive = {}
        /\ warmed' = warmed /\ captured' = captured /\ cursor' = cursor
    BY <1>2 DEF Construct
  <2>2. Alive' \subseteq {d}
    BY <2>1
  <2>. QED
    BY <2>1, <2>2
<1>3. ASSUME NEW d \in Decoders, Destroy(d)
      PROVE  DecodersTrue' /\ NoDanglingCursor'
  <2>1. /\ cache_' = [cache_ EXCEPT ![d] = None] /\ cursor' = None
        /\ warmed' = warmed \ {d} /\ captured' = captured \ {d}
    BY <1>3 DEF Destroy, CursorCleared
  <2>2. Alive' = Alive \ {d}
    BY <2>1
  <2>. QED
    BY <2>1, <2>2
<1>4. ASSUME NEW d \in Decoders, DecodeOutOfBlocks(d) \/ DecodeWarmRaises(d)
      PROVE  DecodersTrue' /\ NoDanglingCursor'
  <2>1. CASE DecodeOutOfBlocks(d)
    BY <2>1 DEF DecodeOutOfBlocks, graphVars
  <2>2. CASE DecodeWarmRaises(d)
    BY <2>2 DEF DecodeWarmRaises
  <2>. QED
    BY <1>4, <2>1, <2>2
<1>5. ASSUME NEW d \in Decoders, NEW tok \in Decoded, DecodeWarm(d, tok)
      PROVE  DecodersTrue' /\ NoDanglingCursor'
  BY <1>5 DEF DecodeWarm
<1>6. ASSUME NEW d \in Decoders, NEW tok \in Decoded,
             DecodeCapture(d, tok) \/ DecodeCaptureRaises(d, tok) \/ DecodeReplay(d, tok)
      PROVE  DecodersTrue' /\ NoDanglingCursor'
  <2>1. /\ cache_' = cache_ /\ warmed' = warmed
        /\ \/ captured' = captured /\ cursor' = cursor
           \/ d \in Alive \cap warmed /\ cursor' = d /\ captured' \in {captured, captured \cup {d}}
    BY <1>6 DEF DecodeCapture, DecodeCaptureRaises, DecodeReplay
  <2>. QED
    BY <2>1
<1>. QED
  BY <1>1, <1>2, <1>3, <1>4, <1>5, <1>6 DEF CudaNext

-----------------------------------------------------------------------------
(* The specification. *)
LEMMA StorageKeeps ==
  ASSUME IInv, [Storage]_vars
  PROVE  IInv'
<1>1. ASSUME NEW c \in Caches, NEW n \in 0 .. NumBlocks, Reserve(c, n)
      PROVE  IInv'
  <2>1. Grows(c, n) /\ UNCHANGED <<slot, length, context>> /\ n \in Nat
    BY <1>1, PoolAssumption DEF Reserve, Grows
  <2>. QED
    BY <2>1, ReserveKeeps
<1>. QED
  BY <1>1, NextIInv DEF Storage

LEMMA CudaStep ==
  ASSUME CudaInv, [CudaNext]_cudaVars
  PROVE  [Storage]_vars /\ CudaInv'
<1>1. IInv /\ DeviceType /\ DeviceTableCoherent /\ DecodersTrue /\ NoDanglingCursor
  BY DEF CudaInv
<1>2. CASE CudaNext
  <2>1. \/ Storage /\ DeviceKept
        \/ UNCHANGED <<vars, deviceVars>>
    <3>1. CASE Host
      BY <3>1, <1>1, HostKeeps
    <3>2. ASSUME NEW c \in Caches, NEW toks \in Prefilled, EagerForward(c, toks)
          PROVE  Storage /\ DeviceKept
      BY <3>2, <1>1, EagerStep, GraphAssumption DEF EagerForward
    <3>3. ASSUME NEW c \in Caches, NEW toks \in Prefilled, EagerOutOfBlocks(c, toks)
          PROVE  Storage /\ DeviceKept
      <4>1. toks \in Seq(Token) /\ length[c] \in Nat /\ Len(toks) \in Nat
        BY <1>1, GraphAssumption, StoreAssumption, CacheAssumption DEF IInv, TypeOK
      <4>2. length[c] + Len(toks) <= MaxSeq /\ PrepareOutOfBlocks(c, length[c] + Len(toks))
        BY <3>3 DEF EagerOutOfBlocks
      <4>. QED
        BY <4>1, <4>2, <1>1, OutOfBlocksReserves
    <3>4. ASSUME NEW d \in Decoders,
                 Destroy(d) \/ \E c \in Caches : Construct(d, c)
          PROVE  UNCHANGED <<vars, deviceVars>>
      BY <3>4 DEF Destroy, Construct
    <3>5. ASSUME NEW d \in Decoders, DecodeOutOfBlocks(d) \/ DecodeWarmRaises(d)
          PROVE  Storage /\ DeviceKept
      BY <3>5, DecoderSteps
    <3>6. ASSUME NEW d \in Decoders, NEW tok \in Decoded,
                 DecodeWarm(d, tok) \/ DecodeCapture(d, tok) \/ DecodeCaptureRaises(d, tok)
                   \/ DecodeReplay(d, tok)
          PROVE  Storage /\ DeviceKept
      BY <3>6, DecoderSteps
    <3>. QED
      BY <1>2, <3>1, <3>2, <3>3, <3>4, <3>5, <3>6 DEF CudaNext
  <2>2. [Storage]_vars /\ DeviceType' /\ DeviceTableCoherent'
    BY <1>1, <2>1 DEF DeviceKept, DeviceType, DeviceTableCoherent, deviceVars, vars
  <2>3. IInv'
    BY <1>1, <2>2, StorageKeeps
  <2>4. DecodersTrue' /\ NoDanglingCursor'
    BY <1>1, <1>2, DecodersKept
  <2>. QED
    BY <2>2, <2>3, <2>4 DEF CudaInv
<1>3. CASE UNCHANGED cudaVars
  <2>1. UNCHANGED <<vars, deviceVars, graphVars>>
    BY <1>3 DEF cudaVars
  <2>2. IInv'
    BY <1>1, <2>1, StorageKeeps
  <2>3. DeviceType' /\ DeviceTableCoherent'
    BY <1>1, <2>1 DEF DeviceType, DeviceTableCoherent, deviceVars, vars
  <2>4. DecodersTrue' /\ NoDanglingCursor'
    BY <1>1, <2>1 DEF DecodersTrue, NoDanglingCursor, Alive, graphVars
  <2>. QED
    BY <2>1, <2>2, <2>3, <2>4 DEF CudaInv
<1>. QED
  BY <1>2, <1>3

LEMMA InitCudaInv == GraphInit => CudaInv
<1>. SUFFICES ASSUME GraphInit PROVE CudaInv
  OBVIOUS
<1>1. IInv
  BY InitIInv DEF GraphInit
<1>2. DeviceType /\ DeviceTableCoherent
  BY PoolAssumption DEF GraphInit, DeviceInit, DeviceType, DeviceTableCoherent, Unsynced, Unset,
                        Init, KVInit
<1>3. DecodersTrue /\ NoDanglingCursor
  BY DEF GraphInit, DecodersTrue, NoDanglingCursor, Alive
<1>. QED
  BY <1>1, <1>2, <1>3 DEF CudaInv

(* The storage layer's invariant, the coherence of the device tables and   *)
(* the decoders' flags hold in every reachable state.                      *)
THEOREM CudaInvariant == CudaSpec => []CudaInv
<1>1. CudaInv /\ [CudaNext]_cudaVars => CudaInv'
  BY CudaStep
<1>. QED
  BY <1>1, InitCudaInv, PTL DEF CudaSpec

(* The kernels never read a block through a stale entry of the device      *)
(* table (CudaPagedKVCache::truncate, sync_device_block_table).            *)
THEOREM DeviceTablesCoherent == CudaSpec => []DeviceTableCoherent
<1>1. CudaInv => DeviceTableCoherent
  BY DEF CudaInv
<1>. QED
  BY <1>1, CudaInvariant, PTL

(* The globals that every forward reads through never point into a decoder *)
(* that was destroyed (~CudaGraphDecoder).                                 *)
THEOREM CursorNeverDangles == CudaSpec => []NoDanglingCursor
<1>1. CudaInv => NoDanglingCursor
  BY DEF CudaInv
<1>. QED
  BY <1>1, CudaInvariant, PTL

(* The GPU's caches implement the paged caches of the storage layer,       *)
(* whichever path a token takes, so what is proved of those reads as well: *)
(* see GpuReadsExact.                                                      *)
THEOREM GpuRefinesPagedKV == CudaSpec => IsPagedKV
<1>1. GraphInit => Init
  BY DEF GraphInit
<1>2. CudaInv /\ [CudaNext]_cudaVars => [Storage]_vars
  BY CudaStep
<1>3. [Storage]_vars <=> [Next \/ \E c \in Caches, n \in 0 .. NumBlocks : Reserve(c, n)]_vars
  BY DEF Storage
<1>. QED
  BY <1>1, <1>2, <1>3, CudaInvariant, PTL DEF CudaSpec, IsPagedKV

(* Every position of every GPU cache holds the K/V of the tokens that the  *)
(* cache was given up to there, through prefill, capture and replay.       *)
THEOREM GpuReadsExact == CudaSpec => []KVExact
<1>1. CudaInv => KVExact
  BY DEF CudaInv, IInv
<1>. QED
  BY <1>1, CudaInvariant, PTL
===============================================================================
