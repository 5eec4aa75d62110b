-------------------------- MODULE PrefixCacheProofs --------------------------
(***************************************************************************)
(* Proofs about the KV storage layer, for every pool size, block size, set *)
(* of caches, prompt and chunk.                                            *)
(***************************************************************************)
EXTENDS PrefixCache, SequenceFacts

-----------------------------------------------------------------------------
(* Positions, blocks and offsets.                                          *)

(* Division with remainder. *)
LEMMA DivMod ==
  ASSUME NEW p \in Nat
  PROVE  /\ p \div BlockSize \in Nat
         /\ p % BlockSize \in 0 .. BlockSize - 1
         /\ p = BlockSize * (p \div BlockSize) + (p % BlockSize)
BY PoolAssumption

(* A position lies in one block at one offset. *)
LEMMA DivModUnique ==
  ASSUME NEW p \in Nat, NEW q \in Int, NEW o \in 0 .. BlockSize - 1,
         p = BlockSize * q + o
  PROVE  q = p \div BlockSize /\ o = p % BlockSize
<1>. DEFINE d == p \div BlockSize
            m == p % BlockSize
            B == BlockSize
<1>1. d \in Nat /\ m \in 0 .. B - 1 /\ p = B * d + m /\ B \in Nat \ {0}
  BY DivMod, PoolAssumption
<1>. HIDE DEF d, m, B
<1>2. p = B * q + o /\ o \in 0 .. B - 1
  BY DEF B
<1>3. q < d => B * (d - q) >= B
  BY <1>1
<1>4. d < q => B * (q - d) >= B
  BY <1>1
<1>5. q = d /\ o = m
  BY <1>1, <1>2, <1>3, <1>4
<1>. QED
  BY <1>5 DEF d, m

(* BlocksFor rounds up. *)
LEMMA BlocksForCovers ==
  ASSUME NEW n \in Nat
  PROVE  /\ BlocksFor(n) \in Nat
         /\ n <= BlockSize * BlocksFor(n)
         /\ \A i \in Nat : i <= BlocksFor(n) <=> BlockSize * (i - 1) < n \/ i = 0
<1>. DEFINE B == BlockSize
            k == BlocksFor(n)
<1>1. B \in Nat \ {0} /\ k = (n + B - 1) \div B
  BY PoolAssumption DEF BlocksFor
<1>. HIDE DEF B, k
<1>2. k \in Nat /\ n <= B * k /\ B * (k - 1) < n
  BY <1>1
<1>3. ASSUME NEW i \in Nat, i <= k, i # 0
      PROVE  B * (i - 1) < n
  <2>1. B * (i - 1) <= B * (k - 1)
    BY <1>1, <1>2, <1>3
  <2>. QED
    BY <1>1, <1>2, <1>3, <2>1
<1>4. ASSUME NEW i \in Nat, B * (i - 1) < n
      PROVE  i <= k
  <2>1. i > k => B * (i - 1) >= B * k
    BY <1>1, <1>2
  <2>. QED
    BY <1>1, <1>2, <1>4, <2>1
<1>. QED
  BY <1>2, <1>3, <1>4 DEF B, k

-----------------------------------------------------------------------------
(* The pool's operations.                                                  *)

PoolType == free_list \in Seq(Blocks) /\ refcount \in [Blocks -> Nat]

(* What n calls of allocate() hand out: distinct free blocks. *)
LEMMA PoppedFree ==
  ASSUME PoolType, FreeListExact, NEW n \in Nat, n <= Len(free_list)
  PROVE  /\ Popped(n) \in Seq(Blocks)
         /\ Len(Popped(n)) = n
         /\ \A i, j \in 1 .. n : Popped(n)[i] = Popped(n)[j] => i = j
         /\ \A b \in Range(Popped(n)) : b \in Blocks /\ refcount[b] = 0
<1>. DEFINE L == Len(free_list)
<1>1. L \in Nat /\ \A i \in 1 .. L : free_list[i] \in Blocks
  BY DEF PoolType
<1>2. \A i \in 1 .. n : L + 1 - i \in 1 .. L
  BY <1>1
<1>3. Popped(n) = [i \in 1 .. n |-> free_list[L + 1 - i]]
  BY DEF Popped
<1>. HIDE DEF L
<1>4. Popped(n) \in [1 .. n -> Blocks]
  BY <1>1, <1>2, <1>3
<1>5. Popped(n) \in Seq(Blocks) /\ Len(Popped(n)) = n
  BY <1>4
<1>6. \A i, j \in 1 .. n : Popped(n)[i] = Popped(n)[j] => i = j
  BY <1>1, <1>2, <1>3 DEF FreeListExact, L
<1>7. ASSUME NEW b \in Range(Popped(n))
      PROVE  b \in Blocks /\ refcount[b] = 0
  <2>1. PICK i \in 1 .. n : b = free_list[L + 1 - i]
    BY <1>3 DEF Range
  <2>2. b \in Range(free_list)
    BY <2>1, <1>2, <1>1 DEF Range, L, PoolType
  <2>. QED
    BY <2>2 DEF FreeListExact
<1>. QED
  BY <1>5, <1>6, <1>7

(* n calls of allocate() keep the pool's books. *)
LEMMA AllocateKeeps ==
  ASSUME PoolType, FreeListExact, NEW n \in Nat, Allocate(n)
  PROVE  /\ PoolType' /\ FreeListExact'
         /\ \A b \in Range(Popped(n)) : b \in Blocks /\ refcount[b] = 0 /\ refcount'[b] = 1
         /\ \A b \in Blocks \ Range(Popped(n)) : refcount'[b] = refcount[b]
<1>. DEFINE L == Len(free_list)
            P == Popped(n)
<1>1. L \in Nat /\ n <= L /\ \A i \in 1 .. L : free_list[i] \in Blocks
  BY DEF PoolType, Allocate
<1>2. P = [i \in 1 .. n |-> free_list[L + 1 - i]]
  BY DEF Popped
<1>3. \A b \in Range(P) : b \in Blocks /\ refcount[b] = 0
  BY <1>1, PoppedFree
<1>4. refcount' = [b \in Blocks |-> IF b \in Range(P) THEN 1 ELSE refcount[b]]
  BY DEF Allocate
<1>5. free_list' = SubSeq(free_list, 1, L - n)
  BY DEF Allocate
<1>6. /\ free_list' \in Seq(Blocks) /\ Len(free_list') = L - n
      /\ \A i \in 1 .. L - n : free_list'[i] = free_list[i]
  BY <1>1, <1>5 DEF PoolType
<1>7. refcount' \in [Blocks -> Nat]
  BY <1>4 DEF PoolType
<1>. HIDE DEF P
<1>8. \A i, j \in 1 .. Len(free_list') : free_list'[i] = free_list'[j] => i = j
  BY <1>1, <1>6 DEF FreeListExact
<1>9. Range(free_list') = {b \in Blocks : refcount'[b] = 0}
  <2>1. ASSUME NEW b \in Range(free_list')
        PROVE  b \in Blocks /\ refcount'[b] = 0
    <3>1. PICK i \in 1 .. L - n : b = free_list[i]
      BY <1>6 DEF Range
    <3>2. b \in Range(free_list) /\ i \in 1 .. L
      BY <3>1, <1>1 DEF Range, PoolType
    <3>3. b \in Blocks /\ refcount[b] = 0
      BY <3>2 DEF FreeListExact
    <3>4. b \notin Range(P)
      <4>1. SUFFICES ASSUME NEW j \in 1 .. n, b = free_list[L + 1 - j] PROVE FALSE
        BY <1>2 DEF Range
      <4>2. L + 1 - j \in 1 .. L /\ L + 1 - j # i
        BY <1>1, <3>1
      <4>. QED
        BY <4>1, <4>2, <3>1, <3>2 DEF FreeListExact
    <3>. QED
      BY <3>3, <3>4, <1>4
  <2>2. ASSUME NEW b \in Blocks, refcount'[b] = 0
        PROVE  b \in Range(free_list')
    <3>1. b \notin Range(P) /\ refcount[b] = 0
      BY <2>2, <1>4
    <3>2. b \in Range(free_list)
      BY <3>1 DEF FreeListExact
    <3>3. PICK i \in 1 .. L : b = free_list[i]
      BY <3>2 DEF Range, PoolType
    <3>4. i <= L - n
      <4>1. SUFFICES ASSUME i > L - n PROVE b \in Range(P)
        BY <3>1, <1>1, <3>3
      <4>2. L + 1 - i \in 1 .. n /\ L + 1 - (L + 1 - i) = i
        BY <4>1, <1>1, <3>3
      <4>3. P[L + 1 - i] = b /\ L + 1 - i \in DOMAIN P
        BY <4>2, <1>2, <3>3
      <4>. QED
        BY <4>3 DEF Range
    <3>. QED
      BY <3>3, <3>4, <1>6, <1>1 DEF Range
  <2>. QED
    BY <2>1, <2>2
<1>. QED
  BY <1>3, <1>4, <1>6, <1>7, <1>8, <1>9 DEF PoolType, FreeListExact, P

(* incref() of held blocks keeps the pool's books. *)
LEMMA IncrefKeeps ==
  ASSUME PoolType, FreeListExact, NEW B \in SUBSET Blocks, Incref(B)
  PROVE  /\ PoolType' /\ FreeListExact'
         /\ \A b \in B : refcount[b] > 0 /\ refcount'[b] = refcount[b] + 1
         /\ \A b \in Blocks \ B : refcount'[b] = refcount[b]
<1>1. /\ \A b \in B : refcount[b] > 0
      /\ refcount' = [b \in Blocks |-> refcount[b] + IF b \in B THEN 1 ELSE 0]
      /\ free_list' = free_list
  BY DEF Incref
<1>2. /\ \A b \in B : refcount'[b] = refcount[b] + 1
      /\ \A b \in Blocks \ B : refcount'[b] = refcount[b]
      /\ PoolType'
  BY <1>1 DEF PoolType
<1>3. \A b \in Blocks : refcount'[b] = 0 <=> refcount[b] = 0
  BY <1>1, <1>2 DEF PoolType
<1>4. FreeListExact'
  BY <1>1, <1>3 DEF FreeListExact
<1>. QED
  BY <1>1, <1>2, <1>4

(* free() of a list of distinct blocks keeps the pool's books. *)
LEMMA FreeKeeps ==
  ASSUME PoolType, FreeListExact, NEW blks \in Seq(Blocks), Free(blks),
         \A i, j \in 1 .. Len(blks) : blks[i] = blks[j] => i = j
  PROVE  /\ PoolType' /\ FreeListExact'
         /\ \A b \in Range(blks) : refcount[b] > 0 /\ refcount'[b] = refcount[b] - 1
         /\ \A b \in Blocks \ Range(blks) : refcount'[b] = refcount[b]
<1>. DEFINE last == {b \in Range(blks) : refcount[b] = 1}
            L == Len(free_list)
<1>1. /\ \A b \in Range(blks) : refcount[b] > 0
      /\ refcount' = [b \in Blocks |-> refcount[b] - IF b \in Range(blks) THEN 1 ELSE 0]
  BY DEF Free
<1>2. PICK s \in [1 .. Cardinality(last) -> last] :
        InOrder(s, last, blks) /\ free_list' = free_list \o s
  BY DEF Free
<1>3. Range(blks) \subseteq Blocks
  BY DEF Range
<1>4. Range(blks) = {blks[i] : i \in 1 .. Len(blks)}
  BY DEF Range
<1>5. IsFiniteSet(last)
  <2>1. IsFiniteSet(Blocks)
    BY FS_Interval, PoolAssumption DEF Blocks
  <2>. QED
    BY <2>1, <1>3, FS_Subset
<1>6. Cardinality(last) \in Nat
  BY <1>5, FS_CardinalityType
<1>. DEFINE m == Cardinality(last)
<1>. HIDE DEF last
<1>7. /\ s \in Seq(Blocks) /\ Len(s) = m /\ m \in Nat /\ DOMAIN s = 1 .. m
      /\ \A i \in 1 .. m : s[i] \in last
  <2>1. last \subseteq Blocks
    BY <1>3 DEF last
  <2>. QED
    BY <2>1, <1>6
<1>. HIDE DEF m
<1>8. \A b \in last : \E i \in 1 .. m : s[i] = b
  BY <1>2, <1>7 DEF InOrder, Range, m
<1>9. \A i, j \in 1 .. m : s[i] = s[j] => i = j
  <2>1. ASSUME NEW i \in 1 .. m, NEW j \in 1 .. m, i < j
        PROVE  s[i] # s[j]
    <3>1. PICK p \in DOMAIN blks, q \in DOMAIN blks :
            p < q /\ blks[p] = s[i] /\ blks[q] = s[j]
      <4>1. i \in DOMAIN s /\ j \in DOMAIN s
        BY <1>7
      <4>. QED
        BY <1>2, <4>1, <2>1 DEF InOrder
    <3>. QED
      BY <3>1
  <2>. QED
    BY <2>1, <1>7
<1>10. /\ free_list' \in Seq(Blocks) /\ Len(free_list') = L + m /\ L \in Nat
       /\ \A i \in 1 .. L : free_list'[i] = free_list[i]
       /\ \A i \in L + 1 .. L + m : free_list'[i] = s[i - L]
  <2>1. free_list \in Seq(Blocks) /\ s \in Seq(Blocks) /\ free_list' = free_list \o s
    BY <1>2, <1>7 DEF PoolType
  <2>2. /\ free_list \o s \in Seq(Blocks)
        /\ Len(free_list \o s) = L + m
        /\ \A i \in 1 .. L + m :
             (free_list \o s)[i] = IF i <= L THEN free_list[i] ELSE s[i - L]
    <3>1. \A i \in 1 .. Len(free_list) + Len(s) :
            (free_list \o s)[i] = IF i <= Len(free_list) THEN free_list[i] ELSE s[i - Len(free_list)]
      BY <2>1, ConcatProperties
    <3>2. free_list \o s \in Seq(Blocks) /\ Len(free_list \o s) = Len(free_list) + Len(s)
      BY <2>1, ConcatProperties
    <3>3. Len(s) = m
      BY <1>7
    <3>. QED
      BY <3>1, <3>2, <3>3
  <2>3. L \in Nat
    BY <2>1
  <2>. QED
    BY <2>1, <2>2, <2>3, <1>7
<1>11. /\ \A b \in Range(blks) : refcount'[b] = refcount[b] - 1
       /\ \A b \in Blocks \ Range(blks) : refcount'[b] = refcount[b]
       /\ refcount' \in [Blocks -> Nat]
  BY <1>1, <1>3 DEF PoolType
<1>12. \A b \in Blocks : refcount'[b] = 0 <=> refcount[b] = 0 \/ b \in last
  BY <1>1, <1>3, <1>11 DEF last, PoolType
<1>13. \A i \in 1 .. L : free_list[i] \notin last
  <2>1. ASSUME NEW i \in 1 .. L PROVE refcount[free_list[i]] = 0
    BY DEF FreeListExact, Range, PoolType
  <2>. QED
    BY <2>1 DEF last
<1>14. \A i, j \in 1 .. Len(free_list') : free_list'[i] = free_list'[j] => i = j
  <2>. SUFFICES ASSUME NEW i \in 1 .. L + m, NEW j \in 1 .. L + m,
                       free_list'[i] = free_list'[j]
                PROVE  i = j
    BY <1>10
  <2>1. CASE i <= L /\ j <= L
    BY <2>1, <1>10 DEF FreeListExact
  <2>2. CASE i > L /\ j > L
    <3>1. i - L \in 1 .. m /\ j - L \in 1 .. m /\ s[i - L] = s[j - L]
      BY <2>2, <1>10, <1>7
    <3>. QED
      BY <3>1, <1>9, <1>10
  <2>3. CASE i <= L /\ j > L
    BY <2>3, <1>7, <1>10, <1>13, SMTT(30)
  <2>4. CASE i > L /\ j <= L
    BY <2>4, <1>7, <1>10, <1>13, SMTT(30)
  <2>. QED
    BY <2>1, <2>2, <2>3, <2>4, <1>10
<1>15. Range(free_list') = {b \in Blocks : refcount'[b] = 0}
  <2>1. ASSUME NEW i \in 1 .. L + m
        PROVE  free_list'[i] \in Blocks /\ refcount'[free_list'[i]] = 0
    <3>1. CASE i <= L
      BY <3>1, <1>10, <1>12, SMTT(30) DEF FreeListExact, Range, PoolType
    <3>2. CASE i > L
      BY <3>2, <1>7, <1>10, <1>12, SMTT(30)
    <3>. QED
      BY <3>1, <3>2, <1>10, <1>7
  <2>2. ASSUME NEW b \in Blocks, refcount'[b] = 0
        PROVE  \E i \in 1 .. L + m : free_list'[i] = b
    <3>1. CASE refcount[b] = 0
      <4>1. PICK i \in 1 .. L : free_list[i] = b
        BY <3>1, <2>2 DEF FreeListExact, Range, PoolType
      <4>. QED
        BY <4>1, <1>10, <1>7
    <3>2. CASE b \in last
      <4>1. PICK i \in 1 .. m : s[i] = b
        BY <3>2, <1>8
      <4>2. L + i \in L + 1 .. L + m /\ (L + i) - L = i /\ L + i \in 1 .. L + m
        BY <1>10, <1>7
      <4>3. free_list'[L + i] = b
        BY <4>1, <4>2, <1>10
      <4>. QED
        BY <4>2, <4>3
    <3>. QED
      BY <3>1, <3>2, <2>2, <1>12
  <2>3. DOMAIN free_list' = 1 .. L + m
    BY <1>10
  <2>. QED
    BY <2>1, <2>2, <2>3 DEF Range
<1>. QED
  BY <1>1, <1>10, <1>11, <1>14, <1>15 DEF PoolType, FreeListExact

-----------------------------------------------------------------------------
(* Who holds a block.                                                      *)

LEMMA HoldersFinite ==
  ASSUME IInv, NEW b
  PROVE  /\ IsFiniteSet(SeqHolders(b)) /\ Cardinality(SeqHolders(b)) \in Nat
         /\ IsFiniteSet(KeyHolders(b)) /\ Cardinality(KeyHolders(b)) \in Nat
<1>1. IsFiniteSet(Caches) /\ IsFiniteSet(DOMAIN cached)
  BY StoreAssumption DEF IInv
<1>2. SeqHolders(b) \in SUBSET Caches /\ KeyHolders(b) \in SUBSET DOMAIN cached
  BY DEF SeqHolders, KeyHolders
<1>3. IsFiniteSet(SeqHolders(b)) /\ IsFiniteSet(KeyHolders(b))
  BY <1>1, <1>2, FS_Subset
<1>. QED
  BY <1>3, FS_CardinalityType

(* A block in a table is held; if its count is 1, by that cache alone. *)
LEMMA HeldBySequence ==
  ASSUME IInv, NEW c \in Caches, NEW b \in Range(block_table[c])
  PROVE  /\ b \in Blocks /\ refcount[b] \in Nat \ {0}
         /\ refcount[b] = 1 => /\ \A d \in Caches : b \in Range(block_table[d]) => d = c
                               /\ \A k \in DOMAIN cached : cached[k] # b
<1>1. b \in Blocks /\ c \in SeqHolders(b) /\ refcount[b] \in Nat
  BY DEF IInv, TypeOK, SeqHolders, Range
<1>2. refcount[b] = Cardinality(SeqHolders(b)) + Cardinality(KeyHolders(b))
  BY <1>1 DEF IInv, RefcountExact
<1>. DEFINE R == SeqHolders(b) \ {c}
<1>3. IsFiniteSet(R) /\ Cardinality(R) = Cardinality(SeqHolders(b)) - 1
  BY <1>1, HoldersFinite, FS_RemoveElement
<1>4. Cardinality(R) \in Nat
  BY <1>3, FS_CardinalityType
<1>5. refcount[b] # 0
  BY <1>1, <1>2, <1>3, <1>4, HoldersFinite
<1>6. ASSUME refcount[b] = 1
      PROVE  R = {} /\ KeyHolders(b) = {}
  <2>1. Cardinality(R) = 0 /\ Cardinality(KeyHolders(b)) = 0
    BY <1>6, <1>1, <1>2, <1>3, <1>4, HoldersFinite
  <2>. QED
    BY <2>1, <1>3, HoldersFinite, FS_EmptySet
<1>. QED
  BY <1>1, <1>5, <1>6 DEF SeqHolders, KeyHolders

(* A cached block is held, and has a count above 1 if a sequence holds it too. *)
LEMMA HeldByKey ==
  ASSUME IInv, NEW k \in DOMAIN cached
  PROVE  /\ cached[k] \in Blocks /\ refcount[cached[k]] \in Nat \ {0}
         /\ \A c \in Caches : cached[k] \in Range(block_table[c]) => refcount[cached[k]] > 1
<1>. DEFINE b == cached[k]
<1>1. b \in Blocks /\ k \in KeyHolders(b) /\ refcount[b] \in Nat
  BY DEF IInv, TypeOK, KeyHolders, Range
<1>2. refcount[b] = Cardinality(SeqHolders(b)) + Cardinality(KeyHolders(b))
  BY <1>1 DEF IInv, RefcountExact
<1>3. Cardinality(KeyHolders(b)) # 0
  BY <1>1, HoldersFinite, FS_EmptySet
<1>4. refcount[b] # 0
  BY <1>1, <1>2, <1>3, HoldersFinite
<1>5. ASSUME NEW c \in Caches, b \in Range(block_table[c])
      PROVE  refcount[b] > 1
  <2>1. refcount[b] # 1
    BY <1>5, HeldBySequence
  <2>. QED
    BY <2>1, <1>4, <1>1
<1>. QED
  BY <1>1, <1>4, <1>5

(* A free block is nobody's. *)
LEMMA FreeUnheld ==
  ASSUME IInv, NEW b \in Blocks, refcount[b] = 0
  PROVE  /\ \A c \in Caches : b \notin Range(block_table[c])
         /\ \A k \in DOMAIN cached : cached[k] # b
         /\ SeqHolders(b) = {} /\ KeyHolders(b) = {}
<1>1. \A c \in Caches : b \notin Range(block_table[c])
  BY HeldBySequence
<1>2. \A k \in DOMAIN cached : cached[k] # b
  BY HeldByKey
<1>. QED
  BY <1>1, <1>2 DEF SeqHolders, KeyHolders

(* One sequence takes or drops a block and its count follows. *)
LEMMA CountFollowsTable ==
  ASSUME IInv, NEW b \in Blocks, NEW c \in Caches,
         cached' = cached,
         \A d \in Caches \ {c} : block_table'[d] = block_table[d],
         refcount'[b] = refcount[b]
                        + (IF b \in Range(block_table'[c]) THEN 1 ELSE 0)
                        - (IF b \in Range(block_table[c]) THEN 1 ELSE 0)
  PROVE  refcount'[b] = Cardinality(SeqHolders(b)') + Cardinality(KeyHolders(b)')
<1>. DEFINE old == b \in Range(block_table[c])
            new == b \in Range(block_table'[c])
<1>1. KeyHolders(b)' = KeyHolders(b)
  BY DEF KeyHolders
<1>2. refcount[b] = Cardinality(SeqHolders(b)) + Cardinality(KeyHolders(b))
  BY DEF IInv, RefcountExact
<1>3. /\ IsFiniteSet(SeqHolders(b)) /\ Cardinality(SeqHolders(b)) \in Nat
      /\ Cardinality(KeyHolders(b)) \in Nat
  BY HoldersFinite
<1>4. SeqHolders(b)' = {d \in Caches : b \in Range(block_table'[d])}
  BY DEF SeqHolders
<1>5. /\ new => SeqHolders(b)' = SeqHolders(b) \cup {c}
      /\ ~ new => SeqHolders(b)' = SeqHolders(b) \ {c}
      /\ c \in SeqHolders(b) <=> old
  BY <1>4 DEF SeqHolders
<1>. HIDE DEF old, new
<1>6. CASE new
  <2>1. Cardinality(SeqHolders(b)') =
          IF c \in SeqHolders(b) THEN Cardinality(SeqHolders(b)) ELSE Cardinality(SeqHolders(b)) + 1
    BY <1>6, <1>3, <1>5, FS_AddElement
  <2>2. refcount'[b] = refcount[b] + 1 - (IF old THEN 1 ELSE 0)
    BY <1>6 DEF old, new
  <2>. QED
    BY <2>1, <2>2, <1>1, <1>2, <1>3, <1>5
<1>7. CASE ~ new
  <2>1. Cardinality(SeqHolders(b)') =
          IF c \in SeqHolders(b) THEN Cardinality(SeqHolders(b)) - 1 ELSE Cardinality(SeqHolders(b))
    BY <1>7, <1>3, <1>5, FS_RemoveElement
  <2>2. refcount'[b] = refcount[b] + 0 - (IF old THEN 1 ELSE 0)
    BY <1>7 DEF old, new
  <2>. QED
    BY <2>1, <2>2, <1>1, <1>2, <1>3, <1>5
<1>. QED
  BY <1>6, <1>7

-----------------------------------------------------------------------------
(* Growing a table: forward(), with or without enough free blocks.         *)

(* Where a position lies in a table that covers it. *)
LEMMA BlockIndex ==
  ASSUME NEW p \in Nat, NEW L \in Nat, p < BlockSize * L
  PROVE  p \div BlockSize + 1 \in 1 .. L /\ (p \div BlockSize + 1) * BlockSize > p
<1>. DEFINE B == BlockSize
            d == p \div BlockSize
<1>1. /\ B \in Nat \ {0} /\ d \in Nat
      /\ B * d <= p /\ p < B * d + B
  BY DivMod, PoolAssumption
<1>. HIDE DEF B, d
<1>2. p < B * L
  BY DEF B
<1>3. d < L
  <2>1. d >= L => B * d >= B * L
    BY <1>1
  <2>. QED
    BY <1>1, <1>2, <2>1
<1>4. (d + 1) * B = B * d + B
  BY <1>1
<1>. QED
  BY <1>1, <1>3, <1>4 DEF B, d

(* The table of cache c grows by n blocks. *)
Grows(c, n) ==
  /\ Allocate(n)
  /\ block_table' = [block_table EXCEPT ![c] = @ \o Popped(n)]
  /\ cached' = cached

LEMMA GrowKeeps ==
  ASSUME IInv, NEW c \in Caches, NEW n \in Nat, Grows(c, n)
  PROVE  /\ PoolType' /\ FreeListExact' /\ RefcountExact' /\ TablesInjective'
         /\ block_table' \in [Caches -> Seq(Blocks)]
         /\ \A d \in Caches \ {c} : block_table'[d] = block_table[d]
         /\ Len(block_table'[c]) = Len(block_table[c]) + n
         /\ \A i \in 1 .. Len(block_table[c]) : block_table'[c][i] = block_table[c][i]
         /\ \A i \in Len(block_table[c]) + 1 .. Len(block_table[c]) + n :
              refcount[block_table'[c][i]] = 0 /\ refcount'[block_table'[c][i]] = 1
         /\ \A b \in Blocks : refcount[b] # 0 => refcount'[b] = refcount[b]
<1>. USE DEF Grows
<1>. DEFINE bt == block_table[c]
            L == Len(block_table[c])
<1>1. PoolType /\ FreeListExact /\ bt \in Seq(Blocks) /\ L \in Nat
  BY DEF IInv, TypeOK, PoolType
<1>2. /\ PoolType' /\ FreeListExact'
      /\ \A b \in Range(Popped(n)) : b \in Blocks /\ refcount[b] = 0 /\ refcount'[b] = 1
      /\ \A b \in Blocks \ Range(Popped(n)) : refcount'[b] = refcount[b]
  BY <1>1, AllocateKeeps
<1>3. /\ Popped(n) \in Seq(Blocks) /\ Len(Popped(n)) = n
      /\ \A i, j \in 1 .. n : Popped(n)[i] = Popped(n)[j] => i = j
  BY <1>1, PoppedFree DEF Allocate
<1>4. block_table'[c] = bt \o Popped(n)
  BY DEF IInv, TypeOK
<1>5. /\ block_table'[c] \in Seq(Blocks)
      /\ Len(block_table'[c]) = L + n
      /\ \A i \in 1 .. L : block_table'[c][i] = bt[i]
      /\ \A i \in L + 1 .. L + n : block_table'[c][i] = Popped(n)[i - L]
      /\ Range(block_table'[c]) = Range(bt) \cup Range(Popped(n))
  <2>. DEFINE P == Popped(n)
  <2>1. bt \in Seq(Blocks) /\ P \in Seq(Blocks) /\ Len(P) = n /\ block_table'[c] = bt \o P
    BY <1>1, <1>3, <1>4
  <2>. HIDE DEF P, bt
  <2>2. bt \o P \in Seq(Blocks) /\ Len(bt \o P) = Len(bt) + Len(P)
    BY <2>1, ConcatSeq
  <2>4. \A i \in 1 .. Len(bt) : (bt \o P)[i] = bt[i]
    BY <2>1, ConcatSeq
  <2>5. \A i \in Len(bt) + 1 .. Len(bt) + Len(P) : (bt \o P)[i] = P[i - Len(bt)]
    BY <2>1, ConcatSeq
  <2>6. Range(bt \o P) = Range(bt) \cup Range(P)
    BY <2>1, ConcatSeq
  <2>3. L = Len(bt)
    BY DEF bt
  <2>. QED
    BY <2>1, <2>2, <2>3, <2>4, <2>5, <2>6 DEF P
<1>6. /\ block_table' \in [Caches -> Seq(Blocks)]
      /\ \A d \in Caches \ {c} : block_table'[d] = block_table[d]
  BY <1>4, <1>5 DEF IInv, TypeOK
<1>7. \A i \in L + 1 .. L + n : i - L \in 1 .. n /\ block_table'[c][i] \in Range(Popped(n))
  <2>1. \A i \in L + 1 .. L + n : i - L \in 1 .. n
    BY <1>1
  <2>2. \A i \in 1 .. n : Popped(n)[i] \in Range(Popped(n))
    BY <1>3, RangeSeq
  <2>. QED
    BY <2>1, <2>2, <1>5
<1>8. \A i \in 1 .. L : block_table'[c][i] = bt[i] /\ bt[i] \in Range(bt)
  BY <1>1, <1>5 DEF Range
<1>9. \A b \in Range(bt) : b \in Blocks /\ refcount[b] # 0
  BY HeldBySequence
<1>. HIDE DEF bt, L
<1>10. \A i, j \in 1 .. L + n : block_table'[c][i] = block_table'[c][j] => i = j
  <2>. SUFFICES ASSUME NEW i \in 1 .. L + n, NEW j \in 1 .. L + n,
                       block_table'[c][i] = block_table'[c][j]
                PROVE  i = j
    OBVIOUS
  <2>1. CASE i <= L /\ j <= L
    <3>1. i \in 1 .. L /\ j \in 1 .. L
      BY <2>1, <1>1
    <3>. QED
      BY <3>1, <1>8 DEF IInv, TablesInjective, bt, L
  <2>2. CASE i > L /\ j > L
    <3>1. i - L \in 1 .. n /\ j - L \in 1 .. n /\ Popped(n)[i - L] = Popped(n)[j - L]
      BY <2>2, <1>1, <1>5, SMTT(30)
    <3>. QED
      BY <3>1, <1>3, <1>1
  <2>3. CASE i <= L /\ j > L
    <3>1. i \in 1 .. L /\ j \in L + 1 .. L + n
      BY <2>3, <1>1
    <3>. QED
      BY <3>1, <1>2, <1>7, <1>8, <1>9, ZenonT(60)
  <2>4. CASE i > L /\ j <= L
    <3>1. j \in 1 .. L /\ i \in L + 1 .. L + n
      BY <2>4, <1>1
    <3>. QED
      BY <3>1, <1>2, <1>7, <1>8, <1>9, ZenonT(60)
  <2>. QED
    BY <2>1, <2>2, <2>3, <2>4, <1>1
<1>11. TablesInjective'
  BY <1>5, <1>6, <1>10 DEF IInv, TablesInjective
<1>12. ASSUME NEW b \in Blocks
       PROVE  refcount'[b] = Cardinality(SeqHolders(b)') + Cardinality(KeyHolders(b)')
  <2>1. refcount[b] \in Nat
    BY <1>1 DEF PoolType
  <2>2. b \in Range(block_table'[c]) <=> b \in Range(bt) \/ b \in Range(Popped(n))
    BY <1>5
  <2>3. refcount'[b] = refcount[b]
                        + (IF b \in Range(block_table'[c]) THEN 1 ELSE 0)
                        - (IF b \in Range(block_table[c]) THEN 1 ELSE 0)
    BY <2>1, <2>2, <1>2, <1>9 DEF bt
  <2>. QED
    BY <2>3, <1>6, CountFollowsTable
<1>13. RefcountExact'
  BY <1>12 DEF RefcountExact
<1>14. \A b \in Blocks : refcount[b] # 0 => refcount'[b] = refcount[b]
  BY <1>2
<1>15. \A i \in L + 1 .. L + n : refcount[block_table'[c][i]] = 0 /\ refcount'[block_table'[c][i]] = 1
  BY <1>2, <1>7
<1>. QED
  BY <1>2, <1>5, <1>6, <1>8, <1>11, <1>13, <1>14, <1>15 DEF bt, L

-----------------------------------------------------------------------------
(* forward().                                                              *)

(* Reading the last position back gives the whole context. *)
LEMMA EncodedIsContext ==
  ASSUME IInv, NEW c \in Caches
  PROVE  Encoded(c) = context[c]
<1>1. /\ length[c] \in Nat /\ context[c] \in Seq(Token) /\ length[c] = Len(context[c])
      /\ \A p \in 0 .. length[c] - 1 : SlotAt(block_table[c], p) = SubSeq(context[c], 1, p + 1)
  BY DEF IInv, TypeOK, KVExact
<1>2. CASE length[c] = 0
  <2>1. context[c] = <<>>
    BY <1>1, <1>2, EmptySeq
  <2>. QED
    BY <2>1, <1>2 DEF Encoded
<1>3. CASE length[c] # 0
  <2>1. length[c] - 1 \in 0 .. length[c] - 1 /\ (length[c] - 1) + 1 = length[c]
    BY <1>1, <1>3
  <2>2. Encoded(c) = SubSeq(context[c], 1, length[c])
    BY <2>1, <1>1, <1>3 DEF Encoded
  <2>. QED
    BY <2>2, <1>1
<1>. QED
  BY <1>2, <1>3

(* ensure_capacity() allocates enough. *)
LEMMA MissingEnough ==
  ASSUME IInv, NEW c \in Caches, NEW len \in Nat
  PROVE  /\ Missing(c, len) \in Nat
         /\ len <= BlockSize * (Len(block_table[c]) + Missing(c, len))
<1>. DEFINE B == BlockSize
            L == Len(block_table[c])
            k == BlocksFor(len)
            n == Missing(c, len)
<1>1. L \in Nat /\ B \in Nat \ {0}
  BY PoolAssumption DEF IInv, TypeOK
<1>2. k \in Nat /\ len <= B * k
  BY BlocksForCovers
<1>3. n = IF k > L THEN k - L ELSE 0
  BY DEF Missing
<1>. HIDE DEF B, L, k, n
<1>4. n \in Nat /\ L + n >= k
  BY <1>1, <1>2, <1>3
<1>5. B * (L + n) >= B * k
  BY <1>1, <1>2, <1>4
<1>. QED
  BY <1>1, <1>2, <1>4, <1>5 DEF B, L, n

(* Extending a prefix. *)
LEMMA PrefixOfConcat ==
  ASSUME NEW s \in Seq(Token), NEW t \in Seq(Token)
  PROVE  /\ \A k \in 0 .. Len(s) : SubSeq(s \o t, 1, k) = SubSeq(s, 1, k)
         /\ \A k \in 1 .. Len(t) : SubSeq(s \o t, 1, Len(s) + k) = s \o SubSeq(t, 1, k)
<1>1. ASSUME NEW k \in 0 .. Len(s)
      PROVE  SubSeq(s \o t, 1, k) = SubSeq(s, 1, k)
  BY SubSeqOfConcat1
<1>2. ASSUME NEW k \in 1 .. Len(t)
      PROVE  SubSeq(s \o t, 1, Len(s) + k) = s \o SubSeq(t, 1, k)
  BY SubSeqOfConcat2
<1>. QED
  BY <1>1, <1>2

(* A forward leaves every slot before the write frontier alone, in its own *)
(* cache and in every other, and every cached block.                       *)
LEMMA ForwardWrites ==
  ASSUME IInv, NEW c \in Caches, NEW toks \in Seq(Token), Forward(c, toks), cached' = cached
  PROVE  /\ \A d \in Caches : \A p \in 0 .. length[d] - 1 :
              SlotAt(block_table[d], p)' = SlotAt(block_table[d], p)
         /\ \A k \in DOMAIN cached : slot'[cached[k]] = slot[cached[k]]
         /\ \A p \in length[c] .. length[c] + Len(toks) - 1 :
              SlotAt(block_table[c], p)' = context[c] \o SubSeq(toks, 1, p - length[c] + 1)
         /\ slot' \in [Blocks -> [0 .. BlockSize - 1 -> Seq(Token)]]
         /\ \A b \in Blocks : refcount[b] > 1 => slot'[b] = slot[b]
<1>. DEFINE from == length[c]
            to   == from + Len(toks) - 1
            n    == Missing(c, from + Len(toks))
            bt   == block_table'[c]
            L    == Len(block_table[c])
            B    == BlockSize
            W(b, o) == PositionsOf(b, o, bt, from, to)
<1>1. /\ from \in Nat /\ Len(toks) \in Nat /\ L \in Nat /\ B \in Nat \ {0}
      /\ block_table[c] \in Seq(Blocks) /\ context[c] \in Seq(Token)
      /\ slot \in [Blocks -> [0 .. B - 1 -> Seq(Token)]]
      /\ block_table \in [Caches -> Seq(Blocks)]
      /\ refcount \in [Blocks -> Nat]
  BY PoolAssumption DEF IInv, TypeOK
<1>2. n \in Nat /\ L + n \in Nat /\ from + Len(toks) <= B * (L + n)
  <2>1. from + Len(toks) \in Nat
    BY <1>1
  <2>2. n \in Nat /\ from + Len(toks) <= B * (L + n)
    BY <2>1, MissingEnough
  <2>. QED
    BY <1>1, <2>2
<1>3. /\ Allocate(n) /\ block_table' = [block_table EXCEPT ![c] = @ \o Popped(n)]
      /\ slot' = Written(c, toks, block_table[c] \o Popped(n))
  BY DEF Forward
<1>4. bt = block_table[c] \o Popped(n)
  BY <1>1, <1>3
<1>5. /\ TablesInjective'
      /\ block_table' \in [Caches -> Seq(Blocks)]
      /\ \A d \in Caches \ {c} : block_table'[d] = block_table[d]
      /\ Len(bt) = L + n
      /\ \A i \in 1 .. L : bt[i] = block_table[c][i]
      /\ \A i \in L + 1 .. L + n : refcount[bt[i]] = 0
  <2>. HIDE DEF n
  <2>1. n \in Nat /\ Grows(c, n)
    BY <1>2, <1>3 DEF Grows
  <2>2. /\ TablesInjective'
        /\ block_table' \in [Caches -> Seq(Blocks)]
        /\ \A d \in Caches \ {c} : block_table'[d] = block_table[d]
        /\ Len(block_table'[c]) = Len(block_table[c]) + n
        /\ \A i \in 1 .. Len(block_table[c]) : block_table'[c][i] = block_table[c][i]
        /\ \A i \in Len(block_table[c]) + 1 .. Len(block_table[c]) + n :
             refcount[block_table'[c][i]] = 0
    BY <2>1, GrowKeeps
  <2>. QED
    BY <2>2
<1>6. slot' = [b \in Blocks |-> [o \in 0 .. B - 1 |->
                 IF W(b, o) = {} THEN slot[b][o]
                 ELSE Encoded(c) \o SubSeq(toks, 1, (CHOOSE p \in W(b, o) : TRUE) - from + 1)]]
  <2>2. slot' = Written(c, toks, bt)
    BY <1>3, <1>4
  <2>. QED
    BY <2>2 DEF Written
<1>. HIDE DEF from, to, n, bt, L, B
\* A written slot lies in a block of c that is not wholly before the frontier.
<1>7. ASSUME NEW b, NEW o, NEW p \in W(b, o)
      PROVE  /\ p \in from .. to /\ p \in Nat /\ o = p % B
             /\ \E i \in 1 .. L + n : /\ b = bt[i] /\ i = p \div B + 1
                                      /\ i <= L => i * B > from
  <2>1. p \in from .. to /\ bt[p \div B + 1] = b /\ p % B = o /\ p \in Nat
    BY <1>1, <1>7 DEF PositionsOf, B
  <2>2. p < B * (L + n)
    BY <2>1, <1>1, <1>2 DEF to
  <2>3. p \div B + 1 \in 1 .. L + n /\ (p \div B + 1) * B > p
    BY <2>1, <2>2, <1>1, <1>2, BlockIndex DEF B
  <2>4. (p \div B + 1) * B \in Int
    BY <2>3, <1>1
  <2>. QED
    BY <2>1, <2>3, <2>4, <1>1
\* Such a block has at most one holder, c.
<1>8. ASSUME NEW b \in Blocks, NEW o, W(b, o) # {}
      PROVE  refcount[b] = 0 \/ (refcount[b] = 1 /\ b \in Range(block_table[c]))
  <2>1. PICK p : p \in W(b, o)
    BY <1>8
  <2>2. PICK i \in 1 .. L + n : b = bt[i] /\ (i <= L => i * B > from)
    BY <2>1, <1>7
  <2>3. CASE i <= L
    <3>1. i \in 1 .. L /\ b = block_table[c][i] /\ i * B > from
      BY <2>2, <2>3, <1>1, <1>5
    <3>2. refcount[b] = 1
      BY <3>1 DEF IInv, FrontierOwned, from, L, B
    <3>3. b \in Range(block_table[c])
      BY <3>1, <1>1, RangeSeq DEF L
    <3>. QED
      BY <3>2, <3>3
  <2>4. CASE i > L
    BY <2>2, <2>4, <1>1, <1>2, <1>5
  <2>. QED
    BY <2>3, <2>4, <1>1, <1>2
<1>9. ASSUME NEW b \in Blocks, \A o \in 0 .. B - 1 : W(b, o) = {}
      PROVE  slot'[b] = slot[b]
  <2>1. slot'[b] = [o \in 0 .. B - 1 |-> slot[b][o]]
    BY <1>6, <1>9
  <2>. QED
    BY <2>1, <1>1
<1>10. \A k \in DOMAIN cached : slot'[cached[k]] = slot[cached[k]]
  <2>. SUFFICES ASSUME NEW k \in DOMAIN cached PROVE slot'[cached[k]] = slot[cached[k]]
    OBVIOUS
  <2>1. cached[k] \in Blocks /\ refcount[cached[k]] # 0
    BY HeldByKey
  <2>2. cached[k] \in Range(block_table[c]) => refcount[cached[k]] # 1
    BY HeldByKey
  <2>. QED
    BY <2>1, <2>2, <1>8, <1>9
<1>11. \A b \in Blocks : refcount[b] > 1 => slot'[b] = slot[b]
  <2>. SUFFICES ASSUME NEW b \in Blocks, refcount[b] > 1 PROVE slot'[b] = slot[b]
    OBVIOUS
  <2>1. refcount[b] # 0 /\ refcount[b] # 1
    BY <1>1
  <2>. QED
    BY <2>1, <1>8, <1>9
\* Positions in one slot of one table are the same position.
<1>12. ASSUME NEW p \in Nat, NEW q \in Nat, p < B * (L + n), q < B * (L + n),
              bt[p \div B + 1] = bt[q \div B + 1], p % B = q % B
       PROVE  p = q
  <2>1. p \div B + 1 \in 1 .. L + n /\ q \div B + 1 \in 1 .. L + n
    BY <1>1, <1>2, <1>12, BlockIndex DEF B
  <2>2. p \div B + 1 = q \div B + 1
    BY <2>1, <1>5, <1>12 DEF TablesInjective, bt
  <2>3. p = B * (p \div B) + (p % B) /\ q = B * (q \div B) + (q % B)
        /\ p \div B \in Nat /\ q \div B \in Nat
    BY DivMod DEF B
  <2>4. p \div B = q \div B
    BY <2>2, <2>3
  <2>. QED
    BY <2>3, <2>4, <1>12
<1>13. \A d \in Caches : \A p \in 0 .. length[d] - 1 :
         SlotAt(block_table[d], p)' = SlotAt(block_table[d], p)
  <2>. SUFFICES ASSUME NEW d \in Caches, NEW p \in 0 .. length[d] - 1
                PROVE  SlotAt(block_table[d], p)' = SlotAt(block_table[d], p)
    OBVIOUS
  <2>. DEFINE i == p \div B + 1
              o == p % B
              M == Len(block_table[d])
              b == block_table[d][i]
  <2>1. length[d] \in Nat /\ M \in Nat /\ length[d] <= B * M /\ block_table[d] \in Seq(Blocks)
    BY <1>1 DEF IInv, TypeOK, KVExact, B
  <2>2. p \in Nat /\ p < B * M
    BY <2>1, <1>1
  <2>3. i \in 1 .. M /\ o \in 0 .. B - 1
    BY <2>1, <2>2, BlockIndex, DivMod DEF B
  <2>4. b \in Blocks /\ b \in Range(block_table[d])
    BY <2>1, <2>3, RangeSeq
  <2>5. refcount[b] # 0
    BY <2>4, HeldBySequence
  <2>6. block_table'[d][i] = b
    <3>1. CASE d = c
      BY <3>1, <2>3, <1>5 DEF bt, L
    <3>2. CASE d # c
      BY <3>2, <1>5
    <3>. QED
      BY <3>1, <3>2
  <2>7. W(b, o) = {}
    <3>. SUFFICES ASSUME NEW q \in W(b, o) PROVE FALSE
      OBVIOUS
    <3>1. W(b, o) # {}
      OBVIOUS
    <3>2. refcount[b] = 1 /\ b \in Range(block_table[c])
      BY <3>1, <2>4, <2>5, <1>8
    <3>3. d = c
      BY <3>2, <2>4, HeldBySequence
    <3>4. q \in from .. to /\ q \in Nat /\ o = q % B /\ b = bt[q \div B + 1]
      BY <1>7
    <3>8. p < from
      BY <2>1, <3>3 DEF from
    <3>5. q < B * (L + n) /\ p < B * (L + n)
      BY <3>8, <3>4, <2>2, <1>1, <1>2 DEF to
    <3>6. bt[p \div B + 1] = b
      BY <2>6, <3>3 DEF bt
    <3>7. p = q
      BY <3>4, <3>5, <3>6, <2>2, <1>12
    <3>. QED
      BY <3>4, <3>7, <3>8, <1>1
  <2>8. slot'[b][o] = slot[b][o]
    BY <2>3, <2>4, <2>7, <1>6
  <2>9. SlotAt(block_table[d], p)' = slot'[b][o] /\ SlotAt(block_table[d], p) = slot[b][o]
    BY <2>6 DEF SlotAt, B
  <2>. QED
    BY <2>8, <2>9
<1>14. \A p \in from .. to :
         SlotAt(block_table[c], p)' = context[c] \o SubSeq(toks, 1, p - from + 1)
  <2>. SUFFICES ASSUME NEW p \in from .. to
                PROVE  SlotAt(block_table[c], p)' = context[c] \o SubSeq(toks, 1, p - from + 1)
    OBVIOUS
  <2>. DEFINE b == bt[p \div B + 1]
              o == p % B
  <2>1. p \in Nat /\ p < B * (L + n)
    BY <1>1, <1>2 DEF to
  <2>2. p \div B + 1 \in 1 .. L + n /\ o \in 0 .. B - 1
    BY <2>1, <1>1, <1>2, BlockIndex, DivMod DEF B
  <2>3. b \in Blocks
    BY <2>2, <1>5, RangeSeq DEF bt
  <2>4. p \in W(b, o)
    BY DEF PositionsOf, B
  <2>5. \A q \in W(b, o) : q = p
    <3>. SUFFICES ASSUME NEW q \in W(b, o) PROVE q = p
      OBVIOUS
    <3>1. q \in from .. to /\ q \in Nat /\ o = q % B /\ b = bt[q \div B + 1]
      BY <1>7
    <3>2. q < B * (L + n)
      BY <3>1, <1>1, <1>2 DEF to
    <3>. QED
      BY <3>1, <3>2, <2>1, <1>12
  <2>6. (CHOOSE q \in W(b, o) : TRUE) = p
    BY <2>4, <2>5, SMTT(30)
  <2>7. slot'[b][o] = Encoded(c) \o SubSeq(toks, 1, p - from + 1)
    BY <2>2, <2>3, <2>4, <2>6, <1>6
  <2>8. SlotAt(block_table[c], p)' = slot'[b][o]
    BY DEF SlotAt, B, bt
  <2>. QED
    BY <2>7, <2>8, EncodedIsContext
<1>15. slot' \in [Blocks -> [0 .. B - 1 -> Seq(Token)]]
  <2>. SUFFICES ASSUME NEW b \in Blocks, NEW o \in 0 .. B - 1, W(b, o) # {}
                PROVE  Encoded(c) \o SubSeq(toks, 1, (CHOOSE p \in W(b, o) : TRUE) - from + 1) \in Seq(Token)
    BY <1>1, <1>6
  <2>1. PICK p : p = (CHOOSE q \in W(b, o) : TRUE)
    OBVIOUS
  <2>2. p \in from .. to
    BY <2>1, <1>7
  <2>3. p - from + 1 \in 1 .. Len(toks)
    BY <2>2, <1>1 DEF to
  <2>4. SubSeq(toks, 1, p - from + 1) \in Seq(Token)
    BY <2>3
  <2>5. Encoded(c) \in Seq(Token)
    BY <1>1, EncodedIsContext
  <2>. QED
    BY <2>1, <2>4, <2>5, ConcatSeq
<1>. QED
  BY <1>10, <1>11, <1>13, <1>14, <1>15 DEF from, to, B

LEMMA TimesMonotone ==
  ASSUME NEW m \in Nat, NEW n \in Nat, m <= n
  PROVE  BlockSize * m <= BlockSize * n
BY PoolAssumption

(* A table that grows keeps the frontier owned, as the length grows too.   *)
LEMMA GrowKeepsFrontier ==
  ASSUME IInv, NEW c \in Caches, NEW n \in Nat, Grows(c, n),
         NEW len \in Nat, len >= length[c],
         length' = [length EXCEPT ![c] = len]
  PROVE  FrontierOwned'
<1>. SUFFICES ASSUME NEW d \in Caches, NEW i \in 1 .. Len(block_table'[d]),
                     i * BlockSize > length'[d]
              PROVE  refcount'[block_table'[d][i]] = 1
  BY DEF FrontierOwned
<1>. DEFINE L == Len(block_table[c])
<1>1. /\ block_table \in [Caches -> Seq(Blocks)] /\ length \in [Caches -> 0 .. MaxSeq]
      /\ L \in Nat /\ BlockSize \in Nat \ {0} /\ MaxSeq \in Nat
  BY PoolAssumption, CacheAssumption DEF IInv, TypeOK
<1>2. /\ \A e \in Caches \ {c} : block_table'[e] = block_table[e]
      /\ Len(block_table'[c]) = L + n
      /\ \A j \in 1 .. L : block_table'[c][j] = block_table[c][j]
      /\ \A j \in L + 1 .. L + n : refcount'[block_table'[c][j]] = 1
      /\ \A b \in Blocks : refcount[b] # 0 => refcount'[b] = refcount[b]
  BY GrowKeeps
<1>3. ASSUME NEW j \in 1 .. Len(block_table[d]), j * BlockSize > length[d]
      PROVE  refcount'[block_table[d][j]] = 1
  <2>1. block_table[d][j] \in Blocks
    BY <1>1, RangeSeq
  <2>2. refcount[block_table[d][j]] = 1
    BY <1>3 DEF IInv, FrontierOwned
  <2>. QED
    BY <2>1, <2>2, <1>2
<1>4. CASE d # c
  <2>1. length'[d] = length[d] /\ block_table'[d] = block_table[d]
    BY <1>4, <1>1, <1>2
  <2>. QED
    BY <2>1, <1>3
<1>5. CASE d = c
  <2>1. length'[c] = len /\ i * BlockSize \in Int
    BY <1>1
  <2>2. CASE i <= L
    <3>1. i \in 1 .. L /\ i * BlockSize > length[c]
      BY <2>1, <2>2, <1>1, <1>2, <1>5
    <3>. QED
      BY <3>1, <1>2, <1>3, <1>5
  <2>3. CASE i > L
    BY <2>3, <1>1, <1>2, <1>5
  <2>. QED
    BY <2>2, <2>3, <1>1, <1>2, <1>5
<1>. QED
  BY <1>4, <1>5

LEMMA ForwardKeeps ==
  ASSUME IInv, NEW c \in Caches, NEW toks \in Seq(Token), Forward(c, toks), UNCHANGED cached
  PROVE  IInv'
<1>. DEFINE n   == Missing(c, length[c] + Len(toks))
            len == length[c] + Len(toks)
            L   == Len(block_table[c])
<1>1. /\ Len(toks) \in Nat /\ L \in Nat /\ BlockSize \in Nat \ {0} /\ MaxSeq \in Nat
      /\ block_table \in [Caches -> Seq(Blocks)] /\ context \in [Caches -> Seq(Token)]
      /\ length \in [Caches -> 0 .. MaxSeq] /\ length[c] \in Nat /\ len \in Nat
      /\ len >= length[c]
  BY PoolAssumption, CacheAssumption DEF IInv, TypeOK
<1>2. n \in Nat /\ len <= BlockSize * (L + n)
  BY <1>1, MissingEnough
<1>3. /\ Allocate(n) /\ block_table' = [block_table EXCEPT ![c] = @ \o Popped(n)]
      /\ len <= MaxSeq
      /\ length' = [length EXCEPT ![c] = len]
      /\ context' = [context EXCEPT ![c] = @ \o toks]
      /\ cached' = cached
      /\ Grows(c, n)
  BY DEF Forward, Grows
<1>4. /\ PoolType' /\ FreeListExact' /\ RefcountExact' /\ TablesInjective'
      /\ block_table' \in [Caches -> Seq(Blocks)]
      /\ \A d \in Caches \ {c} : block_table'[d] = block_table[d]
      /\ Len(block_table'[c]) = L + n
  BY <1>2, <1>3, GrowKeeps
<1>5. /\ \A d \in Caches : \A p \in 0 .. length[d] - 1 :
              SlotAt(block_table[d], p)' = SlotAt(block_table[d], p)
      /\ \A k \in DOMAIN cached : slot'[cached[k]] = slot[cached[k]]
      /\ \A p \in length[c] .. length[c] + Len(toks) - 1 :
              SlotAt(block_table[c], p)' = context[c] \o SubSeq(toks, 1, p - length[c] + 1)
      /\ slot' \in [Blocks -> [0 .. BlockSize - 1 -> Seq(Token)]]
  BY <1>3, ForwardWrites
<1>6. FrontierOwned'
  BY <1>1, <1>2, <1>3, GrowKeepsFrontier
<1>7. /\ context'[c] = context[c] \o toks /\ context[c] \in Seq(Token)
      /\ context' \in [Caches -> Seq(Token)]
      /\ length'[c] = len /\ length' \in [Caches -> 0 .. MaxSeq]
      /\ \A d \in Caches \ {c} : context'[d] = context[d] /\ length'[d] = length[d]
  BY <1>1, <1>3
<1>8. TypeOK'
  BY <1>3, <1>4, <1>5, <1>7 DEF IInv, TypeOK, PoolType
<1>9. IsFiniteSet(DOMAIN cached)' /\ CachedDistinct' /\ CachedExact'
  BY <1>3, <1>5 DEF IInv, CachedDistinct, CachedExact
<1>10. KVExact'
  <2>1. ASSUME NEW d \in Caches \ {c}
        PROVE  /\ length'[d] = Len(context'[d])
               /\ length'[d] <= BlockSize * Len(block_table'[d])
               /\ \A p \in 0 .. length'[d] - 1 :
                    SlotAt(block_table[d], p)' = SubSeq(context'[d], 1, p + 1)
    <3>1. /\ length[d] = Len(context[d])
          /\ length[d] <= BlockSize * Len(block_table[d])
          /\ \A p \in 0 .. length[d] - 1 :
               SlotAt(block_table[d], p) = SubSeq(context[d], 1, p + 1)
      BY DEF IInv, KVExact
    <3>2. context'[d] = context[d] /\ length'[d] = length[d] /\ block_table'[d] = block_table[d]
      BY <1>4, <1>7
    <3>3. \A p \in 0 .. length[d] - 1 : SlotAt(block_table[d], p)' = SlotAt(block_table[d], p)
      BY <1>5
    <3>. QED
      BY <3>1, <3>2, <3>3
  <2>2. length[c] = Len(context[c])
    BY DEF IInv, KVExact
  <2>3. length'[c] = Len(context'[c])
    BY <2>2, <1>1, <1>7
  <2>4. length'[c] <= BlockSize * Len(block_table'[c])
    BY <1>2, <1>4, <1>7
  <2>5. ASSUME NEW p \in 0 .. length'[c] - 1
        PROVE  SlotAt(block_table[c], p)' = SubSeq(context'[c], 1, p + 1)
    <3>1. CASE p < length[c]
      <4>1. p \in 0 .. length[c] - 1 /\ p + 1 \in 0 .. Len(context[c])
        BY <3>1, <2>2, <1>1, <1>7
      <4>2. SlotAt(block_table[c], p) = SubSeq(context[c], 1, p + 1)
        BY <4>1 DEF IInv, KVExact
      <4>3. SubSeq(context'[c], 1, p + 1) = SubSeq(context[c], 1, p + 1)
        BY <4>1, <1>7, PrefixOfConcat
      <4>. QED
        BY <4>1, <4>2, <4>3, <1>5
    <3>2. CASE p >= length[c]
      <4>. DEFINE k == p - length[c] + 1
      <4>1. p \in length[c] .. length[c] + Len(toks) - 1 /\ k \in 1 .. Len(toks)
            /\ p + 1 = Len(context[c]) + k
        BY <3>2, <2>2, <1>1, <1>7
      <4>2. SubSeq(context'[c], 1, Len(context[c]) + k) = context[c] \o SubSeq(toks, 1, k)
        BY <4>1, <1>7, PrefixOfConcat, ZenonT(60)
      <4>3. SlotAt(block_table[c], p)' = context[c] \o SubSeq(toks, 1, k)
        BY <4>1, <1>5
      <4>4. SubSeq(context'[c], 1, p + 1) = context[c] \o SubSeq(toks, 1, k)
        BY <4>1, <4>2
      <4>. QED
        BY <4>3, <4>4
    <3>3. p < length[c] \/ p >= length[c]
      BY <1>1, <1>7
    <3>. QED
      BY <3>1, <3>2, <3>3
  <2>. QED
    BY <2>1, <2>3, <2>4, <2>5 DEF KVExact
<1>. QED
  BY <1>4, <1>6, <1>8, <1>9, <1>10 DEF IInv

(* A table that grows, with nothing written, keeps the invariant.          *)
LEMMA ReserveKeeps ==
  ASSUME IInv, NEW c \in Caches, NEW n \in Nat, Grows(c, n),
         UNCHANGED <<slot, length, context>>
  PROVE  IInv'
<1>. DEFINE L == Len(block_table[c])
<1>1. /\ n \in Nat /\ L \in Nat /\ BlockSize \in Nat \ {0} /\ MaxSeq \in Nat
      /\ length \in [Caches -> 0 .. MaxSeq] /\ length[c] \in Nat
      /\ length[c] >= length[c]
  BY PoolAssumption, CacheAssumption DEF IInv, TypeOK
<1>2. /\ Allocate(n) /\ block_table' = [block_table EXCEPT ![c] = @ \o Popped(n)]
      /\ cached' = cached /\ length' = length /\ slot' = slot /\ context' = context
      /\ Grows(c, n)
  BY DEF Grows
<1>3. /\ PoolType' /\ FreeListExact' /\ RefcountExact' /\ TablesInjective'
      /\ block_table' \in [Caches -> Seq(Blocks)]
      /\ \A d \in Caches \ {c} : block_table'[d] = block_table[d]
      /\ Len(block_table'[c]) = L + n
      /\ \A i \in 1 .. L : block_table'[c][i] = block_table[c][i]
  BY <1>1, <1>2, GrowKeeps
<1>4. length' = [length EXCEPT ![c] = length[c]]
  BY <1>1, <1>2
<1>5. FrontierOwned'
  BY <1>1, <1>2, <1>4, GrowKeepsFrontier
<1>6. TypeOK'
  BY <1>2, <1>3 DEF IInv, TypeOK, PoolType
<1>7. IsFiniteSet(DOMAIN cached)' /\ CachedDistinct' /\ CachedExact'
  BY <1>2 DEF IInv, CachedDistinct, CachedExact
<1>8. KVExact'
  <2>1. ASSUME NEW d \in Caches
        PROVE  /\ Len(block_table[d]) \in Nat /\ length[d] \in Nat
               /\ length[d] <= BlockSize * Len(block_table[d])
               /\ \A i \in 1 .. Len(block_table[d]) : block_table'[d][i] = block_table[d][i]
               /\ Len(block_table'[d]) \in Nat
               /\ Len(block_table'[d]) >= Len(block_table[d])
    <3>1. /\ block_table[d] \in Seq(Blocks) /\ length[d] \in 0 .. MaxSeq
          /\ length[d] <= BlockSize * Len(block_table[d])
      BY DEF IInv, TypeOK, KVExact
    <3>2. CASE d = c
      BY <3>1, <3>2, <1>1, <1>3
    <3>3. CASE d # c
      <4>1. block_table'[d] = block_table[d]
        BY <3>3, <1>3
      <4>. QED
        BY <4>1, <3>1, <1>1
    <3>. QED
      BY <3>2, <3>3
  <2>2. ASSUME NEW d \in Caches
        PROVE  length[d] <= BlockSize * Len(block_table'[d])
    <3>1. BlockSize * Len(block_table[d]) <= BlockSize * Len(block_table'[d])
      BY <2>1, TimesMonotone
    <3>2. /\ BlockSize * Len(block_table[d]) \in Nat
          /\ BlockSize * Len(block_table'[d]) \in Nat
      BY <2>1, <1>1
    <3>. QED
      BY <3>1, <3>2, <2>1
  <2>3. ASSUME NEW d \in Caches, NEW p \in 0 .. length[d] - 1
        PROVE  SlotAt(block_table[d], p)' = SlotAt(block_table[d], p)
    <3>1. p \in Nat /\ p < BlockSize * Len(block_table[d])
      BY <2>1, <1>1
    <3>2. p \div BlockSize + 1 \in 1 .. Len(block_table[d])
      BY <3>1, <2>1, BlockIndex
    <3>. QED
      BY <3>2, <2>1, <1>2 DEF SlotAt
  <2>. QED
    BY <2>2, <2>3, <1>2 DEF IInv, KVExact
<1>. QED
  BY <1>3, <1>5, <1>6, <1>7, <1>8 DEF IInv

(* A forward that runs the pool dry keeps the blocks it got.               *)
LEMMA ForwardOutOfBlocksKeeps ==
  ASSUME IInv, NEW c \in Caches, NEW toks, ForwardOutOfBlocks(c, toks), UNCHANGED cached
  PROVE  IInv'
<1>1. Len(free_list) \in Nat
  BY DEF IInv, TypeOK
<1>2. Grows(c, Len(free_list)) /\ UNCHANGED <<slot, length, context>>
  BY DEF ForwardOutOfBlocks, Grows
<1>. QED
  BY <1>1, <1>2, ReserveKeeps

-----------------------------------------------------------------------------
(* Cutting a table back: truncate() and release().                         *)

LEMMA ShrinkKeeps ==
  ASSUME IInv, NEW c \in Caches, NEW keep \in 0 .. Len(block_table[c]),
         Free(SubSeq(block_table[c], keep + 1, Len(block_table[c]))),
         block_table' = [block_table EXCEPT ![c] = SubSeq(block_table[c], 1, keep)],
         cached' = cached
  PROVE  /\ PoolType' /\ FreeListExact' /\ RefcountExact' /\ TablesInjective'
         /\ block_table' \in [Caches -> Seq(Blocks)]
         /\ \A d \in Caches \ {c} : block_table'[d] = block_table[d]
         /\ Len(block_table'[c]) = keep
         /\ \A i \in 1 .. keep : block_table'[c][i] = block_table[c][i]
         /\ \A b \in Blocks : b \in Range(block_table'[c]) \/ b \notin Range(block_table[c])
              => refcount'[b] = refcount[b]
<1>. DEFINE bt == block_table[c]
            L == Len(bt)
            kept == SubSeq(bt, 1, keep)
            tail == SubSeq(bt, keep + 1, L)
<1>1. /\ PoolType /\ FreeListExact /\ bt \in Seq(Blocks) /\ L \in Nat /\ keep \in 0 .. L
      /\ block_table \in [Caches -> Seq(Blocks)]
      /\ \A i, j \in 1 .. L : bt[i] = bt[j] => i = j
  BY DEF IInv, TypeOK, PoolType, TablesInjective
<1>2. /\ block_table'[c] = kept
      /\ \A d \in Caches \ {c} : block_table'[d] = block_table[d]
      /\ Free(tail)
  BY <1>1
<1>. HIDE DEF bt, L
<1>3. /\ kept \in Seq(Blocks) /\ Len(kept) = keep
      /\ \A i \in 1 .. keep : kept[i] = bt[i]
  BY <1>1 DEF L
<1>4. /\ tail \in Seq(Blocks) /\ Len(tail) = L - keep
      /\ \A i \in 1 .. L - keep : tail[i] = bt[keep + i]
  <2>1. \A i \in keep + 1 .. L : bt[i] \in Blocks
    BY <1>1 DEF L
  <2>2. /\ tail \in Seq(Blocks)
        /\ Len(tail) = IF keep + 1 <= L THEN L - (keep + 1) + 1 ELSE 0
        /\ \A i \in 1 .. L - (keep + 1) + 1 : tail[i] = bt[(keep + 1) + i - 1]
    BY <1>1, <2>1, SubSeqProperties
  <2>3. Len(tail) = L - keep /\ L - (keep + 1) + 1 = L - keep
    BY <1>1, <2>2
  <2>4. ASSUME NEW i \in 1 .. L - keep
        PROVE  tail[i] = bt[keep + i]
    <3>1. (keep + 1) + i - 1 = keep + i /\ i \in 1 .. L - (keep + 1) + 1
      BY <1>1, <2>3
    <3>. QED
      BY <3>1, <2>2
  <2>. QED
    BY <2>2, <2>3, <2>4
<1>. HIDE DEF kept, tail
<1>5. \A i, j \in 1 .. Len(tail) : tail[i] = tail[j] => i = j
  <2>. SUFFICES ASSUME NEW i \in 1 .. L - keep, NEW j \in 1 .. L - keep, tail[i] = tail[j]
                PROVE  i = j
    BY <1>4
  <2>1. keep + i \in 1 .. L /\ keep + j \in 1 .. L /\ bt[keep + i] = bt[keep + j]
    BY <1>1, <1>4
  <2>. QED
    BY <2>1, <1>1
<1>6. /\ PoolType' /\ FreeListExact'
      /\ \A b \in Range(tail) : refcount[b] > 0 /\ refcount'[b] = refcount[b] - 1
      /\ \A b \in Blocks \ Range(tail) : refcount'[b] = refcount[b]
  BY <1>1, <1>2, <1>4, <1>5, FreeKeeps
<1>7. /\ Range(bt) = Range(kept) \cup Range(tail)
      /\ Range(kept) \cap Range(tail) = {}
  <2>1. \A b : b \in Range(kept) <=> \E i \in 1 .. keep : bt[i] = b
    <3>1. \A b : b \in Range(kept) <=> \E i \in 1 .. keep : kept[i] = b
      BY <1>3, RangeSeq
    <3>. QED
      BY <3>1, <1>3
  <2>2. \A b : b \in Range(tail) <=> \E i \in keep + 1 .. L : bt[i] = b
    <3>1. \A b : b \in Range(tail) <=> \E i \in 1 .. L - keep : tail[i] = b
      BY <1>4, RangeSeq
    <3>2. ASSUME NEW b, NEW i \in 1 .. L - keep, tail[i] = b
          PROVE  \E j \in keep + 1 .. L : bt[j] = b
      <4>1. keep + i \in keep + 1 .. L /\ bt[keep + i] = b
        BY <3>2, <1>1, <1>4
      <4>. QED
        BY <4>1
    <3>3. ASSUME NEW b, NEW j \in keep + 1 .. L, bt[j] = b
          PROVE  \E i \in 1 .. L - keep : tail[i] = b
      <4>1. j - keep \in 1 .. L - keep /\ keep + (j - keep) = j
        BY <1>1
      <4>2. tail[j - keep] = b
        BY <4>1, <3>3, <1>4
      <4>. QED
        BY <4>1, <4>2
    <3>. QED
      BY <3>1, <3>2, <3>3
  <2>3. \A b : b \in Range(bt) <=> \E i \in 1 .. L : bt[i] = b
    BY <1>1, RangeSeq DEF L
  <2>4. \A i : i \in 1 .. L <=> i \in 1 .. keep \/ i \in keep + 1 .. L
    BY <1>1
  <2>5. \A i \in 1 .. keep, j \in keep + 1 .. L : i \in 1 .. L /\ j \in 1 .. L /\ i # j
    BY <1>1
  <2>6. Range(bt) = Range(kept) \cup Range(tail)
    BY <2>1, <2>2, <2>3, <2>4
  <2>7. Range(kept) \cap Range(tail) = {}
    BY <2>1, <2>2, <2>5, <1>1
  <2>. QED
    BY <2>6, <2>7
<1>8. TablesInjective'
  <2>1. \A i, j \in 1 .. keep : kept[i] = kept[j] => i = j
    <3>1. \A i \in 1 .. keep : i \in 1 .. L
      BY <1>1
    <3>. QED
      BY <3>1, <1>1, <1>3
  <2>. QED
    BY <2>1, <1>2, <1>3 DEF IInv, TablesInjective
<1>9. RefcountExact'
  <2>. SUFFICES ASSUME NEW b \in Blocks
                PROVE  refcount'[b] = Cardinality(SeqHolders(b)') + Cardinality(KeyHolders(b)')
    BY DEF RefcountExact
  <2>1. refcount[b] \in Nat
    BY <1>1 DEF PoolType
  <2>2. refcount'[b] = refcount[b]
                        + (IF b \in Range(block_table'[c]) THEN 1 ELSE 0)
                        - (IF b \in Range(block_table[c]) THEN 1 ELSE 0)
    <3>1. /\ b \in Range(block_table'[c]) <=> b \in Range(kept)
          /\ b \in Range(block_table[c]) <=> b \in Range(kept) \/ b \in Range(tail)
          /\ ~ (b \in Range(kept) /\ b \in Range(tail))
      BY <1>2, <1>7 DEF bt
    <3>2. CASE b \in Range(tail)
      BY <2>1, <3>1, <3>2, <1>6
    <3>3. CASE b \notin Range(tail)
      <4>1. refcount'[b] = refcount[b]
        BY <3>3, <1>6
      <4>. QED
        BY <2>1, <3>1, <3>3, <4>1
    <3>. QED
      BY <3>2, <3>3
  <2>. QED
    BY <2>2, <1>2, CountFollowsTable
<1>10. block_table' \in [Caches -> Seq(Blocks)]
  BY <1>1, <1>2, <1>3
<1>11. \A b \in Blocks : b \in Range(block_table'[c]) \/ b \notin Range(block_table[c])
              => refcount'[b] = refcount[b]
  BY <1>2, <1>6, <1>7 DEF bt
<1>. QED
  BY <1>2, <1>3, <1>6, <1>8, <1>9, <1>10, <1>11 DEF bt, L

(* What another sequence writes next is not in this one's table. *)
LEMMA OthersFrontierKept ==
  ASSUME IInv, NEW c \in Caches, NEW d \in Caches, d # c,
         NEW i \in 1 .. Len(block_table[d]), i * BlockSize > length[d]
  PROVE  /\ block_table[d][i] \in Blocks
         /\ block_table[d][i] \notin Range(block_table[c])
         /\ refcount[block_table[d][i]] = 1
<1>1. block_table[d] \in Seq(Blocks)
  BY DEF IInv, TypeOK
<1>2. block_table[d][i] \in Blocks /\ block_table[d][i] \in Range(block_table[d])
  BY <1>1, RangeSeq
<1>3. refcount[block_table[d][i]] = 1
  BY DEF IInv, FrontierOwned
<1>. QED
  BY <1>2, <1>3, HeldBySequence

(* A cache cut back to len positions and keep blocks, which cover them. *)
LEMMA CutKeeps ==
  ASSUME IInv, NEW c \in Caches, NEW keep \in 0 .. Len(block_table[c]), NEW len \in 0 .. length[c],
         len <= BlockSize * keep,
         \A i \in 1 .. keep : i * BlockSize > len => refcount[block_table[c][i]] = 1,
         Free(SubSeq(block_table[c], keep + 1, Len(block_table[c]))),
         block_table' = [block_table EXCEPT ![c] = SubSeq(block_table[c], 1, keep)],
         length' = [length EXCEPT ![c] = len],
         context' = [context EXCEPT ![c] = SubSeq(context[c], 1, len)],
         slot' = slot, cached' = cached
  PROVE  IInv'
<1>. DEFINE bt == block_table[c]
            ctx == context[c]
<1>1. /\ block_table \in [Caches -> Seq(Blocks)] /\ context \in [Caches -> Seq(Token)]
      /\ length \in [Caches -> 0 .. MaxSeq] /\ MaxSeq \in Nat /\ BlockSize \in Nat \ {0}
      /\ Len(bt) \in Nat /\ ctx \in Seq(Token) /\ length[c] = Len(ctx)
      /\ keep \in Nat /\ len \in Nat /\ bt \in Seq(Blocks)
  BY PoolAssumption, CacheAssumption DEF IInv, TypeOK, KVExact
<1>2. /\ PoolType' /\ FreeListExact' /\ RefcountExact' /\ TablesInjective'
      /\ block_table' \in [Caches -> Seq(Blocks)]
      /\ \A d \in Caches \ {c} : block_table'[d] = block_table[d]
      /\ Len(block_table'[c]) = keep
      /\ \A i \in 1 .. keep : block_table'[c][i] = bt[i]
      /\ \A b \in Blocks : b \in Range(block_table'[c]) \/ b \notin Range(bt)
           => refcount'[b] = refcount[b]
  BY ShrinkKeeps
<1>3. SubSeq(ctx, 1, len) \in Seq(Token) /\ Len(SubSeq(ctx, 1, len)) = len
      /\ \A i \in 1 .. len : SubSeq(ctx, 1, len)[i] = ctx[i]
  BY <1>1
<1>4. /\ context'[c] = SubSeq(ctx, 1, len) /\ context' \in [Caches -> Seq(Token)]
      /\ length'[c] = len /\ length' \in [Caches -> 0 .. MaxSeq]
      /\ \A d \in Caches \ {c} : context'[d] = context[d] /\ length'[d] = length[d]
  BY <1>1, <1>3
<1>5. TypeOK' /\ CachedDistinct' /\ CachedExact' /\ IsFiniteSet(DOMAIN cached)'
  BY <1>2, <1>4, SMTT(30) DEF IInv, TypeOK, PoolType, CachedDistinct, CachedExact
<1>. HIDE DEF bt, ctx
<1>6. FrontierOwned'
  <2>. SUFFICES ASSUME NEW d \in Caches, NEW i \in 1 .. Len(block_table'[d]),
                       i * BlockSize > length'[d]
                PROVE  refcount'[block_table'[d][i]] = 1
    BY DEF FrontierOwned
  <2>1. CASE d # c
    <3>1. block_table'[d] = block_table[d] /\ length'[d] = length[d]
      BY <2>1, <1>2, <1>4
    <3>2. /\ block_table[d][i] \in Blocks /\ refcount[block_table[d][i]] = 1
          /\ block_table[d][i] \notin Range(bt)
      BY <2>1, <3>1, OthersFrontierKept DEF bt
    <3>. QED
      BY <3>1, <3>2, <1>2
  <2>2. CASE d = c
    <3>1. i \in 1 .. keep /\ i * BlockSize > len
      BY <2>2, <1>2, <1>4
    <3>2. refcount[bt[i]] = 1 /\ block_table'[c][i] = bt[i]
      BY <3>1, <1>2 DEF bt
    <3>3. block_table'[c][i] \in Range(block_table'[c]) /\ block_table'[c][i] \in Blocks
      BY <3>1, <1>2, RangeSeq
    <3>. QED
      BY <2>2, <3>2, <3>3, <1>2
  <2>. QED
    BY <2>1, <2>2
<1>7. KVExact'
  <2>1. ASSUME NEW d \in Caches \ {c}
        PROVE  /\ length'[d] = Len(context'[d])
               /\ length'[d] <= BlockSize * Len(block_table'[d])
               /\ \A p \in 0 .. length'[d] - 1 :
                    SlotAt(block_table[d], p)' = SubSeq(context'[d], 1, p + 1)
    <3>1. /\ length[d] = Len(context[d])
          /\ length[d] <= BlockSize * Len(block_table[d])
          /\ \A p \in 0 .. length[d] - 1 :
               SlotAt(block_table[d], p) = SubSeq(context[d], 1, p + 1)
      BY DEF IInv, KVExact
    <3>2. context'[d] = context[d] /\ length'[d] = length[d] /\ block_table'[d] = block_table[d]
      BY <1>2, <1>4
    <3>3. \A p : SlotAt(block_table[d], p)' = SlotAt(block_table[d], p)
      BY <3>2 DEF SlotAt
    <3>. QED
      BY <3>1, <3>2, <3>3
  <2>2. length'[c] = Len(context'[c]) /\ length'[c] <= BlockSize * Len(block_table'[c])
    BY <1>2, <1>3, <1>4
  <2>3. ASSUME NEW p \in 0 .. length'[c] - 1
        PROVE  SlotAt(block_table[c], p)' = SubSeq(context'[c], 1, p + 1)
    <3>1. p \in 0 .. len - 1 /\ p \in Nat /\ p + 1 \in 1 .. len /\ p \in 0 .. length[c] - 1
      BY <1>1, <1>4
    <3>2. p < BlockSize * keep
      BY <3>1, <1>1
    <3>3. p \div BlockSize + 1 \in 1 .. keep
      BY <3>1, <3>2, <1>1, BlockIndex
    <3>4. SlotAt(block_table[c], p)' = SlotAt(block_table[c], p)
      BY <3>3, <1>2 DEF SlotAt, bt
    <3>5. SlotAt(block_table[c], p) = SubSeq(ctx, 1, p + 1)
      BY <3>1 DEF IInv, KVExact, ctx
    <3>6. SubSeq(SubSeq(ctx, 1, len), 1, p + 1) = SubSeq(ctx, 1, p + 1)
      BY <3>1, <1>1, <1>3, SMTT(30)
    <3>. QED
      BY <3>4, <3>5, <3>6, <1>4
  <2>. QED
    BY <2>1, <2>2, <2>3 DEF KVExact
<1>. QED
  BY <1>2, <1>5, <1>6, <1>7 DEF IInv

LEMMA RollbackKeeps ==
  ASSUME IInv, NEW c \in Caches, NEW len, Rollback(c, len)
  PROVE  IInv'
<1>. DEFINE keep == BlocksFor(len)
            L == Len(block_table[c])
            B == BlockSize
<1>1. /\ len \in 0 .. length[c] /\ len \in Nat /\ L \in Nat /\ B \in Nat \ {0}
      /\ length[c] \in Nat /\ length[c] <= B * L
  BY PoolAssumption, CacheAssumption DEF IInv, TypeOK, KVExact, Rollback, Truncate
<1>2. /\ keep \in Nat /\ len <= B * keep
      /\ \A i \in Nat : i <= keep <=> B * (i - 1) < len \/ i = 0
  BY <1>1, BlocksForCovers
<1>3. /\ Free(SubSeq(block_table[c], keep + 1, L))
      /\ block_table' = [block_table EXCEPT ![c] = SubSeq(block_table[c], 1, keep)]
      /\ length' = [length EXCEPT ![c] = len]
      /\ context' = [context EXCEPT ![c] = SubSeq(@, 1, len)]
      /\ slot' = slot /\ cached' = cached
  BY DEF Rollback, Truncate
<1>4. context' = [context EXCEPT ![c] = SubSeq(context[c], 1, len)]
  BY <1>3 DEF IInv, TypeOK
<1>. HIDE DEF keep, L, B
<1>5. keep \in 0 .. L
  <2>1. SUFFICES ASSUME keep > L PROVE FALSE
    BY <1>1, <1>2
  <2>2. B * (keep - 1) < len
    BY <2>1, <1>1, <1>2
  <2>3. B * L <= B * (keep - 1)
    BY <2>1, <1>1, <1>2
  <2>. QED
    BY <2>2, <2>3, <1>1, <1>2
<1>6. ASSUME NEW i \in 1 .. keep, i * B > len
      PROVE  refcount[block_table[c][i]] = 1
  <2>. DEFINE o == len - B * (i - 1)
  <2>1. B * (i - 1) < len /\ i * B = B * (i - 1) + B /\ B * (i - 1) \in Nat
    BY <1>1, <1>2
  <2>2. o \in 0 .. B - 1 /\ o # 0 /\ len = B * (i - 1) + o /\ i - 1 \in Int
    BY <2>1, <1>6, <1>1
  <2>. HIDE DEF o
  <2>3. i - 1 = len \div BlockSize /\ o = len % BlockSize
    BY <2>2, <1>1, DivModUnique DEF B
  <2>4. len % BlockSize # 0 /\ len \div BlockSize + 1 = i
    BY <2>2, <2>3, <1>2
  <2>. QED
    BY <2>4 DEF Rollback, MayCut
<1>. QED
  BY <1>1, <1>2, <1>3, <1>4, <1>5, <1>6, CutKeeps DEF L, B

LEMMA ReleaseKeeps ==
  ASSUME IInv, NEW c \in Caches, Release(c), UNCHANGED cached
  PROVE  IInv'
<1>. DEFINE bt == block_table[c]
<1>1. /\ bt \in Seq(Blocks) /\ context[c] \in Seq(Token) /\ length[c] \in Nat
      /\ BlockSize \in Nat \ {0}
      /\ block_table \in [Caches -> Seq(Blocks)] /\ context \in [Caches -> Seq(Token)]
  BY PoolAssumption, CacheAssumption DEF IInv, TypeOK
<1>2. SubSeq(bt, 0 + 1, Len(bt)) = bt /\ SubSeq(bt, 1, 0) = <<>> /\ SubSeq(context[c], 1, 0) = <<>>
  BY <1>1
<1>3. /\ Free(SubSeq(bt, 0 + 1, Len(bt)))
      /\ block_table' = [block_table EXCEPT ![c] = SubSeq(bt, 1, 0)]
      /\ context' = [context EXCEPT ![c] = SubSeq(context[c], 1, 0)]
      /\ length' = [length EXCEPT ![c] = 0]
      /\ slot' = slot /\ cached' = cached
  BY <1>2 DEF Release
<1>4. 0 \in 0 .. Len(bt) /\ 0 \in 0 .. length[c] /\ 0 <= BlockSize * 0
  BY <1>1
<1>5. \A i \in 1 .. 0 : i * BlockSize > 0 => refcount[bt[i]] = 1
  OBVIOUS
<1>. DEFINE none == 0
<1>. HIDE DEF none
<1>6. /\ none \in 0 .. Len(bt) /\ none \in 0 .. length[c] /\ none <= BlockSize * none
      /\ \A i \in 1 .. none : i * BlockSize > none => refcount[bt[i]] = 1
      /\ Free(SubSeq(bt, none + 1, Len(bt)))
      /\ block_table' = [block_table EXCEPT ![c] = SubSeq(bt, 1, none)]
      /\ context' = [context EXCEPT ![c] = SubSeq(context[c], 1, none)]
      /\ length' = [length EXCEPT ![c] = none]
      /\ slot' = slot /\ cached' = cached
  BY <1>3, <1>4, <1>5 DEF none
<1>. QED
  BY <1>6, CutKeeps

-----------------------------------------------------------------------------
(* The prefix cache's operations.                                          *)

(* A key holds whole blocks of the prompt. *)
LEMMA KeyProperties ==
  ASSUME NEW toks \in Seq(Token), NEW k \in Nat, k * BlockSize <= Len(toks)
  PROVE  /\ Key(toks, k) \in Seq(Token)
         /\ Len(Key(toks, k)) = k * BlockSize
         /\ \A j \in 0 .. k * BlockSize : SubSeq(Key(toks, k), 1, j) = SubSeq(toks, 1, j)
<1>. DEFINE m == k * BlockSize
<1>1. m \in 0 .. Len(toks) /\ Key(toks, k) = SubSeq(toks, 1, m)
  BY PoolAssumption DEF Key
<1>. HIDE DEF m
<1>2. SubSeq(toks, 1, m) \in Seq(Token) /\ Len(SubSeq(toks, 1, m)) = m
  BY <1>1
<1>3. \A j \in 0 .. m : SubSeq(SubSeq(toks, 1, m), 1, j) = SubSeq(toks, 1, j)
  BY <1>1
<1>. QED
  BY <1>1, <1>2, <1>3 DEF m

(* Keys of different lengths are different. *)
LEMMA KeyInjective ==
  ASSUME NEW toks \in Seq(Token), NEW i \in Nat, NEW j \in Nat,
         i * BlockSize <= Len(toks), j * BlockSize <= Len(toks), Key(toks, i) = Key(toks, j)
  PROVE  i = j
<1>1. i * BlockSize = j * BlockSize
  BY KeyProperties
<1>2. i * BlockSize \in Nat /\ j * BlockSize \in Nat
  BY PoolAssumption
<1>3. i < j => i * BlockSize < j * BlockSize
  BY PoolAssumption
<1>4. j < i => j * BlockSize < i * BlockSize
  BY PoolAssumption
<1>. DEFINE a == i * BlockSize
            b == j * BlockSize
<1>. HIDE DEF a, b
<1>5. a = b /\ a \in Nat /\ b \in Nat /\ (i < j => a < b) /\ (j < i => b < a)
  BY <1>1, <1>2, <1>3, <1>4 DEF a, b
<1>. QED
  BY <1>5

(* What match() returns: distinct blocks, which hold the prefix. *)
LEMMA MatchedHolds ==
  ASSUME IInv, NEW toks \in Seq(Token), NEW n \in 1 .. Len(toks), Matches(toks, n)
  PROVE  /\ Matched(toks, n) \in Seq(Blocks) /\ Len(Matched(toks, n)) = n
         /\ \A i, j \in 1 .. n : Matched(toks, n)[i] = Matched(toks, n)[j] => i = j
         /\ \A b \in Range(Matched(toks, n)) : b \in Blocks /\ \E k \in DOMAIN cached : cached[k] = b
         /\ Key(toks, n) \in Seq(Token) /\ Len(Key(toks, n)) = n * BlockSize
         /\ n * BlockSize <= MaxSeq
         /\ \A p \in 0 .. n * BlockSize - 1 :
              SlotAt(Matched(toks, n), p) = SubSeq(Key(toks, n), 1, p + 1)
<1>. DEFINE M == Matched(toks, n)
            B == BlockSize
            most == (Len(toks) - 1) \div BlockSize
<1>1. /\ Len(toks) \in Nat /\ n \in Nat /\ n >= 1 /\ B \in Nat \ {0} /\ Len(toks) - 1 \in Nat
      /\ MaxSeq \in Nat
  BY PoolAssumption, CacheAssumption
<1>2. most \in Nat /\ B * most <= Len(toks) - 1 /\ n <= most
  <2>1. /\ most \in Nat
        /\ (Len(toks) - 1) % BlockSize \in 0 .. B - 1
        /\ Len(toks) - 1 = BlockSize * most + ((Len(toks) - 1) % BlockSize)
    BY <1>1, DivMod
  <2>2. n \in 0 .. most
    BY DEF Matches
  <2>. QED
    BY <2>1, <2>2, <1>1
<1>. HIDE DEF B, most
<1>3. \A k \in 0 .. n : k * B <= Len(toks) /\ k * B \in Nat /\ k * B <= n * B
  <2>1. B * n <= B * most
    BY <1>1, <1>2
  <2>. SUFFICES ASSUME NEW k \in 0 .. n
                PROVE  k * B <= Len(toks) /\ k * B \in Nat /\ k * B <= n * B
    OBVIOUS
  <2>2. k * B <= n * B /\ k * B \in Nat /\ n * B = B * n /\ B * n \in Nat /\ B * most \in Nat
    BY <1>1, <1>2
  <2>. QED
    BY <2>1, <2>2, <1>1, <1>2
<1>4. \A k \in 1 .. n : /\ Key(toks, k) \in Seq(Token) /\ Len(Key(toks, k)) = k * B
                        /\ \A j \in 0 .. k * B : SubSeq(Key(toks, k), 1, j) = SubSeq(toks, 1, j)
  <2>. SUFFICES ASSUME NEW k \in 1 .. n
                PROVE  /\ Key(toks, k) \in Seq(Token) /\ Len(Key(toks, k)) = k * B
                       /\ \A j \in 0 .. k * B : SubSeq(Key(toks, k), 1, j) = SubSeq(toks, 1, j)
    OBVIOUS
  <2>1. k \in Nat /\ k * B <= Len(toks)
    BY <1>1, <1>3
  <2>. QED
    BY <2>1, KeyProperties DEF B
<1>5. \A k \in 1 .. n : Key(toks, k) \in DOMAIN cached /\ cached[Key(toks, k)] \in Blocks
  BY DEF Matches, IInv, TypeOK, Range
<1>6. M = [k \in 1 .. n |-> cached[Key(toks, k)]]
  BY DEF Matched
<1>. HIDE DEF M
<1>7. M \in Seq(Blocks) /\ Len(M) = n
  BY <1>1, <1>5, <1>6
<1>8. \A i, j \in 1 .. n : M[i] = M[j] => i = j
  <2>. SUFFICES ASSUME NEW i \in 1 .. n, NEW j \in 1 .. n, M[i] = M[j]
                PROVE  i = j
    OBVIOUS
  <2>1. Key(toks, i) = Key(toks, j)
    BY <1>5, <1>6 DEF IInv, CachedDistinct
  <2>. QED
    BY <2>1, <1>1, <1>3, KeyInjective DEF B
<1>9. \A b \in Range(M) : b \in Blocks /\ \E k \in DOMAIN cached : cached[k] = b
  BY <1>5, <1>6 DEF Range
<1>10. n * B <= MaxSeq /\ Key(toks, n) \in Seq(Token) /\ Len(Key(toks, n)) = n * B
  <2>1. n \in 1 .. n
    BY <1>1
  <2>. QED
    BY <2>1, <1>4, <1>5 DEF IInv, TypeOK
<1>11. ASSUME NEW p \in 0 .. n * B - 1
       PROVE  SlotAt(M, p) = SubSeq(Key(toks, n), 1, p + 1)
  <2>. DEFINE i == p \div BlockSize + 1
              o == p % BlockSize
  <2>1. p \in Nat /\ p < B * n /\ n * B = B * n
    BY <1>1, <1>3
  <2>2. i \in 1 .. n /\ o \in 0 .. B - 1 /\ p = B * (i - 1) + o
    <3>1. i \in 1 .. n
      BY <2>1, <1>1, BlockIndex DEF B
    <3>2. p \div BlockSize \in Nat /\ o \in 0 .. B - 1 /\ p = B * (p \div BlockSize) + o
      BY <2>1, DivMod DEF B
    <3>3. i - 1 = p \div BlockSize
      BY <3>2
    <3>. QED
      BY <3>1, <3>2, <3>3
  <2>. HIDE DEF i, o
  <2>3. slot[cached[Key(toks, i)]][o] = SubSeq(Key(toks, i), 1, Len(Key(toks, i)) - B + o + 1)
    BY <2>2, <1>5 DEF IInv, CachedExact, B
  <2>4. i * B = B * (i - 1) + B /\ B * (i - 1) \in Nat
    BY <2>2, <1>1
  <2>5. i * B - B + o + 1 = p + 1 /\ p + 1 \in 0 .. i * B
    BY <2>2, <2>4, <1>1
  <2>6. SubSeq(Key(toks, i), 1, p + 1) = SubSeq(toks, 1, p + 1)
    BY <2>2, <2>5, <1>4
  <2>7. p + 1 \in 0 .. n * B /\ n \in 1 .. n
    BY <2>1, <1>1
  <2>8. SubSeq(Key(toks, n), 1, p + 1) = SubSeq(toks, 1, p + 1)
    BY <2>7, <1>4
  <2>9. SlotAt(M, p) = slot[cached[Key(toks, i)]][o]
    BY <2>2, <1>6 DEF SlotAt, i, o
  <2>. QED
    BY <2>2, <2>3, <2>5, <2>6, <2>8, <2>9, <1>4
<1>. QED
  BY <1>7, <1>8, <1>9, <1>10, <1>11 DEF M, B

LEMMA SeedKeeps ==
  ASSUME IInv, NEW c \in Caches, NEW toks \in Prompts, Seed(c, toks)
  PROVE  IInv'
<1>0. toks \in Seq(Token)
  BY StoreAssumption
<1>1. PICK n \in 1 .. Len(toks) :
        Matches(toks, n) /\ SharePrefix(c, Matched(toks, n), Key(toks, n)) /\ cached' = cached
  BY DEF Seed
<1>. DEFINE M == Matched(toks, n)
            key == Key(toks, n)
            B == BlockSize
<1>2. /\ M \in Seq(Blocks) /\ Len(M) = n
      /\ \A i, j \in 1 .. n : M[i] = M[j] => i = j
      /\ \A b \in Range(M) : b \in Blocks /\ \E k \in DOMAIN cached : cached[k] = b
      /\ key \in Seq(Token) /\ Len(key) = n * B /\ n * B <= MaxSeq
      /\ \A p \in 0 .. n * B - 1 : SlotAt(M, p) = SubSeq(key, 1, p + 1)
  BY <1>0, <1>1, MatchedHolds
<1>3. /\ block_table[c] = <<>> /\ length[c] = 0 /\ Incref(Range(M))
      /\ block_table' = [block_table EXCEPT ![c] = M]
      /\ length' = [length EXCEPT ![c] = Len(key)]
      /\ context' = [context EXCEPT ![c] = key]
      /\ slot' = slot /\ cached' = cached
  BY <1>1 DEF SharePrefix
<1>. HIDE DEF M, key
<1>4. /\ PoolType /\ FreeListExact /\ Range(M) \in SUBSET Blocks
      /\ block_table \in [Caches -> Seq(Blocks)] /\ context \in [Caches -> Seq(Token)]
      /\ length \in [Caches -> 0 .. MaxSeq] /\ MaxSeq \in Nat /\ B \in Nat \ {0}
      /\ n \in Nat /\ n * B \in Nat
  BY <1>0, <1>2, PoolAssumption, CacheAssumption, SMTT(30) DEF IInv, TypeOK, PoolType
<1>5. /\ PoolType' /\ FreeListExact'
      /\ \A b \in Range(M) : refcount[b] > 0 /\ refcount'[b] = refcount[b] + 1
      /\ \A b \in Blocks \ Range(M) : refcount'[b] = refcount[b]
  BY <1>3, <1>4, IncrefKeeps
<1>6. /\ block_table'[c] = M /\ context'[c] = key /\ length'[c] = n * B
      /\ \A d \in Caches \ {c} : /\ block_table'[d] = block_table[d]
                                 /\ length'[d] = length[d] /\ context'[d] = context[d]
      /\ block_table' \in [Caches -> Seq(Blocks)] /\ context' \in [Caches -> Seq(Token)]
      /\ length' \in [Caches -> 0 .. MaxSeq]
  BY <1>2, <1>3, <1>4
<1>7. TypeOK' /\ CachedDistinct' /\ CachedExact' /\ IsFiniteSet(DOMAIN cached)'
  BY <1>3, <1>5, <1>6 DEF IInv, TypeOK, PoolType, CachedDistinct, CachedExact
<1>8. TablesInjective'
  <2>1. ASSUME NEW d \in Caches, NEW i \in 1 .. Len(block_table'[d]),
               NEW j \in 1 .. Len(block_table'[d]), block_table'[d][i] = block_table'[d][j]
        PROVE  i = j
    <3>1. CASE d = c
      BY <2>1, <3>1, <1>2, <1>6
    <3>2. CASE d # c
      <4>1. block_table'[d] = block_table[d]
        BY <3>2, <1>6
      <4>. QED
        BY <2>1, <4>1 DEF IInv, TablesInjective
    <3>. QED
      BY <3>1, <3>2
  <2>. QED
    BY <2>1 DEF TablesInjective
<1>9. RefcountExact'
  <2>. SUFFICES ASSUME NEW b \in Blocks
                PROVE  refcount'[b] = Cardinality(SeqHolders(b)') + Cardinality(KeyHolders(b)')
    BY DEF RefcountExact
  <2>1. refcount[b] \in Nat
    BY <1>4 DEF PoolType
  <2>2. b \notin Range(block_table[c])
    BY <1>3 DEF Range
  <2>3. refcount'[b] = refcount[b]
                        + (IF b \in Range(block_table'[c]) THEN 1 ELSE 0)
                        - (IF b \in Range(block_table[c]) THEN 1 ELSE 0)
    <3>1. CASE b \in Range(M)
      BY <3>1, <2>1, <2>2, <1>5, <1>6
    <3>2. CASE b \notin Range(M)
      <4>1. refcount'[b] = refcount[b]
        BY <3>2, <1>5
      <4>. QED
        BY <3>2, <4>1, <2>1, <2>2, <1>6
    <3>. QED
      BY <3>1, <3>2
  <2>. QED
    BY <2>3, <1>3, <1>6, CountFollowsTable
<1>10. FrontierOwned'
  <2>. SUFFICES ASSUME NEW d \in Caches, NEW i \in 1 .. Len(block_table'[d]),
                       i * BlockSize > length'[d]
                PROVE  refcount'[block_table'[d][i]] = 1
    BY DEF FrontierOwned
  <2>1. CASE d # c
    <3>1. block_table'[d] = block_table[d] /\ length'[d] = length[d]
      BY <2>1, <1>6
    <3>2. /\ block_table[d][i] \in Range(block_table[d]) /\ block_table[d][i] \in Blocks
      BY <3>1, <1>4, RangeSeq
    <3>3. refcount[block_table[d][i]] = 1
      BY <3>1 DEF IInv, FrontierOwned
    <3>4. block_table[d][i] \notin Range(M)
      BY <3>2, <3>3, <1>2, HeldBySequence
    <3>. QED
      BY <3>1, <3>2, <3>3, <3>4, <1>5
  <2>2. CASE d = c
    <3>1. i \in 1 .. n /\ length'[d] = n * B
      BY <2>2, <1>2, <1>6
    <3>2. i * B <= n * B /\ i * B \in Nat
      BY <3>1, <1>4
    <3>. QED
      BY <3>1, <3>2, <1>4
  <2>. QED
    BY <2>1, <2>2
<1>11. KVExact'
  <2>1. ASSUME NEW d \in Caches \ {c}
        PROVE  /\ length'[d] = Len(context'[d])
               /\ length'[d] <= BlockSize * Len(block_table'[d])
               /\ \A p \in 0 .. length'[d] - 1 :
                    SlotAt(block_table[d], p)' = SubSeq(context'[d], 1, p + 1)
    <3>1. /\ length[d] = Len(context[d])
          /\ length[d] <= BlockSize * Len(block_table[d])
          /\ \A p \in 0 .. length[d] - 1 :
               SlotAt(block_table[d], p) = SubSeq(context[d], 1, p + 1)
      BY DEF IInv, KVExact
    <3>2. \A p : SlotAt(block_table[d], p)' = SlotAt(block_table[d], p)
      BY <1>3, <1>6 DEF SlotAt
    <3>. QED
      BY <3>1, <3>2, <1>6
  <2>2. length'[c] = Len(context'[c]) /\ length'[c] <= BlockSize * Len(block_table'[c])
    <3>1. n * B = B * n /\ n * B \in Nat
      BY <1>4
    <3>. QED
      BY <3>1, <1>2, <1>6
  <2>3. ASSUME NEW p \in 0 .. length'[c] - 1
        PROVE  SlotAt(block_table[c], p)' = SubSeq(context'[c], 1, p + 1)
    <3>1. SlotAt(block_table[c], p)' = SlotAt(M, p)
      BY <1>3, <1>6 DEF SlotAt
    <3>. QED
      BY <3>1, <1>2, <1>6
  <2>. QED
    BY <2>1, <2>2, <2>3 DEF KVExact
<1>. QED
  BY <1>5, <1>7, <1>8, <1>9, <1>10, <1>11 DEF IInv

(* Logical block k of a cache, when full, holds the first k blocks of the  *)
(* context, the whole of them in its last slot.                            *)
LEMMA FullBlockHolds ==
  ASSUME IInv, NEW c \in Caches, NEW m \in 1 .. length[c], NEW k \in 1 .. (m \div BlockSize)
  PROVE  /\ SubSeq(context[c], 1, m) \in Seq(Token) /\ Len(SubSeq(context[c], 1, m)) = m
         /\ k \in 1 .. Len(block_table[c]) /\ k * BlockSize \in Nat /\ k * BlockSize <= m
         /\ m <= MaxSeq
         /\ LET key == Key(SubSeq(context[c], 1, m), k)
            IN  /\ key \in Seq(Token) /\ Len(key) = k * BlockSize
                /\ key # <<>> /\ Len(key) \div BlockSize = k /\ Len(key) % BlockSize = 0
                /\ \A o \in 0 .. BlockSize - 1 :
                     slot[block_table[c][k]][o] = SubSeq(key, 1, Len(key) - BlockSize + o + 1)
                /\ slot[block_table[c][k]][BlockSize - 1] = key
<1>. DEFINE B == BlockSize
            L == Len(block_table[c])
            ctx == context[c]
            toks == SubSeq(ctx, 1, m)
            key == Key(toks, k)
<1>1. /\ length[c] \in 0 .. MaxSeq /\ MaxSeq \in Nat /\ B \in Nat \ {0} /\ L \in Nat
      /\ ctx \in Seq(Token) /\ length[c] = Len(ctx) /\ length[c] <= B * L
      /\ m \in Nat /\ m <= length[c] /\ k \in Nat /\ k >= 1 /\ m >= 1
  BY PoolAssumption, CacheAssumption DEF IInv, TypeOK, KVExact
<1>2. toks \in Seq(Token) /\ Len(toks) = m /\ \A j \in 0 .. m : SubSeq(toks, 1, j) = SubSeq(ctx, 1, j)
  BY <1>1
<1>3. B * k <= m
  <2>1. m \div B \in Nat /\ B * (m \div B) <= m
    BY <1>1, DivMod
  <2>2. k <= m \div B
    BY <2>1
  <2>3. B * k <= B * (m \div B)
    BY <2>1, <2>2, <1>1, TimesMonotone
  <2>. QED
    BY <2>1, <2>3, <1>1
<1>4. k * B = B * k /\ k * B \in Nat /\ k * B <= m
  BY <1>1, <1>3
<1>5. k \in 1 .. L
  <2>1. k > L => B * k > B * L
    BY <1>1, SMTT(30)
  <2>2. B * k \in Nat /\ B * L \in Nat /\ B * k <= length[c]
    BY <1>1, <1>3
  <2>3. ~ (k > L)
    BY <2>1, <2>2, <1>1
  <2>. QED
    BY <2>3, <1>1
<1>6. /\ key \in Seq(Token) /\ Len(key) = k * B
      /\ \A j \in 0 .. k * B : SubSeq(key, 1, j) = SubSeq(toks, 1, j)
  BY <1>1, <1>2, <1>4, KeyProperties
<1>. HIDE DEF toks, key, ctx, B, L
<1>7. Len(key) \div BlockSize = k /\ Len(key) % BlockSize = 0
  <2>1. 0 \in 0 .. BlockSize - 1 /\ k * B = BlockSize * k + 0 /\ k \in Int
    BY <1>1, <1>4 DEF B
  <2>. QED
    BY <2>1, <1>4, <1>6, DivModUnique
<1>8. key # <<>>
  <2>1. k * B >= B
    BY <1>1
  <2>2. Len(key) # 0
    BY <2>1, <1>1, <1>6
  <2>. QED
    BY <2>2, <1>6
<1>9. ASSUME NEW o \in 0 .. B - 1
      PROVE  slot[block_table[c][k]][o] = SubSeq(key, 1, Len(key) - B + o + 1)
  <2>. DEFINE p == B * (k - 1) + o
  <2>1. B * (k - 1) \in Nat /\ k * B = B * (k - 1) + B
    BY <1>1
  <2>2. p \in Nat /\ p < k * B /\ p \in 0 .. length[c] - 1 /\ p + 1 \in 0 .. k * B
        /\ p + 1 \in 0 .. m /\ p + 1 = k * B - B + o + 1
    BY <2>1, <1>1, <1>4
  <2>3. p \div BlockSize = k - 1 /\ p % BlockSize = o
    <3>1. p = BlockSize * (k - 1) + o /\ k - 1 \in Int /\ o \in 0 .. BlockSize - 1
      BY <1>1 DEF B
    <3>. QED
      BY <2>2, <3>1, DivModUnique
  <2>. HIDE DEF p
  <2>4. SlotAt(block_table[c], p) = SubSeq(ctx, 1, p + 1)
    BY <2>2 DEF IInv, KVExact, ctx
  <2>5. p \div BlockSize + 1 = k
    BY <2>3, <1>1
  <2>6. SlotAt(block_table[c], p) = slot[block_table[c][k]][o]
    BY <2>3, <2>5 DEF SlotAt
  <2>7. SubSeq(key, 1, p + 1) = SubSeq(ctx, 1, p + 1)
    BY <2>2, <1>2, <1>6
  <2>. QED
    BY <2>2, <2>4, <2>6, <2>7, <1>6
<1>10. slot[block_table[c][k]][B - 1] = key
  <2>1. B - 1 \in 0 .. B - 1 /\ Len(key) - B + (B - 1) + 1 = Len(key)
    BY <1>1, <1>4, <1>6
  <2>2. SubSeq(key, 1, Len(key)) = key
    BY <1>6
  <2>. QED
    BY <2>1, <2>2, <1>9
<1>11. m <= MaxSeq
  BY <1>1
<1>. QED
  BY <1>2, <1>4, <1>5, <1>6, <1>7, <1>8, <1>9, <1>10, <1>11 DEF toks, key, ctx, B, L

LEMMA RegisterKeeps ==
  ASSUME IInv, NEW c \in Caches, NEW m \in 1 .. length[c],
         Register(c, SubSeq(context[c], 1, m))
  PROVE  IInv'
<1>. DEFINE B == BlockSize
            bt == block_table[c]
            toks == SubSeq(context[c], 1, m)
            new == Registered(toks, bt)
            keys == {Key(toks, k) : k \in new}
            blks == {bt[k] : k \in new}
<1>1. /\ Incref(blks)
      /\ cached' = [key \in DOMAIN cached \cup keys |->
                      IF key \in keys THEN bt[Len(key) \div BlockSize] ELSE cached[key]]
      /\ block_table' = block_table /\ length' = length /\ slot' = slot /\ context' = context
  BY DEF Register, BlockAt
<1>2. /\ bt \in Seq(Blocks) /\ toks \in Seq(Token) /\ Len(toks) = m /\ m \in Nat /\ m >= 1
      /\ length[c] \in Nat /\ m <= length[c] /\ length[c] <= MaxSeq /\ MaxSeq \in Nat
      /\ B \in Nat \ {0} /\ block_table \in [Caches -> Seq(Blocks)]
  <2>1. length[c] \in 0 .. MaxSeq /\ context[c] \in Seq(Token) /\ length[c] = Len(context[c])
        /\ bt \in Seq(Blocks) /\ block_table \in [Caches -> Seq(Blocks)]
    BY DEF IInv, TypeOK, KVExact
  <2>2. m \in 1 .. Len(context[c])
    BY <2>1
  <2>. QED
    BY <2>1, <2>2, PoolAssumption, CacheAssumption
<1>3. new \subseteq 1 .. (m \div B) /\ \A k \in new : Key(toks, k) \notin DOMAIN cached
  BY <1>2 DEF Registered
\* What a newly registered block is and holds.
<1>4. ASSUME NEW k \in new
      PROVE  /\ k \in 1 .. Len(bt) /\ k * B \in Nat /\ k * B <= m
             /\ Key(toks, k) \in Seq(Token) /\ Len(Key(toks, k)) = k * B
             /\ Key(toks, k) # <<>> /\ Len(Key(toks, k)) \div B = k /\ Len(Key(toks, k)) % B = 0
             /\ \A o \in 0 .. B - 1 :
                  slot[bt[k]][o] = SubSeq(Key(toks, k), 1, Len(Key(toks, k)) - B + o + 1)
             /\ slot[bt[k]][B - 1] = Key(toks, k)
             /\ bt[k] \in Range(bt) /\ bt[k] \in Blocks
  <2>1. k \in 1 .. (m \div BlockSize)
    BY <1>3
  <2>2. k \in 1 .. Len(bt)
    BY <2>1, FullBlockHolds
  <2>3. bt[k] \in Range(bt) /\ bt[k] \in Blocks
    BY <2>2, <1>2, RangeSeq
  <2>. QED
    BY <2>1, <2>2, <2>3, FullBlockHolds
<1>. HIDE DEF toks, bt, new, keys
<1>5. /\ DOMAIN cached' = DOMAIN cached \cup keys
      /\ \A key \in DOMAIN cached : key \notin keys /\ cached'[key] = cached[key]
      /\ \A k \in new : Key(toks, k) \in keys /\ cached'[Key(toks, k)] = bt[k]
      /\ \A key \in keys : \E k \in new : key = Key(toks, k)
  BY <1>1, <1>3, <1>4 DEF keys
<1>6. \A k \in new : \A key \in DOMAIN cached : cached[key] # bt[k]
  <2>. SUFFICES ASSUME NEW k \in new, NEW key \in DOMAIN cached, cached[key] = bt[k]
                PROVE  FALSE
    OBVIOUS
  <2>1. key \in Seq(Token) /\ Len(key) \in Nat
    BY DEF IInv, TypeOK
  <2>2. B - 1 \in 0 .. B - 1 /\ Len(key) - B + (B - 1) + 1 = Len(key)
    BY <2>1, <1>2
  <2>3. slot[bt[k]][B - 1] = SubSeq(key, 1, Len(key))
    BY <2>2 DEF IInv, CachedExact
  <2>4. SubSeq(key, 1, Len(key)) = key
    BY <2>1
  <2>. QED
    BY <2>3, <2>4, <1>3, <1>4
<1>7. \A i, j \in new : bt[i] = bt[j] => i = j
  BY <1>4 DEF IInv, TablesInjective, bt
<1>8. blks \in SUBSET Blocks
  BY <1>4
<1>9. /\ PoolType' /\ FreeListExact'
      /\ \A b \in blks : refcount[b] > 0 /\ refcount'[b] = refcount[b] + 1
      /\ \A b \in Blocks \ blks : refcount'[b] = refcount[b]
  <2>1. PoolType /\ FreeListExact
    BY DEF IInv, TypeOK, PoolType
  <2>. QED
    BY <2>1, <1>1, <1>8, IncrefKeeps
<1>10. IsFiniteSet(DOMAIN cached')
  <2>1. IsFiniteSet(1 .. (m \div B))
    <3>1. m \div B \in Nat
      BY <1>2, DivMod
    <3>. QED
      BY <3>1, FS_Interval
  <2>2. IsFiniteSet(new)
    BY <2>1, <1>3, FS_Subset
  <2>3. IsFiniteSet(keys)
    <3>. DEFINE f == [k \in new |-> Key(toks, k)]
    <3>1. f \in Surjection(new, keys)
      BY DEF keys, Surjection
    <3>. QED
      BY <3>1, <2>2, FS_Surjection
  <2>4. IsFiniteSet(DOMAIN cached)
    BY DEF IInv
  <2>. QED
    <3>1. IsFiniteSet((DOMAIN cached) \cup keys)
      BY <2>3, <2>4, FS_Union
    <3>. QED
      BY <3>1, <1>5
<1>11. CachedDistinct'
  <2>. SUFFICES ASSUME NEW k1 \in DOMAIN cached', NEW k2 \in DOMAIN cached',
                       cached'[k1] = cached'[k2]
                PROVE  k1 = k2
    BY DEF CachedDistinct
  <2>1. CASE k1 \in DOMAIN cached /\ k2 \in DOMAIN cached
    BY <2>1, <1>5 DEF IInv, CachedDistinct
  <2>2. CASE k1 \in keys /\ k2 \in keys
    BY <2>2, <1>5, <1>7
  <2>3. CASE k1 \in keys /\ k2 \in DOMAIN cached
    BY <2>3, <1>5, <1>6
  <2>4. CASE k1 \in DOMAIN cached /\ k2 \in keys
    BY <2>4, <1>5, <1>6
  <2>. QED
    BY <2>1, <2>2, <2>3, <2>4, <1>5
<1>12. CachedExact'
  <2>. SUFFICES ASSUME NEW key \in DOMAIN cached'
                PROVE  /\ key # <<>>
                       /\ Len(key) % BlockSize = 0
                       /\ \A o \in 0 .. BlockSize - 1 :
                            slot[cached'[key]][o] = SubSeq(key, 1, Len(key) - BlockSize + o + 1)
    BY <1>1 DEF CachedExact
  <2>1. CASE key \in DOMAIN cached
    BY <2>1, <1>5 DEF IInv, CachedExact
  <2>2. CASE key \in keys
    BY <2>2, <1>4, <1>5
  <2>. QED
    BY <2>1, <2>2, <1>5
<1>13. TypeOK'
  <2>1. ASSUME NEW key \in DOMAIN cached'
        PROVE  key \in Seq(Token) /\ Len(key) <= MaxSeq /\ cached'[key] \in Blocks
    <3>1. CASE key \in DOMAIN cached
      BY <3>1, <1>5 DEF IInv, TypeOK, Range
    <3>2. CASE key \in keys
      <4>1. PICK k \in new : key = Key(toks, k)
        BY <3>2, <1>5
      <4>2. k * B \in Nat /\ k * B <= MaxSeq
        BY <1>2, <1>4
      <4>. QED
        BY <4>1, <4>2, <1>4, <1>5
    <3>. QED
      BY <3>1, <3>2, <1>5
  <2>2. Range(cached') \subseteq Blocks
    BY <2>1 DEF Range
  <2>. QED
    BY <2>1, <2>2, <1>1, <1>9 DEF IInv, TypeOK, PoolType
<1>14. RefcountExact'
  <2>. SUFFICES ASSUME NEW b \in Blocks
                PROVE  refcount'[b] = Cardinality(SeqHolders(b)') + Cardinality(KeyHolders(b)')
    BY DEF RefcountExact
  <2>1. SeqHolders(b)' = SeqHolders(b)
    BY <1>1 DEF SeqHolders
  <2>2. /\ refcount[b] = Cardinality(SeqHolders(b)) + Cardinality(KeyHolders(b))
        /\ Cardinality(SeqHolders(b)) \in Nat
        /\ IsFiniteSet(KeyHolders(b)) /\ Cardinality(KeyHolders(b)) \in Nat
    BY HoldersFinite DEF IInv, RefcountExact
  <2>3. KeyHolders(b)' = {key \in DOMAIN cached' : cached'[key] = b}
    BY DEF KeyHolders
  <2>4. CASE b \in blks
    <3>1. PICK k \in new : b = bt[k]
      BY <2>4
    <3>2. KeyHolders(b)' = KeyHolders(b) \cup {Key(toks, k)} /\ Key(toks, k) \notin KeyHolders(b)
      <4>1. Key(toks, k) \in KeyHolders(b)'
        BY <3>1, <2>3, <1>5
      <4>2. \A key \in keys : cached'[key] = b => key = Key(toks, k)
        BY <3>1, <1>5, <1>7
      <4>. QED
        BY <4>1, <4>2, <2>3, <1>3, <1>5 DEF KeyHolders
    <3>3. Cardinality(KeyHolders(b)') = Cardinality(KeyHolders(b)) + 1
      BY <3>2, <2>2, FS_AddElement
    <3>. QED
      BY <3>3, <2>1, <2>2, <2>4, <1>9
  <2>5. CASE b \notin blks
    <3>1. \A key \in keys : cached'[key] # b
      BY <2>5, <1>5
    <3>2. KeyHolders(b)' = KeyHolders(b)
      BY <3>1, <2>3, <1>5 DEF KeyHolders
    <3>. QED
      BY <3>2, <2>1, <2>2, <2>5, <1>9
  <2>. QED
    BY <2>4, <2>5
<1>15. FrontierOwned'
  <2>. SUFFICES ASSUME NEW d \in Caches, NEW i \in 1 .. Len(block_table[d]),
                       i * BlockSize > length[d]
                PROVE  refcount'[block_table[d][i]] = 1
    BY <1>1 DEF FrontierOwned
  <2>. DEFINE b == block_table[d][i]
  <2>1. refcount[b] = 1
    BY DEF IInv, FrontierOwned
  <2>2. b \in Range(block_table[d]) /\ b \in Blocks
    BY <1>2, RangeSeq
  <2>3. b \notin blks
    <3>. SUFFICES ASSUME NEW k \in new, b = bt[k] PROVE FALSE
      OBVIOUS
    <3>1. d = c
      BY <2>1, <2>2, <1>4, HeldBySequence DEF bt
    <3>2. i = k
      BY <3>1, <1>4 DEF IInv, TablesInjective, bt
    <3>3. k * B <= length[c]
      BY <1>2, <1>4, SMTT(30)
    <3>4. k * B \in Nat
      BY <1>4
    <3>. QED
      BY <3>1, <3>2, <3>3, <3>4, <1>2
  <2>. QED
    BY <2>1, <2>2, <2>3, <1>9
<1>16. KVExact' /\ TablesInjective'
  <2>1. \A d \in Caches : \A p : SlotAt(block_table[d], p)' = SlotAt(block_table[d], p)
    BY <1>1 DEF SlotAt
  <2>. QED
    BY <2>1, <1>1, ZenonT(60) DEF IInv, KVExact, TablesInjective
<1>. QED
  BY <1>9, <1>10, <1>11, <1>12, <1>13, <1>14, <1>15, <1>16 DEF IInv

LEMMA ClearKeeps ==
  ASSUME IInv, Clear
  PROVE  IInv'
<1>. DEFINE R == Range(cached)
            N == Cardinality(R)
<1>1. PICK order \in [1 .. N -> R] : Range(order) = R /\ Free(order)
  BY DEF Clear
<1>2. /\ cached' = <<>> /\ block_table' = block_table /\ length' = length
      /\ slot' = slot /\ context' = context
  BY DEF Clear
<1>3. R \subseteq Blocks /\ R = {cached[k] : k \in DOMAIN cached}
  BY DEF IInv, TypeOK, Range
<1>4. IsFiniteSet(R)
  <2>. DEFINE f == [k \in DOMAIN cached |-> cached[k]]
  <2>1. f \in Surjection(DOMAIN cached, R) /\ IsFiniteSet(DOMAIN cached)
    BY <1>3 DEF Surjection, IInv
  <2>. QED
    BY <2>1, FS_Surjection
<1>5. N \in Nat
  BY <1>4, FS_CardinalityType
<1>. HIDE DEF R, N
<1>6. order \in Seq(Blocks) /\ Len(order) = N /\ order \in [1 .. N -> R]
  BY <1>1, <1>3, <1>5
<1>7. \A i, j \in 1 .. Len(order) : order[i] = order[j] => i = j
  <2>1. order \in Surjection(1 .. N, R)
    BY <1>1 DEF Surjection, Range
  <2>2. IsFiniteSet(1 .. N) /\ Cardinality(1 .. N) = N
    BY <1>5, FS_Interval
  <2>3. order \in Injection(1 .. N, R)
    BY <2>1, <2>2, FS_Surjection DEF N
  <2>. QED
    BY <2>3, <1>6 DEF Injection, IsInjective
<1>8. /\ PoolType' /\ FreeListExact'
      /\ \A b \in R : refcount[b] > 0 /\ refcount'[b] = refcount[b] - 1
      /\ \A b \in Blocks \ R : refcount'[b] = refcount[b]
  <2>1. PoolType /\ FreeListExact
    BY DEF IInv, TypeOK, PoolType
  <2>. QED
    BY <2>1, <1>1, <1>6, <1>7, FreeKeeps
<1>9. DOMAIN cached' = {} /\ Range(cached') = {}
  BY <1>2 DEF Range
<1>10. /\ TypeOK' /\ CachedDistinct' /\ CachedExact' /\ TablesInjective'
  BY <1>2, <1>8, <1>9 DEF IInv, TypeOK, PoolType, CachedDistinct, CachedExact, TablesInjective
<1>11. IsFiniteSet(DOMAIN cached)'
  BY <1>9, FS_EmptySet
<1>12. RefcountExact'
  <2>. SUFFICES ASSUME NEW b \in Blocks
                PROVE  refcount'[b] = Cardinality(SeqHolders(b)') + Cardinality(KeyHolders(b)')
    BY DEF RefcountExact
  <2>1. SeqHolders(b)' = SeqHolders(b)
    BY <1>2 DEF SeqHolders
  <2>2. KeyHolders(b)' = {}
    BY <1>9 DEF KeyHolders
  <2>3. Cardinality(KeyHolders(b)') = 0
    BY <2>2, FS_EmptySet
  <2>4. /\ refcount[b] = Cardinality(SeqHolders(b)) + Cardinality(KeyHolders(b))
        /\ Cardinality(SeqHolders(b)) \in Nat
    BY HoldersFinite DEF IInv, RefcountExact
  <2>5. CASE b \in R
    <3>1. PICK k \in DOMAIN cached : cached[k] = b
      BY <2>5, <1>3
    <3>2. KeyHolders(b) = {k}
      BY <3>1 DEF KeyHolders, IInv, CachedDistinct
    <3>3. Cardinality(KeyHolders(b)) = 1
      BY <3>2, FS_Singleton
    <3>. QED
      BY <3>3, <2>1, <2>3, <2>4, <2>5, <1>8
  <2>6. CASE b \notin R
    <3>1. KeyHolders(b) = {}
      BY <2>6, <1>3 DEF KeyHolders
    <3>2. Cardinality(KeyHolders(b)) = 0
      BY <3>1, FS_EmptySet
    <3>. QED
      BY <3>2, <2>1, <2>3, <2>4, <2>6, <1>8
  <2>. QED
    BY <2>5, <2>6
<1>13. FrontierOwned'
  <2>. SUFFICES ASSUME NEW d \in Caches, NEW i \in 1 .. Len(block_table[d]),
                       i * BlockSize > length[d]
                PROVE  refcount'[block_table[d][i]] = 1
    BY <1>2 DEF FrontierOwned
  <2>1. refcount[block_table[d][i]] = 1
    BY DEF IInv, FrontierOwned
  <2>2. block_table[d][i] \in Range(block_table[d]) /\ block_table[d][i] \in Blocks
    <3>1. block_table[d] \in Seq(Blocks)
      BY DEF IInv, TypeOK
    <3>. QED
      BY <3>1, RangeSeq
  <2>3. block_table[d][i] \notin R
    BY <2>1, <2>2, <1>3, HeldBySequence
  <2>. QED
    BY <2>1, <2>2, <2>3, <1>8
<1>14. KVExact'
  <2>1. \A d \in Caches : \A p : SlotAt(block_table[d], p)' = SlotAt(block_table[d], p)
    BY <1>2 DEF SlotAt
  <2>. QED
    BY <2>1, <1>2 DEF IInv, KVExact
<1>. QED
  BY <1>8, <1>10, <1>11, <1>12, <1>13, <1>14 DEF IInv

-----------------------------------------------------------------------------
(* The invariant.                                                          *)

LEMMA InitIInv == Init => IInv
<1>. SUFFICES ASSUME Init PROVE IInv
  OBVIOUS
<1>. USE DEF Init, KVInit, PoolInit
<1>1. NumBlocks \in Nat \ {0} /\ BlockSize \in Nat \ {0} /\ MaxSeq \in Nat
  BY PoolAssumption, CacheAssumption
<1>2. DOMAIN cached = {} /\ Range(cached) = {}
  BY DEF Range
<1>3. free_list \in Seq(Blocks) /\ Len(free_list) = NumBlocks
  <2>1. \A i \in 1 .. NumBlocks : NumBlocks - i \in Blocks
    BY <1>1 DEF Blocks
  <2>2. free_list \in [1 .. NumBlocks -> Blocks]
    BY <2>1
  <2>. QED
    BY <2>2, <1>1
<1>4. TypeOK
  BY <1>1, <1>2, <1>3 DEF TypeOK
<1>5. IsFiniteSet(DOMAIN cached)
  BY <1>2, FS_EmptySet
<1>6. TablesInjective /\ CachedDistinct /\ FrontierOwned /\ KVExact /\ CachedExact
  BY <1>1, <1>2 DEF TablesInjective, CachedDistinct, FrontierOwned, KVExact, CachedExact
<1>7. RefcountExact
  <2>1. \A b \in Blocks : SeqHolders(b) = {} /\ KeyHolders(b) = {}
    BY <1>2 DEF SeqHolders, KeyHolders, Range
  <2>2. \A b \in Blocks : Cardinality(SeqHolders(b)) = 0 /\ Cardinality(KeyHolders(b)) = 0
    BY <2>1, FS_EmptySet
  <2>3. \A b \in Blocks : refcount[b] = 0
    OBVIOUS
  <2>. QED
    BY <2>2, <2>3 DEF RefcountExact
<1>8. FreeListExact
  <2>1. \A i, j \in 1 .. Len(free_list) : free_list[i] = free_list[j] => i = j
    BY <1>1, <1>3
  <2>2. \A b \in Blocks : b \in Range(free_list)
    <3>. SUFFICES ASSUME NEW b \in Blocks PROVE \E i \in 1 .. NumBlocks : free_list[i] = b
      BY DEF Range
    <3>1. NumBlocks - b \in 1 .. NumBlocks /\ NumBlocks - (NumBlocks - b) = b
      BY <1>1 DEF Blocks
    <3>. QED
      BY <3>1
  <2>3. Range(free_list) \subseteq Blocks
    <3>1. DOMAIN free_list = 1 .. NumBlocks /\ \A i \in 1 .. NumBlocks : free_list[i] \in Blocks
      BY <1>1 DEF Blocks
    <3>. QED
      BY <3>1 DEF Range
  <2>. QED
    BY <2>1, <2>2, <2>3 DEF FreeListExact
<1>. QED
  BY <1>4, <1>5, <1>6, <1>7, <1>8 DEF IInv

LEMMA NextIInv == IInv /\ [Next]_vars => IInv'
<1>. SUFFICES ASSUME IInv, [Next]_vars PROVE IInv'
  OBVIOUS
<1>1. ASSUME NEW c \in Caches, NEW toks \in Prompts, Seed(c, toks) PROVE IInv'
  BY <1>1, SeedKeeps
<1>2. ASSUME NEW c \in Caches, NEW toks \in Chunks,
             Forward(c, toks) \/ ForwardOutOfBlocks(c, toks), UNCHANGED cached
      PROVE  IInv'
  <2>1. toks \in Seq(Token)
    BY StoreAssumption
  <2>. QED
    BY <1>2, <2>1, ForwardKeeps, ForwardOutOfBlocksKeeps
<1>3. ASSUME NEW c \in Caches, NEW len \in 0 .. length[c], Rollback(c, len) PROVE IInv'
  BY <1>3, RollbackKeeps
<1>4. ASSUME NEW c \in Caches, NEW m \in 1 .. length[c], Register(c, SubSeq(context[c], 1, m))
      PROVE  IInv'
  BY <1>4, RegisterKeeps
<1>5. ASSUME NEW c \in Caches, Release(c), UNCHANGED cached PROVE IInv'
  BY <1>5, ReleaseKeeps
<1>6. CASE Clear
  BY <1>6, ClearKeeps
<1>7. CASE UNCHANGED vars
  <2>1. \A c, p : SlotAt(block_table[c], p)' = SlotAt(block_table[c], p)
    BY <1>7 DEF vars, SlotAt
  <2>2. /\ cached' = cached /\ block_table' = block_table /\ length' = length
        /\ slot' = slot /\ context' = context /\ refcount' = refcount
        /\ free_list' = free_list
    BY <1>7 DEF vars
  <2>3. \A b : SeqHolders(b)' = SeqHolders(b) /\ KeyHolders(b)' = KeyHolders(b)
    BY <2>2 DEF SeqHolders, KeyHolders
  <2>4. TypeOK' /\ IsFiniteSet(DOMAIN cached)' /\ TablesInjective' /\ CachedDistinct'
    BY <2>2 DEF IInv, TypeOK, TablesInjective, CachedDistinct
  <2>5. RefcountExact'
    BY <2>2, <2>3 DEF IInv, RefcountExact
  <2>6. FreeListExact' /\ FrontierOwned' /\ CachedExact'
    BY <2>2 DEF IInv, FreeListExact, FrontierOwned, CachedExact
  <2>7. KVExact'
    BY <2>1, <2>2 DEF IInv, KVExact
  <2>. QED
    BY <2>4, <2>5, <2>6, <2>7 DEF IInv
<1>. QED
  BY <1>1, <1>2, <1>3, <1>4, <1>5, <1>6, <1>7 DEF Next

(* The inductive invariant of the storage layer holds in every reachable   *)
(* state, whatever the pool, the block size, the sequences and the prompts.*)
THEOREM StorageInvariant == Spec => []IInv
<1>. QED
  BY InitIInv, NextIInv, PTL DEF Spec

(* Block accounting: the reference counts are the holders, the free list   *)
(* the blocks without one; no leak, no double free, no block handed out    *)
(* twice (BlockPool::allocate, incref, free).                              *)
THEOREM AccountingExact == Spec => []BlocksAccounted
<1>1. IInv => BlocksAccounted
  BY DEF IInv, BlocksAccounted
<1>. QED
  BY <1>1, StorageInvariant, PTL

(* What a sequence reads back is what it was given (PagedKVCache::attend). *)
THEOREM ReadsExact == Spec => []KVExact
<1>1. IInv => KVExact
  BY DEF IInv
<1>. QED
  BY <1>1, StorageInvariant, PTL

(* What the prefix cache hands to a new sequence is the prefix it asked    *)
(* for (PrefixCache.match).                                                *)
THEOREM SharedPrefixesExact == Spec => []CachedExact
<1>1. IInv => CachedExact
  BY DEF IInv
<1>. QED
  BY <1>1, StorageInvariant, PTL

(* No write reaches a block with two holders.                              *)
THEOREM SharedNeverWritten == Spec => SharedReadOnly
<1>1. IInv /\ [Next]_vars => [\A b \in Blocks : refcount[b] > 1 => slot'[b] = slot[b]]_vars
  <2>. SUFFICES ASSUME IInv, Next, NEW b \in Blocks, refcount[b] > 1
                PROVE  slot'[b] = slot[b]
    OBVIOUS
  <2>1. ASSUME NEW c \in Caches, NEW toks \in Chunks, Forward(c, toks), UNCHANGED cached
        PROVE  slot'[b] = slot[b]
    <3>1. toks \in Seq(Token)
      BY StoreAssumption
    <3>. QED
      BY <3>1, <2>1, ForwardWrites
  <2>2. \/ UNCHANGED slot
        \/ \E c \in Caches, toks \in Chunks : Forward(c, toks) /\ UNCHANGED cached
    BY DEF Next, Seed, SharePrefix, ForwardOutOfBlocks, Rollback, Truncate, Register, Release, Clear
  <2>. QED
    BY <2>1, <2>2
<1>. QED
  BY <1>1, StorageInvariant, PTL DEF Spec, SharedReadOnly

-----------------------------------------------------------------------------
(* The refinement: the caches are private token histories.                 *)

LEMMA HistoriesAreContexts == IInv => Histories = context
<1>1. ASSUME IInv PROVE Histories = context
  <2>1. context \in [Caches -> Seq(Token)] /\ \A c \in Caches : Encoded(c) = context[c]
    BY <1>1, EncodedIsContext DEF IInv, TypeOK
  <2>. QED
    BY <2>1 DEF Histories
<1>. QED
  BY <1>1

LEMMA InitRefines == Init => History!Init
<1>1. Init => IInv
  BY InitIInv
<1>2. Init => context = [c \in Caches |-> <<>>]
  BY DEF Init, KVInit
<1>. QED
  BY <1>1, <1>2, HistoriesAreContexts DEF History!Init

(* A step extends or cuts the context of one cache. *)
LEMMA StepRefines ==
  ASSUME IInv, IInv', [Next]_vars, Histories = context, Histories' = context'
  PROVE  [History!Next]_Histories
<1>1. /\ context \in [Caches -> Seq(Token)] /\ context' \in [Caches -> Seq(Token)]
      /\ \A c \in Caches : Len(context'[c]) <= MaxSeq
  <2>1. \A c \in Caches : length'[c] \in 0 .. MaxSeq /\ length'[c] = Len(context'[c])
    BY DEF IInv, TypeOK, KVExact
  <2>. QED
    BY <2>1, CacheAssumption DEF IInv, TypeOK
<1>2. ASSUME NEW c \in Caches, NEW t \in Seq(Token), context' = [context EXCEPT ![c] = t],
             History!StartsWith(t, context[c]) \/ History!StartsWith(context[c], t)
      PROVE  History!Next
  <2>1. context'[c] = t /\ \A d \in Caches \ {c} : context'[d] = context[d]
    BY <1>1, <1>2
  <2>2. History!Extend(c) \/ History!Cut(c)
    BY <2>1, <1>1, <1>2 DEF History!Extend, History!Cut
  <2>3. \A d \in Caches \ {c} : Histories'[d] = Histories[d]
    BY <2>1
  <2>. QED
    BY <2>2, <2>3 DEF History!Next
<1>3. ASSUME NEW s \in Seq(Token), NEW len \in 0 .. Len(s)
      PROVE  SubSeq(s, 1, len) \in Seq(Token) /\ History!StartsWith(s, SubSeq(s, 1, len))
  BY DEF History!StartsWith
<1>4. <<>> \in Seq(Token) /\ \A s \in Seq(Token) : History!StartsWith(s, <<>>)
  BY DEF History!StartsWith
<1>5. ASSUME NEW s \in Seq(Token), NEW t \in Seq(Token)
      PROVE  s \o t \in Seq(Token) /\ History!StartsWith(s \o t, s)
  <2>1. Len(s) \in 0 .. Len(s) /\ SubSeq(s, 1, Len(s)) = s /\ Len(s \o t) = Len(s) + Len(t)
        /\ Len(s) \in Nat /\ Len(t) \in Nat /\ s \o t \in Seq(Token)
    OBVIOUS
  <2>2. SubSeq(s \o t, 1, Len(s)) = s
    BY <2>1, PrefixOfConcat
  <2>. QED
    BY <2>1, <2>2 DEF History!StartsWith
<1>6. ASSUME NEW c \in Caches, NEW toks \in Prompts, Seed(c, toks) PROVE History!Next
  <2>1. PICK n \in 1 .. Len(toks) :
          length[c] = 0 /\ context' = [context EXCEPT ![c] = Key(toks, n)]
    BY <1>6 DEF Seed, SharePrefix
  <2>2. context[c] \in Seq(Token) /\ Len(context[c]) = 0
    BY <2>1, <1>1 DEF IInv, KVExact
  <2>3. context[c] = <<>>
    BY <2>2, EmptySeq
  <2>4. context'[c] = Key(toks, n) /\ context'[c] \in Seq(Token)
    BY <2>1, <1>1
  <2>. QED
    BY <2>1, <2>3, <2>4, <1>2, <1>4
<1>7. ASSUME NEW c \in Caches, NEW toks \in Chunks, Forward(c, toks) PROVE History!Next
  <2>1. context' = [context EXCEPT ![c] = context[c] \o toks] /\ toks \in Seq(Token)
    BY <1>7, StoreAssumption DEF Forward
  <2>2. context[c] \in Seq(Token)
    BY <1>1
  <2>. QED
    BY <2>1, <2>2, <1>2, <1>5
<1>8. ASSUME NEW c \in Caches, NEW len \in 0 .. length[c], Rollback(c, len) PROVE History!Next
  <2>1. context' = [context EXCEPT ![c] = SubSeq(context[c], 1, len)]
    BY <1>8 DEF Rollback, Truncate
  <2>2. context[c] \in Seq(Token) /\ len \in 0 .. Len(context[c])
    BY <1>1 DEF IInv, KVExact
  <2>. QED
    BY <2>1, <2>2, <1>2, <1>3
<1>9. ASSUME NEW c \in Caches, Release(c) PROVE History!Next
  <2>1. context' = [context EXCEPT ![c] = <<>>] /\ context[c] \in Seq(Token)
    BY <1>9, <1>1 DEF Release
  <2>. QED
    BY <2>1, <1>2, <1>4
<1>10. ASSUME UNCHANGED context PROVE UNCHANGED Histories
  BY <1>10
<1>. QED
  BY <1>6, <1>7, <1>8, <1>9, <1>10 DEF Next, vars, ForwardOutOfBlocks, Register, Clear

(* The paged caches, with blocks shared, recycled and rolled back,         *)
(* implement KVHistory: every sequence has a token history of its own that *)
(* only its own steps extend or cut (cache.hpp: KVCacheBase).              *)
THEOREM Refinement == Spec => PrivateHistories
<1>1. Init => History!Init
  BY InitRefines
<1>2. (IInv => Histories = context) /\ (IInv => Histories = context)'
  BY HistoriesAreContexts, PTL
<1>3. IInv /\ IInv' /\ [Next]_vars => [History!Next]_Histories
  BY <1>2, StepRefines
<1>. QED
  BY <1>1, <1>3, StorageInvariant, PTL DEF Spec, PrivateHistories, History!Spec

-----------------------------------------------------------------------------
(* What a client of the storage layer relies on. *)

(* The last position of a cache encodes all of its tokens. *)
ReadsBack == \A c \in Caches : Encoded(c) = context[c]

LEMMA ReadBack == IInv => ReadsBack
BY EncodedIsContext DEF ReadsBack

LEMMA ForwardFeeds ==
  ASSUME IInv, ReadsBack', NEW c \in Caches, NEW toks \in Seq(Token), Forward(c, toks)
  PROVE  /\ context'[c] = context[c] \o toks /\ context'[c] \in Seq(Token)
         /\ Len(context'[c]) <= MaxSeq
         /\ Encoded(c)' = context'[c]
         /\ \A q \in Caches \ {c} :
              context'[q] = context[q] /\ block_table'[q] = block_table[q]
<1>1. /\ context \in [Caches -> Seq(Token)] /\ DOMAIN block_table = Caches
      /\ length[c] = Len(context[c])
  BY DEF IInv, TypeOK, KVExact
<1>2. context' = [context EXCEPT ![c] = @ \o toks] /\ length[c] + Len(toks) <= MaxSeq
  BY DEF Forward
<1>3. context'[c] = context[c] \o toks
  BY <1>1, <1>2
<1>4. context'[c] \in Seq(Token) /\ Len(context'[c]) = Len(context[c]) + Len(toks)
  BY <1>1, <1>3, ConcatSeq
<1>5. \A q \in Caches \ {c} : context'[q] = context[q]
  BY <1>1, <1>2
<1>6. \A q \in Caches \ {c} : block_table'[q] = block_table[q]
  BY <1>1 DEF Forward
<1>. QED
  BY <1>1, <1>2, <1>3, <1>4, <1>5, <1>6 DEF ReadsBack

LEMMA ReleaseEmpties ==
  ASSUME IInv, NEW c \in Caches, Release(c)
  PROVE  /\ block_table'[c] = <<>>
         /\ \A q \in Caches \ {c} :
              context'[q] = context[q] /\ block_table'[q] = block_table[q]
BY DEF IInv, TypeOK, Release

(* The destructor of a cache that holds nothing does nothing. *)
LEMMA ReleaseIsStorage ==
  ASSUME IInv, NEW c \in Caches, Release(c), cached' = cached
  PROVE  [Next]_vars
<1>1. CASE block_table[c] # <<>>
  BY <1>1 DEF Next
<1>2. CASE block_table[c] = <<>>
  <2>1. /\ free_list \in Seq(Blocks) /\ refcount \in [Blocks -> Nat]
        /\ block_table \in [Caches -> Seq(Blocks)] /\ length \in [Caches -> 0 .. MaxSeq]
        /\ context \in [Caches -> Seq(Token)]
    BY DEF IInv, TypeOK
  <2>2. length[c] = 0 /\ context[c] = <<>>
    <3>1. length[c] = Len(context[c]) /\ length[c] <= BlockSize * Len(block_table[c])
      BY DEF IInv, KVExact
    <3>2. length[c] = 0
      BY <1>2, <2>1, <3>1, PoolAssumption, CacheAssumption
    <3>. QED
      BY <2>1, <3>1, <3>2, EmptySeq
  <2>3. Range(block_table[c]) = {}
    BY <1>2 DEF Range
  <2>4. refcount' = refcount
    BY <2>1, <2>3 DEF Release, Free
  <2>5. PICK s \in [1 .. Cardinality({}) -> {}] : free_list' = free_list \o s
    <3>1. {b \in Range(block_table[c]) : refcount[b] = 1} = {}
      BY <2>3
    <3>. QED
      BY <3>1 DEF Release, Free
  <2>6. s = <<>>
    BY FS_EmptySet
  <2>7. free_list' = free_list
    BY <2>1, <2>5, <2>6, ConcatEmptySeq
  <2>8. block_table' = block_table /\ length' = length /\ context' = context /\ slot' = slot
    BY <1>2, <2>1, <2>2 DEF Release
  <2>. QED
    BY <2>4, <2>7, <2>8 DEF vars
<1>. QED
  BY <1>1, <1>2

(* A rollback stays within the table. *)
LEMMA KeptInTable ==
  ASSUME IInv, NEW c \in Caches, NEW len \in 0 .. length[c]
  PROVE  /\ BlocksFor(len) \in 0 .. Len(block_table[c])
         /\ len \in Nat /\ len <= BlockSize * BlocksFor(len)
<1>. DEFINE keep == BlocksFor(len)
            L == Len(block_table[c])
            B == BlockSize
<1>1. /\ len \in Nat /\ L \in Nat /\ B \in Nat \ {0}
      /\ length[c] \in Nat /\ length[c] <= B * L
  BY PoolAssumption, CacheAssumption DEF IInv, TypeOK, KVExact
<1>2. /\ keep \in Nat /\ len <= B * keep
      /\ \A i \in Nat : i <= keep <=> B * (i - 1) < len \/ i = 0
  BY <1>1, BlocksForCovers
<1>. HIDE DEF keep, L, B
<1>3. ASSUME keep > L PROVE FALSE
  <2>1. B * (keep - 1) < len
    BY <1>1, <1>2, <1>3
  <2>2. B * L <= B * (keep - 1)
    BY <1>1, <1>2, <1>3
  <2>. QED
    BY <1>1, <1>2, <2>1, <2>2
<1>4. keep \in 0 .. L
  BY <1>1, <1>2, <1>3
<1>. QED
  BY <1>1, <1>2, <1>4 DEF keep, L, B

(* Behind position f[c], cache c holds its blocks alone.  For the length   *)
(* of a prompt this says that only blocks of the prompt are shared. *)
OwnedBehind(f) ==
  \A c \in Caches : \A i \in 1 .. Len(block_table[c]) :
    i * BlockSize > f[c] => refcount[block_table[c][i]] = 1

(* A block that a cache holds alone is nobody else's. *)
LEMMA OwnedAlone ==
  ASSUME IInv, NEW f, OwnedBehind(f), NEW c \in Caches, NEW i \in 1 .. Len(block_table[c]),
         i * BlockSize > f[c]
  PROVE  /\ block_table[c][i] \in Blocks /\ refcount[block_table[c][i]] = 1
         /\ \A d \in Caches \ {c} : block_table[c][i] \notin Range(block_table[d])
         /\ \A k \in DOMAIN cached : cached[k] # block_table[c][i]
<1>1. block_table[c] \in Seq(Blocks)
  BY DEF IInv, TypeOK
<1>2. block_table[c][i] \in Range(block_table[c])
  BY <1>1, RangeSeq
<1>3. refcount[block_table[c][i]] = 1
  BY DEF OwnedBehind
<1>. QED
  BY <1>2, <1>3, HeldBySequence

LEMMA TruncateCuts ==
  ASSUME IInv, NEW c \in Caches, NEW len, Truncate(c, len)
  PROVE  /\ context'[c] = SubSeq(context[c], 1, len)
         /\ \A q \in Caches \ {c} :
              context'[q] = context[q] /\ block_table'[q] = block_table[q]
BY DEF IInv, TypeOK, Truncate

(* A cache may be rolled back to a position behind which it holds its      *)
(* blocks alone. *)
LEMMA OwnedMayCut ==
  ASSUME IInv, NEW c \in Caches, NEW len \in 0 .. length[c],
         NEW f, OwnedBehind(f), f[c] \in Nat, f[c] <= len
  PROVE  MayCut(c, len)
<1>. SUFFICES ASSUME len % BlockSize # 0
              PROVE  refcount[block_table[c][len \div BlockSize + 1]] = 1
  BY DEF MayCut
<1>. DEFINE L == Len(block_table[c])
            B == BlockSize
<1>1. /\ len \in Nat /\ L \in Nat /\ B \in Nat \ {0}
      /\ length[c] \in Nat /\ length[c] <= B * L
  BY PoolAssumption, CacheAssumption DEF IInv, TypeOK, KVExact
<1>. HIDE DEF L, B
<1>2. len # B * L
  <2>. SUFFICES ASSUME len = B * L PROVE FALSE
    OBVIOUS
  <2>1. L \in Int /\ 0 \in 0 .. B - 1 /\ len = B * L + 0
    BY <1>1
  <2>2. 0 = len % BlockSize
    BY <1>1, <2>1, DivModUnique DEF B
  <2>. QED
    BY <2>2
<1>3. len < B * L
  BY <1>1, <1>2
<1>4. /\ len \div BlockSize + 1 \in 1 .. L
      /\ (len \div BlockSize + 1) * BlockSize > len
  BY <1>1, <1>3, BlockIndex DEF B
<1>5. (len \div BlockSize + 1) * BlockSize > f[c]
  <2>1. \A m, n \in Nat : \A i \in 1 .. L : i * BlockSize > n /\ m <= n => i * BlockSize > m
    BY <1>1 DEF B
  <2>. QED
    BY <1>1, <1>4, <2>1
<1>. QED
  BY <1>4, <1>5 DEF OwnedBehind, L

LEMMA GrowOwns ==
  ASSUME IInv, NEW c \in Caches, NEW n \in Nat, Grows(c, n), NEW f, OwnedBehind(f)
  PROVE  OwnedBehind(f)'
<1>1. /\ \A d \in Caches \ {c} : block_table'[d] = block_table[d]
      /\ Len(block_table'[c]) = Len(block_table[c]) + n /\ Len(block_table[c]) \in Nat
      /\ \A i \in 1 .. Len(block_table[c]) : block_table'[c][i] = block_table[c][i]
      /\ \A i \in Len(block_table[c]) + 1 .. Len(block_table[c]) + n :
           refcount'[block_table'[c][i]] = 1
      /\ \A b \in Blocks : refcount[b] # 0 => refcount'[b] = refcount[b]
  BY GrowKeeps DEF IInv, TypeOK
<1>. SUFFICES ASSUME NEW d \in Caches, NEW i \in 1 .. Len(block_table'[d]), i * BlockSize > f[d]
              PROVE  refcount'[block_table'[d][i]] = 1
  BY DEF OwnedBehind
<1>2. CASE d # c \/ i <= Len(block_table[c])
  <2>1. i \in 1 .. Len(block_table[d]) /\ block_table'[d][i] = block_table[d][i]
    BY <1>1, <1>2
  <2>. QED
    BY <1>1, <2>1, OwnedAlone
<1>3. CASE d = c /\ i > Len(block_table[c])
  BY <1>1, <1>3
<1>. QED
  BY <1>1, <1>2, <1>3

LEMMA ForwardOwns ==
  ASSUME IInv, NEW c \in Caches, NEW toks \in Seq(Token), cached' = cached,
         Forward(c, toks) \/ ForwardOutOfBlocks(c, toks), NEW f, OwnedBehind(f)
  PROVE  OwnedBehind(f)'
<1>1. CASE Forward(c, toks)
  <2>1. length[c] + Len(toks) \in Nat
    BY CacheAssumption DEF IInv, TypeOK
  <2>2. Missing(c, length[c] + Len(toks)) \in Nat
    BY <2>1, MissingEnough
  <2>3. Grows(c, Missing(c, length[c] + Len(toks)))
    BY <1>1 DEF Forward, Grows
  <2>. QED
    BY <2>2, <2>3, GrowOwns
<1>2. CASE ForwardOutOfBlocks(c, toks)
  <2>1. Len(free_list) \in Nat /\ Grows(c, Len(free_list))
    BY <1>2 DEF IInv, TypeOK, ForwardOutOfBlocks, Grows
  <2>. QED
    BY <2>1, GrowOwns
<1>. QED
  BY <1>1, <1>2

LEMMA TruncateOwns ==
  ASSUME IInv, NEW c \in Caches, NEW len, Truncate(c, len), cached' = cached,
         NEW f, OwnedBehind(f)
  PROVE  OwnedBehind(f)'
<1>. DEFINE keep == BlocksFor(len)
<1>1. keep \in 0 .. Len(block_table[c])
  BY KeptInTable DEF Truncate
<1>2. /\ Free(SubSeq(block_table[c], keep + 1, Len(block_table[c])))
      /\ block_table' = [block_table EXCEPT ![c] = SubSeq(block_table[c], 1, keep)]
  BY DEF Truncate, IInv, TypeOK
<1>. HIDE DEF keep
<1>3. /\ \A d \in Caches \ {c} : block_table'[d] = block_table[d]
      /\ Len(block_table'[c]) = keep
      /\ \A i \in 1 .. keep : block_table'[c][i] = block_table[c][i]
      /\ \A b \in Blocks : b \in Range(block_table'[c]) \/ b \notin Range(block_table[c])
           => refcount'[b] = refcount[b]
      /\ block_table' \in [Caches -> Seq(Blocks)]
  BY <1>1, <1>2, ShrinkKeeps
<1>4. \A i \in 1 .. Len(block_table'[c]) : block_table'[c][i] \in Range(block_table'[c])
  BY <1>3, RangeSeq
<1>. SUFFICES ASSUME NEW d \in Caches, NEW i \in 1 .. Len(block_table'[d]), i * BlockSize > f[d]
              PROVE  refcount'[block_table'[d][i]] = 1
  BY DEF OwnedBehind
<1>5. i \in 1 .. Len(block_table[d]) /\ block_table'[d][i] = block_table[d][i]
  <2>1. Len(block_table[c]) \in Nat /\ keep <= Len(block_table[c]) /\ keep \in Nat
    BY <1>1 DEF IInv, TypeOK
  <2>. QED
    BY <1>3, <2>1
<1>6. /\ block_table[d][i] \in Blocks /\ refcount[block_table[d][i]] = 1
      /\ d # c => block_table[d][i] \notin Range(block_table[c])
  BY <1>5, OwnedAlone
<1>. QED
  BY <1>3, <1>4, <1>5, <1>6

LEMMA ReleaseOwns ==
  ASSUME IInv, NEW c \in Caches, Release(c), NEW f, OwnedBehind(f)
  PROVE  OwnedBehind(f)'
<1>1. /\ Free(block_table[c]) /\ block_table' = [block_table EXCEPT ![c] = <<>>]
      /\ block_table \in [Caches -> Seq(Blocks)] /\ PoolType /\ FreeListExact
      /\ \A i, j \in 1 .. Len(block_table[c]) : block_table[c][i] = block_table[c][j] => i = j
  BY DEF Release, IInv, TypeOK, PoolType, TablesInjective
<1>2. \A b \in Blocks \ Range(block_table[c]) : refcount'[b] = refcount[b]
  BY <1>1, FreeKeeps
<1>. SUFFICES ASSUME NEW d \in Caches, NEW i \in 1 .. Len(block_table'[d]), i * BlockSize > f[d]
              PROVE  refcount'[block_table'[d][i]] = 1
  BY DEF OwnedBehind
<1>3. d # c /\ block_table'[d] = block_table[d]
  BY <1>1
<1>. QED
  BY <1>2, <1>3, OwnedAlone

(* A sequence borrows blocks of its prompt only. *)
LEMMA SeedOwns ==
  ASSUME IInv, NEW c \in Caches, NEW toks \in Prompts, Seed(c, toks),
         NEW f, OwnedBehind(f), f[c] \in Nat, Len(toks) <= f[c]
  PROVE  OwnedBehind(f)'
<1>0. toks \in Seq(Token)
  BY StoreAssumption
<1>1. PICK n \in 1 .. Len(toks) :
        Matches(toks, n) /\ SharePrefix(c, Matched(toks, n), Key(toks, n)) /\ cached' = cached
  BY DEF Seed
<1>. DEFINE M == Matched(toks, n)
<1>2. /\ M \in Seq(Blocks) /\ Len(M) = n
      /\ \A b \in Range(M) : b \in Blocks /\ \E k \in DOMAIN cached : cached[k] = b
  BY <1>0, <1>1, MatchedHolds
<1>3. Incref(Range(M)) /\ block_table' = [block_table EXCEPT ![c] = M]
  BY <1>1 DEF SharePrefix
<1>. HIDE DEF M
<1>4. \A b \in Blocks \ Range(M) : refcount'[b] = refcount[b]
  <2>1. PoolType /\ FreeListExact /\ Range(M) \in SUBSET Blocks
    BY <1>2 DEF IInv, TypeOK, PoolType
  <2>. QED
    BY <1>3, <2>1, IncrefKeeps
<1>5. n * BlockSize <= f[c]
  <2>1. Len(toks) \in Nat /\ n \in Nat /\ n >= 1 /\ BlockSize \in Nat \ {0} /\ Len(toks) - 1 \in Nat
    BY <1>0, PoolAssumption
  <2>2. PICK most \in Nat : most = (Len(toks) - 1) \div BlockSize
    BY <2>1, DivMod
  <2>3. PICK o \in 0 .. BlockSize - 1 : o = (Len(toks) - 1) % BlockSize
    BY <2>1, DivMod
  <2>4. Len(toks) - 1 = BlockSize * most + o
    BY <2>1, <2>2, <2>3, DivMod, Zenon
  <2>5. n \in 0 .. most
    BY <1>1, <2>2, Zenon DEF Matches
  <2>6. BlockSize * n <= BlockSize * most
    BY <2>1, <2>5, TimesMonotone
  <2>7. BlockSize * n \in Nat /\ BlockSize * most \in Nat /\ n * BlockSize = BlockSize * n
        /\ o \in Nat
    BY <2>1, <2>2
  <2>. QED
    BY <2>1, <2>4, <2>6, <2>7
<1>. SUFFICES ASSUME NEW d \in Caches, NEW i \in 1 .. Len(block_table'[d]), i * BlockSize > f[d]
              PROVE  refcount'[block_table'[d][i]] = 1
  BY DEF OwnedBehind
<1>6. CASE d = c
  <2>1. i \in 1 .. n /\ n \in Nat /\ BlockSize \in Nat
    BY <1>1, <1>2, <1>3, <1>6, PoolAssumption DEF IInv, TypeOK
  <2>2. BlockSize * i <= BlockSize * n
    BY <2>1, TimesMonotone
  <2>3. i * BlockSize <= n * BlockSize /\ i * BlockSize \in Nat /\ n * BlockSize \in Nat
    BY <2>1, <2>2
  <2>. QED
    BY <1>5, <1>6, <2>3
<1>7. CASE d # c
  <2>1. block_table'[d] = block_table[d]
    BY <1>3, <1>7
  <2>. QED
    BY <1>2, <1>4, <2>1, OwnedAlone
<1>. QED
  BY <1>6, <1>7

LEMMA RegisterOwns ==
  ASSUME IInv, NEW c \in Caches, NEW m \in 1 .. length[c],
         Register(c, SubSeq(context[c], 1, m)), NEW f, OwnedBehind(f), f[c] \in Nat, m <= f[c]
  PROVE  OwnedBehind(f)'
<1>. DEFINE bt == block_table[c]
            toks == SubSeq(context[c], 1, m)
            new == Registered(toks, bt)
            blks == {bt[k] : k \in new}
<1>1. Incref(blks) /\ block_table' = block_table
  BY DEF Register
<1>2. /\ bt \in Seq(Blocks) /\ Len(toks) = m /\ m \in Nat /\ BlockSize \in Nat
  <2>1. length[c] \in 0 .. MaxSeq /\ context[c] \in Seq(Token) /\ length[c] = Len(context[c])
        /\ bt \in Seq(Blocks)
    BY DEF IInv, TypeOK, KVExact
  <2>2. m \in 1 .. Len(context[c])
    BY <2>1
  <2>. QED
    BY <2>1, <2>2, PoolAssumption
<1>3. ASSUME NEW k \in new PROVE k \in 1 .. Len(bt) /\ k * BlockSize <= m /\ k * BlockSize \in Nat
  <2>1. k \in 1 .. (m \div BlockSize)
    BY <1>2 DEF Registered
  <2>. QED
    BY <2>1, FullBlockHolds
<1>4. blks \in SUBSET Blocks
  BY <1>2, <1>3
<1>5. \A b \in Blocks \ blks : refcount'[b] = refcount[b]
  <2>1. PoolType /\ FreeListExact
    BY DEF IInv, TypeOK, PoolType
  <2>. QED
    BY <1>1, <1>4, <2>1, IncrefKeeps
<1>. HIDE DEF new
<1>. SUFFICES ASSUME NEW d \in Caches, NEW i \in 1 .. Len(block_table[d]), i * BlockSize > f[d]
              PROVE  refcount'[block_table[d][i]] = 1
  BY <1>1 DEF OwnedBehind
<1>6. block_table[d][i] \notin blks
  <2>1. CASE d = c
    <3>. SUFFICES ASSUME NEW k \in new, bt[k] = bt[i] PROVE FALSE
      BY <2>1
    <3>1. k \in 1 .. Len(bt) /\ i \in 1 .. Len(bt)
      BY <1>3, <2>1
    <3>2. k = i
      BY <3>1 DEF IInv, TablesInjective
    <3>. QED
      BY <1>2, <1>3, <2>1, <3>2
  <2>2. CASE d # c
    <3>1. block_table[d][i] \notin Range(bt)
      BY <2>2, OwnedAlone
    <3>2. \A k \in new : bt[k] \in Range(bt)
      BY <1>2, <1>3, RangeSeq
    <3>. QED
      BY <3>1, <3>2
  <2>. QED
    BY <2>1, <2>2
<1>. QED
  BY <1>5, <1>6, OwnedAlone

LEMMA ClearOwns ==
  ASSUME IInv, Clear, NEW f, OwnedBehind(f)
  PROVE  OwnedBehind(f)'
<1>1. block_table' = block_table /\ Range(cached) \subseteq Blocks
  BY DEF Clear, IInv, TypeOK
<1>2. \A b \in Blocks \ Range(cached) : refcount'[b] = refcount[b]
  BY DEF Clear, Free, IInv, TypeOK
<1>. SUFFICES ASSUME NEW d \in Caches, NEW i \in 1 .. Len(block_table[d]), i * BlockSize > f[d]
              PROVE  refcount'[block_table[d][i]] = 1
  BY <1>1 DEF OwnedBehind
<1>3. block_table[d][i] \notin Range(cached)
  BY OwnedAlone DEF Range
<1>. QED
  BY <1>2, <1>3, OwnedAlone

=============================================================================
