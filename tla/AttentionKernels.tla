--------------------------- MODULE AttentionKernels ---------------------------
(***************************************************************************)
(* One layer's attend() on the GPU, contiguous (CudaKVCache) or paged      *)
(* (CudaPagedKVCache): the new keys and values are laid out in memory, one *)
(* of the attention kernels is chosen, and every (head, query) becomes a   *)
(* softmax-weighted sum of the values.                                     *)
(*                                                                         *)
(* K and V are laid out and read alike: a cell holds <<kv head, position,  *)
(* dim>>, the element whose copy it is.  exp(a - b) is the number a - b, a *)
(* product with it shifts exponents, and a sum is the sequence of its      *)
(* terms <<vector, exponent>>, so that what is summed, with which weight   *)
(* and in which order can be read off the result.                          *)
(***************************************************************************)
EXTENDS Gpu, TLC

CONSTANTS
  WarpsPerBlock,    \* 8
  TileMinHeadDim,   \* kTileMinHeadDim: 128
  MinKeysPerSplit,  \* kMinKeysPerSplit: 128
  TargetWarps,      \* sm_count() * kTargetWavesPerSM
  AttnCalls         \* [paged, policy, nkv, rep, sq, past, D, causal, table, bs, score]

VARIABLES
  acall,   \* the call
  launch,  \* the launch that is next or running
  ablk,    \* its block, of a tiled kernel
  apc,     \* warp -> steps of the block's program it has made
  kv,      \* address -> the element it holds
  slab,    \* shared memory: cell -> element, for the cells written so far
  lanes,   \* warp -> lane -> its running softmax
  part,    \* (head, query, split) -> the partial result
  aout     \* (head, query) -> the result

attnVars == <<acall, launch, ablk, apc, kv, slab, lanes, part, aout>>

H == acall.nkv * acall.rep
SeqK == acall.past + acall.sq
D == acall.D
Outputs == 0 .. H * acall.sq - 1
HeadOf(hi) == hi \div acall.sq
Limit(i) == IF acall.causal THEN acall.past + i + 1 ELSE SeqK

------------------------------------------------------------------------------
\* The layout in memory.

\* [n_kv, t, D], the tokens from position first on.
Fresh(first, t) ==
  [x \in 0 .. acall.nkv * t * D - 1 |->
     <<x \div (t * D), first + ((x % (t * D)) \div D), x % D>>]

\* cat_seq: head by head, the L old rows and then the t new ones.
CatSeq(a, L, b, t) ==
  [x \in 0 .. acall.nkv * (L + t) * D - 1 |->
     LET h == x \div ((L + t) * D)
         r == x % ((L + t) * D)
     IN IF r < L * D THEN a[h * L * D + r] ELSE b[h * t * D + r - L * D]]
RepeatKV(x) ==
  [idx \in 0 .. H * SeqK * D - 1 |->
     LET oh == idx \div (SeqK * D) IN
     x[((oh \div acall.rep) * SeqK + (idx % (SeqK * D)) \div D) * D + (idx % D)]]

\* Where a paged cache keeps dim d of position pos for kv head h.
PageAddr(h, pos, d) ==
  ((acall.table[(pos \div acall.bs) + 1] * acall.nkv + h) * acall.bs + (pos % acall.bs)) * D + d
\* paged_write_kernel: thread idx copies element idx of the t tokens from start on.
PagedWrite(mem, k, t, start) ==
  LET Dst(idx) == PageAddr(idx \div (D * t), start + ((idx \div D) % t), idx % D)
  IN [a \in {Dst(idx) : idx \in DOMAIN k} |->
        k[CHOOSE idx \in DOMAIN k : Dst(idx) = a]] @@ mem

PastKV == IF acall.past = 0 THEN <<>> ELSE Fresh(0, acall.past)
WriteKV ==
  /\ launch = "write"
  /\ LET new == Fresh(acall.past, acall.sq) IN
     kv' = IF acall.paged THEN PagedWrite(kv, new, acall.sq, acall.past)
           ELSE RepeatKV(CatSeq(kv, acall.past, new, acall.sq))
  /\ launch' = "attend"
  /\ UNCHANGED <<acall, ablk, apc, slab, lanes, part, aout>>

\* The address of dim d of key j for query head h.
KeyAddr(h, j, d) ==
  IF acall.paged THEN PageAddr(h \div acall.rep, j, d) ELSE (h * SeqK + j) * D + d
Unwrit == <<-1, -1, -1>>
Vector(mem, Addr(_)) == [d \in 0 .. D - 1 |-> At(mem, Addr(d), Unwrit)]
KeyRow(h, j) == Vector(kv, LAMBDA d : KeyAddr(h, j, d))

------------------------------------------------------------------------------
\* The softmax.

NegInf == -1000
NaN == 1000
Exp(a, b) == IF a # NegInf THEN a - b ELSE IF b # NegInf THEN NegInf ELSE NaN
Larger(a, b) == IF a < b THEN b ELSE a
\* Each term times the exponential of c: zero when c is minus infinity, but a NaN stays.
Scale(terms, c) ==
  IF c = NegInf THEN SelectSeq(terms, LAMBDA t : t[2] = NaN)
  ELSE IF c = NaN THEN <<<<[d \in 0 .. D - 1 |-> Unwrit], NaN>>>>
  ELSE [i \in DOMAIN terms |-> <<terms[i][1], terms[i][2] + c>>]
Empty == [m |-> NegInf, l |-> <<>>, acc |-> <<>>]

\* q . k * scale: a number of the key's position, whatever the query.
ScoreOf(row) ==
  IF \E p \in DOMAIN acall.score, h \in 0 .. acall.nkv - 1 : row = [d \in 0 .. D - 1 |-> <<h, p, d>>]
  THEN acall.score[row[0][2]] ELSE 0

\* One key more: the running maximum may rise, and what was summed is rescaled.
Online(st, row) ==
  LET s == ScoreOf(row)
      m_new == Larger(st.m, s)
      corr == Exp(st.m, m_new)
      p == Exp(s, m_new)
  IN [m |-> m_new, l |-> Append(Scale(st.l, corr), <<row, p>>),
      acc |-> Append(Scale(st.acc, corr), <<row, p>>)]

\* Two partial sums into one; two empty ones stay empty.
Combine(a, b) ==
  LET m_new == Larger(a.m, b.m)
      empty == m_new = NegInf
      wa == IF empty THEN NegInf ELSE Exp(a.m, m_new)
      wb == IF empty THEN NegInf ELSE Exp(b.m, m_new)
  IN [m |-> m_new, l |-> Scale(a.l, wa) \o Scale(b.l, wb),
      acc |-> Scale(a.acc, wa) \o Scale(b.acc, wb)]

\* A warp over the keys first .. last - 1 of its head, its lanes' sums merged.
WarpSoftmax(h, first, last) ==
  ShuffleReduce(Combine, [lane \in 0 .. Warp - 1 |->
    FoldLeft(LAMBDA st, j : Online(st, KeyRow(h, j)), Empty, Ascending(first + lane, Warp, last))])
Result(st) == [l |-> st.l, acc |-> st.acc]
WarpResult(hi) == Result(WarpSoftmax(HeadOf(hi), 0, Limit(hi % acall.sq)))

\* attention_kernel, paged_attention_kernel: the maximum first, then the sum.
NaiveResult(hi) ==
  LET rows == [j \in 1 .. Limit(hi % acall.sq) |-> KeyRow(HeadOf(hi), j - 1)]
      maxv == FoldLeft(LAMBDA m, r : Larger(m, ScoreOf(r)), NegInf, rows)
      terms == [j \in DOMAIN rows |-> <<rows[j], Exp(ScoreOf(rows[j]), maxv)>>]
  IN [l |-> terms, acc |-> terms]

------------------------------------------------------------------------------
\* The dispatch.

SplitCount(nq, sk) ==
  LET by_keys == sk \div MinKeysPerSplit
      splits == CeilDiv(TargetWarps, nq)
  IN IF by_keys <= 1 THEN 1 ELSE IF splits > by_keys THEN by_keys ELSE splits
Splits == SplitCount(H * acall.sq, SeqK)
Chunk == CeilDiv(SeqK, Splits)

AttnKernel ==
  IF "force_naive_attn" \in acall.policy THEN "naive"
  ELSE IF /\ acall.sq > 1
          /\ "no_tiled_attn" \notin acall.policy
          /\ "use_tiled_attn" \in acall.policy \/ D >= TileMinHeadDim THEN "tiled"
  ELSE IF "use_split_attn" \in acall.policy /\ Splits >= 2 THEN "split"
  ELSE "warp"

\* A warp for each (head, query).
AttendByQuery ==
  /\ launch = "attend" /\ AttnKernel \in {"naive", "warp"}
  /\ aout' = [hi \in Outputs |->
                IF AttnKernel = "naive" THEN NaiveResult(hi) ELSE WarpResult(hi)]
  /\ launch' = "done"
  /\ UNCHANGED <<acall, ablk, apc, kv, slab, lanes, part>>

\* The keys of split g: its chunk, up to what its query may see.
SplitSoftmax(g) ==
  LET hi == g \div Splits
      k0 == (g % Splits) * Chunk
      k1raw == IF k0 + Chunk < SeqK THEN k0 + Chunk ELSE SeqK
      limit == Limit(hi % acall.sq)
  IN WarpSoftmax(HeadOf(hi), k0, IF k1raw < limit THEN k1raw ELSE limit)
\* A warp for each (head, query, split), which leaves its sums unnormalized.
AttendBySplit ==
  /\ launch = "attend" /\ AttnKernel = "split"
  /\ part' = [g \in 0 .. H * acall.sq * Splits - 1 |-> SplitSoftmax(g)]
  /\ launch' = "combine"
  /\ UNCHANGED <<acall, ablk, apc, kv, slab, lanes, aout>>

CombineSplits ==
  /\ launch = "combine"
  /\ aout' = [hi \in Outputs |->
       LET mine == [s \in 1 .. Splits |-> part[hi * Splits + s - 1]]
           M == FoldLeft(LAMBDA m, p : Larger(m, p.m), NegInf, mine)
           Weight(p) == IF p.m = NegInf THEN NegInf ELSE Exp(p.m, M)
       IN [l |-> FlattenSeq([s \in 1 .. Splits |-> Scale(mine[s].l, Weight(mine[s]))]),
           acc |-> FlattenSeq([s \in 1 .. Splits |-> Scale(mine[s].acc, Weight(mine[s]))])]]
  /\ launch' = "done"
  /\ UNCHANGED <<acall, ablk, apc, kv, slab, lanes, part>>

------------------------------------------------------------------------------
\* The tiled kernels: a block is a head and WarpsPerBlock of its queries, and a slab
\* of Warp keys is staged for all of them.  A warp without a query stages with the
\* others.  Between two __syncthreads every warp stages or scores one slab.

Warps == 0 .. WarpsPerBlock - 1
QTiles == CeilDiv(acall.sq, WarpsPerBlock)
BlockHead == ablk \div QTiles
Query(w) == (ablk % QTiles) * WarpsPerBlock + w
Active(w) == Query(w) < acall.sq
LastQuery == IF Query(WarpsPerBlock - 1) < acall.sq THEN Query(WarpsPerBlock - 1) ELSE acall.sq - 1
Slabs == CeilDiv(Limit(LastQuery), Warp)

\* Mutation: no barrier after a slab is scored.
WarpSteps_Ahead(w) ==
  /\ launch = "attend" /\ AttnKernel = "tiled" /\ ablk < H * QTiles
  /\ apc[w] % 2 = 1 => \A u \in Warps : apc[u] >= apc[w]
  /\ apc' = [apc EXCEPT ![w] = @ + 1]
  /\ UNCHANGED <<acall, launch, ablk, kv, part>>
\* Every step is behind a __syncthreads.
WarpSteps(w) ==
  /\ launch = "attend" /\ AttnKernel = "tiled" /\ ablk < H * QTiles
  /\ \A u \in Warps : apc[u] >= apc[w]
  /\ apc' = [apc EXCEPT ![w] = @ + 1]
  /\ UNCHANGED <<acall, launch, ablk, kv, part>>
Base(w) == (apc[w] \div 2) * Warp

StageSlab(w) ==
  /\ apc[w] < 2 * Slabs /\ apc[w] % 2 = 0
  /\ WarpSteps(w)
  /\ LET base == Base(w)
         valid == IF SeqK - base < Warp THEN SeqK - base ELSE Warp
         mine == UNION {Upto(tid, WarpsPerBlock * Warp, valid * D) :
                          tid \in w * Warp .. w * Warp + Warp - 1}
     IN slab' = [idx \in mine |-> kv[KeyAddr(BlockHead, base + idx \div D, idx % D)]] @@ slab
  /\ UNCHANGED <<lanes, aout>>

ScoreSlab(w) ==
  /\ apc[w] < 2 * Slabs /\ apc[w] % 2 = 1
  /\ WarpSteps(w)
  /\ lanes' = [lanes EXCEPT ![w] = [lane \in 0 .. Warp - 1 |->
       IF Active(w) /\ Base(w) + lane < Limit(Query(w))
       THEN Online(@[lane], Vector(slab, LAMBDA d : lane * D + d)) ELSE @[lane]]]
  /\ UNCHANGED <<slab, aout>>

WriteResult(w) ==
  /\ apc[w] = 2 * Slabs
  /\ WarpSteps(w)
  /\ aout' = IF Active(w)
             THEN (BlockHead * acall.sq + Query(w) :> Result(ShuffleReduce(Combine, lanes[w]))) @@ aout
             ELSE aout
  /\ UNCHANGED <<slab, lanes>>

NoLanes == [w \in Warps |-> [lane \in 0 .. Warp - 1 |-> Empty]]
NextBlock ==
  /\ launch = "attend" /\ AttnKernel = "tiled"
  /\ \A w \in Warps : apc[w] = 2 * Slabs + 1
  /\ ablk' = ablk + 1
  /\ launch' = IF ablk + 1 = H * QTiles THEN "done" ELSE launch
  /\ apc' = [w \in Warps |-> 0]
  /\ slab' = <<>>
  /\ lanes' = NoLanes
  /\ UNCHANGED <<acall, kv, part, aout>>

------------------------------------------------------------------------------
AttnInit ==
  /\ acall \in AttnCalls
  /\ launch = "write"
  /\ ablk = 0
  /\ apc = [w \in Warps |-> 0]
  /\ kv = IF acall.paged THEN PagedWrite(<<>>, PastKV, acall.past, 0) ELSE PastKV
  /\ slab = <<>>
  /\ lanes = NoLanes
  /\ part = <<>>
  /\ aout = <<>>

AttnNext ==
  \/ WriteKV \/ AttendByQuery \/ AttendBySplit \/ CombineSplits \/ NextBlock
  \/ \E w \in Warps : StageSlab(w) \/ ScoreSlab(w) \/ WriteResult(w)

AttnSpec == AttnInit /\ [][AttnNext]_attnVars

------------------------------------------------------------------------------
Attended == launch = "done"

\* Whichever kernel runs, from contiguous or from paged memory, whatever the scores:
\* each query's result is the sum over exactly the keys it may see, each once, of the
\* value of its own kv head with weight exp(score - max), divided by the sum of those
\* weights.  No term is a NaN of an empty lane or split, none a leftover of another slab;
\* and staging through shared memory moves no key to another lane and changes no order:
\* a tiled kernel's sums are, term by term, those of the kernel that is not tiled.
AttentionExact ==
  Attended => \A hi \in Outputs :
    LET h == HeadOf(hi) \div acall.rep
        seen == 0 .. Limit(hi % acall.sq) - 1
        top == CHOOSE t \in {acall.score[j] : j \in seen} : \A j \in seen : acall.score[j] <= t
        terms == {<<[d \in 0 .. D - 1 |-> <<h, j, d>>], acall.score[j] - top>> : j \in seen}
    IN /\ ToSet(aout[hi].acc) = terms /\ Len(aout[hi].acc) = Cardinality(seen)
       /\ ToSet(aout[hi].l) = terms /\ Len(aout[hi].l) = Cardinality(seen)
       /\ AttnKernel = "tiled" => aout[hi] = WarpResult(hi)
=============================================================================
