----------------------------- MODULE GemmKernels -----------------------------
(***************************************************************************)
(* One matrix product y[m, n] = x[m, k] w[n, k]^T on the GPU: the choice   *)
(* of a kernel (CudaBackend::linear, cuda_linear_w8a8, cuda_linear_q8) and *)
(* the kernels of cuda_gemm.cu and cuda_quant.cu.  The threads of a block  *)
(* stage tiles of x and w in shared memory, meet at __syncthreads and      *)
(* accumulate; any thread may run ahead up to the next barrier.            *)
(*                                                                         *)
(* A value is the place it was loaded from: x and w are flat arrays, and   *)
(* an accumulator is the sequence of the products <<xi, wi>> added to it.  *)
(* A block shares nothing with another but read-only inputs, so the blocks *)
(* of a launch run one after another.                                      *)
(***************************************************************************)
EXTENDS Gpu, TLC

CONSTANTS
  Vec,        \* floats in a float4, int8 values in a __dp4a word: 4
  GemvMaxM,   \* kGemvMaxM: 16
  BigN,       \* the width of an lm_head: 8192
  AlignN,     \* n must be a multiple for the unchecked kernels: 128
  AlignK,     \* and k: 16
  Tile,       \* kernel -> its template arguments
  Calls       \* [weight, policy, m, n, k]: the products asked for

\* A zero that a kernel pads with, and shared memory no thread has written.
Zero == -1
NeverWritten == -2

VARIABLES
  call,   \* the product
  blk,    \* the block that runs, of those the call launches
  pc,     \* thread -> steps of the block's program it has made
  smem,   \* [A, B]: stage -> cell -> value, for the cells written so far
  acc,    \* thread -> output of the block it owns -> the products so far
  codes,  \* [xq, a_scale]: element -> its codes' scale, row -> scale
  y       \* flat output -> what was stored there

gemmVars == <<call, blk, pc, smem, acc, codes, y>>

------------------------------------------------------------------------------
\* The dispatch.

Has(p) == p \in call.policy
Aligned == call.n % AlignN = 0 /\ call.k % AlignK = 0

\* Mutation: the alignment is only asked for by the tensor cores.
HalfKernel_Unaligned(ragged) ==
  IF call.m <= GemvMaxM THEN "gemv"
  ELSE IF call.n >= BigN /\ Aligned THEN "wmma_tiled" ELSE "vec"
HalfKernel(ragged) ==
  IF call.m <= GemvMaxM THEN "gemv"
  ELSE IF call.n >= BigN /\ Aligned THEN "wmma_tiled"
  ELSE IF Aligned THEN "vec" ELSE ragged

FloatKernel ==
  IF Has("force_naive_gemm") THEN "naive"
  ELSE IF call.m <= GemvMaxM THEN "gemv"
  ELSE IF Has("use_wmma") THEN IF call.n >= BigN /\ Aligned THEN "wmma_tiled" ELSE "wmma"
  ELSE IF ~Aligned THEN "tiled"
  ELSE IF call.n >= BigN THEN "warptiled"
  ELSE IF Has("use_dbuf") THEN "db" ELSE "vec"

W8A8Kernel ==
  IF call.m <= GemvMaxM /\ ~Has("force_tiled_w8a8") THEN "w8a8_gemv" ELSE "w8a8"
Q8Kernel ==
  IF call.m <= GemvMaxM /\ ~Has("force_tiled_q8") THEN "q8_gemv" ELSE "q8"
\* CudaEmbedQ8Weight::linear: the quantized lm_head.
LmHeadKernel ==
  IF Has("use_w8a8_lmhead") /\ call.m > GemvMaxM THEN W8A8Kernel ELSE Q8Kernel

Kernel ==
  CASE call.weight = "F16" -> HalfKernel("wmma")
    [] call.weight = "BF16" -> HalfKernel("tiled")
    [] call.weight = "F32" -> FloatKernel
    [] call.weight = "W8A8" -> W8A8Kernel
    [] call.weight = "EmbedQ8" -> LmHeadKernel

Gemvs == {"gemv", "w8a8_gemv", "q8_gemv"}
Wmmas == {"wmma", "wmma_tiled"}
Transposed == {"vec", "db", "warptiled"}
\* The integer kernels run on activations quantized by a launch of their own.
Quantizes == Kernel \in {"w8a8", "w8a8_gemv"}

T == Tile[Kernel]
GridX == CeilDiv(call.n, IF Kernel \in Gemvs THEN T.threads \div Warp ELSE T.BN)
GridY == IF Kernel \in Gemvs THEN 1 ELSE CeilDiv(call.m, T.BM)
QuantBlocks == IF Quantizes THEN call.m ELSE 0
LaunchBlocks == QuantBlocks + GridX * GridY

\* Block b is a row's activation_quant_kernel, or a tile of the product.
InQuant(b) == b < QuantBlocks
RowBase == ((blk - QuantBlocks) \div GridX) * T.BM
ColBase == ((blk - QuantBlocks) % GridX) * T.BN

------------------------------------------------------------------------------
\* What thread t stages of k-tile kt: [cell, row, col] with row and column of the
\* tile.  A wmma kernel stages by threads and multiplies by warps: its t is a warp.

Lanes(t) == IF Kernel \in Wmmas THEN t * Warp .. t * Warp + Warp - 1 ELSE {t}

\* linear_tiled_kernel: one column of the tile, every numThreads/BK-th row.
ByRows(t, rows) ==
  {[row |-> r, col |-> t % T.BK] : r \in Upto(t \div T.BK, T.threads \div T.BK, rows)}
\* A float4 along k, every numThreads/(BK/4)-th row.
ByVectors(t, rows) ==
  LET perRow == T.BK \div Vec IN
  {[row |-> r, col |-> (t % perRow) * Vec + v] :
     r \in Upto(t \div perRow, T.threads \div perRow, rows), v \in 0 .. Vec - 1}
\* Every numThreads-th element of the tile.
ByElements(t, rows) ==
  {[row |-> idx \div T.BK, col |-> idx % T.BK] :
     idx \in UNION {Upto(l, T.threads, rows * T.BK) : l \in Lanes(t)}}

Staged(t, rows) ==
  CASE Kernel = "tiled" -> ByRows(t, rows)
    [] Kernel \in Transposed -> ByVectors(t, rows)
    [] OTHER -> ByElements(t, rows)

\* Where a staged element goes, and where the product reads it.
ACell(e) == IF Kernel \in Transposed THEN e.col * T.BM + e.row ELSE e.row * T.BK + e.col
BCell(e) == IF Kernel \in {"w8a8", "q8"} THEN e.row * T.BK + e.col ELSE e.col * T.BN + e.row
ARead(r, dot) == IF Kernel \in Transposed THEN dot * T.BM + r ELSE r * T.BK + dot
BRead(c, dot) == IF Kernel \in {"w8a8", "q8"} THEN c * T.BK + dot ELSE dot * T.BN + c

\* The bounds each kernel checks; what fails them is padded with zero.
ChecksK == Kernel \in {"tiled", "wmma", "q8"}
ChecksN == Kernel \notin Transposed
Loaded(in, row, col) == IF in THEN row * call.k + col ELSE Zero
ALoad(e, kk) ==
  LET gr == RowBase + e.row  gc == kk + e.col IN
  Loaded(gr < call.m /\ (ChecksK => gc < call.k), gr, gc)
BLoad(e, kk) ==
  LET go == ColBase + e.row  gc == kk + e.col IN
  Loaded((ChecksN => go < call.n) /\ (ChecksK => gc < call.k), go, gc)

\* The outputs of the block that thread (or warp) t computes.
MicroTile(t) ==
  {<<(t \div (T.BN \div T.TN)) * T.TM + i, (t % (T.BN \div T.TN)) * T.TN + j>> :
     i \in 0 .. T.TM - 1, j \in 0 .. T.TN - 1}
WarpTile(t) ==
  LET wmIter == (T.WM * T.WN) \div (Warp * T.TM * T.TN * T.WNITER)
      wsubM == T.WM \div wmIter
      wsubN == T.WN \div T.WNITER
      warp == t \div Warp
      lane == t % Warp
      row0 == (warp \div (T.BN \div T.WN)) * T.WM + (lane \div (wsubN \div T.TN)) * T.TM
      col0 == (warp % (T.BN \div T.WN)) * T.WN + (lane % (wsubN \div T.TN)) * T.TN
  IN {<<row0 + wm * wsubM + i, col0 + wn * wsubN + j>> :
        wm \in 0 .. wmIter - 1, wn \in 0 .. T.WNITER - 1, i \in 0 .. T.TM - 1, j \in 0 .. T.TN - 1}
FragTile(t) ==
  LET rows == T.BM \div T.warpsM  cols == T.BN \div T.warpsN IN
  {<<(t \div T.warpsN) * rows + i, (t % T.warpsN) * cols + j>> :
     i \in 0 .. rows - 1, j \in 0 .. cols - 1}

Owned(t) ==
  CASE Kernel = "warptiled" -> WarpTile(t)
    [] Kernel \in Wmmas -> FragTile(t)
    [] OTHER -> MicroTile(t)

Threads(b) ==
  IF InQuant(b) THEN 0 .. Tile["activation_quant"].threads - 1
  ELSE IF Kernel \in Wmmas \cup Gemvs THEN 0 .. (T.threads \div Warp) - 1
  ELSE 0 .. T.threads - 1

------------------------------------------------------------------------------
\* The program of a block: the steps of each thread, "fence" where a
\* __syncthreads comes before the step.

Step(op, tile, fence) == [op |-> op, tile |-> tile, fence |-> fence]

\* Mutation: no barrier before the next tile is staged over this one.
SingleBuffered_OneBarrier ==
  FlattenSeq([i \in 1 .. CeilDiv(call.k, T.BK) |->
    <<Step("stage", i - 1, FALSE), Step("multiply", i - 1, TRUE)>>])
SingleBuffered ==
  FlattenSeq([i \in 1 .. CeilDiv(call.k, T.BK) |->
    <<Step("stage", i - 1, i > 1), Step("multiply", i - 1, TRUE)>>])
\* linear_tiled_db_kernel: the next tile goes to the other stage, one barrier a tile.
DoubleBuffered ==
  LET tiles == call.k \div T.BK IN
  <<Step("stage", 0, FALSE)>> \o
  FlattenSeq([i \in 1 .. tiles |->
    <<Step("multiply", i - 1, TRUE)>>
      \o IF i < tiles THEN <<Step("stage", i, FALSE)>> ELSE <<>>])
\* activation_quant_kernel: a maximum of its own, halved log2 times, and the codes.
QuantProgram ==
  LET Halves == Halvings(Tile["activation_quant"].threads) IN
     <<Step("local_max", 0, FALSE)>>
       \o [i \in DOMAIN Halves |-> Step("halve", Halves[i], TRUE)]
       \o <<Step("quantize", 0, TRUE)>>

Program ==
  IF InQuant(blk) THEN QuantProgram
  ELSE IF Kernel \in Gemvs THEN <<Step("gemv", 0, FALSE)>>
  ELSE IF Kernel = "naive" THEN <<Step("whole_dot", 0, FALSE)>>
  ELSE (IF Kernel = "db" THEN DoubleBuffered ELSE SingleBuffered) \o <<Step("store", 0, TRUE)>>

\* Thread t makes its next step; behind a fence only when all have reached it.
Runs(t, op) ==
  /\ blk < LaunchBlocks
  /\ t \in Threads(blk)
  /\ pc[t] < Len(Program)
  /\ Program[pc[t] + 1].op = op
  /\ Program[pc[t] + 1].fence => \A u \in Threads(blk) : pc[u] >= pc[t]
  /\ pc' = [pc EXCEPT ![t] = @ + 1]

TileOf(t) == Program[pc[t] + 1].tile
Stage(tile) == IF Kernel = "db" THEN tile % 2 ELSE 0

StageTile(t) ==
  /\ Runs(t, "stage")
  /\ LET kk == TileOf(t) * T.BK
         s == Stage(TileOf(t))
         as == Staged(t, T.BM)
         bs == Staged(t, T.BN)
         Write(es, Cell(_), Load(_, _)) ==
           [c \in {Cell(e) : e \in es} |-> Load(CHOOSE e \in es : Cell(e) = c, kk)]
     IN smem' = [smem EXCEPT !.A[s] = Write(as, ACell, ALoad) @@ @,
                             !.B[s] = Write(bs, BCell, BLoad) @@ @]
  /\ UNCHANGED <<call, blk, acc, codes, y>>

\* The products that are not with a padding zero, in the order they are added.
Products(s, r, c) ==
  SelectSeq([d \in 1 .. T.BK |-> <<At(smem.A[s], ARead(r, d - 1), NeverWritten),
                                  At(smem.B[s], BRead(c, d - 1), NeverWritten)>>],
            LAMBDA p : p[1] # Zero /\ p[2] # Zero)

Multiply(t) ==
  /\ Runs(t, "multiply")
  /\ acc' = [acc EXCEPT ![t] =
       [o \in Owned(t) |-> At(@, o, <<>>) \o Products(Stage(TileOf(t)), o[1], o[2])]]
  /\ UNCHANGED <<call, blk, smem, codes, y>>

\* Stores the value of each output g = <<row, col>> that lies inside y.
StoreAll(outs, Value(_)) ==
  LET inside == {g \in outs : g[1] < call.m /\ g[2] < call.n}
      Flat(g) == g[1] * call.n + g[2]
  IN [i \in DOMAIN y |-> y[i] \o SetToSeq({Value(g) : g \in {h \in inside : Flat(h) = i}})]

\* A stored output has the bias of its column and the scales of its row and column.
Stored(dot, row, col) == [dot |-> dot, row |-> row, col |-> col]

Store(t) ==
  /\ Runs(t, "store")
  /\ y' = StoreAll({<<RowBase + o[1], ColBase + o[2]>> : o \in Owned(t)},
                   LAMBDA g : Stored(acc[t][<<g[1] - RowBase, g[2] - ColBase>>], g[1], g[2]))
  /\ UNCHANGED <<call, blk, smem, acc, codes>>

Dot(i, o, ks) == [d \in DOMAIN ks |-> <<i * call.k + ks[d], o * call.k + ks[d]>>]

\* linear_kernel: a thread an output, the whole dot product.
WholeDot(t) ==
  /\ Runs(t, "whole_dot")
  /\ y' = StoreAll({<<RowBase + t \div T.BN, ColBase + (t % T.BN)>>},
                   LAMBDA g : Stored(Dot(g[1], g[2], Ascending(0, 1, call.k)), g[1], g[2]))
  /\ UNCHANGED <<call, blk, smem, acc, codes>>

\* A warp an output: lane l takes every Warp-th k (with __dp4a every Warp-th group
\* of Vec), and __shfl_down adds the lanes up by halves.
LaneTerms(l) ==
  IF Kernel = "w8a8_gemv"
  THEN FlattenSeq([d \in DOMAIN Ascending(l, Warp, call.k \div Vec) |->
         [v \in 1 .. Vec |-> (l + (d - 1) * Warp) * Vec + v - 1]])
  ELSE Ascending(l, Warp, call.k)
WarpSum == ShuffleReduce(\o, [l \in 0 .. Warp - 1 |-> LaneTerms(l)])

Gemv(t) ==
  /\ Runs(t, "gemv")
  /\ LET o == (blk - QuantBlocks) * (T.threads \div Warp) + t
     IN y' = StoreAll({<<i, o>> : i \in 0 .. call.m - 1},
                      LAMBDA g : Stored(Dot(g[1], o, WarpSum), g[1], o))
  /\ UNCHANGED <<call, blk, smem, acc, codes>>

\* activation_quant_kernel of row blk.  The maximum of some columns is that set.
RowThreads == Cardinality(Threads(blk))
LocalMax(t) ==
  /\ Runs(t, "local_max")
  /\ smem' = [smem EXCEPT !.A[0] = (t :> Upto(t, RowThreads, call.k)) @@ @]
  /\ UNCHANGED <<call, blk, acc, codes, y>>

Halve(t) ==
  /\ Runs(t, "halve")
  /\ smem' = IF t < TileOf(t)
             THEN [smem EXCEPT !.A[0][t] = @ \cup smem.A[0][t + TileOf(t)]] ELSE smem
  /\ UNCHANGED <<call, blk, acc, codes, y>>

Quantize(t) ==
  /\ Runs(t, "quantize")
  /\ LET scale == smem.A[0][0]
         mine == {blk * call.k + j : j \in Upto(t, RowThreads, call.k)}
     IN codes' = [codes EXCEPT
          !.xq = [i \in DOMAIN @ |-> IF i \in mine THEN Append(@[i], scale) ELSE @[i]],
          !.a_scale = IF t = 0 THEN [@ EXCEPT ![blk] = scale] ELSE @]
  /\ UNCHANGED <<call, blk, smem, acc, y>>

\* All threads are through: another block starts, its shared memory unwritten.
Idle(b) == [t \in Threads(b) |-> 0]
Unwritten == [A |-> [s \in 0 .. 1 |-> <<>>], B |-> [s \in 0 .. 1 |-> <<>>]]
BlockDone ==
  /\ blk < LaunchBlocks
  /\ \A t \in Threads(blk) : pc[t] = Len(Program)
  /\ blk' = blk + 1
  /\ pc' = Idle(blk + 1)
  /\ smem' = Unwritten
  /\ acc' = [t \in Threads(blk + 1) |-> <<>>]
  /\ UNCHANGED <<call, codes, y>>

GemmInit ==
  /\ call \in Calls
  /\ blk = 0
  /\ pc = Idle(0)
  /\ smem = Unwritten
  /\ acc = [t \in Threads(0) |-> <<>>]
  /\ codes = [xq |-> [i \in 0 .. QuantBlocks * call.k - 1 |-> <<>>],
              a_scale |-> [i \in 0 .. QuantBlocks - 1 |-> {}]]
  /\ y = [i \in 0 .. call.m * call.n - 1 |-> <<>>]

GemmNext ==
  \/ BlockDone
  \/ \E t \in Threads(blk) :
       \/ StageTile(t) \/ Multiply(t) \/ Store(t) \/ WholeDot(t) \/ Gemv(t)
       \/ LocalMax(t) \/ Halve(t) \/ Quantize(t)

GemmSpec == GemmInit /\ [][GemmNext]_gemmVars

------------------------------------------------------------------------------
\* The launch has run to its end.
Computed == blk = LaunchBlocks
Columns == 0 .. call.k - 1

\* What the integer kernels leave to their caller: neither checks k.
WholeTilesOfK == Kernel = "w8a8" => call.k % T.BK = 0
WholeWordsOfK == Kernel = "w8a8_gemv" => call.k % Vec = 0

\* However the threads interleave, no product of an output is ever of another row of
\* x or w, of two different k, or of a cell that was not written; and whatever m, n
\* and k leave ragged, every output is stored once, with its own scales and bias, as
\* the sum of its products over each k once.  Activations were quantized before, each
\* element once, by the maximum of the whole of its row.  Float sums are only equal when
\* they are added in one order: all the tiled kernels, the pipelined one too, add the
\* products by ascending k as the naive one does, so choosing another of them changes no
\* bit of the output.  Of the products of quantized activations this holds only of a k
\* without a ragged end: beyond it the tiled int8 kernel multiplies what follows the row,
\* and the int8 GEMV leaves the last k % 4 products out.
GemmExact ==
  /\ WholeTilesOfK => \A t \in DOMAIN acc : \A o \in DOMAIN acc[t] : \A p \in ToSet(acc[t][o]) :
       /\ p[1] \div call.k = RowBase + o[1] /\ p[2] \div call.k = ColBase + o[2]
       /\ p[1] % call.k = p[2] % call.k
  /\ Computed =>
    /\ \A i \in 0 .. call.m - 1, o \in 0 .. call.n - 1 :
         LET out == y[i * call.n + o]
         IN /\ Len(out) = 1
            /\ out[1].row = i /\ out[1].col = o
            /\ WholeTilesOfK /\ WholeWordsOfK =>
                 /\ Len(out[1].dot) = call.k
                 /\ ToSet(out[1].dot) = ToSet(Dot(i, o, Ascending(0, 1, call.k)))
                 /\ Kernel \notin Gemvs => out[1].dot = Dot(i, o, Ascending(0, 1, call.k))
    /\ \A i \in DOMAIN codes.xq : codes.xq[i] = <<Columns>>
    /\ \A i \in DOMAIN codes.a_scale : codes.a_scale[i] = Columns

\* What is staged was loaded from inside x and w.
StagedInside ==
  InQuant(blk) \/ \A s \in 0 .. 1 :
    /\ \A c \in DOMAIN smem.A[s] : smem.A[s][c] < call.m * call.k
    /\ \A c \in DOMAIN smem.B[s] : smem.B[s][c] < call.n * call.k

\* The kernels that check no column and no k load nothing from outside x and w:
\* CudaBackend::linear chooses them only for shapes without a ragged edge there.  The
\* tiled int8 kernel, which nothing chooses by its k, is held to it only for a k that is a
\* multiple of its tile.
LoadsInBounds == WholeTilesOfK => StagedInside

\* The tiled int8 kernel's own claim (cuda_quant.cu:65): "k%BK==0 (dispatch)", so what it
\* stages without a check is inside x and w, whatever product was asked for.
W8A8InBounds == Kernel = "w8a8" => StagedInside

=============================================================================
