-------------------------------- MODULE MCCuda --------------------------------
(* Bounds for model-checking the GPU side: in a behaviour either the graph *)
(* decoder runs over its caches, or one product or one attention, on       *)
(* kernels of a few threads.                                               *)
EXTENDS CudaGraphDecoder, GemmKernels, AttentionKernels, TLC

VARIABLE runs  \* which of the three

CONSTANTS c1, c2, d1, t1, t2

MCCaches == {c1, c2}
MCToken == {t1, t2}
\* A block and a token: the block is what sequences share.
MCPrompts == {<<t1, t1, t1>>}
\* A prefill of a whole context; a decoder's tokens are others.
MCPrefilled == {<<t1, t1, t1>>}
MCDecoded == {t2}
MCChunks == MCPrefilled \cup {<<t>> : t \in MCDecoded}
\* The caches are interchangeable.
MCSymmetry == Permutations(MCCaches)

Block(bm, bn, bk, tm, tn) ==
  [BM |-> bm, BN |-> bn, BK |-> bk, TM |-> tm, TN |-> tn, threads |-> (bm \div tm) * (bn \div tn)]
Wmma(bm, bn, bk) ==
  [BM |-> bm, BN |-> bn, BK |-> bk, warpsM |-> 2, warpsN |-> 2, threads |-> 16]
TwoWarps == [threads |-> 8]
MCTile ==
  [naive |-> Block(2, 2, 1, 1, 1), tiled |-> Block(4, 4, 2, 2, 2),
   vec |-> Block(4, 4, 4, 2, 2), db |-> Block(4, 4, 4, 2, 2),
   warptiled |-> [BM |-> 8, BN |-> 8, BK |-> 4, WM |-> 4, WN |-> 8, WNITER |-> 2,
                  TM |-> 1, TN |-> 2, threads |-> 8],
   wmma |-> Wmma(4, 4, 2), wmma_tiled |-> Wmma(8, 8, 4),
   w8a8 |-> Block(4, 4, 4, 2, 2), q8 |-> Block(4, 4, 4, 2, 2),
   gemv |-> TwoWarps, w8a8_gemv |-> TwoWarps, q8_gemv |-> TwoWarps,
   activation_quant |-> [threads |-> 4]]

Call(w, p, m, n, k) == [weight |-> w, policy |-> p, m |-> m, n |-> n, k |-> k]
MCCalls ==
  {Call("F32", {}, m, 5, 6) : m \in 1 .. 3} \cup
  {Call("F32", p, 3, 8, 12) : p \in {{}, {"use_dbuf"}}} \cup
  {Call("F32", {}, 3, 16, 8), Call("F32", {"force_naive_gemm"}, 3, 5, 3),
   Call("F32", {"use_wmma"}, 3, 5, 3), Call("F32", {"use_wmma"}, 3, 16, 4)} \cup
  {Call(w, {}, 5, n, 4) : w \in {"F16", "BF16"}, n \in {5, 8, 16}} \cup
  {Call("W8A8", {}, m, 5, 8) : m \in 2 .. 3} \cup
  {Call("W8A8", {"force_tiled_w8a8"}, 2, 5, 4), Call("EmbedQ8", {"force_tiled_q8"}, 2, 3, 3),
   Call("EmbedQ8", {}, 2, 3, 3), Call("EmbedQ8", {}, 3, 5, 5)} \cup
  {Call("EmbedQ8", {"use_w8a8_lmhead"}, m, 3, 8) : m \in 2 .. 3} \cup
  {Call("W8A8", {}, 2, 5, 5), Call("W8A8", {}, 3, 5, 6),
   Call("EmbedQ8", {"use_w8a8_lmhead"}, 3, 3, 6)}

Scores == {[j \in 0 .. 5 |-> j], [j \in 0 .. 5 |-> -j], [j \in 0 .. 5 |-> (j * 2) % 3]}
MCAttnCalls ==
  [paged : BOOLEAN, policy : {{}, {"force_naive_attn"}, {"use_split_attn"}, {"use_tiled_attn"}},
   nkv : {2}, rep : {2}, sq : {1}, past : {0, 4}, D : {2}, causal : {TRUE},
   table : {<<2, 0, 1>>}, bs : {2}, score : Scores] \cup
  [paged : BOOLEAN, policy : {{}, {"use_split_attn", "no_tiled_attn"}, {"use_tiled_attn"}},
   nkv : {1}, rep : {1, 2}, sq : {3, 4}, past : {0, 2}, D : {1, 2}, causal : {TRUE},
   table : {<<2, 0, 1>>}, bs : {2}, score : Scores] \cup
  [paged : {FALSE}, policy : {{}, {"use_split_attn", "no_tiled_attn"}},
   nkv : {1}, rep : {1}, sq : {3}, past : {2}, D : {2}, causal : {FALSE},
   table : {<<0>>}, bs : {2}, score : Scores]

MCInit ==
  /\ runs \in {"decoder", "product", "attention"}
  /\ call \in IF runs = "product" THEN Calls ELSE {CHOOSE c \in Calls : TRUE}
  /\ acall \in IF runs = "attention" THEN AttnCalls ELSE {CHOOSE c \in AttnCalls : TRUE}
  /\ GraphInit /\ GemmInit /\ AttnInit

MCNext ==
  /\ UNCHANGED runs
  /\ \/ runs = "decoder" /\ CudaNext /\ UNCHANGED <<gemmVars, attnVars>>
     \/ runs = "product" /\ GemmNext /\ UNCHANGED <<cudaVars, attnVars>>
     \/ runs = "attention" /\ AttnNext /\ UNCHANGED <<cudaVars, gemmVars>>

MCSpec == MCInit /\ [][MCNext]_<<runs, cudaVars, gemmVars, attnVars>>
===============================================================================
