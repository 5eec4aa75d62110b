---------------------------- MODULE ModelForward ----------------------------
(***************************************************************************)
(* Model::forward, forward_batch and forward_spec_batch over contiguous    *)
(* KV caches: KVCache on the host, CudaKVCache on the device.              *)
(*                                                                         *)
(* A tensor is flat, as in memory.  A row of the residual stream is a      *)
(* term, the history of operations that made it; a projection turns it     *)
(* into the elements <<term, column>> that the layout operations move,     *)
(* and only a vector whose elements are the columns of one term, in their  *)
(* places, is read as that term again.                                     *)
(***************************************************************************)
EXTENDS Integers, Sequences, FiniteSets, SequencesExt, TLC

CONSTANTS
  NumLayers, KV, Rep,   \* layers, kv heads, query heads for each (n_rep)
  D,                    \* head_dim
  QkNorm,               \* cfg_.qk_norm
  Context,              \* rows of the RoPE tables: max_position_embeddings
  Experts, TopK,        \* n_experts (0: dense), moe_top_k
  RouterLogit(_, _, _), \* layer, expert, row -> its router logit
  Hosts, Devices,       \* the caches on the host, those on the device
  Ids, Batches, SpecBatches, Fails, \* the calls: prompts, (batched) rows, where one fails
  MaxSeq                \* max_seq of the host caches

Kept == Hosts \cup Devices
H == KV * Rep
Tables == 0 .. NumLayers - 1

VARIABLES
  buf,      \* cache -> layer -> address -> the <<key, value>> written there
  rows,     \* cache -> layer -> positions its tensor has room for
  length,   \* cache -> length_
  hist,     \* cache -> the tokens its first length positions stand for
  spoiled,  \* device cache a call failed on -> the positions that are still right
  result    \* the last call: its logits rows, and the history each is for

modelVars == <<buf, rows, length, hist, spoiled, result>>

------------------------------------------------------------------------------
\* Layouts.

\* A tensor is computed once and kept: f, element by element.
Tensor(f) == f @@ <<>>

Garbage == <<"garbage">>
\* The term whose columns first .. first + n - 1 are v[0], ..., v[n - 1].
Whole(v, first) ==
  IF \A d \in DOMAIN v : v[d] = <<v[0][1], first + d>> THEN v[0][1] ELSE Garbage
RowOf(x, r, width) == Whole([c \in 0 .. width - 1 |-> x[r * width + c]], 0)

\* A matrix product of every row of x with one weight.
Project(name, i, x, width) ==
  Tensor([idx \in 0 .. Len(x) * width - 1 |->
       <<<<name, i, x[idx \div width + 1]>>, idx % width>>])

\* [T, n*D] -> [n, T, D] and back.
SplitHeads(x, n, T) ==
  Tensor([idx \in 0 .. n * T * D - 1 |->
       LET h == idx \div (T * D)
           s == (idx % (T * D)) \div D
       IN x[s * (n * D) + h * D + (idx % D)]])
MergeHeads(x, n, T) ==
  Tensor([y \in 0 .. n * T * D - 1 |->
       LET s == y \div (n * D)
           h == (y % (n * D)) \div D
       IN x[(h * T + s) * D + (y % D)]])
RepeatKV(x, T) ==
  Tensor([idx \in 0 .. H * T * D - 1 |->
       LET oh == idx \div (T * D) IN
       x[((oh \div Rep) * T + (idx % (T * D)) \div D) * D + (idx % D)]])
ExtractRows(x, first, count, width) ==
  Tensor([idx \in 0 .. count * width - 1 |-> x[first * width + idx]])
PlaceRows(dst, first, block, width) ==
  Tensor([a \in DOMAIN dst |-> IF a - first * width \in DOMAIN block
                          THEN block[a - first * width] ELSE dst[a]])

ApplyQkNorm(name, i, x) ==
  IF QkNorm THEN Tensor([idx \in DOMAIN x |-> <<<<name, i, x[idx][1]>>, x[idx][2]>>]) ELSE x
\* Each element is mixed with the one half a head away, by the angle of its position.
ApplyRope(x, T, offset) ==
  Tensor([idx \in DOMAIN x |->
       LET d == idx % D
           pos == offset + (idx % (T * D)) \div D
           pair == IF d < D \div 2 THEN x[idx + D \div 2] ELSE x[idx - D \div 2]
       IN IF /\ pair[1] = x[idx][1]
             /\ pair[2] = x[idx][2] + (IF d < D \div 2 THEN D \div 2 ELSE -(D \div 2))
          THEN <<<<"rope", pos, x[idx][1]>>, x[idx][2]>> ELSE <<Garbage, 0>>])

------------------------------------------------------------------------------
\* Attention: query i of the T sees the keys before it and its own.

\* Mutation: every query of a block sees the whole block.
Attention_NotCausal(q, kk, vv, T, sk, offset) ==
  LET HeadAt(x, r, first) == Whole([d \in 0 .. D - 1 |-> x[r * D + d]], first)
      weighted == Tensor([hi \in 0 .. H * T - 1 |->
        LET h == hi \div T IN
        <<"attention", HeadAt(q, hi, h * D),
          [j \in 1 .. sk |->
             <<HeadAt(kk, h * sk + j - 1, (h \div Rep) * D),
               HeadAt(vv, h * sk + j - 1, (h \div Rep) * D)>>]>>])
  IN Tensor([idx \in 0 .. H * T * D - 1 |->
               <<weighted[idx \div D], (idx \div (T * D)) * D + (idx % D)>>])
Attention(q, kk, vv, T, sk, offset) ==
  LET HeadAt(x, r, first) == Whole([d \in 0 .. D - 1 |-> x[r * D + d]], first)
      weighted == Tensor([hi \in 0 .. H * T - 1 |->
        LET h == hi \div T IN
        <<"attention", HeadAt(q, hi, h * D),
          [j \in 1 .. offset + (hi % T) + 1 |->
             <<HeadAt(kk, h * sk + j - 1, (h \div Rep) * D),
               HeadAt(vv, h * sk + j - 1, (h \div Rep) * D)>>]>>])
  IN Tensor([idx \in 0 .. H * T * D - 1 |->
               <<weighted[idx \div D], (idx \div (T * D)) * D + (idx % D)>>])

\* KVCache::update writes into [n_kv, max_seq, D]; cat_seq makes a longer tensor, head by
\* head.  Unwritten memory reads as nothing in particular.
Write(c, b, L, k, v, T, start) ==
  IF c \in Hosts
  THEN Tensor([a \in DOMAIN b |->
         LET pos == (a % (MaxSeq * D)) \div D
             idx == ((a \div (MaxSeq * D)) * T + pos - start) * D + (a % D)
         IN IF pos \in start .. start + T - 1 THEN <<k[idx], v[idx]>> ELSE b[a]])
  ELSE Tensor([a \in 0 .. KV * (L + T) * D - 1 |->
         LET h == a \div ((L + T) * D)
             r == a % ((L + T) * D)
         IN IF r < L * D THEN b[h * L * D + r]
            ELSE <<k[h * T * D + r - L * D], v[h * T * D + r - L * D]>>])

\* What attend() reads back: [n_kv, end, D].
Filled(c, b, end) ==
  IF c \in Hosts
  THEN Tensor([a \in 0 .. KV * end * D - 1 |->
                 b[((a \div (end * D)) * MaxSeq) * D + (a % (end * D))]])
  ELSE b

AttendOne(c, b, L, q, k, v, T, offset) ==
  LET new == Write(c, b, L, k, v, T, offset)
      sk == IF c \in Hosts THEN offset + T ELSE L + T
      read == Filled(c, new, sk)
  IN [buf |-> new, rows |-> IF c \in Hosts THEN L ELSE L + T,
      out |-> Attention(q, RepeatKV(Tensor([a \in DOMAIN read |-> read[a][1]]), sk),
                        RepeatKV(Tensor([a \in DOMAIN read |-> read[a][2]]), sk), T, sk, offset)]

------------------------------------------------------------------------------
\* The mixture of experts.

\* partial_sort: the largest logits first, of equal ones the lower expert.
TopExperts(i, x) ==
  LET lr == [e \in 0 .. Experts - 1 |-> RouterLogit(i, e, x)]
      Before(f, e) == lr[f] > lr[e] \/ (lr[f] = lr[e] /\ f < e)
  IN [j \in 1 .. TopK |->
        CHOOSE e \in DOMAIN lr : Cardinality({f \in DOMAIN lr : Before(f, e)}) = j - 1]
\* Softmax over the selected, by how far each logit is below the largest.
Gates(i, x) ==
  LET idx == TopExperts(i, x)
      Below(j) == RouterLogit(i, idx[j], x) - RouterLogit(i, idx[1], x)
      sum == [j \in 1 .. TopK |-> Below(j)]
  IN [j \in 1 .. TopK |-> <<Below(j), sum>>]

\* expert_rows[e], expert_gates[e] and the expert's product over the gathered rows.
ExpertPasses(i, hm, e) ==
  LET RowsOf == SelectSeq([r \in 1 .. Len(hm) |-> r],
                          LAMBDA r : e \in ToSet(TopExperts(i, hm[r])))
      GateOf(r) == Gates(i, hm[r])[CHOOSE j \in 1 .. TopK : TopExperts(i, hm[r])[j] = e]
  IN [rws |-> RowsOf, gates |-> [j \in DOMAIN RowsOf |-> GateOf(RowsOf[j])],
      ye |-> [j \in DOMAIN RowsOf |-> <<"expert", i, e, hm[RowsOf[j]]>>]]
\* dst[rows[j]] += gate * ye[j]
ScatterAdd(dst, pass) ==
  FoldLeft(LAMBDA o, j : [o EXCEPT ![pass.rws[j]] = Append(@, <<pass.gates[j], pass.ye[j]>>)],
           dst, [j \in DOMAIN pass.rws |-> j])
Ffn(i, hm) ==
  IF Experts = 0 THEN [r \in DOMAIN hm |-> <<"swiglu", i, hm[r]>>]
  ELSE FoldLeft(LAMBDA o, e : ScatterAdd(o, ExpertPasses(i, hm, e)),
                [r \in DOMAIN hm |-> <<>>], [e \in 1 .. Experts |-> e - 1])
------------------------------------------------------------------------------
\* A pass over segments: segment s is counts[s] rows from row_start on, for caches[s].

RowStart(counts) == [s \in DOMAIN counts |-> FoldLeft(+, 0, SubSeq(counts, 1, s - 1))]

\* A segment's rows as heads.
HeadsOf(x, n, first, count) == SplitHeads(ExtractRows(x, first, count, n * D), n, count)

\* One layer's attention, segment by segment; `fails' is where an allocation fails or <<>>.
AttendSegments(i, st, counts, caches, pos, fails) ==
  LET hm == Tensor([r \in DOMAIN st.x |-> <<"norm", i, st.x[r]>>])
      q == Project("q", i, hm, H * D)
      k == Project("k", i, hm, KV * D)
      v == Project("v", i, hm, KV * D)
      Segment(acc, s) ==
        LET c == caches[s]
            rs == RowStart(counts)[s]
            T == counts[s]
            qh == ApplyRope(ApplyQkNorm("q_norm", i, HeadsOf(q, H, rs, T)), T, pos[s])
            kh == ApplyRope(ApplyQkNorm("k_norm", i, HeadsOf(k, KV, rs, T)), T, pos[s])
            vh == HeadsOf(v, KV, rs, T)
        IN IF ~acc.ok \/ fails = <<i, s>> \/ (c \in Hosts /\ pos[s] + T > MaxSeq)
           THEN [acc EXCEPT !.ok = FALSE]
           ELSE LET at == AttendOne(c, acc.buf[c][i], acc.rows[c][i], qh, kh, vh, T, pos[s])
                IN [acc EXCEPT !.buf[c][i] = at.buf, !.rows[c][i] = at.rows,
                               !.attn = PlaceRows(@, rs, MergeHeads(at.out, H, T), H * D)]
  IN FoldLeft(Segment, [ok |-> st.ok, buf |-> st.buf, rows |-> st.rows,
                        attn |-> [a \in 0 .. Len(st.x) * H * D - 1 |-> <<Garbage, 0>>]],
              [s \in DOMAIN counts |-> s])

\* The rest of a layer, after the attention at: its residual and the FFN's.
AfterAttention(i, st, at) ==
  LET x == Tensor([r \in DOMAIN st.x |->
             <<"+", st.x[r], <<"o", i, RowOf(at.attn, r - 1, H * D)>>>>])
      ff == Ffn(i, Tensor([r \in DOMAIN x |-> <<"norm", i, x[r]>>]))
  IN [ok |-> at.ok, buf |-> at.buf, rows |-> at.rows,
      x |-> IF at.ok THEN Tensor([r \in DOMAIN x |-> <<"+", x[r], ff[r]>>]) ELSE st.x]

Layer(i, st, counts, caches, pos, fails) ==
  AfterAttention(i, st, AttendSegments(i, st, counts, caches, pos, fails))

Pass(tokens, counts, caches, pos, fails, b, L) ==
  FoldLeft(LAMBDA st, i : IF st.ok THEN Layer(i, st, counts, caches, pos, fails) ELSE st,
           [ok |-> TRUE, buf |-> b, rows |-> L,
            x |-> [r \in DOMAIN tokens |-> <<"embed", tokens[r]>>]],
           [i \in 1 .. NumLayers |-> i - 1])

Nothing == [rows |-> <<>>, hists |-> <<>>]
Thrown == result' = Nothing /\ UNCHANGED <<buf, rows, length, hist, spoiled>>

\* Every cache of the call, once each; length_ moves when all layers are done: end is where
\* the pass of the rows ended.
Finish(end, tokens, counts, caches) ==
  LET Fed(s) == SubSeq(tokens, RowStart(counts)[s] + 1, RowStart(counts)[s] + counts[s])
      Seg(c) == CHOOSE s \in DOMAIN caches : caches[s] = c
      after == [c \in Kept |-> IF c \in ToSet(caches) THEN hist[c] \o Fed(Seg(c)) ELSE hist[c]]
  IN /\ buf' = end.buf
     /\ rows' = end.rows
     /\ IF end.ok
        THEN /\ length' = [c \in Kept |->
                  IF c \in ToSet(caches) THEN length[c] + counts[Seg(c)] ELSE length[c]]
             /\ hist' = after
             /\ spoiled' = spoiled
             /\ result' = [rows |-> end.x,
                           hists |-> FlattenSeq([s \in DOMAIN caches |->
                             [j \in 1 .. counts[s] |->
                                SubSeq(after[caches[s]], 1, length[caches[s]] + j)]])]
        ELSE /\ spoiled' = spoiled @@ [c \in {d \in Devices : end.rows[d] # rows[d]} |-> length[c]]
             /\ result' = Nothing
             /\ UNCHANGED <<length, hist>>

Run(tokens, counts, caches, fails) ==
  LET pos == [s \in DOMAIN counts |-> length[caches[s]]]
  IN Finish(Pass(tokens, counts, caches, pos, fails, buf, rows), tokens, counts, caches)

------------------------------------------------------------------------------
Forward(ids, c, fails) ==
  IF length[c] + Len(ids) > Context THEN Thrown ELSE Run(ids, <<Len(ids)>>, <<c>>, fails)

\* Without a cache: the fresh keys and values, at offset 0.
Recompute(ids) ==
  LET T == Len(ids)
      Level(st, i) ==
        LET hm == Tensor([r \in DOMAIN st |-> <<"norm", i, st[r]>>])
            q == ApplyRope(ApplyQkNorm("q_norm", i, HeadsOf(Project("q", i, hm, H * D), H, 0, T)), T, 0)
            k == ApplyRope(ApplyQkNorm("k_norm", i, HeadsOf(Project("k", i, hm, KV * D), KV, 0, T)), T, 0)
            v == HeadsOf(Project("v", i, hm, KV * D), KV, 0, T)
            a == MergeHeads(Attention(q, RepeatKV(k, T), RepeatKV(v, T), T, T, 0), H, T)
            x == Tensor([r \in DOMAIN st |-> <<"+", st[r], <<"o", i, RowOf(a, r - 1, H * D)>>>>])
            ff == Ffn(i, Tensor([r \in DOMAIN x |-> <<"norm", i, x[r]>>]))
        IN Tensor([r \in DOMAIN x |-> <<"+", x[r], ff[r]>>])
  IN FoldLeft(Level, [r \in DOMAIN ids |-> <<"embed", ids[r]>>], [i \in 1 .. NumLayers |-> i - 1])
ForwardUncached(ids) ==
  /\ result' = IF Len(ids) > Context THEN Nothing
               ELSE [rows |-> Recompute(ids),
                     hists |-> [j \in DOMAIN ids |-> SubSeq(ids, 1, j)]]
  /\ UNCHANGED <<buf, rows, length, hist, spoiled>>

ForwardBatch(tokens, caches, fails) ==
  IF \/ Len(caches) # Len(tokens)
     \/ tokens = <<>>
     \/ \E s \in DOMAIN caches : length[caches[s]] + 1 > Context
  THEN Thrown
  ELSE Run(tokens, [s \in DOMAIN tokens |-> 1], caches, fails)

ForwardSpecBatch(tokens, counts, caches, fails) ==
  IF \/ Len(caches) # Len(counts)
     \/ \E s \in DOMAIN counts : counts[s] < 1 \/ length[caches[s]] + counts[s] > Context
     \/ FoldLeft(+, 0, counts) # Len(tokens)
     \/ tokens = <<>>
  THEN Thrown
  ELSE Run(tokens, counts, caches, fails)

\* Mutation: the first rows of the memory, not of each head.
Slice_Contiguous(b, L, n) == Tensor([a \in 0 .. KV * n * D - 1 |-> b[a]])
\* The first n rows of each head.
Slice(b, L, n) ==
  Tensor([a \in 0 .. KV * n * D - 1 |-> b[((a \div (n * D)) * L) * D + (a % (n * D))]])

\* KVCache moves the pointer; CudaKVCache slices every layer, unless it is there already.
Truncate(c, n) ==
  /\ length' = [length EXCEPT ![c] = n]
  /\ hist' = [hist EXCEPT ![c] = SubSeq(@, 1, n)]
  /\ LET slice == c \in Devices /\ n # length[c] IN
     /\ buf' = IF slice
               THEN [buf EXCEPT ![c] = [i \in Tables |-> Slice(@[i], rows[c][i], n)]]
               ELSE buf
     /\ rows' = IF slice THEN [rows EXCEPT ![c] = [i \in Tables |-> n]] ELSE rows
     /\ spoiled' = [d \in {e \in DOMAIN spoiled : ~(slice /\ e = c /\ n <= spoiled[e])} |-> spoiled[d]]
  /\ result' = Nothing

ModelInit ==
  /\ rows = [c \in Kept |-> [i \in Tables |-> IF c \in Hosts THEN MaxSeq ELSE 0]]
  /\ buf = [c \in Kept |-> [i \in Tables |->
              IF c \in Hosts THEN [a \in 0 .. KV * MaxSeq * D - 1 |-> <<<<Garbage, 0>>, <<Garbage, 0>>>>]
              ELSE [a \in {} |-> <<>>]]]
  /\ length = [c \in Kept |-> 0]
  /\ hist = [c \in Kept |-> <<>>]
  /\ spoiled = <<>>
  /\ result = Nothing

ModelNext ==
  \/ \E ids \in Ids, c \in Kept, fails \in Fails : Forward(ids, c, fails)
  \/ \E ids \in Ids : ForwardUncached(ids)
  \/ \E b \in Batches, fails \in Fails : ForwardBatch(b.tokens, b.caches, fails)
  \/ \E b \in SpecBatches, fails \in Fails : ForwardSpecBatch(b.tokens, b.counts, b.caches, fails)
  \/ \E c \in Kept : \E n \in 0 .. length[c] : Truncate(c, n)

ModelSpec == ModelInit /\ [][ModelNext]_modelVars

------------------------------------------------------------------------------
\* What a model computes: each position from those before it, expert by expert.

Sum(i, x) ==
  IF Experts = 0 THEN <<"swiglu", i, x>>
  ELSE LET lr == [e \in 0 .. Experts - 1 |-> RouterLogit(i, e, x)]
           chosen == CHOOSE S \in SUBSET DOMAIN lr :
                       /\ Cardinality(S) = TopK
                       /\ \A e \in S, f \in DOMAIN lr \ S :
                            lr[e] > lr[f] \/ (lr[e] = lr[f] /\ e < f)
           asc == SelectSeq([e \in 1 .. Experts |-> e - 1], LAMBDA e : e \in chosen)
           top == CHOOSE t \in {lr[e] : e \in chosen} : \A e \in chosen : lr[e] <= t
           desc == SortSeq([j \in DOMAIN asc |-> lr[asc[j]] - top], LAMBDA a, b : a > b)
       IN [j \in DOMAIN asc |-> <<<<lr[asc[j]] - top, desc>>, <<"expert", i, asc[j], x>>>>]
Normed(name, i, t) == IF QkNorm THEN <<name, i, t>> ELSE t
KeyOf(i, x, p) == <<"rope", p - 1, Normed("k_norm", i, <<"k", i, <<"norm", i, x[p]>>>>)>>
ValueOf(i, x, p) == <<"v", i, <<"norm", i, x[p]>>>>
QueryOf(i, x, p) == <<"rope", p - 1, Normed("q_norm", i, <<"q", i, <<"norm", i, x[p]>>>>)>>
OneLayer(x, i) ==
  LET y == Tensor([p \in DOMAIN x |->
             <<"+", x[p], <<"o", i, <<"attention", QueryOf(i, x, p),
                [j \in 1 .. p |-> <<KeyOf(i, x, j), ValueOf(i, x, j)>>]>>>>>>])
  IN Tensor([p \in DOMAIN x |-> <<"+", y[p], Sum(i, <<"norm", i, y[p]>>)>>])
\* The residual stream before layer i.
Below(tokens, i) ==
  FoldLeft(OneLayer, [p \in DOMAIN tokens |-> <<"embed", tokens[p]>>], [l \in 1 .. i |-> l - 1])
Rows(tokens) == Below(tokens, NumLayers)

\* Every logits row any of the four entry points returns, of a prompt, a batch of single
\* tokens or a ragged batch to verify, over host or device caches, is term by term what
\* a model computes for that row's history alone: a row never depends on what shares
\* its batch (model.cpp:519-522).  A device cache that outlived a call that threw is exempt.
RowsStandalone ==
  spoiled = <<>> =>
    \A r \in DOMAIN result.rows :
      result.rows[r] = Rows(result.hists[r])[Len(result.hists[r])]

\* Below length_, every layer of a cache holds the keys and values of its history, in every
\* head's place: a rollback, a full cache or a call that failed in some layer and left others
\* written cannot change what the next call reads (cache.cpp:72-75).
CacheExact ==
  \A c \in Kept, i \in Tables :
    LET x == Below(hist[c], i)
        right == IF c \in DOMAIN spoiled THEN 1 .. spoiled[c] ELSE 1 .. length[c]
    IN \A h \in 0 .. KV - 1, p \in right \cap 1 .. length[c], d \in 0 .. D - 1 :
         buf[c][i][(h * rows[c][i] + p - 1) * D + d] =
           <<<<KeyOf(i, x, p), h * D + d>>, <<ValueOf(i, x, p), h * D + d>>>>
=============================================================================
