# A TLA+ verification of nanoinfer

nanoinfer is an LLM inference engine: a C++ core (`cpp/src`, with a CUDA backend in
`cpp/src/cuda`), a Python serving layer over it (`cpp/python/ni`) and a NumPy
reference (`src/nanoinfer`). Below, a path without a directory is under
`cpp/python/ni` (`*.py`) or `cpp/src` (`*.cpp`, `*.hpp`).

What is hard in it is less the arithmetic, which unit tests compare with the
reference, than the bookkeeping around it: KV blocks that several sequences share,
batches whose rows come and go, tentative tokens that are rolled back in two caches
at once, reservations against pools that are filled lazily, an engine thread that
publishes to an event loop, threads of a GPU block that share tiles, rows of a batch
that share a matrix product and part for attention. That bookkeeping is what these
modules model.

## 1. The system

| part | state | operations | what makes it correct |
|---|---|---|---|
| paged KV storage (`paged.cpp`) | the pool's free list, reference counts and slots; each cache's block table and length | allocate, incref, free; attend (grows lazily, writes, reads), advance, truncate, share_prefix, destructor | every read returns what this sequence wrote; a block is free exactly when nobody holds it; a shared block is never written |
| prefix cache (`scheduler.py`) | prefix -> block | match, register, clear, held_blocks | an entry's block holds the prefix for as long as the entry lives |
| scheduler (`scheduler.py`) | waiting, running, finished, the reservation counter, each sequence's output and reservation | add, step, cancel, clear_prefix_cache, run | batching is invisible in the tokens; nothing is lost; lazy allocation cannot exceed the pool; everything completes |
| speculative scheduler (`spec_scheduler.py`, `speculative.py`) | the same, with a second pool and a cache of a draft model, the token each sequence feeds next | the same; a step proposes, verifies, commits and rolls back | the output is the target's own, whatever is guessed; the two caches stay in step; both pools suffice |
| asyncio engine (`async_engine.py`) | inbox, handles, what was sent of each, the queues of the handles | start, stop, submit, cancel, the engine thread, the consumer's iterator | each stream is the request's tokens in order and one Done; every stream ends |
| HTTP server, detokenizer (`server.py`, `detok.py`) | connections and their handles; a window of tokens | parse, route, collect, stream; push, flush | an answer is whole, or its client went away and the request is cancelled; the pieces add up to the text; every connection ends |
| CUDA caches and decoder graph (`cuda_backend.cu`) | device copy of the block table, device cursors, captured graph | attend, share_prefix, truncate; capture, decode | the device's table is the host's; a replay decodes what an eager step would |
| CUDA kernels (`cuda_gemm.cu`, `cuda_quant.cu`, `cuda_backend.cu`) | shared memory, accumulators and outputs of a launch | products and attention of many kinds, and the dispatch that picks one | each output is the sum it should be, in the promised order, whatever the threads' interleaving |
| model (`model.cpp`, `cache.cpp`, `ops.cpp`) | contiguous caches | forward, forward_batch, forward_spec_batch; truncate | a row is computed as if it were alone |
| generation, speculation, sampling (`generate.cpp`, `speculative.py`, `sampling.cpp`) | tokens so far, the caches | the loops, the proposers, the accept rules, the filters | the tokens, and their distribution, are the target's own |
| loading, quantization (`model.cpp`, `quant.cpp`, `simd.hpp`) | the weights | fold, quantize, make resident; pack, unpack, multiply | each multiplier is applied once; packed codes are read back exactly |
| files, tensors, bindings, tools, NumPy reference | none | parse, convert, drive | not modelled |

How they meet. A scheduler owns the model, a `BlockPool`, a `PrefixCache` and one
cache per sequence; it calls `forward*` with them, which calls `attend` on each
layer. The engine thread alone touches the scheduler; the event loop reaches it
through a queue (the inbox), and the thread reaches the event loop by
`call_soon_threadsafe`. The server is coroutines on that loop. So there is real
concurrency in three places: between the loop and the engine thread, among the
connections' coroutines and their clients, and among the threads of a GPU block; elsewhere
the hazards are of order (which calls, in which sequence), of sharing, of limits,
and of exceptions that leave a step half done. `PROJECT.json` lists each at its
line under "hazards".

## 2. The modules

| module | models | role |
|---|---|---|
| `Subsequence` | what a loop that filters a list leaves of it | operators: block tables, queues and batches lose elements by them |
| `BlockPool` | `BlockPool` of `paged.cpp` | the pool's operators |
| `PagedKV` | `PagedKVCache`, and `Model::forward` as its user | adds caches; what a forward writes and reads |
| `PrefixCache` | `PrefixCache` of `scheduler.py` | closes the storage layer: a specification, its invariants |
| `KVHistory` | what `KVCacheBase` promises | abstract: each cache is a private history that grows at the end and is cut |
| `SequenceFacts` | | lemmas on naturals, sequences, filtered sequences, sums over sets and concatenations, which the proof modules share |
| `PrefixCacheProofs` | | the theorems about `PrefixCache` |
| `Scheduler` | `Scheduler` | composed with `PrefixCache` by EXTENDS: each forward, seed and release of a step is a step of the storage layer |
| `SchedulerProofs` | | the theorems about `Scheduler`, on those about `PrefixCache` |
| `SpecScheduler` | `SpecScheduler`, the proposers and the accept rules | `PrefixCache` for the target, a second instance of it (`Draft`) for the draft's pool |
| `SpecSchedulerProofs` | | the theorems about `SpecScheduler`, on those about `PrefixCache`, for both pools |
| `StepMachine` | what a scheduler promises its driver | abstract: queue, running set, outputs along an answer |
| `AsyncEngine` | `AsyncEngine` and `RequestHandle` | built over `StepMachine`, which both schedulers are shown to implement |
| `TokenStream` | what a `RequestHandle` promises its consumer | abstract: chunks along an answer, then one Done |
| `AsyncEngineProofs` | | the theorems about `AsyncEngine` |
| `CudaPagedKV` | `CudaBlockPool` and `CudaPagedKVCache` of `cuda_backend.cu` | extends `PrefixCache` by the device's copies of the block tables, through which the kernels read and write |
| `CudaGraphDecoder` | `CudaGraphDecoder`, and the globals it shares with every forward | closes the GPU's storage layer: a specification, shown to implement `PrefixCache` |
| `CudaProofs` | | the theorems about the two, on those about `PrefixCache` |
| `HttpServer` | `HttpServer` | a handler per connection, over `TokenStream`: the contract that `AsyncEngine` is shown to keep |
| `HttpServerProofs` | | the theorems about `HttpServer` |
| `Detok` | `IncrementalDetokenizer` | operators, used by `HttpServer` |
| `Gpu` | strided loops, the reduction of a warp | used by the two below |
| `GemmKernels` | the products of `cuda_gemm.cu` and `cuda_quant.cu`, and the dispatch | a launch, block by block |
| `AttentionKernels` | the attention kernels and the caches they read | a launch, block by block |
| `ModelForward` | `Model::forward*`, `KVCache`, `CudaKVCache` | calls on contiguous caches |
| `Sampling` | `sampling.cpp`, `sampling.py` | operators: the filters and the probabilities of a token |
| `Speculative` | `generate()` and the loops of `speculative.py` | extends `Sampling` |
| `ModelLoading` | the constructor of `Model` | from the files to the weights |
| `Quant` | `quant.cpp`, `simd.hpp` | one row: rounding, packing, unpacking, sums |
| `MC*` | | constants, bounds and small instances for TLC |

Three MC modules hold more than one specification. `MCServing` (the engine, or one connection of the server), `MCCuda` (decoder,
product or attention) and `MCModel` (calls, loop, loading or rows) choose one of them in the initial
state, by the variable `runs`, and leave the variables of the others alone: a behaviour is one
of one component. What the parts say of each other goes through the abstract modules.

Two refinements carry the whole: `PrefixCache` implements `KVHistory` (sharing and
paging are invisible: `PrivateHistories`) and the schedulers implement `StepMachine`
(batching, admission and speculation are invisible: `IsStepMachine`,
`GreedyIsStepMachine`), over which the engine implements `TokenStream`, over which the HTTP server is specified. And the
schedulers stay within the contract of the storage layer (`StorageContract`,
`StorageContracts`: every step of theirs is a step of `PrefixCache!Next`
or leaves the storage alone), so what is proved of the storage is true of their blocks.

### Storage

Variables have the code's names. `slot[b][o]` stands for the K/V at offset `o` of block
`b`, and holds the sequence of tokens that K/V encodes. Attention is causal, so the
vector computed for a token depends on the token and on what is read before it;
`Written` extends what was *read through the block table*, not what the model believes
the cache to hold. A stale tail, a recycled or a foreign block thus spoils all that
follows, as it does in the program. `context` is the caller's view, the tokens it has
put in each cache, against which reads are compared. Layers repeat the same writes and
reads: one is kept. A forward of several tokens is one action (`Forward`): it is one
call without a callback in it. When the pool runs dry in the middle, the blocks taken so
far stay in the table and the length is unchanged (`ForwardOutOfBlocks`).

`truncate()` asks no question of its caller; `MayCut` states what it leaves to them: the
block the new length cuts into is written next, so nobody else may hold it. The
schedulers are checked to respect that, and without it (`MayCut_Anywhere`) sharing is
unsound.

### Scheduler

`step()` is one call, but an exception can leave it at any forward, so it is a sequence of
actions in the code's order: a `Decode` per running row, an `Accept` per row, then
for each admission `AdmitHead`, `Prefill`, `RegisterPrompt`, `Emit`. Each of them makes all the changes of
the lines it stands for. `pc` is the place in the code. Notes on the translation:

- A row of a batch is a forward of its own, in the order of the batch. That is what
  `batched=False` does; `forward_batch` runs the rows layer by layer, but rows touch
  disjoint caches, so only an exception in the middle could tell (it leaves a different
  half of the blocks allocated, and `step()` does not go on from there).
- A request owns at most one cache and is named like it. Ids are fresh
  (`server.py` makes them from `uuid4`).
- `Sample` is a function of the request and the history: argmax, or a draw of the request's own seeded
  generator.
- "raised" is final: nothing in the repository calls `step()` again after an exception.
- The contiguous-cache mode (`block_size=0`) and the counters (`steps`, `peak_batch`,
  `shared_prefill_tokens`) are left out.

### Speculative scheduler

A step proposes for each row (the draft model one forward per guess, or prompt
lookup), verifies each row by one forward of the token and its proposal, commits and
rolls back both caches, evicts, admits. Sampling is abstracted to the set of tokens of
positive probability: `Picks` for the target, `Guesses` for the draft. A guess outside `Picks` is rejected; one
inside may be accepted or, when more than one token is possible, rejected
(rejection sampling), and the correction comes from the same row. For a greedy request both sets
are the argmax, and the rule is `accept_prefix`. The probabilities themselves are in `Speculative`.

### Engine

The thread's loop is drain, step, publish. What crosses threads is the `inbox` and
`calls`, the callbacks the loop has yet to run; every action of the loop, of a
consumer and of the thread interleaves. A step of the scheduler is the several actions
of `StepMachine`, so that submits, cancels and consumption fall into its
middle. After a step that raised nobody starts the engine again.

`stop()` tests `_thread` before its await and clears it behind it, so several may await one thread. Each puts a
stop item of its own; the thread reads one and ends, and the other ends the thread of a later `start()`, before or
after it has read that thread's submits. `stopping` counts the `stop()`s that await the newest thread, `stale` those that
awaited an earlier one and have yet to clear `_thread`, which may by then be the new one's. No caller in the
repository overlaps two `stop()`s. What is left out is a `start()` beside a thread that runs, which would
have two threads drive one scheduler: `start()` tests nothing, and its callers are taken not to do that.

### HTTP server

`at` is where a handler awaits; an action is what it does from one await to the next. A client may stall (for good: a slow
reader is one whose `drain()` takes long), close its end or reset the connection, at any moment. The
server learns of it as the code does: by an end of stream while it reads, by `is_closing()` at the
next event, by a `drain()` that raises. The request's fields are one of seven kinds. Each line is read under a timer
of its own, and nothing bounds the header lines: `timer` is 0 or 1 and changes with every new one, which is enough to tell
a timer that runs from one that is replaced. The
`TimeoutError` of `asyncio.wait_for` is the one `_handle` passes over from Python 3.11 on and any other exception
before, so a timeout either closes in silence or answers 500: both are modelled.

`NextChunk` and `NextDone` are the actions
`Yield` and `Close` of `TokenStream`. A request in `cut` never gets another: it landed behind a stop, an exception of
`step()` ended the engine's thread, or it waits for ever at the scheduler (`EngineCuts`, at any moment, to any open request).
Those are the exceptions of `StreamsEndUnlessCut`, which is what the engine is shown to do; the server assumes
no more of it.

A token that the tokenizer cannot render makes `decode()` raise. In `_completions` that is a 500; in `_stream` it is none of the errors
that cancel, and the 500 is written behind the events (`StreamRaises`; see `OneResponse` in section 3).

In `Detok` a token is a sequence of bytes. A character has one byte or two (the code does not look at
bytes: it asks only whether the decoded text ends in the replacement character), and a special token has none. `Strips` is a
decoder that drops the space a text begins with, as those of SentencePiece do.

### GPU caches and the decode graph

Both schedulers take a GPU pool as they take a CPU one (the bindings make either), so the
GPU's caches must be those of `PrefixCache`. Their pool and host tables are the operators of
`BlockPool` and `PagedKV`; kernels go through `d_block_table`, of which `Prepare`
uploads the tail behind `d_bt_count`. `IsPagedKV` says that every step is one of `PrefixCache!Next`,
or only reserves blocks, which is what a step that throws behind `prepare()` has done.

A decoder is warmed, captured, replayed. `spare` counts the logits buffers on the free list of the
`DevicePool` and stands for all the buffers that a capture needs: all are there after an eager step of
one token, and only the logits buffer is kept by the graph. `capturing` is set by a capture that throws between begin and
end: from then on every CUDA call fails, and what remains are the host's operations.
`cursor` is whose device words the two globals point at; `Position` and `Ids` are what a
kernel takes from them. The run assumes of the callers what the benchmark does: one decoder at a
time, destroyed before its cache, no other forward between its capture and its end (`MayForward`; `cuda_backend.cu:710`
asks it of the driver), and no step past the context. Attention is the default kernel: under
`force_naive_attn` and `use_split_attn` the length is baked into the graph, so a graph
must not be captured with them.

### GPU kernels

The threads of a block run a program of stages; a thread may be ahead of another by what
lies between two barriers, and a barrier lets it on when all have come. Values are not numbers but where they come from: an
accumulator is the sequence of products added to it, so that "exact" means each product once, and the
order is seen where the code promises one (`GemmExact`: by ascending k in the single-thread
dots, which is what makes them agree bit by bit). Shared memory starts unwritten
and a read of an unwritten or overwritten cell is seen in the result. The attention kernels' online softmax is
kept as pairs (maximum, terms rescaled to it), with scores as small integers. `AttentionExact` asks that
the tiled kernel's result be that of the untiled one, term by term. Tiles are a few
elements wide: what matters is whether a tile, a vector and a row divide each other or not, and the calls in `MCCalls` and
`MCAttnCalls` have both.

The int8 products check no `k`, neither in the kernels nor where they are launched: the tiled one needs a multiple of its
tile depth (16) and the matrix-vector form one of 4. `MCCalls` has products with such a `k` and without.
`GemmExact` and `LoadsInBounds` speak of those whose `k` has no ragged end where the kernel needs none (`WholeTilesOfK`,
`WholeWordsOfK`); see `W8A8InBounds` in section 3 for the others. The matrix-vector and the tiled kernels add in
different orders, so the same product can differ in its last bits by the number of rows; it is
promised within each kernel only.

### Model, loops, loading, rows

In `ModelForward` a tensor is flat, as in memory, and an element is a pair of a term (the operations that made its row)
and a column. Layout operations move elements; a vector is a row again only if its elements are the columns of one term, in order. So a
value that lands in the wrong row, head or position shows. `RowsStandalone` compares each row of each kind of call with the term of
its history run alone. rmsnorm, silu and the projections are uninterpreted, and the last norm and the
lm_head are left out. That the rows of a batch name distinct caches is a precondition. A call may throw at
a layer; a device cache on which that happened is `spoiled` behind what was there before, since its layers disagree in
length, and `CacheExact` then speaks of the positions before.

`Sampling` computes with small integer weights (a softmax is replaced by a fixed increasing function), exactly. In `Speculative` a draw is any
token of positive probability; `DistributionKept` computes the accept rule's probabilities as
fractions and compares the sum with the target's; at temperature zero its clause holds for a repetition
penalty of 1, since the greedy loop applies none. `NucleusMinimal` says what top-p keeps unless the heaviest tokens weigh
exactly p (see `SmallestNucleus` in section 3). `ModelLoading` keeps a weight's scale as the exponents of the four
multipliers. In `Quant` a row's values are integers, and sums are exact: what a vectorized sum in double re-associates is not seen.

## 3. The runs

| run | question | instance |
|---|---|---|
| `prefix_cache` | is the storage layer exact under any order of calls? | two interchangeable caches, 3 blocks of 2 slots, context 4, two prompts with a common block |
| `scheduler` | are batching, admission, sharing and failure invisible in the tokens, and is the accounting right? | any 3 of 8 requests, 5 blocks of 2, batch of 2, sharing, a clear at any time |
| `scheduler_completes` | does everything complete without prefix sharing? | 3 requests on a pool where only one or two fit |
| `scheduler_over_commits` | finding: can the pool be over-committed? | as above, with a clear at any time |
| `scheduler_starves` | finding: can a request wait for ever? | 2 requests, 3 blocks, sharing |
| `spec_scheduler` | does everything complete, along plain greedy's answer for every right and wrong guess, and does the reserved tail suffice? | 3 greedy requests (draft, lookup, draft) with a common prefix, pools that hold two of them, batch of 3 |
| `spec_scheduler_fails` | is what was emitted the target's, and are both caches in step, when a request samples, a step raises or the pool is over-committed? | 12 requests, most of which fail each at a place of its own; the first three together, or the first and another |
| `spec_near_context` | finding: is a request served that plain decoding serves? | 1 request near the end of the context |
| `cuda` | are the GPU's tables the host's, and are eager, captured and replayed steps the same? is every kernel's output exact on every interleaving? | 2 interchangeable caches, 2 blocks of 2 slots, context 3, one decoder that comes and goes; 26 products and 342 attentions on warps of 4 lanes |
| `model` | is a row computed as if alone, a loop's answer the target's, a loaded model what its config says, a packed row read back? | 3 calls on a host and a device cache, 2 layers, 4 experts; 3-token vocabulary, proposals of up to 3; every mixture of multipliers and layouts; 4-bit rows of 5 and 6 columns, groups of 3, 4 and 6 |
| `serving` | is every stream right, whatever is cancelled, stopped and restarted when, and which ones do not end? is every answer whole, every orphan cancelled, every connection closed? | engine: 2 requests, 2 starts, a submit into a stop, a step that raises, a scheduler that stalls, and either 2 cancels of one request or 2 stops at once; server: one connection, of any of seven kinds, on either of two answers |
| `serving_raises` | finding: does every stream end? | 2 requests, 1 start and stop, a step that raises, no stall and no late submit |

### Why these bounds

- Blocks of two slots have a first, a last and a straddled position; three blocks are
  enough for a shared, a private and a missing one. The prompts end before, on and behind a block
  boundary and share none, one or two blocks.
- Faults of accounting need one holder that leaves while another stays: two sequences and the
  prefix cache. A batch of two and a third request that waits give every order of
  admission, eviction and cancellation. `MaxKnown` (3) bounds how many requests come in one behaviour of
  `scheduler`, not which: all combinations of the eight are in. `FewKnown` bounds which come in one behaviour of
  `spec_scheduler_fails`: the first three, or the first and any other, since each of the others
  raises by itself and needs only a second row that the exception leaves in the middle of its step.
- K of 1 and 2, with proposals right, wrong at the first and wrong at the last token, gives
  each depth of rejection, and a bonus token.
- Two blocks and two caches are enough for a device table to go stale: blocks that are freed in order come
  back in reverse. A context of three fills with one prefill, which leaves the pool of buffers cold, or
  in decode steps, of which the replay is the one that needs a new block.
- Two streams give every interleaving of one that is cancelled with one that is not. Two starts give a restart, and
  `MaxStops`, which bounds how many `stop()`s await at once, at 2 a stop item that outlives the thread it was for. `FewCalls` keeps
  the two apart, to bound the run: in a behaviour either one request is cancelled (twice before a restart, or once and the stops
  do not overlap), or stops overlap and nobody cancels. What a cancel and a second stop have to do with each other is
  in the theorems about `AsyncEngine`, which hold for every `MaxStops` and `MaxCancels`.
- Handlers of connections share nothing
  but the engine and the listening socket, whose ends no handler causes: one connection is enough. Its answer has a
  character and a space split between tokens and, in the middle and before a space, a token that renders to nothing; or it has a
  token the tokenizer raises on. Header lines are not bounded.
- Kernel blocks share only read-only inputs, so the blocks of a launch run one after another; eight threads or three warps are
  enough for one that runs ahead of one that lags.
- Three calls give a prefill, a rollback or a failure, and a call that reads what they left.
- Vectors of two lanes and two bytes have whole steps, tails and odd widths within six columns.
- `Worst` above the pool, prompts above the context and a clear in the middle make each
  raise of `step()` happen. One case is impossible, and the runs agree: the draft's pool, all of which is
  reserved up front, never runs out.

### Fairness

`FairSpec`, `FairSpecSched`: weak fairness of `Step`. `run()` (and the engine thread) calls `step()`
while there is work, and a call goes on to its end. Nothing is assumed of add, cancel
and clear. `FairEngineSpec`: weak fairness of the engine thread, of
the loop's callbacks, of the return of `stop()` from its join, and of each consumer, which
iterates its handle. `FairHttpSpec`: weak fairness of each handler's next step, unless its client stalls while it drains or
closes, and of the timeout of each single line: a timer runs out if it stays the timer of the read, and not if another line
replaces it. No client need send or read anything. The next event of a handle comes as long as the request is not in `cut`;
that a request is never cut is not assumed. These are threads and coroutines that the interpreter schedules.
Nobody is obliged to submit, cancel or stop.

CHECK_DEADLOCK is FALSE where the system may stop: an idle scheduler whose requests are all
served, a scheduler that raised, an engine that has been stopped, connections that are closed, a launch, a load or a
loop that is over.

### What the violation runs show

1. `scheduler_over_commits`. A sequence's reservation leaves out the blocks it borrows from
   the prefix cache, because `held` counts them. `clear_prefix_cache()` while it runs
   makes `held` 0; the next admission takes the blocks twice and a later decode throws
   "out of blocks". `OnlyClearOverCommits` (run `scheduler`) shows that this is the only way.
2. `scheduler_starves`. Nothing ever evicts from the prefix cache. When what it holds leaves no room for
   the head of the queue, every step does nothing and `run()` loops for ever.
3. `spec_near_context`. A verify feeds tokens behind the request's last
   position; near the end of the context `forward_spec_batch` throws, for a
   request that plain greedy decoding serves.
4. `serving_raises`. An exception of `step()` ends the engine thread, and every open
   stream waits for ever.

Four more statements of the repository do not hold in full. The property that is checked leaves the case out, by a condition
that says which; the statement itself is a definition beside it that no run has, and TLC refutes it when it is made an INVARIANT of the run
(for the last two with a definition in `MCServing`, like `NoOrphans == Web!NoOrphans`):

- `W8A8InBounds` (run `cuda`). `cuda_quant.cu:65` says of the tiled int8 kernel "k%BK==0 (dispatch)". `cuda_linear_w8a8`
  (`cuda_quant.cu:250-284`) and the W8A8 lm_head (`362-372`) launch it for any `k`: other values are read from behind the row,
  and from behind the tensor in the last one; the matrix-vector form drops the last `k % 4` products. `cuda.hpp:40` leaves it to the
  caller, and every model the repository names has a `k` that is a multiple of 16. `LoadsInBounds` and `GemmExact` hold of the int8
  kernels for a whole `k`, and of the kernels of `CudaBackend::linear`, which does test the shape, for any.
- `SmallestNucleus` (run `model`). `sampling.py:104` and `sampling.py:34` (of `src/nanoinfer`) keep "the smallest set" of mass at
  least p. Where the heaviest tokens weigh exactly p both implementations keep one more: they drop what comes behind a mass *above* p
  (`sampling.py:116`, `sampling.cpp:85`). `NucleusMinimal` is the documented rule without such ties, and that the implementations
  agree with them too.
- `TextIsOneShot` (run `serving`). `detok.py:22-23` has the deltas equal "the one-shot decode of all ids". After a chunk that
  renders to nothing in the middle of a stream (special tokens, which `ignore_eos` lets in, `server.py:111`) `detok.py:65` has moved the
  window behind it, and the next chunk is decoded at position 0 and loses its leading space in a decoder that strips it.
  `StreamedText` is the rule for the other streams (`DropsSpace`).
- `OneResponse` (run `serving`). `server.py:136` says "One connection = one request = one response". An exception of the tokenizer in
  the middle of a stream (`server.py:243`) is none that `server.py:256` catches, so `server.py:158` writes a 500 behind the head and
  the events, and nothing cancels the request. `AnswersWhole` and `NoOrphans` hold but for that case.

What remains true beside them:

- `StreamsEndUnlessCut` (run `serving`): a stream that does not end is that of a thread which an exception ended (4); or the
  request lies for ever in the inbox of a thread that is over, submitted while a `stop()` awaited the thread, or before a
  second stop item that was left over; or it is queued for ever at a scheduler that runs nothing (2). The run has `MayStall`
  and overlapping stops, so all of these happen.
- `ConnectionsEnd` (run `serving`): a connection stays only while its client sends header lines for ever, each within 30 s
  (`Trickles`); while it does not finish the body it announced; while it does not read; or while the engine sends its request
  nothing more. A client that went away is noticed in all of these but the last.

Finding 2 is one of the paged scheduler; `SpecScheduler` uses the same prefix cache and the same gate at the head of its queue, so
with sharing on it can starve in the same way. `SpecCompletes` holds on an instance where held blocks never fill the pool.

Read in passing, without a run:

- `SpecRequest.eos_id` is documented as "-1 -> the model's eos_token_id", but `_emit` compares tokens with it as
  it is, so by default no token ends a speculative request.
- A request too big for the pool raises only at the head of the queue, where it stays.
- `CudaGraphDecoder::decode` never checks the context length in a replay. Two graphs cannot be alive together, since
  the second capture finds no logits buffer; and that capture throws behind `advance()`, so its cache counts a position that was
  not written. A forward beside a live graph would take its token and position from the graph's words.
- In `server.py` two clients that send one id share a handle; `collect()` never notices that its client has
  gone; a body is read, and answers are written, without a timeout.
- An untied config without `lm_head.weight` silently uses the embedding, with its multiplier. On CUDA the
  quantization modes other than W8A8 build host weights, which cannot take a device tensor.
- The embedding kernel on CUDA does not check the range of an id.

## 4. What is proved

`PrefixCacheProofs`, for every number and size of blocks, context length, set of caches,
prompts and chunks (assumptions: `PoolAssumption`, at least one block of at least one slot;
`CacheAssumption`, a context length; `StoreAssumption`, prompts and chunks are token sequences and
the caches are finitely many):

| theorem | says |
|---|---|
| `StorageInvariant` | `Spec => []IInv` |
| `AccountingExact` | reference counts are exact and the free list is the free blocks |
| `ReadsExact` | every read through a block table is the sequence's own K/V |
| `SharedPrefixesExact` | every cached block holds its prefix |
| `SharedNeverWritten` | no step writes a block with two holders |
| `Refinement` | the storage implements `KVHistory` |

The argument. None of the properties is inductive alone. A read is right after a write if
the write hits nobody else: that needs the written block to have
one holder, which `FrontierOwned` says of the write frontier and of all behind it. `FrontierOwned` survives
sharing since only whole blocks are registered and only whole
blocks shared, and a rollback by `MayCut`. To get from "reference count one" to
"nobody else's table has it" the counts must be exact (`RefcountExact`), over tables that
name no block twice (`TablesInjective`) and prefixes with a block each (`CachedDistinct`); allocation keeps that because
the free list has each free block once (`FreeListExact`). `CachedExact` and `KVExact` then
follow from each other: register stores what `KVExact` says the block holds, a seeded table reads
what `CachedExact` says. `IInv` is the conjunction of these, with the types and the
finiteness of the prefix map. The proof has a lemma for each operator of the pool
(`AllocateKeeps`, `IncrefKeeps`, `FreeKeeps`), one for each action (`ForwardKeeps`,
`RollbackKeeps`, `SeedKeeps`, `RegisterKeeps`, ...), arithmetic on div and
mod (`DivModUnique`) and counting of holders (`CountFollowsTable`).

`SchedulerProofs`, for every such storage and every batch size, set of requests with their prompts and
limits, and sampler (`SchedulerAssumption`: prompts and limits are of their types, and a token,
or what a shared prefix leaves of a prompt, is a chunk the storage layer takes):

| theorem | says |
|---|---|
| `SchedulerUsesStorage` | `SchedSpec => StorageContract`: each step is a step of `PrefixCache` or leaves the storage alone |
| `TokensAreStandalone` | each token is the one a run of the request by itself picks; who finishes is whole |
| `CacheFollowsTokens` | the cache of a sequence is its prompt and all its tokens but the last; the rest hold nothing |
| `ReservationsExact` | the reservation counter is the sum over the live sequences |
| `SchedulerRefinesMachine` | the scheduler implements `StepMachine` |

The argument. Neither layer's invariant can be shown first. That a step is one the storage
layer allows needs what the scheduler knows (a sequence in its prefill has fed a prefix of its prompt, so what is
left is a chunk; a request at the head of the queue holds no block, so it may be seeded);
that a token is the right one needs what the storage layer
promises (a forward reads back exactly the sequence's own tokens: `ReadBack`). So `IInv /\ SInv` is carried together
(`TwoLayers`): `StorageStep` gives the storage step from both, `NextIInv` of `PrefixCacheProofs` the layer's
invariant after it, and `NextSInv` the scheduler's, with the reads after the step at hand. `SInv` says where a
request is (`OnePlace`: one of queue, admission, batch, finished; the finished stay in the batch only until the last row is
accepted, behind the row `_accept` is at), what `step()` holds where (`Holds`), and, row by row, how far a
cache is behind its output (`Batch`): by one token before its forward, by none between the
forward and `_accept`. That difference is why `CacheFollowsOutput` alone is not inductive: it says nothing
in the middle of a step. It takes one lemma per action (`DecodeKeeps`, `AcceptKeeps`, `EmitKeeps`, ...);
`NextToken` is what `_accept` does to an output. An eviction and a cancellation
pick the rest of a sequence by `Without`, which is stated by what it keeps and in which
order, as is what `free()` puts back on the free list.

The refinement is a third layer over these two (`ThreeLayers`), with one lemma for each action of the scheduler and
the action or stutter of `StepMachine` it is. Two things are needed beyond `SInv`. The answer of the machine is a recursive
function of the request, so what a row emits must be one step of that recursion (`StandaloneUnfolded`,
`AnswerFollows`). And the machine promises that a step with nothing running admits somebody (unless prefix sharing
may stall it): that holds only if the reservation counter is 0 when nobody is live, which is
`ReservedExact`; it is inductive together with what each request has reserved (`Reserves`), by `SumTakes`
of `SequenceFacts`.

`SpecSchedulerProofs`, for every pool, batch size and set of requests, each with any proposer, `k` and n-gram length, every draft model
and every target (`SpecSchedulerAssumption`: these are of their types, and what a prefill, a
verify of at most `k` + 1 tokens or the prompt's rest feeds is a chunk the storage layer takes):

| theorem | says |
|---|---|
| `SpecSchedulerUsesStorage` | `SpecSchedSpec => StorageContracts`: each step is one of `PrefixCache` or leaves the storage alone, in the target's pool and in the draft's |
| `TokensAreTargets` | each token is one the target may pick after those before it, EOS is not emitted, who finishes is whole |
| `CachesInLockStep` | between two steps both caches of a sequence hold its prompt and its output but the last token |

The argument. As for `Scheduler` the two layers are carried together (`TwoStores`): `Storage`, which is the `IInv` of each pool, and
`Control`, what `step()` knows. The draft's storage is `PrefixCache` without its prefix map, so `D`, a second instance of
`PrefixCacheProofs`, gives every lemma again for the draft's variables. What is new is the rollback: `truncate()` is
allowed only where nobody else holds the block it cuts into. That needs `OwnedBehind`: behind its prompt a cache holds
every block alone (the draft's cache all of its blocks), since what is shared or registered lies within a prompt, and a
verify is never rolled back below it. `Control` follows a row of the batch through the step, with one predicate for what its two caches
hold at each place: `Ready`, `Drafting` (the draft ahead by the proposal so far but its last token), `ProposedFor`,
`Verified` (the target ahead too, and a row of logits for each prefix of the proposal), `Committed`
(both rolled back to what was accepted). `LockStep` and `TargetTokens` are the ends of that chain,
and neither says anything in its middle. That what is emitted is what the target picks is `AcceptedPicked` for the accept rules (a proposed
token stays only where the target's row of logits may pick it, the token behind comes from the next row),
and `Outcome` for the loop that emits it and stops at EOS or the budget, with some tokens left over.

`CudaProofs`, for every pool, set of caches and set of decoders (no assumption beyond those of the storage layer):

| theorem | says |
|---|---|
| `CudaInvariant` | `CudaSpec => []CudaInv` |
| `DeviceTablesCoherent` | the uploaded entries of a device table are the host's |
| `CursorNeverDangles` | the globals every kernel reads through point at a decoder that is alive, or at none |
| `GpuRefinesPagedKV` | every step is one of `PrefixCache`, or reserves blocks only |
| `GpuReadsExact` | every position read through a cache's table is the sequence's own K/V |

The argument. `CudaInv` is `IInv` with the device's state tied to the host's. A kernel that looks a block up in the device's table does
what the storage layer says only while that table is coherent, and the table stays coherent only if each rollback
lowers `d_bt_count` to what is left: the two are carried together. A decode that throws behind `prepare()` is no step of
the storage layer; `ReserveKeeps` shows that what it leaves (blocks in the table, nothing written) keeps `IInv`.

`AsyncEngineProofs`, for every set of requests, answers, limits and bounds on calls (`EngineAssumption`: an answer is a
sequence no longer than `max_tokens`):

| theorem | says |
|---|---|
| `EngineInvariant` | `EngineSpec => []EInv` |
| `OneBookKept` | a request has a handle exactly while the scheduler knows it; all that ran is published when the inbox is read |
| `ReasonsTrue` | the reason a consumer is told is true, and its tokens are then the answer |
| `EngineRefinesStream` | each consumer sees a `TokenStream` |

The argument. A token is on its way in up to four places: the scheduler's output, the callbacks that
`call_soon_threadsafe` has put in the loop's queue, the queue of the handle and what the consumer has taken.
`EInv` follows a request through them with a cursor: the chunks in the handle's queue continue what the consumer
has (`EventsTake`), the callbacks for the handle continue those (`CallsTake`), and where they end is `sent`,
the thread's own count; a Done comes last and only of what is known to have ended. What a reason may be is monotone in what has been asked (`Told`), which
is why a "cancelled" on its way stays true. `Books`, `Threads` and `Inboxes` say what the thread and the inbox hold at each place of the loop: an add
once and before its cancel, and nothing of a request whose handle is gone.

`HttpServerProofs`, for every set of connections, every answer and every tokenizer, under `NoDoneDistinct`
(the value that stands for "no Done yet" is not a Done; it is a model value in the runs):

| theorem | says |
|---|---|
| `RequestsNotOrphaned` | a handler that leaves its request before the Done has cancelled it, unless the tokenizer raised, and cancels for a lost client only |
| `AnswersAreWhole` | what is written is part of one well-formed answer, but for the error behind a stream the tokenizer raised in; the whole of it unless the client or the clock cut it |

The argument. A handler touches only its own connection, so the invariant `HttpInv` is one of a
single connection and a step is followed at the connection that takes it (`OneMoves`). It ties what is written to the place
of the handler (`Answered`: nothing before the routes, a head and events while it streams, the final event
before `[DONE]`), and what is known of the handle to it (`HandleHeld`). Each write is one that may follow what is
there (`MayFollow`), and `WriteKeeps` shows once that such a write keeps an answer well-formed. Whether the tokenizer has raised is
a parameter of that; it may change under what is written, and `SoundEither` shows that this spoils no answer that may go on.

Induction. The provers cannot use the library's induction theorems, which take an operator as a parameter.
`SequenceFacts` does induction over a *set* of naturals instead (`LeastNatural`: a set that is not empty has a least
element; `InductionOnNat`), and so has the facts about recursive functions (`Iteration`), sums over finite sets
(`SumTakes`) and `FlattenSeq` (`FlattenSteps`) that the theorems above need.

Only model-checked: that only a clear over-commits the pool (`OnlyClearOverCommits`), that the speculative scheduler's reservations fit both pools (`BothPoolsFit`) and that with greedy requests it
implements `StepMachine` (`GreedyIsStepMachine`), the forward pass, the loops and accept rules, loading, quantization and the
kernels (their results over every interleaving of a small launch). Out of the
prover's reach: liveness under fairness, and so `Completes`, `SpecCompletes`, `StreamsEndUnlessCut` and `ConnectionsEnd`.

## 5. What is not modelled

Beside what the runs leave out (section 3), three limits of the models of failure. A step that raised is the last: neither the reservation
that it leaves with no owner (`scheduler.py:336`, `spec_scheduler.py:353`) nor its effect on later admissions is seen. One decoder is alive at a
time: what is shown of the globals that graphs share is that a decoder's end leaves no dangling address, not what
two decoders or a forward beside a live graph do to each other. And of a warm-up that throws (`cuda_backend.cu:1104`) only what it leaves is
modelled.

The parts with status `not_modelled` in `PROJECT.json`, each with its reason: parsing of files, shapes, bindings, benchmarks and
tools, and the NumPy reference. Of the modelled parts: rounding of floating-point numbers (quantization error, the
fp16 accumulator of a benchmark knob); the schedulers' contiguous mode (`block_size=0`), their counters and the engine's timings;
the fields of an HTTP request; which tensors get the buffers a captured step gave back to
the `DevicePool`; element-wise kernels of one row.

## 6. Plan

Done: storage and both schedulers, engine and server, with their proofs; detokenizer; the GPU's paged caches and decode
graph (with their proofs) and its kernels; the forward pass, the loops, sampling, loading and quantization. Next:

1. The other theorems about the speculative scheduler: `BothPoolsFit`, by the sums of `SequenceFacts`, and `GreedyIsStepMachine`, as for `Scheduler`.
2. `DevicePool`: the buffers a live graph has baked in, and what gets them after its capture.
3. The contiguous mode of the schedulers, over the caches of `ModelForward` as a second implementation of `KVHistory`.
