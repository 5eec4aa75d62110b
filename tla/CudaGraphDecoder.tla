--------------------------- MODULE CudaGraphDecoder ---------------------------
(***************************************************************************)
(* Decoding by a captured CUDA graph over the paged GPU caches             *)
(* (cpp/src/cuda/cuda_backend.cu: CudaGraphDecoder, and the globals        *)
(* g_cuda_graph_pos and g_cuda_graph_token that it shares with every       *)
(* forward of the process).  A decoder's first step runs eagerly, its      *)
(* second one is captured, and the graph is launched from then on, fed     *)
(* through two device words that hold the position and the token.          *)
(*                                                                         *)
(* Capturing goes wrong in two ways.  It records, so it must not allocate  *)
(* device memory: the buffers have to be in the pool, which an eager step  *)
(* of one token puts them in.  And it runs model code that may throw,      *)
(* which leaves the stream capturing: no CUDA call works from then on.     *)
(***************************************************************************)
EXTENDS CudaPagedKV

CONSTANTS
  Decoders,
  Prefilled,   \* what the eager forwards are fed
  Decoded,     \* the tokens that the decoders are fed
  None         \* no cache, no decoder

ASSUME GraphAssumption ==
  /\ Prefilled \subseteq Chunks
  /\ \A t \in Decoded : <<t>> \in Chunks
  /\ None \notin Caches \cup Decoders

VARIABLES
  cache_,      \* the cache each decoder drives, None before its construction
  warmed,      \* warmed_: the decoders that tried their eager step
  captured,    \* captured_: the decoders that have a graph
  d_pos,       \* *d_pos_: the device word of each decoder
  d_token,     \* *d_token_, <<>> when it was not written
  cursor,      \* whose words g_cuda_graph_pos and g_cuda_graph_token point at
  capturing,   \* a capture was begun on the stream and not ended
  spare        \* the logits buffers on the free list of the DevicePool

graphVars == <<cache_, warmed, captured, d_pos, d_token, cursor, capturing, spare>>
cudaVars == <<vars, deviceVars, graphVars>>

Alive == {d \in Decoders : cache_[d] # None}

GraphInit ==
  /\ Init
  /\ DeviceInit
  /\ cache_ = [d \in Decoders |-> None]
  /\ warmed = {} /\ captured = {}
  /\ d_pos = [d \in Decoders |-> 0]
  /\ d_token = [d \in Decoders |-> <<>>]
  /\ cursor = None
  /\ capturing = FALSE
  /\ spare = 0

-----------------------------------------------------------------------------
(* The kernels take position and tokens from the device words that the     *)
(* globals point at, from the host's arguments if they point nowhere.      *)
Position(c) == IF cursor = None THEN length[c] ELSE d_pos[cursor]
Ids(toks) == IF cursor = None THEN toks ELSE d_token[cursor]

(* Whether an eager forward may run: its callers keep away from the time   *)
(* between a capture and the end of the decoder ("Set/cleared only by the  *)
(* single-threaded driver around a capture").                              *)
MayForward == cursor = None

(* Model::forward, eager, on a CUDA model.  A forward of one token leaves  *)
(* a logits buffer in the pool.                                            *)
Eager(c, toks) ==
  /\ ~capturing
  /\ MayForward
  /\ length[c] + Len(toks) <= MaxSeq
  /\ Pass(c, toks, Position(c), Ids(toks))
  /\ spare' = IF Len(toks) = 1 /\ spare = 0 THEN 1 ELSE spare

EagerForward(c, toks) ==
  /\ Eager(c, toks)
  /\ UNCHANGED <<cache_, warmed, captured, d_pos, d_token, cursor, capturing>>

EagerOutOfBlocks(c, toks) ==
  /\ ~capturing
  /\ MayForward
  /\ length[c] + Len(toks) <= MaxSeq
  /\ PrepareOutOfBlocks(c, length[c] + Len(toks))
  /\ UNCHANGED graphVars

-----------------------------------------------------------------------------
Construct(d, c) ==
  /\ ~capturing
  /\ cache_[d] = None
  /\ Alive = {}
  /\ cache_' = [cache_ EXCEPT ![d] = c]
  /\ UNCHANGED <<vars, deviceVars, warmed, captured, d_pos, d_token, cursor, capturing, spare>>

\* Mutation: the destructor leaves the globals.
Cursor_Kept == cursor

(* The globals after a destructor, whoever's words they point at. *)
CursorCleared == None

(* The logits buffers that the end of decoder d gives back to the pool. *)
Returned(d) == IF d \in captured THEN 1 ELSE 0

(* ~CudaGraphDecoder *)
Destroy(d) ==
  /\ d \in Alive
  /\ cache_' = [cache_ EXCEPT ![d] = None]
  /\ warmed' = warmed \ {d}
  /\ captured' = captured \ {d}
  /\ d_pos' = [d_pos EXCEPT ![d] = 0]
  /\ d_token' = [d_token EXCEPT ![d] = <<>>]
  /\ cursor' = CursorCleared
  /\ spare' = spare + Returned(d)
  /\ UNCHANGED <<vars, deviceVars, capturing>>

(* The host-to-device copies of a step's position and token. *)
Feed(d, pos, tok) ==
  /\ d_pos' = [d_pos EXCEPT ![d] = pos]
  /\ d_token' = [d_token EXCEPT ![d] = <<tok>>]

(* decode() whose prepare() runs the pool dry. *)
DecodeOutOfBlocks(d) ==
  /\ ~capturing
  /\ d \in Alive
  /\ PrepareOutOfBlocks(cache_[d], length[cache_[d]] + 1)
  /\ UNCHANGED graphVars

(* decode() the first time: an eager forward. *)
DecodeWarm(d, tok) ==
  /\ d \in Alive \ warmed
  /\ Eager(cache_[d], <<tok>>)
  /\ warmed' = warmed \cup {d}
  /\ UNCHANGED <<cache_, captured, d_pos, d_token, cursor, capturing>>

(* The same at the end of the context: forward() throws behind prepare()   *)
(* and warmed_ = true, and no buffer is in the pool.                       *)
DecodeWarmRaises(d) ==
  /\ ~capturing
  /\ d \in Alive \ warmed
  /\ length[cache_[d]] = MaxSeq
  /\ Prepare(cache_[d], MaxSeq + 1)
  /\ warmed' = warmed \cup {d}
  /\ UNCHANGED <<slot, length, context, cached>>
  /\ UNCHANGED <<cache_, captured, d_pos, d_token, cursor, capturing, spare>>

\* Mutation: the table is not prepared before the launch.
Launch_Unprepared(c, tok) ==
  /\ slot' = DeviceWritten(d_block_table[c], length[c], <<tok>>)
  /\ length' = [length EXCEPT ![c] = @ + 1]
  /\ context' = [context EXCEPT ![c] = Append(@, tok)]
  /\ UNCHANGED <<free_list, refcount, block_table, cached, deviceVars>>

(* prepare(pos + 1), the graph's kernels at the position just fed, and the *)
(* driver's own advance.                                                   *)
Launch(c, tok) == Pass(c, <<tok>>, length[c], <<tok>>)

(* decode() the second time: capture() and the first launch.  The capture  *)
(* takes a logits buffer for good; its advance() is undone.                *)
DecodeCapture(d, tok) ==
  /\ ~capturing
  /\ d \in (Alive \cap warmed) \ captured
  /\ length[cache_[d]] < MaxSeq
  /\ spare > 0
  /\ Launch(cache_[d], tok)
  /\ Feed(d, length[cache_[d]], tok)
  /\ captured' = captured \cup {d}
  /\ cursor' = d
  /\ spare' = spare - 1
  /\ UNCHANGED <<cache_, warmed, capturing>>

(* capture() throws between cudaStreamBeginCapture and its end: the        *)
(* forward is past the context, or has to allocate a buffer.  If only the  *)
(* logits buffer is missing it has advanced by then.                       *)
DecodeCaptureRaises(d, tok) ==
  LET c == cache_[d]
  IN  /\ ~capturing
      /\ d \in (Alive \cap warmed) \ captured
      /\ length[c] = MaxSeq \/ spare = 0
      /\ Prepare(c, length[c] + 1)
      /\ Feed(d, length[c], tok)
      /\ cursor' = d
      /\ capturing' = TRUE
      /\ length' = [length EXCEPT ![c] = @ + IF @ < MaxSeq /\ captured # {} THEN 1 ELSE 0]
      /\ UNCHANGED <<slot, context, cached, cache_, warmed, captured, spare>>

(* decode() from then on.  Nothing checks the context: the caller does.    *)
DecodeReplay(d, tok) ==
  /\ ~capturing
  /\ d \in captured
  /\ length[cache_[d]] < MaxSeq
  /\ Launch(cache_[d], tok)
  /\ Feed(d, length[cache_[d]], tok)
  /\ UNCHANGED <<cache_, warmed, captured, cursor, capturing, spare>>

-----------------------------------------------------------------------------
(* What the caches' owner does.  A cache outlives its decoder. *)
Host ==
  /\ \/ HostStep
     \/ \E c \in Caches : \E len \in 0 .. length[c] : DeviceRollback(c, len)
     \/ \E c \in Caches :
          /\ block_table[c] # <<>> /\ c \notin {cache_[d] : d \in Decoders}
          /\ DeviceRelease(c)
  /\ UNCHANGED graphVars

CudaNext ==
  \/ Host
  \/ \E c \in Caches, toks \in Prefilled : EagerForward(c, toks) \/ EagerOutOfBlocks(c, toks)
  \/ \E d \in Decoders : Destroy(d) \/ DecodeOutOfBlocks(d) \/ DecodeWarmRaises(d)
  \/ \E d \in Decoders, c \in Caches : Construct(d, c)
  \/ \E d \in Decoders, tok \in Decoded :
       \/ DecodeWarm(d, tok) \/ DecodeCapture(d, tok)
       \/ DecodeCaptureRaises(d, tok) \/ DecodeReplay(d, tok)

CudaSpec == GraphInit /\ [][CudaNext]_cudaVars
-----------------------------------------------------------------------------
(* The globals never point into a decoder that is gone: every forward of   *)
(* the process reads through them (cuda_backend.cu, ~CudaGraphDecoder).    *)
NoDanglingCursor == cursor # None => cursor \in Alive

(* A prepare() behind which nothing came: blocks are in the table, and no  *)
(* position was written.                                                   *)
Reserve(c, n) ==
  /\ Allocate(n)
  /\ block_table' = [block_table EXCEPT ![c] = @ \o Popped(n)]
  /\ UNCHANGED <<slot, length, context, cached>>

(* The GPU's caches are the paged caches of PrefixCache, whether a token   *)
(* goes through an eager forward, a capture or a replay, and whatever a    *)
(* step that throws leaves behind: its steps are theirs, but for blocks    *)
(* that are reserved ahead (cuda_backend.hpp: decode is "identical to      *)
(* model.forward").                                                        *)
IsPagedKV ==
  Init /\ [][Next \/ \E c \in Caches, n \in 0 .. NumBlocks : Reserve(c, n)]_vars
=============================================================================
