-------------------------- MODULE SpecSchedulerProofs --------------------------
(***************************************************************************)
(* Proofs about the speculative scheduler, for every proposer, target,     *)
(* draft model, pool and set of requests: both models' storage is used     *)
(* within its contract, the two caches of a sequence are in lockstep       *)
(* between two steps, and every token is one the target itself picks.      *)
(***************************************************************************)
EXTENDS SpecScheduler, PrefixCacheProofs

(* What PrefixCacheProofs says of the target's storage holds of the        *)
(* draft's too. *)
D == INSTANCE PrefixCacheProofs WITH
  free_list <- d_free_list, refcount <- d_refcount, block_table <- d_block_table,
  length <- d_length, slot <- d_slot, context <- d_context, cached <- Empty

-----------------------------------------------------------------------------
(* The inductive invariant: where a request is, ... *)
Places == {"idle", "propose", "verify", "commit", "accept", "admit", "prime", "prefill",
           "register", "emit", "raised"}

SpecTypes ==
  /\ waiting \in Seq(Caches) /\ running \in Seq(Caches) /\ admitted \in Seq(Caches)
  /\ output \in [Caches -> Seq(Token)]
  /\ DOMAIN finished \subseteq Caches /\ cancelled \subseteq DOMAIN finished
  /\ cur \in [Caches -> Seq(Token)] /\ verify_L \in [Caches -> Nat]
  /\ drafting \in Seq(Token) /\ confirmed \in Seq(Token) /\ proposals \in Seq(Seq(Token))
  /\ logits \in Seq(Seq(Seq(Token)))
  /\ pc \in Places

(* The rows of a verified batch that are not yet accepted are the last     *)
(* ones. *)
Behind == Len(running) - Len(logits)

(* A request is in one place: queued, between the queue and the batch, in  *)
(* the batch, or finished; what finishes while the rows are committed      *)
(* stays in the batch to the end of the step. *)
OnePlace ==
  /\ Distinct(waiting) /\ Distinct(running)
  /\ \A r \in Range(waiting) :
       r \notin Range(running) \cup Range(admitted) \cup DOMAIN finished
  /\ \A r \in Range(admitted) : r \notin Range(running) \cup DOMAIN finished
  /\ \A j \in 1 .. Len(running) :
       running[j] \in DOMAIN finished => pc \in {"commit", "accept"} /\ j <= Behind

(* What step() holds, by where it is. *)
Holds ==
  /\ pc \in {"prime", "prefill", "register", "emit"} => Len(admitted) = 1
  /\ pc \notin {"prime", "prefill", "register", "emit"} => admitted = <<>>
  /\ pc \notin {"verify", "commit", "accept", "register", "emit"} => logits = <<>>
  /\ pc \notin {"propose", "verify", "commit", "accept"} => proposals = <<>>
  /\ pc # "propose" => drafting = <<>>
  /\ pc # "accept" => confirmed = <<>>
  /\ pc = "propose" => Len(proposals) < Len(running)
  /\ pc = "verify" => Len(proposals) = Len(running) /\ Len(logits) < Len(running)
  /\ pc \in {"commit", "accept"} =>
       Len(proposals) = Len(logits) /\ Len(logits) \in 1 .. Len(running)

(* Only live sequences hold blocks, and only those in the batch and the    *)
(* finished have emitted anything. *)
Fresh ==
  /\ \A r \in Caches : r \notin Live => block_table[r] = <<>> /\ d_block_table[r] = <<>>
  /\ \A r \in Caches : r \notin Range(running) \cup DOMAIN finished => output[r] = <<>>

(* ... what the two caches of a row of the batch hold as it goes through a *)
(* step, ... *)
InBatch(r) ==
  /\ Prompt[r] # <<>> /\ output[r] # <<>> /\ Len(output[r]) < MaxTokens[r]
  /\ cur[r] = <<Last(output[r])>>

Drafts(r, tokens) == Proposer[r] = "draft" => d_context[r] = tokens

Ready(r) ==
  /\ InBatch(r)
  /\ context[r] = Prompt[r] \o Front(output[r])
  /\ Drafts(r, context[r])

\* x is drafted so far.
Drafting(r, x) ==
  /\ InBatch(r) /\ Len(x) <= K[r]
  /\ context[r] = Prompt[r] \o Front(output[r])
  /\ Drafts(r, IF x = <<>> THEN context[r] ELSE Prompt[r] \o output[r] \o Front(x))

ProposedFor(r, x) ==
  /\ InBatch(r) /\ Len(x) <= K[r]
  /\ context[r] = Prompt[r] \o Front(output[r])
  /\ Drafts(r, Prompt[r] \o output[r] \o x)

\* h are the histories of the rows of the verify.
Verified(r, x, h) ==
  /\ InBatch(r)
  /\ context[r] = Prompt[r] \o output[r] \o x
  /\ Drafts(r, context[r])
  /\ verify_L[r] + 1 = Len(Prompt[r]) + Len(output[r])
  /\ Len(h) = Len(x) + 1
  /\ \A i \in 1 .. Len(h) : h[i] = Prompt[r] \o output[r] \o SubSeq(x, 1, i - 1)

TargetPicks(r, x) ==
  \A i \in 1 .. Len(x) : x[i] \in Picks(r, Prompt[r] \o output[r] \o SubSeq(x, 1, i - 1))

Committed(r, x) ==
  /\ InBatch(r) /\ x # <<>>
  /\ TargetPicks(r, x)
  /\ context[r] = Prompt[r] \o output[r] \o Front(x)
  /\ Drafts(r, context[r])

Batch ==
  /\ pc \in {"idle", "admit", "prime", "prefill", "register", "emit"} =>
       \A j \in 1 .. Len(running) : Ready(running[j])
  /\ pc = "propose" =>
       /\ \A j \in 1 .. Len(proposals) : ProposedFor(running[j], proposals[j])
       /\ Drafting(running[Len(proposals) + 1], drafting)
       /\ \A j \in Len(proposals) + 2 .. Len(running) : Ready(running[j])
  /\ pc = "verify" =>
       /\ \A j \in 1 .. Len(logits) : Verified(running[j], proposals[j], logits[j])
       /\ \A j \in Len(logits) + 1 .. Len(running) : ProposedFor(running[j], proposals[j])
  /\ pc \in {"commit", "accept"} =>
       /\ \A j \in 1 .. Behind : running[j] \notin DOMAIN finished => Ready(running[j])
       /\ pc = "commit" => Verified(running[Behind + 1], proposals[1], logits[1])
       /\ pc = "accept" => Committed(running[Behind + 1], confirmed)
       /\ \A i \in 2 .. Len(logits) : Verified(running[Behind + i], proposals[i], logits[i])

(* ... and those of the request that is being admitted. *)
Admission ==
  /\ pc \in {"prime", "prefill"} =>
       LET r == admitted[1]
       IN  /\ length[r] < Len(Prompt[r])
           /\ context[r] = SubSeq(Prompt[r], 1, length[r])
           /\ Drafts(r, IF pc = "prime" THEN <<>> ELSE Prompt[r])
  /\ pc \in {"register", "emit"} =>
       LET r == admitted[1]
       IN  /\ Prompt[r] # <<>> /\ context[r] = Prompt[r]
           /\ Drafts(r, Prompt[r])
           /\ logits = <<<<Prompt[r]>>>>

(* After an exception only the storage and the answers are of interest. *)
Control ==
  /\ SpecTypes
  /\ TargetTokens
  /\ pc # "raised" => OnePlace /\ Holds /\ Fresh /\ Batch /\ Admission

(* A cache holds alone what is behind the prompt, a draft's cache all of   *)
(* its blocks: a rollback never cuts into a block that is shared. *)
PromptLength == [c \in Caches |-> Len(Prompt[c])]
NoPrompt == [c \in Caches |-> 0]

Storage ==
  /\ IInv /\ OwnedBehind(PromptLength)
  /\ D!IInv /\ D!OwnedBehind(NoPrompt)

StorageSteps ==
  /\ [Next]_vars /\ OwnedBehind(PromptLength)'
  /\ [D!Next]_(D!vars) /\ D!OwnedBehind(NoPrompt)'
-----------------------------------------------------------------------------
(* The draft's storage. *)

LEMMA DAssumptions == D!IsFiniteSet(Caches)
BY StoreAssumption DEF D!IsFiniteSet, IsFiniteSet

(* D and Draft are two names of one storage. *)
LEMMA SameForward ==
  ASSUME NEW c, NEW toks
  PROVE  D!Forward(c, toks) <=> Draft!Forward(c, toks)
BY DEF D!Forward, Draft!Forward, D!Missing, Draft!Missing, D!BlocksFor, Draft!BlocksFor,
       D!Allocate, Draft!Allocate, D!Popped, Draft!Popped, D!Blocks, Draft!Blocks,
       D!Written, Draft!Written, D!Encoded, Draft!Encoded, D!SlotAt, Draft!SlotAt,
       D!PositionsOf, Draft!PositionsOf, D!Range, Draft!Range

LEMMA SameEncoded == ASSUME NEW c PROVE D!Encoded(c) = Draft!Encoded(c)
BY DEF D!Encoded, Draft!Encoded, D!SlotAt, Draft!SlotAt

LEMMA SameOutOfBlocks ==
  ASSUME NEW c, NEW toks
  PROVE  D!ForwardOutOfBlocks(c, toks) <=> Draft!ForwardOutOfBlocks(c, toks)
BY DEF D!ForwardOutOfBlocks, Draft!ForwardOutOfBlocks, D!Missing, Draft!Missing,
       D!BlocksFor, Draft!BlocksFor, D!Allocate, Draft!Allocate, D!Popped, Draft!Popped,
       D!Blocks, Draft!Blocks, D!Range, Draft!Range

LEMMA SameFree == ASSUME NEW blks PROVE D!Free(blks) <=> Draft!Free(blks)
BY DEF D!Free, Draft!Free, D!Range, Draft!Range, D!Blocks, Draft!Blocks, D!InOrder,
       Draft!InOrder, D!Cardinality, Draft!Cardinality

LEMMA SameTruncate ==
  ASSUME NEW c, NEW len
  PROVE  D!Truncate(c, len) <=> Draft!Truncate(c, len)
BY SameFree DEF D!Truncate, Draft!Truncate, D!BlocksFor, Draft!BlocksFor

LEMMA SameRelease == ASSUME NEW c PROVE D!Release(c) <=> Draft!Release(c)
BY SameFree DEF D!Release, Draft!Release

LEMMA SameIncref == ASSUME NEW B PROVE D!Incref(B) <=> Draft!Incref(B)
BY DEF D!Incref, Draft!Incref, D!Blocks, Draft!Blocks

LEMMA SameSeed ==
  ASSUME NEW c, NEW toks
  PROVE  D!Seed(c, toks) <=> Draft!Seed(c, toks)
BY SameIncref
   DEF D!Seed, Draft!Seed, D!Matches, Draft!Matches, D!Key, Draft!Key, D!Matched,
       Draft!Matched, D!SharePrefix, Draft!SharePrefix, D!Range, Draft!Range

LEMMA SameRegister ==
  ASSUME NEW c, NEW toks
  PROVE  D!Register(c, toks) <=> Draft!Register(c, toks)
BY SameIncref
   DEF D!Register, Draft!Register, D!Registered, Draft!Registered, D!Key, Draft!Key,
       D!BlockAt, Draft!BlockAt

LEMMA SameRollback ==
  ASSUME NEW c, NEW len
  PROVE  D!Rollback(c, len) <=> Draft!Rollback(c, len)
BY SameTruncate DEF D!Rollback, Draft!Rollback, D!MayCut, Draft!MayCut

LEMMA SameNext == [D!Next]_(D!vars) <=> [Draft!Next]_(Draft!vars)
<1>1. D!vars = Draft!vars /\ Empty = <<>>
  BY DEF D!vars, Draft!vars, Empty
<1>2. D!Next <=> Draft!Next
  BY <1>1, SameSeed, SameForward, SameOutOfBlocks, SameRollback, SameRegister, SameRelease
     DEF D!Next, Draft!Next
<1>. QED
  BY <1>1, <1>2 DEF D!vars, Draft!vars

LEMMA SameInit == Draft!KVInit => D!Init /\ Draft!Init
BY DEF D!Init, D!KVInit, Draft!KVInit, D!PoolInit, Draft!PoolInit, D!Blocks, Draft!Blocks,
       Draft!Init, Empty

(* What the scheduler relies on of each operation on the draft's storage. *)
LEMMA DraftKeeps == D!IInv /\ [D!Next]_(D!vars) => D!IInv'
BY DAssumptions, PoolAssumption, CacheAssumption, StoreAssumption, D!NextIInv DEF D!NextIInv

LEMMA DraftReadBack == D!IInv => D!ReadsBack
BY DAssumptions, PoolAssumption, CacheAssumption, StoreAssumption, D!ReadBack DEF D!ReadBack

LEMMA DraftSteps ==
  ASSUME D!IInv, D!OwnedBehind(NoPrompt), NEW c \in Caches, NEW toks \in Chunks,
         Draft!Forward(c, toks) \/ Draft!ForwardOutOfBlocks(c, toks)
  PROVE  D!Next /\ D!OwnedBehind(NoPrompt)'
<1>1. /\ toks \in Seq(Token) /\ Empty' = Empty
      /\ D!Forward(c, toks) \/ D!ForwardOutOfBlocks(c, toks)
  BY StoreAssumption, SameForward, SameOutOfBlocks DEF Empty
<1>2. D!OwnedBehind(NoPrompt)'
  BY <1>1, DAssumptions, PoolAssumption, CacheAssumption, StoreAssumption, D!ForwardOwns
     DEF D!ForwardOwns
<1>3. D!Next
  BY <1>1 DEF D!Next
<1>. QED
  BY <1>2, <1>3

LEMMA DraftFeeds ==
  ASSUME D!IInv, D!ReadsBack', NEW c \in Caches, NEW toks \in Seq(Token),
         Draft!Forward(c, toks)
  PROVE  /\ d_context'[c] = d_context[c] \o toks /\ d_context'[c] \in Seq(Token)
         /\ Len(d_context'[c]) <= MaxSeq
         /\ Draft!Encoded(c)' = d_context'[c]
         /\ \A q \in Caches \ {c} :
              d_context'[q] = d_context[q] /\ d_block_table'[q] = d_block_table[q]
<1>1. D!Forward(c, toks)
  BY SameForward
<1>2. /\ d_context'[c] = d_context[c] \o toks /\ d_context'[c] \in Seq(Token)
      /\ Len(d_context'[c]) <= MaxSeq
      /\ D!Encoded(c)' = d_context'[c]
      /\ \A q \in Caches \ {c} :
           d_context'[q] = d_context[q] /\ d_block_table'[q] = d_block_table[q]
  BY <1>1, DAssumptions, PoolAssumption, CacheAssumption, StoreAssumption, D!ForwardFeeds
     DEF D!ForwardFeeds
<1>3. D!Encoded(c)' = Draft!Encoded(c)'
  BY DEF D!Encoded, Draft!Encoded, D!SlotAt, Draft!SlotAt
<1>. QED
  BY <1>2, <1>3

LEMMA DraftTruncate ==
  ASSUME D!IInv, D!OwnedBehind(NoPrompt), NEW c \in Caches, NEW len, Draft!Truncate(c, len)
  PROVE  /\ D!Next /\ D!OwnedBehind(NoPrompt)'
         /\ d_context'[c] = SubSeq(d_context[c], 1, len)
         /\ \A q \in Caches \ {c} :
              d_context'[q] = d_context[q] /\ d_block_table'[q] = d_block_table[q]
<1>1. D!Truncate(c, len) /\ Empty' = Empty
  BY SameTruncate DEF Empty
<1>2. len \in 0 .. d_length[c] /\ d_length[c] \in 0 .. MaxSeq
  BY <1>1 DEF D!Truncate, D!IInv, D!TypeOK
<1>3. /\ d_context'[c] = SubSeq(d_context[c], 1, len)
      /\ \A q \in Caches \ {c} :
           d_context'[q] = d_context[q] /\ d_block_table'[q] = d_block_table[q]
  BY <1>1, DAssumptions, PoolAssumption, CacheAssumption, StoreAssumption, D!TruncateCuts
     DEF D!TruncateCuts
<1>4. D!OwnedBehind(NoPrompt)'
  BY <1>1, DAssumptions, PoolAssumption, CacheAssumption, StoreAssumption, D!TruncateOwns
     DEF D!TruncateOwns
<1>5. D!MayCut(c, len)
  <2>1. NoPrompt[c] \in Nat /\ NoPrompt[c] <= len
    BY <1>2, CacheAssumption DEF NoPrompt
  <2>. QED
    BY <1>2, <2>1, DAssumptions, PoolAssumption, CacheAssumption, StoreAssumption, D!OwnedMayCut
       DEF D!OwnedMayCut
<1>6. D!Next
  BY <1>1, <1>2, <1>5 DEF D!Next, D!Rollback
<1>. QED
  BY <1>3, <1>4, <1>6

LEMMA DraftRelease ==
  ASSUME D!IInv, D!OwnedBehind(NoPrompt), NEW c \in Caches, Draft!Release(c)
  PROVE  /\ [D!Next]_(D!vars) /\ D!OwnedBehind(NoPrompt)'
         /\ d_block_table'[c] = <<>>
         /\ \A q \in Caches \ {c} :
              d_context'[q] = d_context[q] /\ d_block_table'[q] = d_block_table[q]
<1>1. D!Release(c) /\ Empty' = Empty
  BY SameRelease DEF Empty
<1>2. /\ d_block_table'[c] = <<>>
      /\ \A q \in Caches \ {c} :
           d_context'[q] = d_context[q] /\ d_block_table'[q] = d_block_table[q]
  BY <1>1, DAssumptions, PoolAssumption, CacheAssumption, StoreAssumption, D!ReleaseEmpties
     DEF D!ReleaseEmpties
<1>3. D!OwnedBehind(NoPrompt)'
  BY <1>1, DAssumptions, PoolAssumption, CacheAssumption, StoreAssumption, D!ReleaseOwns
     DEF D!ReleaseOwns
<1>4. [D!Next]_(D!vars)
  BY <1>1, DAssumptions, PoolAssumption, CacheAssumption, StoreAssumption, D!ReleaseIsStorage
     DEF D!ReleaseIsStorage
<1>. QED
  BY <1>2, <1>3, <1>4

LEMMA DraftStays ==
  ASSUME UNCHANGED draftVars
  PROVE  /\ [D!Next]_(D!vars) /\ (D!OwnedBehind(NoPrompt) => D!OwnedBehind(NoPrompt)')
BY DEF draftVars, D!vars, D!OwnedBehind, Empty

-----------------------------------------------------------------------------
(* The target's storage, and both together. *)

LEMMA TargetForward ==
  ASSUME Storage, NEW c \in Caches, NEW toks \in Chunks,
         Forward(c, toks) \/ ForwardOutOfBlocks(c, toks), UNCHANGED <<cached, draftVars>>
  PROVE  StorageSteps
<1>1. toks \in Seq(Token)
  BY StoreAssumption
<1>2. OwnedBehind(PromptLength)'
  BY <1>1, ForwardOwns DEF Storage
<1>3. Next
  BY DEF Next
<1>. QED
  BY <1>2, <1>3, DraftStays DEF Storage, StorageSteps

LEMMA TargetTruncate ==
  ASSUME Storage, NEW c \in Caches, NEW len, len >= Len(Prompt[c]), Truncate(c, len), UNCHANGED cached
  PROVE  Next /\ OwnedBehind(PromptLength)'
<1>1. len \in 0 .. length[c] /\ length[c] \in 0 .. MaxSeq
  BY DEF Truncate, Storage, IInv, TypeOK
<1>2. OwnedBehind(PromptLength)'
  BY TruncateOwns DEF Storage
<1>3. PromptLength[c] \in Nat /\ PromptLength[c] <= len
  <2>1. Prompt[c] \in Seq(Token)
    BY SpecSchedulerAssumption, StoreAssumption
  <2>2. Len(Prompt[c]) \in Nat /\ len \in Nat
    BY <1>1, <2>1, CacheAssumption
  <2>. QED
    BY <2>2 DEF PromptLength
<1>4. MayCut(c, len)
  BY <1>1, <1>3, OwnedMayCut DEF Storage
<1>. QED
  BY <1>1, <1>2, <1>4 DEF Next, Rollback

LEMMA FinishIsStorage ==
  ASSUME Storage, NEW r \in Caches, NEW out, Finish(r, out)
  PROVE  /\ StorageSteps
         /\ block_table'[r] = <<>> /\ d_block_table'[r] = <<>>
         /\ \A q \in Caches \ {r} :
              /\ context'[q] = context[q] /\ block_table'[q] = block_table[q]
              /\ d_context'[q] = d_context[q] /\ d_block_table'[q] = d_block_table[q]
BY ReleaseIsStorage, ReleaseOwns, ReleaseEmpties, DraftRelease DEF Finish, Storage, StorageSteps

LEMMA StorageStays ==
  ASSUME Storage, UNCHANGED <<vars, draftVars>>
  PROVE  StorageSteps
<1>1. OwnedBehind(PromptLength)'
  BY DEF Storage, OwnedBehind, vars
<1>. QED
  BY <1>1, DraftStays DEF Storage, StorageSteps

(* What a request may be fed. *)
LEMMA WithinBound ==
  ASSUME NEW n \in Nat, NEW h \in Seq(Token), Len(h) <= n
  PROVE  h \in BoundedSeq(Token, n)
<1>1. Len(h) \in 0 .. n
  BY LenProperties
<1>2. h \in [1 .. Len(h) -> Token]
  BY LenProperties
<1>. QED
  BY <1>1, <1>2 DEF BoundedSeq, SeqOf

LEMMA ChunkOf ==
  ASSUME NEW r \in Caches, NEW x \in Seq(Token), x # <<>>, Len(x) <= K[r] + 1
  PROVE  x \in Chunks
<1>1. K[r] + 1 \in Nat
  BY SpecSchedulerAssumption
<1>2. x \in BoundedSeq(Token, K[r] + 1)
  BY <1>1, WithinBound
<1>. QED
  BY <1>2, SpecSchedulerAssumption

LEMMA TokensPicked ==
  ASSUME NEW r \in Caches, NEW h \in Seq(Token), Len(h) <= MaxSeq
  PROVE  Picks(r, h) \subseteq Token /\ Guesses(r, h) \subseteq Token
<1>1. h \in BoundedSeq(Token, MaxSeq)
  BY WithinBound, CacheAssumption
<1>. QED
  BY <1>1, SpecSchedulerAssumption

LEMMA RequestTypes ==
  ASSUME NEW r \in Caches
  PROVE  /\ Prompt[r] \in Seq(Token) /\ Prompt[r] \in Prompts /\ Len(Prompt[r]) \in Nat
         /\ MaxTokens[r] \in Nat /\ K[r] \in Nat /\ Ngram[r] \in Nat
         /\ Proposer[r] \in {"draft", "lookup", "none"}
<1>1. Prompt[r] \in Seq(Token)
  BY SpecSchedulerAssumption, StoreAssumption
<1>2. Len(Prompt[r]) \in Nat
  BY <1>1
<1>. QED
  BY <1>1, <1>2, SpecSchedulerAssumption

LEMMA BatchPosition ==
  ASSUME Control, NEW j \in 1 .. Len(running)
  PROVE  running[j] \in Caches /\ running[j] \in Range(running)
BY RangeSeq DEF Control, SpecTypes

(* Where a row that is not finished is in a batch. *)
LEMMA BatchTypes ==
  ASSUME Control, NEW r \in Caches, InBatch(r)
  PROVE  /\ output[r] \in Seq(Token) /\ output[r] # <<>> /\ Len(output[r]) \in Nat
         /\ Len(output[r]) >= 1
         /\ Front(output[r]) \in Seq(Token) /\ Last(output[r]) \in Token
         /\ Len(Front(output[r])) = Len(output[r]) - 1
         /\ Len(output[r]) < MaxTokens[r] /\ Prompt[r] # <<>>
         /\ cur[r] = <<Last(output[r])>> /\ cur[r] \in Seq(Token)
<1>1. output[r] \in Seq(Token) /\ output[r] # <<>>
  BY DEF Control, SpecTypes, InBatch
<1>2. Front(output[r]) \in Seq(Token) /\ Last(output[r]) \in Token
  BY <1>1, FrontAndLast
<1>3. Len(output[r]) \in Nat /\ Len(output[r]) >= 1
  BY <1>1, EmptySeq
<1>4. Len(output[r]) - 1 \in 0 .. Len(output[r])
  BY <1>3
<1>5. Len(Front(output[r])) = Len(output[r]) - 1
  BY <1>1, <1>4, PrefixElements DEF Front
<1>. QED
  BY <1>1, <1>2, <1>3, <1>5 DEF InBatch

-----------------------------------------------------------------------------
(* The row, or the request, that a step is at. *)

LEMMA ProposeRow ==
  ASSUME Control, pc = "propose"
  PROVE  LET k == Len(proposals) + 1
             r == running[k]
         IN  /\ k \in 1 .. Len(running) /\ r \in Caches /\ r \in Range(running)
             /\ r \notin DOMAIN finished /\ r = Proposing
             /\ drafting \in Seq(Token) /\ Len(drafting) \in Nat
             /\ InBatch(r) /\ Drafting(r, drafting)
<1>. DEFINE k == Len(proposals) + 1
            r == running[k]
<1>1. /\ proposals \in Seq(Seq(Token)) /\ running \in Seq(Caches) /\ drafting \in Seq(Token)
      /\ Len(proposals) < Len(running) /\ OnePlace /\ Drafting(r, drafting)
  BY DEF Control, SpecTypes, Holds, Batch
<1>2. k \in 1 .. Len(running) /\ Len(drafting) \in Nat
  BY <1>1
<1>3. r \in Caches /\ r \in Range(running)
  BY <1>2, BatchPosition
<1>4. r \notin DOMAIN finished
  BY <1>1, <1>2 DEF OnePlace
<1>. QED
  BY <1>1, <1>2, <1>3, <1>4 DEF Drafting, Proposing

LEMMA VerifyRow ==
  ASSUME Control, pc = "verify"
  PROVE  LET k == Len(logits) + 1
             r == running[k]
         IN  /\ k \in 1 .. Len(running) /\ r \in Caches /\ r \in Range(running)
             /\ r \notin DOMAIN finished
             /\ proposals[k] \in Seq(Token) /\ Len(proposals[k]) \in Nat
             /\ InBatch(r) /\ ProposedFor(r, proposals[k])
<1>. DEFINE k == Len(logits) + 1
            r == running[k]
<1>1. /\ proposals \in Seq(Seq(Token)) /\ running \in Seq(Caches)
      /\ logits \in Seq(Seq(Seq(Token)))
      /\ Len(logits) < Len(running) /\ Len(proposals) = Len(running) /\ OnePlace
      /\ \A j \in k .. Len(running) : ProposedFor(running[j], proposals[j])
  BY DEF Control, SpecTypes, Holds, Batch
<1>2. k \in 1 .. Len(running) /\ k \in k .. Len(running) /\ k \in 1 .. Len(proposals)
  BY <1>1
<1>3. r \in Caches /\ r \in Range(running)
  BY <1>2, BatchPosition
<1>4. r \notin DOMAIN finished
  BY <1>1, <1>2 DEF OnePlace
<1>5. proposals[k] \in Seq(Token)
  BY <1>1, <1>2
<1>6. Len(proposals[k]) \in Nat
  BY <1>5
<1>7. ProposedFor(r, proposals[k]) /\ InBatch(r)
  BY <1>1, <1>2 DEF ProposedFor
<1>. QED
  BY <1>2, <1>3, <1>4, <1>5, <1>6, <1>7

LEMMA CommitRow ==
  ASSUME Control, pc \in {"commit", "accept"}
  PROVE  LET k == Len(running) - Len(logits) + 1
             r == running[k]
         IN  /\ k \in 1 .. Len(running) /\ r \in Caches /\ r \in Range(running)
             /\ r \notin DOMAIN finished /\ r = Committing /\ k = Behind + 1
             /\ proposals # <<>> /\ logits # <<>>
             /\ Head(proposals) = proposals[1] /\ Head(logits) = logits[1]
             /\ proposals[1] \in Seq(Token) /\ logits[1] \in Seq(Seq(Token))
             /\ InBatch(r)
             /\ pc = "commit" => Verified(r, proposals[1], logits[1])
             /\ pc = "accept" => Committed(r, confirmed)
<1>. DEFINE k == Len(running) - Len(logits) + 1
            r == running[k]
<1>1. /\ proposals \in Seq(Seq(Token)) /\ running \in Seq(Caches)
      /\ logits \in Seq(Seq(Seq(Token)))
      /\ Len(logits) \in 1 .. Len(running) /\ Len(proposals) = Len(logits) /\ OnePlace
      /\ k = Behind + 1
  BY DEF Control, SpecTypes, Holds, Behind
<1>2. /\ pc = "commit" => Verified(r, proposals[1], logits[1])
      /\ pc = "accept" => Committed(r, confirmed)
  BY <1>1 DEF Control, Batch
<1>3. k \in 1 .. Len(running) /\ ~ k <= Behind
  BY <1>1 DEF Behind
<1>4. r \in Caches /\ r \in Range(running)
  BY <1>3, BatchPosition
<1>5. r \notin DOMAIN finished
  BY <1>1, <1>3 DEF OnePlace
<1>6. proposals # <<>> /\ logits # <<>>
  BY <1>1
<1>7. /\ Head(proposals) = proposals[1] /\ Head(logits) = logits[1]
      /\ proposals[1] \in Seq(Token) /\ logits[1] \in Seq(Seq(Token))
  BY <1>1, <1>6, TailElements
<1>. QED
  BY <1>1, <1>2, <1>3, <1>4, <1>5, <1>6, <1>7 DEF Committing, Verified, Committed

LEMMA AdmittedRow ==
  ASSUME Control, pc \in {"prime", "prefill", "register", "emit"}
  PROVE  LET r == Head(admitted)
         IN  /\ r = admitted[1] /\ admitted = <<r>> /\ r \in Caches
             /\ r \notin Range(running) /\ r \notin DOMAIN finished /\ r \notin Range(waiting)
             /\ Range(admitted) = {r}
             /\ output[r] = <<>>
<1>. DEFINE r == Head(admitted)
<1>1. admitted \in Seq(Caches) /\ Len(admitted) = 1 /\ OnePlace /\ Fresh
  BY DEF Control, SpecTypes, Holds
<1>2. r = admitted[1] /\ r \in Caches /\ admitted = <<r>>
  BY <1>1
<1>3. Range(admitted) = {r}
  BY <1>2 DEF Range
<1>4. r \notin Range(running) /\ r \notin DOMAIN finished /\ r \notin Range(waiting)
  BY <1>1, <1>3 DEF OnePlace
<1>5. output[r] = <<>>
  BY <1>1, <1>2, <1>4 DEF Fresh
<1>. QED
  BY <1>2, <1>3, <1>4, <1>5

-----------------------------------------------------------------------------
(* Each step of the scheduler is a step of both storages. *)

LEMMA DraftOrRaise ==
  ASSUME Storage, NEW c \in Caches, NEW toks \in Chunks, UNCHANGED vars,
         Draft!Forward(c, toks) \/ DraftRaises(c, toks)
  PROVE  StorageSteps
<1>1. OwnedBehind(PromptLength)'
  BY DEF Storage, OwnedBehind, vars
<1>2. CASE Draft!Forward(c, toks) \/ Draft!ForwardOutOfBlocks(c, toks)
  BY <1>1, <1>2, DraftSteps DEF Storage, StorageSteps
<1>3. CASE UNCHANGED draftVars
  BY <1>3, StorageStays
<1>. QED
  BY <1>2, <1>3 DEF DraftRaises

(* The token that is drafted from. *)
LEMMA DraftedFrom ==
  ASSUME Control, pc = "propose", Proposer[Proposing] = "draft"
  PROVE  LET r == Proposing
             x == IF drafting = <<>> THEN cur[r] ELSE <<Last(drafting)>>
         IN  /\ x \in Chunks /\ x \in Seq(Token)
             /\ d_context[r] \o x = Prompt[r] \o output[r] \o drafting
<1>r. PICK r \in Caches : r = Proposing
  BY ProposeRow
<1>f. PICK f \in Seq(Token) : f = drafting
  BY ProposeRow
<1>1. InBatch(r) /\ Drafting(r, f) /\ Proposer[r] = "draft" /\ Prompt[r] \in Seq(Token)
  BY <1>r, <1>f, ProposeRow, RequestTypes
<1>2. /\ output[r] \in Seq(Token) /\ output[r] # <<>> /\ Last(output[r]) \in Token
      /\ cur[r] = <<Last(output[r])>>
  BY <1>1, BatchTypes
<1>p. PICK p \in Seq(Token) : p = Prompt[r]
  BY <1>1
<1>o. PICK o \in Seq(Token) : o = output[r] /\ o # <<>>
  BY <1>2
<1>q. PICK q \in Seq(Token) : q = p \o o
  BY ConcatSeq, Zenon
<1>3. d_context[r] = IF f = <<>> THEN p \o Front(o) ELSE q \o Front(f)
  <2>1. d_context[r] = IF f = <<>> THEN context[r] ELSE Prompt[r] \o output[r] \o Front(f)
    BY <1>1 DEF Drafting, Drafts
  <2>2. context[r] = Prompt[r] \o Front(output[r])
    BY <1>1 DEF Drafting
  <2>. QED
    BY <1>p, <1>o, <1>q, <2>1, <2>2
<1>4. Last(o) \in Token /\ (f # <<>> => Last(f) \in Token)
  BY <1>2, <1>o, FrontAndLast
<1>x. PICK t \in Token :
        /\ t = IF f = <<>> THEN Last(o) ELSE Last(f)
        /\ <<t>> = IF drafting = <<>> THEN cur[r] ELSE <<Last(drafting)>>
  BY <1>2, <1>f, <1>o, <1>4
<1>5. <<t>> \in Seq(Token) /\ <<t>> \in Chunks
  <2>1. <<t>> \in Seq(Token) /\ <<t>> # <<>> /\ Len(<<t>>) <= K[r] + 1
    <3>1. K[r] \in Nat
      BY RequestTypes
    <3>. QED
      BY <3>1
  <2>. QED
    BY <2>1, ChunkOf
<1>6. d_context[r] \o <<t>> = q \o f
  <2>1. CASE f = <<>>
    <3>1. p \o Front(o) \o <<Last(o)>> = p \o o
      BY <1>o, FeedLast, Zenon
    <3>2. q \o f = q
      BY <2>1, ConcatEmptySeq
    <3>. QED
      BY <1>3, <1>q, <1>x, <2>1, <3>1, <3>2
  <2>2. CASE f # <<>>
    <3>1. q \o Front(f) \o <<Last(f)>> = q \o f
      BY <2>2, FeedLast, Zenon
    <3>. QED
      BY <1>3, <1>x, <2>2, <3>1
  <2>. QED
    BY <2>1, <2>2
<1>7. d_context[r] \o <<t>> = Prompt[r] \o output[r] \o drafting
  BY <1>6, <1>q, <1>p, <1>o, <1>f
<1>. QED
  BY <1>r, <1>x, <1>5, <1>7

LEMMA ProposeDraftIsStorage == ASSUME Storage, Control, ProposeDraft PROVE StorageSteps
<1>. DEFINE r == Proposing
            x == IF drafting = <<>> THEN cur[r] ELSE <<Last(drafting)>>
<1>1. pc = "propose" /\ Proposer[r] = "draft" /\ UNCHANGED vars
      /\ (Draft!Forward(r, x) \/ DraftRaises(r, x))
  BY DEF ProposeDraft, DraftRaises
<1>2. x \in Chunks /\ r \in Caches
  BY <1>1, DraftedFrom, ProposeRow
<1>. HIDE DEF x, r
<1>. QED
  BY <1>1, <1>2, DraftOrRaise

LEMMA AdmittedPrompt ==
  ASSUME Storage, Control, pc \in {"prime", "prefill"}
  PROVE  LET r == Head(admitted)
             suffix == SubSeq(Prompt[r], length[r] + 1, Len(Prompt[r]))
         IN  /\ Prompt[r] \in Chunks
             /\ suffix \in Chunks /\ suffix \in Seq(Token)
             /\ context[r] \o suffix = Prompt[r]
<1>. DEFINE r == Head(admitted)
            n == length[r]
            p == Prompt[r]
<1>1. r = admitted[1] /\ r \in Caches
  BY AdmittedRow
<1>2. p \in Seq(Token) /\ p \in Prompts
  BY <1>1, RequestTypes
<1>3. n \in Nat /\ n < Len(p) /\ context[r] = SubSeq(p, 1, n)
  BY <1>1 DEF Control, Admission, Storage, IInv, TypeOK
<1>. HIDE DEF n, p
<1>4. n + 1 \in 1 .. Len(p) /\ 1 \in 1 .. Len(p)
  BY <1>2, <1>3
<1>5. SubSeq(p, n + 1, Len(p)) \in Chunks /\ SubSeq(p, 1, Len(p)) \in Chunks
  BY <1>2, <1>4, SpecSchedulerAssumption
<1>6. SubSeq(p, 1, n) \o SubSeq(p, n + 1, Len(p)) = SubSeq(p, 1, Len(p))
  BY <1>2, <1>3, <1>4, ConcatAdjacentSubSeq
<1>7. SubSeq(p, 1, Len(p)) = p
  BY <1>2, SubSeqFull
<1>. QED
  BY <1>3, <1>5, <1>6, <1>7, StoreAssumption DEF n, p

LEMMA PrimeIsStorage == ASSUME Storage, Control, Prime PROVE StorageSteps
<1>. DEFINE r == Head(admitted)
<1>1. pc = "prime" /\ UNCHANGED vars
      /\ (Draft!Forward(r, Prompt[r]) \/ DraftRaises(r, Prompt[r]) \/ UNCHANGED draftVars)
  BY DEF Prime, DraftRaises
<1>2. r \in Caches /\ Prompt[r] \in Chunks
  BY <1>1, AdmittedRow, AdmittedPrompt
<1>. QED
  BY <1>1, <1>2, DraftOrRaise, StorageStays

LEMMA ForwardOrRaise ==
  ASSUME Storage, NEW c \in Caches, NEW toks \in Chunks,
         (Forward(c, toks) /\ UNCHANGED <<cached, draftVars>>) \/ ForwardRaises(c, toks)
  PROVE  StorageSteps
<1>1. UNCHANGED <<cached, draftVars>>
  BY DEF ForwardRaises
<1>2. Forward(c, toks) \/ ForwardOutOfBlocks(c, toks) \/ UNCHANGED vars
  BY DEF ForwardRaises, vars, kvVars
<1>. QED
  BY <1>1, <1>2, TargetForward, StorageStays

LEMMA PrefillIsStorage == ASSUME Storage, Control, Prefill PROVE StorageSteps
<1>. DEFINE r == Head(admitted)
            suffix == SubSeq(Prompt[r], length[r] + 1, Len(Prompt[r]))
<1>1. /\ pc = "prefill"
      /\ (Forward(r, suffix) /\ UNCHANGED <<cached, draftVars>>) \/ ForwardRaises(r, suffix)
  BY DEF Prefill
<1>2. r \in Caches /\ suffix \in Chunks
  BY <1>1, AdmittedRow, AdmittedPrompt
<1>. QED
  BY <1>1, <1>2, ForwardOrRaise

(* What a verify feeds. *)
LEMMA VerifiedBlock ==
  ASSUME Control, pc = "verify"
  PROVE  LET r == running[Len(logits) + 1]
             d == proposals[Len(logits) + 1]
         IN  /\ cur[r] \o d \in Chunks /\ cur[r] \o d \in Seq(Token)
             /\ context[r] \o (cur[r] \o d) = Prompt[r] \o output[r] \o d
<1>r. PICK r \in Caches : r = running[Len(logits) + 1]
  BY VerifyRow
<1>d. PICK d \in Seq(Token) : d = proposals[Len(logits) + 1]
  BY VerifyRow
<1>1. InBatch(r) /\ ProposedFor(r, d) /\ Prompt[r] \in Seq(Token) /\ K[r] \in Nat
  BY <1>r, <1>d, VerifyRow, RequestTypes
<1>2. /\ output[r] \in Seq(Token) /\ output[r] # <<>> /\ Last(output[r]) \in Token
      /\ cur[r] = <<Last(output[r])>> /\ cur[r] \in Seq(Token)
  BY <1>1, BatchTypes
<1>3. context[r] = Prompt[r] \o Front(output[r]) /\ Len(d) <= K[r]
  BY <1>1 DEF ProposedFor
<1>4. cur[r] \o d \in Seq(Token) /\ Len(cur[r] \o d) = Len(cur[r]) + Len(d)
  BY <1>2, ConcatSeq
<1>5. Len(cur[r]) = 1 /\ Len(d) \in Nat
  BY <1>2
<1>6. cur[r] \o d \in Chunks
  <2>1. Len(cur[r] \o d) <= K[r] + 1 /\ cur[r] \o d # <<>>
    BY <1>1, <1>3, <1>4, <1>5, EmptySeq
  <2>. QED
    BY <1>4, <2>1, ChunkOf
<1>7. context[r] \o (cur[r] \o d) = Prompt[r] \o output[r] \o d
  <2>1. PICK p \in Seq(Token) : p = Prompt[r]
    BY <1>1
  <2>2. PICK o \in Seq(Token) : o = output[r]
    BY <1>2
  <2>3. o # <<>>
    BY <1>2, <2>2
  <2>4. p \o Front(o) \o (<<Last(o)>> \o d) = p \o o \o d
    BY <2>3, FeedBehindLast
  <2>. QED
    BY <1>2, <1>3, <2>1, <2>2, <2>4
<1>. QED
  BY <1>r, <1>d, <1>4, <1>6, <1>7

LEMMA VerifyIsStorage == ASSUME Storage, Control, Verify PROVE StorageSteps
<1>. DEFINE r == running[Len(logits) + 1]
            block == cur[r] \o proposals[Len(logits) + 1]
<1>1. /\ pc = "verify"
      /\ (Forward(r, block) /\ UNCHANGED <<cached, draftVars>>) \/ ForwardRaises(r, block)
  BY DEF Verify
<1>2. r \in Caches /\ block \in Chunks
  BY <1>1, VerifyRow, VerifiedBlock
<1>. QED
  BY <1>1, <1>2, ForwardOrRaise

LEMMA CommitIsStorage == ASSUME Storage, Control, Commit PROVE StorageSteps
<1>1. pc = "commit"
  BY DEF Commit
<1>r. PICK r \in Caches : r = Committing
  BY <1>1, CommitRow
<1>d. PICK d \in Seq(Token) : d = Head(proposals)
  BY <1>1, CommitRow
<1>2. PICK a \in 0 .. Len(d) :
        Truncate(r, Keep(r, a)) /\ UNCHANGED cached /\ RollbackDraft(r, Keep(r, a))
  BY <1>r, <1>d DEF Commit
<1>3. Verified(r, d, logits[1]) /\ InBatch(r)
  BY <1>1, <1>r, <1>d, CommitRow
<1>4. Keep(r, a) >= Len(Prompt[r])
  <2>1. PICK p \in Nat, o \in Nat, v \in Nat, n \in Nat :
          p = Len(Prompt[r]) /\ o = Len(output[r]) /\ v = verify_L[r] /\ n = Len(d)
    <3>1. Len(Prompt[r]) \in Nat /\ Len(output[r]) \in Nat /\ verify_L[r] \in Nat /\ Len(d) \in Nat
      BY <1>3, RequestTypes, BatchTypes DEF Control, SpecTypes
    <3>. QED
      BY <3>1, Zenon
  <2>2. v + 1 = p + o
    BY <1>3, <2>1 DEF Verified
  <2>3. a \in 0 .. n
    BY <2>1, Zenon
  <2>4. v + a + 1 >= p
    BY <2>2, <2>3
  <2>. QED
    BY <2>1, <2>4 DEF Keep
<1>5. Next /\ OwnedBehind(PromptLength)'
  BY <1>2, <1>4, TargetTruncate
<1>6. [D!Next]_(D!vars) /\ D!OwnedBehind(NoPrompt)'
  BY <1>2, DraftTruncate, DraftStays DEF RollbackDraft, Storage
<1>. QED
  BY <1>5, <1>6 DEF StorageSteps

LEMMA AdmitHeadIsStorage == ASSUME Storage, Control, AdmitHead PROVE StorageSteps
<1>. DEFINE r == Head(waiting)
<1>1. /\ pc = "admit" /\ waiting # <<>> /\ Prompt[r] # <<>>
      /\ UNCHANGED <<cached, draftVars>>
  BY DEF AdmitHead, MayAdmit
<1>2. r \in Caches
  BY <1>1, TailElements DEF Control, SpecTypes
<1>3. Prompt[r] \in Prompts /\ Len(Prompt[r]) \in Nat
  BY <1>2, RequestTypes
<1>4. PICK n \in 0 .. Len(Prompt[r]) :
        /\ Shares(r, n)
        /\ IF n > 0 THEN SharePrefix(r, Matched(Prompt[r], n), Key(Prompt[r], n))
                    ELSE UNCHANGED kvVars
  BY DEF AdmitHead
<1>5. CASE n > 0
  <2>1. Matches(Prompt[r], n) /\ n \in 1 .. Len(Prompt[r])
    BY <1>3, <1>4, <1>5 DEF Shares
  <2>2. Seed(r, Prompt[r])
    BY <1>1, <1>4, <1>5, <2>1 DEF Seed
  <2>3. OwnedBehind(PromptLength)'
    <3>1. PromptLength[r] \in Nat /\ Len(Prompt[r]) <= PromptLength[r]
      BY <1>2, <1>3 DEF PromptLength
    <3>. QED
      BY <1>2, <1>3, <2>2, <3>1, SeedOwns DEF Storage
  <2>. QED
    BY <1>1, <1>2, <1>3, <2>2, <2>3, DraftStays DEF Next, Storage, StorageSteps
<1>6. CASE ~ n > 0
  BY <1>1, <1>4, <1>6, StorageStays DEF vars, kvVars
<1>. QED
  BY <1>5, <1>6

LEMMA RegisterIsStorage == ASSUME Storage, Control, RegisterPrompt PROVE StorageSteps
<1>. DEFINE r == Head(admitted)
            m == Len(Prompt[r])
<1>1. pc = "register" /\ Register(r, Prompt[r]) /\ UNCHANGED draftVars
  BY DEF RegisterPrompt
<1>2. r = admitted[1] /\ r \in Caches /\ Prompt[r] \in Seq(Token)
  BY <1>1, AdmittedRow, RequestTypes
<1>3. Prompt[r] # <<>> /\ context[r] = Prompt[r]
  BY <1>1, <1>2 DEF Control, Admission
<1>4. length[r] = m /\ m \in 1 .. length[r]
  BY <1>2, <1>3, EmptySeq DEF Storage, IInv, KVExact
<1>5. SubSeq(context[r], 1, m) = Prompt[r]
  BY <1>2, <1>3, SubSeqFull
<1>6. OwnedBehind(PromptLength)'
  <2>1. PromptLength[r] \in Nat /\ m <= PromptLength[r]
    BY <1>2 DEF PromptLength
  <2>. QED
    BY <1>1, <1>2, <1>4, <1>5, <2>1, RegisterOwns DEF Storage
<1>7. Next
  BY <1>1, <1>2, <1>4, <1>5 DEF Next
<1>. QED
  BY <1>1, <1>6, <1>7, DraftStays DEF Storage, StorageSteps

LEMMA ClearIsStorage == ASSUME Storage, ClearPrefixCache PROVE StorageSteps
<1>1. cached # <<>> /\ Clear /\ UNCHANGED draftVars
  BY DEF ClearPrefixCache
<1>2. OwnedBehind(PromptLength)'
  BY <1>1, ClearOwns DEF Storage
<1>. QED
  BY <1>1, <1>2, DraftStays DEF Next, Storage, StorageSteps

LEMMA StorageStep == Storage /\ Control /\ [SpecSchedNext]_specVars => StorageSteps
<1>. SUFFICES ASSUME Storage, Control, [SpecSchedNext]_specVars PROVE StorageSteps
  OBVIOUS
<1>1. CASE \E r \in Caches : Add(r) \/ CancelWaiting(r)
  BY <1>1, StorageStays DEF Add, CancelWaiting
<1>2. CASE \E r \in Caches : CancelRunning(r)
  BY <1>2, FinishIsStorage DEF CancelRunning
<1>3. CASE StepBegin \/ ProposeLookup \/ ProposeNothing \/ AdmitEmpty \/ AdmitTooBig \/ StepEnd
  BY <1>3, StorageStays
     DEF StepBegin, ProposeLookup, ProposeNothing, AdmitEmpty, AdmitTooBig, StepEnd
<1>4. CASE ProposeDraft \/ Verify \/ Commit \/ AdmitHead \/ Prime \/ Prefill \/ RegisterPrompt
  BY <1>4, ProposeDraftIsStorage, VerifyIsStorage, CommitIsStorage, AdmitHeadIsStorage,
     PrimeIsStorage, PrefillIsStorage, RegisterIsStorage
<1>5. CASE ClearPrefixCache
  BY <1>5, ClearIsStorage
<1>6. CASE Accept
  <2>1. /\ pc = "accept"
        /\ (\E out : Finish(Committing, out)) \/ UNCHANGED <<vars, draftVars>>
    BY <1>6 DEF Accept
  <2>2. Committing \in Caches
    BY <2>1, CommitRow
  <2>. QED
    BY <2>1, <2>2, FinishIsStorage, StorageStays
<1>7. CASE Emit
  <2>1. /\ pc = "emit"
        /\ (\E out : Finish(Head(admitted), out)) \/ UNCHANGED <<vars, draftVars>>
    BY <1>7 DEF Emit
  <2>2. Head(admitted) \in Caches
    BY <2>1, AdmittedRow
  <2>. QED
    BY <2>1, <2>2, FinishIsStorage, StorageStays
<1>8. CASE UNCHANGED specVars
  BY <1>8, StorageStays DEF specVars
<1>. QED
  BY <1>1, <1>2, <1>3, <1>4, <1>5, <1>6, <1>7, <1>8 DEF SpecSchedNext, Step

-----------------------------------------------------------------------------
(* What a step leaves alone. *)

LEMMA InitControl == SpecInit => Control
<1>. SUFFICES ASSUME SpecInit PROVE Control
  OBVIOUS
<1>1. /\ waiting = <<>> /\ running = <<>> /\ finished = <<>> /\ admitted = <<>> /\ cancelled = {}
      /\ output = [r \in Caches |-> <<>>] /\ pc = "idle" /\ logits = <<>> /\ proposals = <<>>
      /\ drafting = <<>> /\ confirmed = <<>>
      /\ cur = [r \in Caches |-> <<>>] /\ verify_L = [r \in Caches |-> 0]
      /\ block_table = [c \in Caches |-> <<>>] /\ d_block_table = [c \in Caches |-> <<>>]
  BY DEF SpecInit, Init, KVInit, Draft!KVInit
<1>2. Range(waiting) = {} /\ Range(running) = {} /\ Range(admitted) = {} /\ DOMAIN finished = {}
  BY <1>1 DEF Range
<1>3. SpecTypes
  BY <1>1, <1>2 DEF SpecTypes, Places
<1>4. TargetTokens
  BY <1>1, <1>2 DEF TargetTokens
<1>5. OnePlace
  BY <1>1, <1>2 DEF OnePlace, Distinct
<1>6. Holds
  BY <1>1 DEF Holds
<1>7. Fresh
  BY <1>1 DEF Fresh
<1>8. Batch
  BY <1>1 DEF Batch
<1>9. Admission
  BY <1>1 DEF Admission
<1>. QED
  BY <1>3, <1>4, <1>5, <1>6, <1>7, <1>8, <1>9 DEF Control

LEMMA SameTokens ==
  ASSUME Control, UNCHANGED <<output, finished, cancelled>>
  PROVE  TargetTokens'
BY DEF Control, TargetTokens

LEMMA PlaceKept ==
  ASSUME Control, pc \notin {"raised", "commit", "accept"},
         UNCHANGED <<waiting, running, finished, admitted>>
  PROVE  OnePlace'
BY DEF Control, OnePlace, Behind

LEMMA FreshKept ==
  ASSUME Control, pc # "raised", NEW r \in Live, UNCHANGED <<running, finished, admitted, output>>,
         \A q \in Caches \ {r} :
           block_table'[q] = block_table[q] /\ d_block_table'[q] = d_block_table[q]
  PROVE  Fresh'
<1>1. Live' = Live
  BY DEF Live
<1>. QED
  BY <1>1 DEF Control, Fresh

LEMMA SameFresh ==
  ASSUME Control, pc # "raised", UNCHANGED <<running, finished, admitted, output, block_table, d_block_table>>
  PROVE  Fresh'
<1>1. Live' = Live
  BY DEF Live
<1>. QED
  BY <1>1 DEF Control, Fresh

(* Nothing that the rows of the batch are about changes for r. *)
Same(r) ==
  /\ context'[r] = context[r] /\ d_context'[r] = d_context[r]
  /\ output'[r] = output[r] /\ cur'[r] = cur[r] /\ verify_L'[r] = verify_L[r]

LEMMA ReadyKept ==
  ASSUME NEW j, NEW i, running'[j] = running[i], Ready(running[i]), Same(running[i])
  PROVE  Ready(running[j])'
BY DEF Ready, InBatch, Drafts, Same

LEMMA DraftingKept ==
  ASSUME NEW j, running'[j] = running[j], drafting' = drafting,
         Drafting(running[j], drafting), Same(running[j])
  PROVE  Drafting(running[j], drafting)'
BY DEF Drafting, InBatch, Drafts, Same

LEMMA ProposedKept ==
  ASSUME NEW j, NEW k, running'[j] = running[j], proposals'[k] = proposals[k],
         ProposedFor(running[j], proposals[k]), Same(running[j])
  PROVE  ProposedFor(running[j], proposals[k])'
BY DEF ProposedFor, InBatch, Drafts, Same

LEMMA VerifiedKept ==
  ASSUME NEW j, NEW k, NEW i, running'[j] = running[j], proposals'[k] = proposals[i],
         logits'[k] = logits[i], Verified(running[j], proposals[i], logits[i]), Same(running[j])
  PROVE  Verified(running[j], proposals[k], logits[k])'
BY DEF Verified, InBatch, Drafts, Same

(* A row that is ready is drafted for from the start. *)
LEMMA ReadyIsDrafting ==
  ASSUME NEW r \in Caches, Ready(r)
  PROVE  Drafting(r, <<>>)
BY RequestTypes DEF Ready, Drafting

(* An exception leaves the answers as they are. *)
LEMMA RaisedKeeps ==
  ASSUME Control, pc' = "raised",
         UNCHANGED <<waiting, running, admitted, output, finished, cancelled, cur, drafting,
                     confirmed, proposals, logits>>,
         verify_L' \in [Caches -> Nat]
  PROVE  Control'
<1>1. SpecTypes'
  BY DEF Control, SpecTypes, Places
<1>. QED
  BY <1>1, SameTokens DEF Control

-----------------------------------------------------------------------------
(* Control and answers, step by step. *)

LEMMA StutterKeeps == ASSUME Control, UNCHANGED specVars PROVE Control'
<1>1. /\ waiting' = waiting /\ running' = running /\ finished' = finished
      /\ output' = output /\ cancelled' = cancelled /\ cur' = cur /\ verify_L' = verify_L
      /\ drafting' = drafting /\ proposals' = proposals /\ logits' = logits
      /\ confirmed' = confirmed /\ admitted' = admitted /\ pc' = pc
      /\ block_table' = block_table /\ d_block_table' = d_block_table
      /\ context' = context /\ d_context' = d_context /\ length' = length
  BY DEF specVars, vars, draftVars, queueVars, stepVars
<1>2. SpecTypes' /\ TargetTokens'
  BY <1>1, SameTokens DEF Control, SpecTypes
<1>3. ASSUME pc # "raised" PROVE OnePlace' /\ Holds' /\ Fresh' /\ Admission'
  <2>1. OnePlace /\ Holds /\ Admission
    BY <1>3 DEF Control
  <2>2. OnePlace'
    BY <1>1, <2>1 DEF OnePlace, Behind
  <2>3. Holds'
    BY <1>1, <2>1 DEF Holds
  <2>4. Admission'
    BY <1>1, <2>1 DEF Admission, Drafts
  <2>. QED
    BY <1>1, <1>3, <2>2, <2>3, <2>4, SameFresh
<1>4. ASSUME pc # "raised" PROVE Batch'
  <2>1. Batch
    BY <1>4 DEF Control
  <2>2. CASE pc \in {"idle", "admit", "prime", "prefill", "register", "emit"}
    BY <1>1, <2>1, <2>2 DEF Batch, Ready, InBatch, Drafts
  <2>3. CASE pc = "propose"
    BY <1>1, <2>1, <2>3 DEF Batch, Ready, Drafting, ProposedFor, InBatch, Drafts
  <2>4. CASE pc = "verify"
    BY <1>1, <2>1, <2>4 DEF Batch, ProposedFor, Verified, InBatch, Drafts
  <2>5. CASE pc \in {"commit", "accept"}
    BY <1>1, <2>1, <2>5 DEF Batch, Ready, Verified, Committed, InBatch, Drafts, TargetPicks,
                            Behind
  <2>. QED
    BY <1>1, <2>1, <2>2, <2>3, <2>4, <2>5 DEF Batch
<1>. QED
  BY <1>1, <1>2, <1>3, <1>4 DEF Control

LEMMA StepBeginKeeps == ASSUME Control, StepBegin PROVE Control'
<1>1. /\ waiting' = waiting /\ running' = running /\ finished' = finished
      /\ output' = output /\ cancelled' = cancelled /\ cur' = cur /\ verify_L' = verify_L
      /\ drafting' = drafting /\ proposals' = proposals /\ logits' = logits
      /\ confirmed' = confirmed /\ admitted' = admitted
      /\ block_table' = block_table /\ d_block_table' = d_block_table
      /\ context' = context /\ d_context' = d_context
      /\ pc = "idle" /\ pc' = IF running # <<>> THEN "propose" ELSE "admit"
  BY DEF StepBegin, vars, draftVars, queueVars, stepVars
<1>2. /\ Holds /\ running \in Seq(Caches) /\ proposals = <<>> /\ drafting = <<>> /\ logits = <<>>
      /\ confirmed = <<>> /\ admitted = <<>>
      /\ \A j \in 1 .. Len(running) : Ready(running[j])
  BY <1>1 DEF Control, SpecTypes, Holds, Batch
<1>3. SpecTypes' /\ TargetTokens'
  BY <1>1, SameTokens DEF Control, SpecTypes, Places
<1>4. OnePlace' /\ Fresh'
  BY <1>1, PlaceKept, SameFresh
<1>5. Holds'
  <2>1. running # <<>> => Len(running) > 0
    BY <1>2, EmptySeq
  <2>. QED
    BY <1>1, <1>2, <2>1 DEF Holds
<1>6. \A j \in 1 .. Len(running) : Ready(running[j])'
  BY <1>1, <1>2, ReadyKept DEF Same
<1>7. ASSUME running # <<>> PROVE Drafting(running[1], drafting)'
  <2>1. 1 \in 1 .. Len(running)
    BY <1>2, <1>7, EmptySeq
  <2>2. PICK r \in Caches : r = running[1] /\ Ready(r)
    BY <1>2, <2>1, BatchPosition
  <2>3. Drafting(running[1], drafting)
    BY <1>2, <2>2, ReadyIsDrafting
  <2>. QED
    BY <1>1, <2>3, DraftingKept DEF Same
<1>8. Batch'
  <2>1. CASE running = <<>>
    BY <1>1, <1>6, <2>1 DEF Batch
  <2>2. CASE running # <<>>
    <3>1. /\ pc' = "propose" /\ running' = running /\ Len(proposals') + 1 = 1
          /\ Len(proposals') + 2 = 2 /\ Len(proposals') = 0
      BY <1>1, <1>2, <2>2
    <3>2. Drafting(running[Len(proposals) + 1], drafting)'
      BY <1>7, <2>2, <3>1
    <3>3. \A j \in 2 .. Len(running') : Ready(running[j])'
      BY <1>2, <1>6, <3>1
    <3>. QED
      BY <3>1, <3>2, <3>3 DEF Batch
  <2>. QED
    BY <2>1, <2>2
<1>9. Admission'
  BY <1>1 DEF Admission
<1>. QED
  BY <1>3, <1>4, <1>5, <1>8, <1>9 DEF Control

(* Where every row of the batch is ready. *)
AllReady == {"idle", "admit", "prime", "prefill", "register", "emit"}

LEMMA ReadyRowsKept ==
  ASSUME Control, pc \in AllReady, pc' \in AllReady, running' = running,
         \A j \in 1 .. Len(running) : Same(running[j])
  PROVE  Batch'
<1>1. \A j \in 1 .. Len(running) : Ready(running[j])
  BY DEF Control, Batch, AllReady
<1>2. \A j \in 1 .. Len(running) : Ready(running[j])'
  BY <1>1, ReadyKept
<1>. QED
  BY <1>2 DEF Batch, AllReady

LEMMA OthersSame ==
  ASSUME Control, NEW r, r \notin Range(running),
         UNCHANGED <<cur, verify_L>>,
         \A q \in Caches \ {r} :
           context'[q] = context[q] /\ d_context'[q] = d_context[q] /\ output'[q] = output[q]
  PROVE  \A j \in 1 .. Len(running) : Same(running[j])
<1>1. \A j \in 1 .. Len(running) : running[j] \in Caches \ {r}
  BY BatchPosition
<1>. QED
  BY <1>1 DEF Same

(* A request that is recorded. *)
LEMMA RecordedIn ==
  ASSUME NEW r, NEW out, finished' = Recorded(r, out)
  PROVE  /\ DOMAIN finished' = DOMAIN finished \cup {r} /\ finished'[r] = out
         /\ \A q \in DOMAIN finished \ {r} : finished'[q] = finished[q]
<1>1. /\ DOMAIN Recorded(r, out) = DOMAIN finished \cup {r}
      /\ Recorded(r, out)[r] = out
      /\ \A q \in DOMAIN finished \ {r} : Recorded(r, out)[q] = finished[q]
  BY DEF Recorded
<1>. QED
  BY <1>1

LEMMA StepEndKeeps == ASSUME Control, StepEnd PROVE Control'
<1>1. /\ waiting' = waiting /\ running' = running /\ finished' = finished
      /\ output' = output /\ cancelled' = cancelled /\ cur' = cur /\ verify_L' = verify_L
      /\ drafting' = drafting /\ proposals' = proposals /\ logits' = logits
      /\ confirmed' = confirmed /\ admitted' = admitted
      /\ block_table' = block_table /\ d_block_table' = d_block_table
      /\ context' = context /\ d_context' = d_context
      /\ pc = "admit" /\ pc' = "idle"
  BY DEF StepEnd, vars, draftVars, queueVars, stepVars
<1>2. SpecTypes' /\ TargetTokens'
  BY <1>1, SameTokens DEF Control, SpecTypes, Places
<1>3. OnePlace' /\ Fresh'
  BY <1>1, PlaceKept, SameFresh
<1>4. Holds'
  BY <1>1 DEF Control, Holds
<1>5. Batch'
  BY <1>1, ReadyRowsKept DEF Same, AllReady
<1>6. Admission'
  BY <1>1 DEF Admission
<1>. QED
  BY <1>2, <1>3, <1>4, <1>5, <1>6 DEF Control

LEMMA AdmitTooBigKeeps == ASSUME Control, AdmitTooBig PROVE Control'
<1>1. /\ UNCHANGED <<waiting, running, admitted, output, finished, cancelled, cur, drafting,
                     confirmed, proposals, logits>>
      /\ verify_L' = verify_L /\ pc' = "raised"
  BY DEF AdmitTooBig, queueVars, stepVars
<1>. QED
  BY <1>1, RaisedKeeps DEF Control, SpecTypes

LEMMA ProposeNothingKeeps == ASSUME Control, ProposeNothing PROVE Control'
<1>1. /\ UNCHANGED <<waiting, running, admitted, output, finished, cancelled, cur, drafting,
                     confirmed, proposals, logits>>
      /\ verify_L' = verify_L /\ pc' = "raised"
  BY DEF ProposeNothing, queueVars, stepVars
<1>. QED
  BY <1>1, RaisedKeeps DEF Control, SpecTypes

LEMMA AddKeeps == ASSUME Control, NEW r \in Caches, Add(r) PROVE Control'
<1>1. /\ waiting' = Append(waiting, r) /\ running' = running /\ finished' = finished
      /\ output' = output /\ cancelled' = cancelled /\ cur' = cur /\ verify_L' = verify_L
      /\ drafting' = drafting /\ proposals' = proposals /\ logits' = logits
      /\ confirmed' = confirmed /\ admitted' = admitted
      /\ block_table' = block_table /\ d_block_table' = d_block_table
      /\ context' = context /\ d_context' = d_context
      /\ pc = "idle" /\ pc' = "idle" /\ waiting \in Seq(Caches)
  BY DEF Add, vars, draftVars, stepVars, Control, SpecTypes
<1>2. /\ waiting' \in Seq(Caches) /\ Len(waiting') = Len(waiting) + 1
      /\ waiting'[Len(waiting) + 1] = r
      /\ \A i \in 1 .. Len(waiting) : waiting'[i] = waiting[i] /\ waiting[i] \in Range(waiting)
      /\ Range(waiting') = Range(waiting) \cup {r}
  BY <1>1, AppendElements, RangeSeq
<1>3. r \notin Range(waiting) \cup Range(running) \cup Range(admitted) \cup DOMAIN finished
  BY DEF Add, Known, Live
<1>4. SpecTypes' /\ TargetTokens'
  BY <1>1, <1>2, SameTokens DEF Control, SpecTypes
<1>5. OnePlace'
  <2>1. Distinct(waiting)'
    <3>1. \A i \in 1 .. Len(waiting) : waiting'[i] # r
      BY <1>2, <1>3
    <3>2. Distinct(waiting) /\ Len(waiting) \in Nat
      BY <1>1 DEF Control, OnePlace
    <3>. QED
      BY <1>2, <3>1, <3>2 DEF Distinct
  <2>2. OnePlace
    BY <1>1 DEF Control
  <2>. QED
    BY <1>1, <1>2, <1>3, <2>1, <2>2 DEF OnePlace
<1>6. Holds' /\ Fresh'
  BY <1>1, SameFresh DEF Control, Holds
<1>7. Batch'
  BY <1>1, ReadyRowsKept DEF Same, AllReady
<1>8. Admission'
  BY <1>1 DEF Admission
<1>. QED
  BY <1>4, <1>5, <1>6, <1>7, <1>8 DEF Control

(* A request that is recorded before it got anything. *)
LEMMA EmptyAnswer ==
  ASSUME Control, pc \in AllReady, NEW r \in Caches, finished' = Recorded(r, <<>>),
         r \notin Range(running) \cup DOMAIN finished, output' = output,
         r \in cancelled' \/ Prompt[r] = <<>>, cancelled \subseteq cancelled'
  PROVE  TargetTokens'
<1>1. /\ DOMAIN finished' = DOMAIN finished \cup {r} /\ finished'[r] = <<>>
      /\ \A q \in DOMAIN finished \ {r} : finished'[q] = finished[q]
  BY RecordedIn
<1>2. output[r] = <<>> /\ TargetTokens
  BY DEF Control, Fresh, AllReady
<1>. QED
  BY <1>1, <1>2 DEF TargetTokens

(* The queue loses r, which is recorded; the batch stays. *)
LEMMA LeavesQueue ==
  ASSUME Control, pc \in {"idle", "admit"}, pc' = pc, NEW r \in Caches,
         NEW out, finished' = Recorded(r, out), cancelled' \in {cancelled, cancelled \cup {r}},
         waiting' \in Seq(Caches), Distinct(waiting'), Range(waiting') = Range(waiting) \ {r},
         r \in Range(waiting),
         UNCHANGED <<vars, draftVars, running, output, admitted, cur, verify_L, drafting,
                     proposals, logits, confirmed>>
  PROVE  SpecTypes' /\ OnePlace' /\ Holds' /\ Fresh' /\ Batch' /\ Admission'
<1>1. /\ DOMAIN finished' = DOMAIN finished \cup {r} /\ finished'[r] = out
      /\ \A q \in DOMAIN finished \ {r} : finished'[q] = finished[q]
  BY RecordedIn
<1>2. OnePlace /\ Holds /\ Fresh /\ SpecTypes
  BY DEF Control
<1>3. r \notin Range(running) \cup Range(admitted) \cup DOMAIN finished
  BY <1>2 DEF OnePlace
<1>4. \A j \in 1 .. Len(running) : running[j] \in Range(running)
  BY <1>2, RangeSeq DEF SpecTypes
<1>5. /\ block_table' = block_table /\ d_block_table' = d_block_table
      /\ context' = context /\ d_context' = d_context
  BY DEF vars, draftVars
<1>6. SpecTypes'
  BY <1>1, <1>2 DEF SpecTypes
<1>7. OnePlace'
  BY <1>1, <1>2, <1>3, <1>4 DEF OnePlace
<1>8. Holds'
  BY <1>2 DEF Holds
<1>9. Fresh'
  BY <1>1, <1>2, <1>3, <1>5 DEF Fresh, Live
<1>10. Batch'
  BY <1>5, ReadyRowsKept DEF Same, AllReady
<1>11. Admission'
  BY DEF Admission
<1>. QED
  BY <1>6, <1>7, <1>8, <1>9, <1>10, <1>11

LEMMA CancelWaitingKeeps == ASSUME Control, NEW r \in Caches, CancelWaiting(r) PROVE Control'
<1>1. /\ waiting \in Seq(Caches) /\ waiting' \in Without(waiting, {r}) /\ Distinct(waiting)
      /\ r \in Range(waiting) /\ pc = "idle"
      /\ OnePlace
  BY DEF CancelWaiting, Control, SpecTypes, OnePlace
<1>2. waiting' \in Seq(Caches) /\ Distinct(waiting') /\ Range(waiting') = Range(waiting) \ {r}
  BY <1>1, WithoutLeaves
<1>3. /\ pc' = pc /\ finished' = Recorded(r, <<>>) /\ cancelled' = cancelled \cup {r}
      /\ UNCHANGED <<vars, draftVars, running, output, admitted, cur, verify_L, drafting,
                     proposals, logits, confirmed>>
  BY DEF CancelWaiting, stepVars
<1>4. SpecTypes' /\ OnePlace' /\ Holds' /\ Fresh' /\ Batch' /\ Admission'
  BY <1>1, <1>2, <1>3, LeavesQueue
<1>5. r \notin Range(running) \cup DOMAIN finished
  BY <1>1 DEF OnePlace
<1>6. TargetTokens'
  BY <1>1, <1>3, <1>5, EmptyAnswer DEF AllReady
<1>. QED
  BY <1>4, <1>6 DEF Control

LEMMA AdmitEmptyKeeps == ASSUME Control, AdmitEmpty PROVE Control'
<1>1. /\ pc = "admit" /\ waiting # <<>> /\ waiting' = Tail(waiting) /\ waiting \in Seq(Caches)
      /\ OnePlace
  BY DEF AdmitEmpty, MayAdmit, Control, SpecTypes
<1>2. /\ Tail(waiting) \in Seq(Caches) /\ Len(Tail(waiting)) = Len(waiting) - 1
      /\ Len(waiting) \in Nat /\ Head(waiting) \in Caches /\ Head(waiting) \in Range(waiting)
      /\ \A i \in 1 .. Len(waiting) - 1 : Tail(waiting)[i] = waiting[i + 1]
      /\ \A b : b \in Range(waiting) <=> b = Head(waiting) \/ b \in Range(Tail(waiting))
  BY <1>1, TailElements
<1>r. PICK r \in Caches : r = Head(waiting)
  BY <1>2
<1>3. r \notin Range(waiting')
  BY <1>r, <1>1, HeadOnce DEF OnePlace
<1>4. waiting' \in Seq(Caches) /\ Distinct(waiting') /\ Range(waiting') = Range(waiting) \ {r}
  BY <1>r, <1>1, <1>2, <1>3 DEF OnePlace, Distinct
<1>5. /\ pc' = pc /\ finished' = Recorded(r, <<>>) /\ cancelled' = cancelled
      /\ Prompt[r] = <<>> /\ r \in Range(waiting)
      /\ UNCHANGED <<vars, draftVars, running, output, admitted, cur, verify_L, drafting,
                     proposals, logits, confirmed>>
  BY <1>r, <1>2 DEF AdmitEmpty, stepVars
<1>6. SpecTypes' /\ OnePlace' /\ Holds' /\ Fresh' /\ Batch' /\ Admission'
  BY <1>1, <1>4, <1>5, LeavesQueue
<1>7. r \notin Range(running) \cup DOMAIN finished
  BY <1>1, <1>5 DEF OnePlace
<1>8. TargetTokens'
  BY <1>1, <1>5, <1>7, EmptyAnswer DEF AllReady
<1>. QED
  BY <1>6, <1>8 DEF Control

LEMMA ClearKeepsControl == ASSUME Control, ClearPrefixCache PROVE Control'
<1>1. /\ waiting' = waiting /\ running' = running /\ finished' = finished
      /\ output' = output /\ cancelled' = cancelled /\ cur' = cur /\ verify_L' = verify_L
      /\ drafting' = drafting /\ proposals' = proposals /\ logits' = logits
      /\ confirmed' = confirmed /\ admitted' = admitted
      /\ block_table' = block_table /\ d_block_table' = d_block_table
      /\ context' = context /\ d_context' = d_context
      /\ pc = "idle" /\ pc' = "idle"
  BY DEF ClearPrefixCache, Clear, draftVars, queueVars, stepVars
<1>2. SpecTypes' /\ TargetTokens'
  BY <1>1, SameTokens DEF Control, SpecTypes
<1>3. OnePlace' /\ Fresh'
  BY <1>1, PlaceKept, SameFresh
<1>4. Holds'
  BY <1>1 DEF Control, Holds
<1>5. Batch'
  BY <1>1, ReadyRowsKept DEF Same, AllReady
<1>6. Admission'
  BY <1>1 DEF Admission
<1>. QED
  BY <1>2, <1>3, <1>4, <1>5, <1>6 DEF Control

LEMMA RegisterPromptKeeps == ASSUME Control, RegisterPrompt PROVE Control'
<1>1. /\ waiting' = waiting /\ running' = running /\ finished' = finished
      /\ output' = output /\ cancelled' = cancelled /\ cur' = cur /\ verify_L' = verify_L
      /\ drafting' = drafting /\ proposals' = proposals /\ logits' = logits
      /\ confirmed' = confirmed /\ admitted' = admitted
      /\ block_table' = block_table /\ d_block_table' = d_block_table
      /\ context' = context /\ d_context' = d_context
      /\ pc = "register" /\ pc' = "emit"
  BY DEF RegisterPrompt, Register, draftVars, queueVars, stepVars
<1>2. SpecTypes' /\ TargetTokens'
  BY <1>1, SameTokens DEF Control, SpecTypes, Places
<1>3. OnePlace' /\ Fresh'
  BY <1>1, PlaceKept, SameFresh
<1>4. Holds'
  BY <1>1 DEF Control, Holds
<1>5. Batch'
  BY <1>1, ReadyRowsKept DEF Same, AllReady
<1>6. Admission'
  BY <1>1 DEF Control, Admission, Drafts
<1>. QED
  BY <1>2, <1>3, <1>4, <1>5, <1>6 DEF Control

LEMMA CancelRunningKeeps ==
  ASSUME Storage, Control, NEW r \in Caches, CancelRunning(r)
  PROVE  Control'
<1>1. /\ waiting' = waiting /\ output' = output /\ cancelled' = cancelled \cup {r}
      /\ cur' = cur /\ verify_L' = verify_L
      /\ drafting' = drafting /\ proposals' = proposals /\ logits' = logits
      /\ confirmed' = confirmed /\ admitted' = admitted
      /\ pc = "idle" /\ pc' = "idle" /\ r \in Range(running)
      /\ Finish(r, output[r]) /\ finished' = Recorded(r, output[r])
      /\ running' \in Without(running, DOMAIN finished')
  BY DEF CancelRunning, Finish, stepVars
<1>2. SpecTypes /\ OnePlace /\ Holds /\ Fresh /\ Batch /\ running \in Seq(Caches)
  BY <1>1 DEF Control, SpecTypes
<1>3. /\ running' \in Seq(Caches) /\ Distinct(running')
      /\ Range(running') = Range(running) \ DOMAIN finished'
  BY <1>1, <1>2, WithoutLeaves DEF OnePlace
<1>4. /\ DOMAIN finished' = DOMAIN finished \cup {r} /\ finished'[r] = output[r]
      /\ \A q \in DOMAIN finished \ {r} : finished'[q] = finished[q]
  BY <1>1, RecordedIn
<1>5. /\ block_table'[r] = <<>> /\ d_block_table'[r] = <<>>
      /\ \A q \in Caches \ {r} :
           /\ context'[q] = context[q] /\ block_table'[q] = block_table[q]
           /\ d_context'[q] = d_context[q] /\ d_block_table'[q] = d_block_table[q]
  BY <1>1, FinishIsStorage
<1>6. admitted = <<>> /\ Range(admitted) = {}
  BY <1>1, <1>2 DEF Holds, Range
<1>7. /\ \A q : q \in Range(running) <=> \E j \in 1 .. Len(running) : running[j] = q
      /\ \A q : q \in Range(running') <=> \E j \in 1 .. Len(running') : running'[j] = q
  BY <1>2, <1>3, RangeSeq
<1>8. SpecTypes'
  BY <1>1, <1>2, <1>3, <1>4 DEF SpecTypes
<1>9. OnePlace'
  BY <1>1, <1>2, <1>3, <1>4, <1>6, <1>7 DEF OnePlace
<1>10. Holds'
  BY <1>1, <1>2 DEF Holds
<1>11. Fresh'
  <2>1. \A q \in Caches : q \notin Live' => block_table'[q] = <<>> /\ d_block_table'[q] = <<>>
    BY <1>1, <1>2, <1>3, <1>4, <1>5, <1>6 DEF Fresh, Live
  <2>2. \A q \in Caches : q \notin Range(running)' \cup DOMAIN finished' => output'[q] = <<>>
    BY <1>1, <1>2, <1>3, <1>4 DEF Fresh
  <2>. QED
    BY <2>1, <2>2 DEF Fresh
<1>12. Batch'
  <2>1. ASSUME NEW j \in 1 .. Len(running') PROVE Ready(running[j])'
    <3>1. running'[j] \in Range(running') /\ running'[j] # r /\ running'[j] \in Caches
      BY <1>3, <1>4, RangeSeq
    <3>2. PICK i \in 1 .. Len(running) : running[i] = running'[j]
      BY <1>3, <1>7, <3>1
    <3>3. Ready(running[i]) /\ Same(running[i])
      BY <1>1, <1>2, <1>5, <3>1, <3>2 DEF Batch, Same
    <3>. QED
      BY <3>2, <3>3, ReadyKept
  <2>. QED
    BY <1>1, <2>1 DEF Batch
<1>13. Admission'
  BY <1>1 DEF Admission
<1>14. TargetTokens'
  BY <1>1, <1>4 DEF Control, TargetTokens
<1>. QED
  BY <1>8, <1>9, <1>10, <1>11, <1>12, <1>13, <1>14 DEF Control

(* What a request that is admitted finds in its cache. *)
LEMMA AdmittedPrefix ==
  ASSUME IInv, NEW r \in Caches, block_table[r] = <<>>,
         Prompt[r] # <<>>, NEW n \in 0 .. Len(Prompt[r]), Shares(r, n),
         IF n > 0 THEN SharePrefix(r, Matched(Prompt[r], n), Key(Prompt[r], n))
                  ELSE UNCHANGED kvVars
  PROVE  /\ length'[r] < Len(Prompt[r]) /\ context'[r] = SubSeq(Prompt[r], 1, length'[r])
         /\ \A q \in Caches \ {r} : context'[q] = context[q] /\ block_table'[q] = block_table[q]
<1>. DEFINE p == Prompt[r]
<1>1. p \in Seq(Token) /\ Len(p) \in Nat /\ p # <<>> /\ Len(p) > 0
  <2>1. p \in Seq(Token) /\ p # <<>>
    BY RequestTypes
  <2>. QED
    BY <2>1, EmptySeq
<1>2. /\ length \in [Caches -> 0 .. MaxSeq] /\ context \in [Caches -> Seq(Token)]
      /\ block_table \in [Caches -> Seq(Blocks)]
      /\ length[r] = Len(context[r]) /\ length[r] <= BlockSize * Len(block_table[r])
  BY DEF IInv, TypeOK, KVExact
<1>3. length[r] = 0 /\ context[r] = <<>>
  <2>1. length[r] = 0
    BY <1>2, PoolAssumption, CacheAssumption
  <2>. QED
    BY <1>2, <2>1, EmptySeq
<1>4. CASE n = 0
  <2>1. length'[r] = 0 /\ context' = context /\ block_table' = block_table
    BY <1>3, <1>4 DEF kvVars
  <2>2. SubSeq(p, 1, 0) = <<>>
    BY <1>1
  <2>. QED
    BY <1>1, <1>3, <2>1, <2>2
<1>5. CASE n # 0
  <2>. DEFINE most == (Len(p) - 1) \div BlockSize
              l == n * BlockSize
  <2>1. n \in 1 .. Len(p) /\ BlockSize \in Nat \ {0}
    BY <1>1, <1>5, PoolAssumption
  <2>2. SharePrefix(r, Matched(p, n), Key(p, n)) /\ n <= most
    <3>1. SharePrefix(r, Matched(p, n), Key(p, n)) /\ Matches(p, n)
      BY <2>1 DEF Shares
    <3>. QED
      BY <3>1 DEF Matches
  <2>3. l \in Nat /\ l <= Len(p) - 1
    <3>m. PICK m \in Nat : m = Len(p) - 1
      <4>1. Len(p) - 1 \in Nat
        BY <1>1
      <4>. QED
        BY <4>1
    <3>b. PICK b \in Nat \ {0} : b = BlockSize
      BY <2>1
    <3>1. m \div b \in Nat /\ m % b \in 0 .. b - 1 /\ m = b * (m \div b) + (m % b)
      BY <3>b, DivMod
    <3>k. PICK k \in Nat : k = m \div b
      BY <3>1
    <3>2. b * k <= m
      <4>1. PICK t \in Nat : t = b * k
        BY <3>b
      <4>2. PICK o \in 0 .. b - 1 : o = m % b
        BY <3>1
      <4>3. m = t + o
        BY <3>1, <3>k, <4>1, <4>2
      <4>4. t <= m
        BY <4>3
      <4>. QED
        BY <4>1, <4>4
    <3>3. n <= k /\ n \in Nat
      <4>1. most = k
        BY <3>m, <3>b, <3>k, Zenon
      <4>. HIDE DEF most
      <4>. QED
        BY <2>1, <2>2, <4>1
    <3>4. BlockSize * n <= BlockSize * k
      BY <3>3, TimesMonotone
    <3>5. l = b * n /\ l \in Nat
      BY <3>3, <3>b
    <3>6. l <= m
      <4>1. PICK t \in Nat : t = b * k
        BY <3>b
      <4>2. l <= t /\ t <= m
        BY <3>2, <3>4, <3>5, <3>b, <4>1
      <4>. HIDE DEF l
      <4>. QED
        BY <3>5, <4>2
    <3>. QED
      BY <3>5, <3>6, <3>m
  <2>. HIDE DEF l
  <2>4. Key(p, n) = SubSeq(p, 1, l) /\ Len(SubSeq(p, 1, l)) = l
    BY <1>1, <2>3 DEF Key, l
  <2>5. length'[r] = l /\ context'[r] = SubSeq(p, 1, l)
        /\ \A q \in Caches \ {r} : context'[q] = context[q] /\ block_table'[q] = block_table[q]
    BY <1>2, <2>2, <2>4 DEF SharePrefix
  <2>. QED
    BY <1>1, <2>3, <2>5
<1>. QED
  BY <1>4, <1>5

(* A cache without blocks is empty. *)
LEMMA NoBlocksNoTokens ==
  ASSUME D!IInv, NEW r \in Caches, d_block_table[r] = <<>>
  PROVE  d_context[r] = <<>>
<1>1. /\ d_length[r] \in 0 .. MaxSeq /\ d_context[r] \in Seq(Token)
      /\ d_length[r] = Len(d_context[r]) /\ d_length[r] <= BlockSize * Len(d_block_table[r])
  BY DEF D!IInv, D!TypeOK, D!KVExact
<1>2. Len(d_block_table[r]) = 0
  OBVIOUS
<1>3. d_length[r] = 0
  BY <1>1, <1>2, PoolAssumption, CacheAssumption
<1>. QED
  BY <1>1, <1>3, EmptySeq

LEMMA AdmitHeadKeeps == ASSUME Storage, Control, AdmitHead PROVE Control'
<1>1. /\ running' = running /\ finished' = finished /\ waiting' = Tail(waiting)
      /\ output' = output /\ cancelled' = cancelled /\ cur' = cur /\ verify_L' = verify_L
      /\ drafting' = drafting /\ proposals' = proposals /\ logits' = logits
      /\ confirmed' = confirmed /\ d_block_table' = d_block_table /\ d_context' = d_context
      /\ pc = "admit" /\ pc' = "prime" /\ waiting # <<>>
  BY DEF AdmitHead, MayAdmit, draftVars
<1>2. SpecTypes /\ OnePlace /\ Holds /\ Fresh /\ waiting \in Seq(Caches)
  BY <1>1 DEF Control, SpecTypes
<1>3. /\ Tail(waiting) \in Seq(Caches) /\ Len(Tail(waiting)) = Len(waiting) - 1
      /\ Len(waiting) \in Nat /\ Head(waiting) \in Caches /\ Head(waiting) \in Range(waiting)
      /\ \A i \in 1 .. Len(waiting) - 1 : Tail(waiting)[i] = waiting[i + 1]
      /\ \A b : b \in Range(waiting) <=> b = Head(waiting) \/ b \in Range(Tail(waiting))
  BY <1>1, <1>2, TailElements
<1>r. PICK r \in Caches : r = Head(waiting)
  BY <1>3
<1>4. admitted' = <<r>> /\ Prompt[r] # <<>>
  BY <1>r DEF AdmitHead
<1>5. PICK n \in 0 .. Len(Prompt[r]) :
        /\ Shares(r, n)
        /\ IF n > 0 THEN SharePrefix(r, Matched(Prompt[r], n), Key(Prompt[r], n))
                    ELSE UNCHANGED kvVars
  BY <1>r DEF AdmitHead
<1>6. r \notin Range(running) \cup Range(admitted) \cup DOMAIN finished
  BY <1>r, <1>2, <1>3 DEF OnePlace
<1>7. r \notin Range(waiting')
  BY <1>r, <1>1, <1>2, HeadOnce DEF OnePlace
<1>8. block_table[r] = <<>> /\ d_block_table[r] = <<>>
  BY <1>2, <1>6 DEF Fresh, Live
<1>9. /\ length'[r] < Len(Prompt[r]) /\ context'[r] = SubSeq(Prompt[r], 1, length'[r])
      /\ \A q \in Caches \ {r} : context'[q] = context[q] /\ block_table'[q] = block_table[q]
  BY <1>4, <1>5, <1>8, AdmittedPrefix DEF Storage
<1>10. d_context'[r] = <<>>
  BY <1>1, <1>8, NoBlocksNoTokens DEF Storage
<1>11. admitted'[1] = r /\ Len(admitted') = 1 /\ admitted' \in Seq(Caches) /\ Range(admitted') = {r}
  BY <1>4 DEF Range
<1>12. admitted = <<>> /\ Range(admitted) = {}
  BY <1>1, <1>2 DEF Holds, Range
<1>13. SpecTypes' /\ TargetTokens'
  BY <1>1, <1>2, <1>3, <1>11, SameTokens DEF SpecTypes, Places
<1>14. OnePlace'
  <2>1. Distinct(waiting)'
    BY <1>1, <1>2, <1>3 DEF OnePlace, Distinct
  <2>2. \A q \in Range(waiting') :
          q \notin Range(running) \cup Range(admitted') \cup DOMAIN finished
    BY <1>1, <1>2, <1>3, <1>7, <1>11 DEF OnePlace
  <2>. QED
    BY <1>1, <1>2, <1>6, <1>11, <2>1, <2>2 DEF OnePlace
<1>15. Holds'
  BY <1>1, <1>2, <1>11 DEF Holds
<1>16. Fresh'
  <2>1. ASSUME NEW q \in Caches, q \notin Live'
        PROVE  block_table'[q] = <<>> /\ d_block_table'[q] = <<>>
    <3>1. q # r /\ q \notin Live
      BY <1>1, <1>11, <1>12, <2>1 DEF Live
    <3>. QED
      BY <1>1, <1>2, <1>9, <3>1 DEF Fresh
  <2>. QED
    BY <1>1, <1>2, <2>1 DEF Fresh
<1>17. Batch'
  <2>1. r \notin Range(running)
    BY <1>6
  <2>2. \A j \in 1 .. Len(running) : Same(running[j])
    BY <1>1, <1>9, <2>1, OthersSame
  <2>. QED
    BY <1>1, <2>2, ReadyRowsKept DEF AllReady
<1>18. Admission'
  BY <1>1, <1>9, <1>10, <1>11 DEF Admission, Drafts
<1>. QED
  BY <1>13, <1>14, <1>15, <1>16, <1>17, <1>18 DEF Control

(* The draft reads the prompt. *)
LEMMA PrimeKeeps ==
  ASSUME Storage, Control, D!ReadsBack', Prime
  PROVE  Control'
<1>1. /\ waiting' = waiting /\ running' = running /\ finished' = finished
      /\ output' = output /\ cancelled' = cancelled /\ cur' = cur /\ verify_L' = verify_L
      /\ drafting' = drafting /\ proposals' = proposals /\ logits' = logits
      /\ confirmed' = confirmed /\ admitted' = admitted
      /\ block_table' = block_table /\ context' = context /\ length' = length
      /\ pc = "prime"
  BY DEF Prime, queueVars, stepVars, vars, DraftRaises
<1>2. CASE pc' = "raised"
  BY <1>1, <1>2, RaisedKeeps DEF Control, SpecTypes
<1>r. PICK r \in Caches : r = Head(admitted)
  BY <1>1, AdmittedRow
<1>3. /\ r = admitted[1] /\ Range(admitted) = {r} /\ r \notin Range(running)
      /\ r \notin DOMAIN finished /\ Prompt[r] \in Seq(Token)
  BY <1>1, <1>r, AdmittedRow, RequestTypes
<1>4. Holds /\ Admission
  BY <1>1 DEF Control
<1>5. /\ length[r] < Len(Prompt[r]) /\ context[r] = SubSeq(Prompt[r], 1, length[r])
      /\ Drafts(r, <<>>)
  BY <1>1, <1>3, <1>4 DEF Admission
<1>6. CASE pc' # "raised"
  <2>1. /\ pc' = "prefill"
        /\ \/ Proposer[r] # "draft" /\ UNCHANGED draftVars
           \/ Draft!Forward(r, Prompt[r])
    BY <1>r, <1>6 DEF Prime, DraftRaises
  <2>2. /\ Proposer[r] = "draft" => d_context'[r] = Prompt[r]
        /\ \A q \in Caches \ {r} :
             d_context'[q] = d_context[q] /\ d_block_table'[q] = d_block_table[q]
    <3>1. CASE Draft!Forward(r, Prompt[r])
      <4>1. /\ d_context'[r] = d_context[r] \o Prompt[r]
            /\ \A q \in Caches \ {r} :
                 d_context'[q] = d_context[q] /\ d_block_table'[q] = d_block_table[q]
        BY <1>3, <3>1, DraftFeeds DEF Storage
      <4>2. Proposer[r] = "draft" => d_context[r] = <<>>
        BY <1>5 DEF Drafts
      <4>3. <<>> \o Prompt[r] = Prompt[r]
        BY <1>3, ConcatEmptySeq
      <4>. QED
        BY <4>1, <4>2, <4>3
    <3>2. CASE Proposer[r] # "draft" /\ UNCHANGED draftVars
      BY <3>2 DEF draftVars
    <3>. QED
      BY <2>1, <3>1, <3>2
  <2>3. SpecTypes' /\ TargetTokens'
    BY <1>1, <2>1, SameTokens DEF Control, SpecTypes, Places
  <2>4. OnePlace' /\ Fresh'
    <3>1. r \in Live
      BY <1>3 DEF Live
    <3>. QED
      BY <1>1, <2>2, <3>1, PlaceKept, FreshKept
  <2>5. Holds'
    BY <1>1, <1>4, <2>1 DEF Holds
  <2>6. Batch'
    <3>1. \A j \in 1 .. Len(running) : Same(running[j])
      BY <1>1, <1>3, <2>2, OthersSame
    <3>. QED
      BY <1>1, <2>1, <3>1, ReadyRowsKept DEF AllReady
  <2>7. Admission'
    BY <1>1, <1>3, <1>5, <2>1, <2>2 DEF Admission, Drafts
  <2>. QED
    BY <2>3, <2>4, <2>5, <2>6, <2>7 DEF Control
<1>. QED
  BY <1>2, <1>6

LEMMA PrefillKeeps ==
  ASSUME Storage, Control, ReadsBack', Prefill
  PROVE  Control'
<1>. DEFINE suffix(r) == SubSeq(Prompt[r], length[r] + 1, Len(Prompt[r]))
<1>1. /\ waiting' = waiting /\ running' = running /\ finished' = finished
      /\ output' = output /\ cancelled' = cancelled /\ cur' = cur /\ verify_L' = verify_L
      /\ drafting' = drafting /\ proposals' = proposals
      /\ confirmed' = confirmed /\ admitted' = admitted
      /\ d_block_table' = d_block_table /\ d_context' = d_context
      /\ pc = "prefill"
  BY DEF Prefill, queueVars, draftVars, ForwardRaises
<1>r. PICK r \in Caches : r = Head(admitted)
  BY <1>1, AdmittedRow
<1>3. /\ r = admitted[1] /\ Range(admitted) = {r} /\ r \notin Range(running)
      /\ r \notin DOMAIN finished /\ Prompt[r] \in Seq(Token)
      /\ suffix(r) \in Seq(Token) /\ context[r] \o suffix(r) = Prompt[r]
  BY <1>1, <1>r, AdmittedRow, RequestTypes, AdmittedPrompt
<1>4. Holds /\ Admission
  BY <1>1 DEF Control
<1>5. CASE ForwardRaises(r, suffix(r)) /\ UNCHANGED logits
  <2>1. pc' = "raised"
    BY <1>5 DEF ForwardRaises
  <2>. QED
    BY <1>1, <1>5, <2>1, RaisedKeeps DEF Control, SpecTypes
<1>6. CASE /\ Forward(r, suffix(r)) /\ logits' = <<<<Encoded(r)'>>>>
           /\ pc' = IF PrefixSharing THEN "register" ELSE "emit"
  <2>1. /\ context'[r] = Prompt[r] /\ Encoded(r)' = context'[r]
        /\ \A q \in Caches \ {r} : context'[q] = context[q] /\ block_table'[q] = block_table[q]
    <3>. HIDE DEF suffix
    <3>. QED
      BY <1>3, <1>6, ForwardFeeds DEF Storage
  <2>2. logits' = <<<<Prompt[r]>>>> /\ pc' \in {"register", "emit"}
    BY <1>6, <2>1
  <2>3. Prompt[r] # <<>> /\ Drafts(r, Prompt[r])
    <3>1. length[r] \in Nat /\ length[r] < Len(Prompt[r]) /\ Drafts(r, Prompt[r])
      BY <1>1, <1>3, <1>4 DEF Admission, Storage, IInv, TypeOK
    <3>. QED
      BY <1>3, <3>1, EmptySeq
  <2>4. SpecTypes'
    <3>1. <<<<Prompt[r]>>>> \in Seq(Seq(Seq(Token)))
      BY <1>3
    <3>. QED
      BY <1>1, <2>2, <3>1 DEF Control, SpecTypes, Places
  <2>5. TargetTokens'
    BY <1>1, SameTokens
  <2>6. OnePlace' /\ Fresh'
    <3>1. r \in Live
      BY <1>3 DEF Live
    <3>. QED
      BY <1>1, <2>1, <3>1, PlaceKept, FreshKept
  <2>7. Holds'
    BY <1>1, <1>4, <2>2 DEF Holds
  <2>8. Batch'
    <3>1. \A j \in 1 .. Len(running) : Same(running[j])
      BY <1>1, <1>3, <2>1, OthersSame
    <3>. QED
      BY <1>1, <2>2, <3>1, ReadyRowsKept DEF AllReady
  <2>9. Admission'
    BY <1>1, <1>3, <2>1, <2>2, <2>3 DEF Admission, Drafts
  <2>. QED
    BY <2>4, <2>5, <2>6, <2>7, <2>8, <2>9 DEF Control
<1>. QED
  BY <1>r, <1>5, <1>6 DEF Prefill

(* prompt_lookup proposes tokens of the context, and at most K of them. *)
LEMMA LookupProposes ==
  ASSUME NEW ctx \in Seq(Token), NEW ngram \in Nat, NEW k \in Nat
  PROVE  Lookup(ctx, ngram, k) \in Seq(Token) /\ Len(Lookup(ctx, ngram, k)) <= k
<1>. DEFINE at(i) == SubSeq(ctx, i, i + ngram - 1)
            found == {i \in 1 .. Len(ctx) - ngram : at(i) = at(Len(ctx) - ngram + 1)}
            from == Max(found) + ngram
            to == Min({from + k - 1, Len(ctx)})
<1>1. Lookup(ctx, ngram, k) =
        IF ngram < 1 \/ found = {} THEN <<>> ELSE SubSeq(ctx, from, to)
  BY DEF Lookup
<1>2. Len(ctx) \in Nat
  OBVIOUS
<1>3. CASE ngram < 1 \/ found = {}
  <2>1. Lookup(ctx, ngram, k) = <<>>
    BY <1>1, <1>3, Zenon
  <2>. QED
    BY <2>1
<1>4. CASE ~ (ngram < 1 \/ found = {})
  <2>n. PICK n \in Nat : n = Len(ctx)
    BY <1>2
  <2>1. found \in SUBSET (1 .. n - ngram) /\ found # {} /\ ngram >= 1
    BY <1>4, <2>n
  <2>2. found \in SUBSET (1 .. n)
    <3>. HIDE DEF found
    <3>. QED
      BY <2>1
  <2>3. Max(found) \in found
    <3>. HIDE DEF found
    <3>. QED
      BY <2>1, <2>2, MaxIn
  <2>. HIDE DEF found
  <2>4. from \in 1 .. n
    <3>1. PICK m \in 1 .. n - ngram : m = Max(found)
      BY <2>1, <2>3
    <3>. QED
      BY <3>1
  <2>. HIDE DEF from
  <2>5. to \in Int /\ to <= from + k - 1 /\ to <= n
    <3>a. PICK a \in Int : a = from + k - 1
      BY <2>4
    <3>1. Min({a, n}) = IF a <= n THEN a ELSE n
      BY MinOfTwo
    <3>. QED
      BY <2>n, <3>a, <3>1
  <2>. HIDE DEF to
  <2>6. SubSeq(ctx, from, to) \in Seq(Token)
    BY <2>n, <2>4, <2>5
  <2>7. Len(SubSeq(ctx, from, to)) <= k
    BY <2>n, <2>4, <2>5
  <2>. QED
    BY <1>1, <1>4, <2>6, <2>7
<1>. QED
  BY <1>3, <1>4

LEMMA NoneBehind == ASSUME NEW x \in Seq(Token) PROVE x \o <<>> = x
BY ConcatEmptySeq

(* A row's proposal is done. *)
LEMMA ProposedKeeps ==
  ASSUME Control, pc = "propose", NEW r \in Caches, r = Proposing,
         NEW x \in Seq(Token), Len(x) <= K[r], Proposed(x),
         Proposer[r] = "draft" => d_context'[r] = Prompt[r] \o output[r] \o x,
         \A q \in Caches \ {r} :
           d_context'[q] = d_context[q] /\ d_block_table'[q] = d_block_table[q],
         UNCHANGED <<waiting, running, finished, output, cancelled, admitted, cur, verify_L,
                     logits, confirmed, context, block_table>>
  PROVE  Control'
<1>n. PICK k \in Nat : k = Len(proposals) + 1
  <2>1. Len(proposals) \in Nat
    BY DEF Control, SpecTypes
  <2>. QED
    BY <2>1
<1>1. /\ k \in 1 .. Len(running) /\ r = running[k] /\ r \in Range(running)
      /\ r \notin DOMAIN finished /\ InBatch(r) /\ Drafting(r, drafting)
  BY <1>n, ProposeRow DEF Proposing
<1>2. /\ SpecTypes /\ OnePlace /\ Holds /\ Batch /\ running \in Seq(Caches)
      /\ proposals \in Seq(Seq(Token)) /\ Len(running) \in Nat /\ Len(proposals) \in Nat
      /\ logits = <<>> /\ admitted = <<>> /\ confirmed = <<>>
  BY DEF Control, SpecTypes, Holds
<1>3. /\ proposals' \in Seq(Seq(Token)) /\ Len(proposals') = k /\ proposals'[k] = x
      /\ \A i \in 1 .. Len(proposals) : proposals'[i] = proposals[i]
  <2>1. proposals' = Append(proposals, x)
    BY DEF Proposed
  <2>. QED
    BY <1>2, <1>n, <2>1, AppendElements
<1>4. drafting' = <<>> /\ pc' = IF k = Len(running) THEN "verify" ELSE "propose"
  BY <1>n DEF Proposed
<1>k. k \in Nat /\ k <= Len(running)
  BY <1>1, <1>2
<1>5. \A j \in 1 .. Len(running) : j # k => Same(running[j])
  <2>1. \A j \in 1 .. Len(running) : j # k => running[j] \in Caches \ {r}
    BY <1>1, <1>2, BatchPosition DEF OnePlace, Distinct
  <2>. QED
    BY <2>1 DEF Same
<1>6. SpecTypes' /\ TargetTokens'
  BY <1>2, <1>3, <1>4, SameTokens DEF SpecTypes, Places
<1>7. OnePlace' /\ Fresh'
  <2>1. r \in Live
    BY <1>1 DEF Live
  <2>. QED
    BY <2>1, PlaceKept, FreshKept
<1>8. Holds'
  BY <1>2, <1>3, <1>4, <1>k, <1>n DEF Holds
<1>9. ASSUME NEW j \in 1 .. k PROVE ProposedFor(running[j], proposals[j])'
  <2>1. CASE j = k
    BY <1>1, <1>3, <2>1 DEF Drafting, ProposedFor, InBatch, Drafts
  <2>2. CASE j # k
    <3>1. j \in 1 .. Len(proposals) /\ j \in 1 .. Len(running)
      BY <1>2, <1>k, <1>n, <2>2
    <3>2. ProposedFor(running[j], proposals[j]) /\ Same(running[j])
      BY <1>2, <1>5, <2>2, <3>1 DEF Batch
    <3>3. proposals'[j] = proposals[j] /\ running'[j] = running[j]
      BY <1>3, <3>1
    <3>. QED
      BY <3>2, <3>3, ProposedKept
  <2>. QED
    BY <2>1, <2>2
<1>10. ASSUME NEW j \in k + 1 .. Len(running) PROVE Ready(running[j]) /\ Same(running[j])
  <2>1. j \in Len(proposals) + 2 .. Len(running) /\ j \in 1 .. Len(running) /\ j # k
    BY <1>2, <1>k, <1>n
  <2>. QED
    BY <1>2, <1>5, <2>1 DEF Batch
<1>11. Batch'
  <2>1. CASE k = Len(running)
    <3>1. pc' = "verify" /\ running' = running /\ Len(logits') = 0
      BY <1>2, <1>4, <2>1
    <3>2. \A j \in 1 .. Len(running') : ProposedFor(running[j], proposals[j])'
      BY <1>9, <2>1
    <3>. QED
      BY <3>1, <3>2 DEF Batch
  <2>2. CASE k # Len(running)
    <3>1. pc' = "propose" /\ running' = running /\ Len(proposals') = k /\ k + 1 \in k + 1 .. Len(running)
      BY <1>2, <1>3, <1>4, <1>k, <2>2
    <3>2. \A j \in k + 2 .. Len(running) : Ready(running[j])'
      <4>1. ASSUME NEW j \in k + 2 .. Len(running) PROVE Ready(running[j])'
        <5>1. j \in k + 1 .. Len(running)
          BY <1>k
        <5>. QED
          BY <1>10, <5>1, ReadyKept
      <4>. QED
        BY <4>1
    <3>3. Drafting(running[k + 1], drafting)'
      <4>1. PICK q \in Caches : q = running[k + 1]
        <5>1. k + 1 \in 1 .. Len(running)
          BY <1>k, <3>1
        <5>. QED
          BY <5>1, BatchPosition
      <4>2. Ready(q) /\ Same(q)
        BY <1>10, <3>1, <4>1
      <4>3. Drafting(q, <<>>)
        BY <4>2, ReadyIsDrafting
      <4>4. Drafting(q, <<>>)'
        BY <4>2, <4>3 DEF Drafting, InBatch, Drafts, Same
      <4>. QED
        BY <1>4, <3>1, <4>1, <4>4
    <3>. QED
      BY <1>9, <3>1, <3>2, <3>3 DEF Batch
  <2>. QED
    BY <2>1, <2>2
<1>12. Admission'
  BY <1>4 DEF Admission
<1>. QED
  BY <1>6, <1>7, <1>8, <1>11, <1>12 DEF Control

LEMMA ProposeLookupKeeps == ASSUME Control, ProposeLookup PROVE Control'
<1>1. /\ pc = "propose" /\ Proposer[Proposing] = "lookup"
      /\ Proposed(Lookup(Prompt[Proposing] \o output[Proposing], Ngram[Proposing], K[Proposing]))
      /\ UNCHANGED <<waiting, running, finished, output, cancelled, admitted, cur, verify_L,
                     logits, confirmed, context, block_table, d_context, d_block_table>>
  BY DEF ProposeLookup, vars, draftVars, queueVars
<1>r. PICK r \in Caches : r = Proposing
  BY <1>1, ProposeRow
<1>2. Prompt[r] \in Seq(Token) /\ output[r] \in Seq(Token) /\ Ngram[r] \in Nat /\ K[r] \in Nat
  BY RequestTypes DEF Control, SpecTypes
<1>3. Prompt[r] \o output[r] \in Seq(Token)
  BY <1>2, ConcatSeq
<1>x. PICK x \in Seq(Token) :
        /\ x = Lookup(Prompt[r] \o output[r], Ngram[r], K[r]) /\ Len(x) <= K[r]
  BY <1>2, <1>3, LookupProposes
<1>4. Proposed(x) /\ Proposer[r] # "draft"
  BY <1>1, <1>r, <1>x
<1>. QED
  BY <1>1, <1>r, <1>x, <1>4, ProposedKeeps

(* One more token is drafted. *)
LEMMA DraftedKeeps ==
  ASSUME Control, pc = "propose", pc' = "propose", NEW r \in Caches, r = Proposing,
         NEW g \in Token, drafting' = Append(drafting, g), Len(drafting) < K[r],
         d_context'[r] = Prompt[r] \o output[r] \o drafting,
         \A q \in Caches \ {r} :
           d_context'[q] = d_context[q] /\ d_block_table'[q] = d_block_table[q],
         UNCHANGED <<waiting, running, finished, output, cancelled, admitted, cur, verify_L,
                     proposals, logits, confirmed, context, block_table>>
  PROVE  Control'
<1>n. PICK k \in Nat : k = Len(proposals) + 1
  <2>1. Len(proposals) \in Nat
    BY DEF Control, SpecTypes
  <2>. QED
    BY <2>1
<1>1. /\ k \in 1 .. Len(running) /\ r = running[k] /\ r \in Range(running)
      /\ r \notin DOMAIN finished /\ InBatch(r) /\ Drafting(r, drafting)
      /\ drafting \in Seq(Token)
  BY <1>n, ProposeRow DEF Proposing
<1>2. /\ SpecTypes /\ OnePlace /\ Holds /\ Batch /\ running \in Seq(Caches)
      /\ Len(running) \in Nat /\ K[r] \in Nat
  BY RequestTypes DEF Control, SpecTypes
<1>3. /\ drafting' \in Seq(Token) /\ Len(drafting') = Len(drafting) + 1
      /\ drafting' # <<>> /\ Front(drafting') = drafting
  BY <1>1, AppendElements, AppendFront
<1>4. \A j \in 1 .. Len(running) : j # k => Same(running[j])
  <2>1. \A j \in 1 .. Len(running) : j # k => running[j] \in Caches \ {r}
    BY <1>1, <1>2, BatchPosition DEF OnePlace, Distinct
  <2>. QED
    BY <2>1 DEF Same
<1>5. SpecTypes' /\ TargetTokens'
  BY <1>2, <1>3, SameTokens DEF SpecTypes
<1>6. OnePlace' /\ Fresh'
  <2>1. r \in Live
    BY <1>1 DEF Live
  <2>. QED
    BY <2>1, PlaceKept, FreshKept
<1>7. Holds'
  BY <1>2 DEF Holds
<1>8. \A j \in 1 .. Len(proposals) : ProposedFor(running[j], proposals[j])'
  <2>1. ASSUME NEW j \in 1 .. Len(proposals) PROVE ProposedFor(running[j], proposals[j])'
    <3>1. j \in 1 .. Len(running) /\ j # k
      BY <1>1, <1>2, <1>n
    <3>2. ProposedFor(running[j], proposals[j]) /\ Same(running[j])
      BY <1>2, <1>4, <3>1 DEF Batch
    <3>. QED
      BY <3>2, ProposedKept
  <2>. QED
    BY <2>1
<1>9. Drafting(r, drafting)'
  <2>1. Len(drafting') <= K[r]
    BY <1>1, <1>2, <1>3
  <2>2. Proposer[r] = "draft" =>
          d_context'[r] = IF drafting' = <<>> THEN context'[r]
                          ELSE Prompt[r] \o output'[r] \o Front(drafting')
    BY <1>3
  <2>. QED
    BY <1>1, <2>1, <2>2 DEF Drafting, InBatch, Drafts
<1>10. \A j \in k + 1 .. Len(running) : Ready(running[j])'
  <2>1. ASSUME NEW j \in k + 1 .. Len(running) PROVE Ready(running[j])'
    <3>1. j \in Len(proposals) + 2 .. Len(running) /\ j \in 1 .. Len(running) /\ j # k
      BY <1>2, <1>n
    <3>2. Ready(running[j]) /\ Same(running[j])
      BY <1>2, <1>4, <3>1 DEF Batch
    <3>. QED
      BY <3>2, ReadyKept
  <2>. QED
    BY <2>1
<1>11. Batch'
  <2>1. /\ Len(proposals') + 1 = k /\ Len(proposals') + 2 = k + 1 /\ running' = running
        /\ proposals' = proposals
    BY <1>n
  <2>2. Drafting(running[Len(proposals) + 1], drafting)'
    BY <1>1, <1>9, <2>1
  <2>. QED
    BY <1>8, <1>10, <2>1, <2>2 DEF Batch
<1>12. Admission'
  BY DEF Admission
<1>. QED
  BY <1>5, <1>6, <1>7, <1>11, <1>12 DEF Control

LEMMA ProposeDraftKeeps ==
  ASSUME Storage, Control, D!ReadsBack', ProposeDraft
  PROVE  Control'
<1>. DEFINE x == IF drafting = <<>> THEN cur[Proposing] ELSE <<Last(drafting)>>
<1>1. /\ pc = "propose" /\ Proposer[Proposing] = "draft"
      /\ UNCHANGED <<waiting, running, finished, output, cancelled, admitted, cur, verify_L,
                     logits, confirmed, context, block_table>>
  BY DEF ProposeDraft, vars, queueVars, DraftRaises
<1>r. PICK r \in Caches : r = Proposing
  BY <1>1, ProposeRow
<1>2. PICK t \in Seq(Token) : t = x /\ d_context[r] \o t = Prompt[r] \o output[r] \o drafting
  BY <1>1, <1>r, DraftedFrom
<1>3. /\ drafting \in Seq(Token) /\ Len(drafting) \in Nat /\ Len(drafting) <= K[r] /\ K[r] \in Nat
      /\ Proposer[r] = "draft"
  BY <1>1, <1>r, ProposeRow, RequestTypes DEF Drafting
<1>4. CASE DraftRaises(r, t) /\ UNCHANGED <<drafting, proposals>>
  <2>1. pc' = "raised"
    BY <1>4 DEF DraftRaises
  <2>. QED
    BY <1>1, <1>4, <2>1, RaisedKeeps DEF Control, SpecTypes
<1>5. ASSUME Draft!Forward(r, t)
      PROVE  /\ d_context'[r] = Prompt[r] \o output[r] \o drafting
             /\ d_context'[r] \in Seq(Token) /\ Len(d_context'[r]) <= MaxSeq
             /\ Draft!Encoded(r)' = d_context'[r]
             /\ \A q \in Caches \ {r} :
                  d_context'[q] = d_context[q] /\ d_block_table'[q] = d_block_table[q]
  BY <1>2, <1>5, DraftFeeds DEF Storage
<1>6. CASE /\ Len(drafting) < K[r] /\ Draft!Forward(r, t) /\ UNCHANGED <<pc, proposals>>
           /\ \E c \in {r} : \E g \in Guesses(c, Draft!Encoded(c)') : drafting' = Append(drafting, g)
  <2>1. PICK g \in Guesses(r, Draft!Encoded(r)') : drafting' = Append(drafting, g)
    BY <1>6
  <2>2. Guesses(r, d_context'[r]) \subseteq Token
    <3>1. PICK h \in Seq(Token) : h = d_context'[r] /\ Len(h) <= MaxSeq
      BY <1>5, <1>6
    <3>. QED
      BY <3>1, TokensPicked
  <2>3. g \in Token
    BY <1>5, <1>6, <2>1, <2>2
  <2>. QED
    BY <1>1, <1>r, <1>5, <1>6, <2>1, <2>3, DraftedKeeps
<1>7. CASE /\ Len(drafting) = K[r] /\ Draft!Forward(r, t) /\ Proposed(drafting)
  <2>1. PICK f \in Seq(Token) : f = drafting
    BY <1>3
  <2>2. Len(f) <= K[r] /\ Proposed(f) /\ d_context'[r] = Prompt[r] \o output[r] \o f
    BY <1>3, <1>5, <1>7, <2>1
  <2>. QED
    BY <1>1, <1>r, <1>5, <1>7, <2>2, ProposedKeeps
<1>8. \/ /\ Len(drafting) < K[r] /\ Draft!Forward(r, t) /\ UNCHANGED <<pc, proposals>>
         /\ \E c \in {r} : \E g \in Guesses(c, Draft!Encoded(c)') : drafting' = Append(drafting, g)
      \/ Len(drafting) = K[r] /\ Draft!Forward(r, t) /\ Proposed(drafting)
      \/ DraftRaises(r, t) /\ UNCHANGED <<drafting, proposals>>
  BY <1>r, <1>2 DEF ProposeDraft
<1>. QED
  BY <1>4, <1>6, <1>7, <1>8

LEMMA PrefixBehind ==
  ASSUME NEW s \in Seq(Token), NEW t \in Seq(Token), NEW n \in 0 .. Len(t)
  PROVE  SubSeq(s \o t, 1, Len(s) + n) = s \o SubSeq(t, 1, n)
BY CutConcat

(* What a verify writes, and what its rows attend to. *)
LEMMA VerifyFeeds ==
  ASSUME Storage, Control, IInv', ReadsBack', pc = "verify",
         NEW r \in Caches, r = running[Len(logits) + 1],
         NEW x \in Seq(Token), x = proposals[Len(logits) + 1],
         Forward(r, cur[r] \o x), verify_L' = [verify_L EXCEPT ![r] = length[r]]
  PROVE  /\ context'[r] = Prompt[r] \o output[r] \o x
         /\ verify_L' \in [Caches -> Nat]
         /\ verify_L'[r] + 1 = Len(Prompt[r]) + Len(output[r])
         /\ Rows(r)' \in Seq(Seq(Token)) /\ Len(Rows(r)') = Len(x) + 1
         /\ \A i \in 1 .. Len(x) + 1 : Rows(r)'[i] = Prompt[r] \o output[r] \o SubSeq(x, 1, i - 1)
         /\ \A q \in Caches \ {r} : context'[q] = context[q] /\ block_table'[q] = block_table[q]
<1>p. PICK p \in Seq(Token) : p = Prompt[r] \o output[r]
  <2>1. Prompt[r] \in Seq(Token) /\ output[r] \in Seq(Token)
    BY RequestTypes DEF Control, SpecTypes
  <2>. QED
    BY <2>1, ConcatSeq
<1>y. PICK y \in Seq(Token) : y = p \o x
  BY ConcatSeq, Zenon
<1>1. InBatch(r) /\ ProposedFor(r, x)
  BY VerifyRow
<1>2. /\ context'[r] = y
      /\ \A q \in Caches \ {r} : context'[q] = context[q] /\ block_table'[q] = block_table[q]
  <2>1. PICK b \in Seq(Token) : b = cur[r] \o x /\ context[r] \o b = Prompt[r] \o output[r] \o x
    BY VerifiedBlock
  <2>2. /\ context'[r] = context[r] \o b
        /\ \A q \in Caches \ {r} : context'[q] = context[q] /\ block_table'[q] = block_table[q]
    BY <2>1, ForwardFeeds DEF Storage
  <2>. QED
    BY <1>p, <1>y, <2>1, <2>2
<1>3. verify_L'[r] = length[r] /\ verify_L' \in [Caches -> Nat] /\ length[r] = Len(context[r])
      /\ length[r] \in Nat
  <2>1. verify_L \in [Caches -> Nat]
    BY DEF Control, SpecTypes
  <2>2. length[r] \in 0 .. MaxSeq /\ length[r] = Len(context[r])
    BY DEF Storage, IInv, TypeOK, KVExact
  <2>3. length[r] \in Nat
    BY <2>2, CacheAssumption
  <2>. QED
    BY <2>1, <2>2, <2>3
<1>4. length[r] + 1 = Len(Prompt[r]) + Len(output[r]) /\ Len(p) = Len(Prompt[r]) + Len(output[r])
  <2>1. /\ context[r] = Prompt[r] \o Front(output[r])
        /\ Prompt[r] \in Seq(Token) /\ output[r] \in Seq(Token) /\ Front(output[r]) \in Seq(Token)
        /\ Len(Front(output[r])) = Len(output[r]) - 1 /\ Len(output[r]) \in Nat
        /\ Len(Prompt[r]) \in Nat
    BY <1>1, RequestTypes, BatchTypes DEF ProposedFor
  <2>2. \A s, t \in Seq(Token) : Len(s \o t) = Len(s) + Len(t)
    BY ConcatSeq
  <2>3. /\ Len(Prompt[r] \o Front(output[r])) = Len(Prompt[r]) + Len(Front(output[r]))
        /\ Len(Prompt[r] \o output[r]) = Len(Prompt[r]) + Len(output[r])
    BY <2>1, <2>2, Zenon
  <2>. QED
    BY <1>3, <1>p, <2>1, <2>3
<1>5. /\ length'[r] = Len(y)
      /\ \A n \in 0 .. length'[r] - 1 : SlotAt(block_table[r], n)' = SubSeq(y, 1, n + 1)
  BY <1>2 DEF IInv, KVExact
<1>6. Len(y) = Len(p) + Len(x) /\ Len(p) \in Nat /\ Len(x) \in Nat
  BY <1>y, ConcatSeq
<1>v. PICK v \in Nat : v = verify_L'[r] /\ v + 1 = Len(p)
  BY <1>3, <1>4
<1>l. PICK l \in Nat : l = length'[r] /\ l - v = Len(x) + 1
  <2>1. PICK n \in Nat : n = Len(p)
    BY <1>6
  <2>2. PICK j \in Nat : j = Len(x)
    BY <1>6
  <2>3. length'[r] = n + j /\ v + 1 = n
    BY <1>5, <1>6, <1>v, <2>1, <2>2
  <2>4. n + j \in Nat /\ (n + j) - v = j + 1
    BY <2>3
  <2>. QED
    BY <2>2, <2>3, <2>4
<1>7. Rows(r)' = [i \in 1 .. l - v |-> SlotAt(block_table[r], v + i - 1)']
  BY <1>v, <1>l DEF Rows
<1>8. ASSUME NEW i \in 1 .. l - v
      PROVE  /\ SlotAt(block_table[r], v + i - 1)' = p \o SubSeq(x, 1, i - 1)
             /\ p \o SubSeq(x, 1, i - 1) \in Seq(Token)
  <2>n. PICK n \in 0 .. Len(x) : n = i - 1
    BY <1>l, <1>6
  <2>1. v + i - 1 \in 0 .. l - 1 /\ v + i - 1 + 1 = Len(p) + n
    <3>1. PICK a \in Nat : a = Len(p)
      BY <1>6
    <3>2. i - 1 = n /\ v + 1 = a /\ n \in Nat /\ i <= l - v
      BY <1>6, <1>v, <2>n, <3>1
    <3>3. v + i - 1 \in 0 .. l - 1 /\ v + i - 1 + 1 = a + n
      BY <3>2
    <3>. QED
      BY <3>1, <3>3
  <2>2. SlotAt(block_table[r], v + i - 1)' = SubSeq(y, 1, Len(p) + n)
    BY <1>5, <1>l, <2>1
  <2>3. SubSeq(y, 1, Len(p) + n) = p \o SubSeq(x, 1, n)
    BY <1>y, PrefixBehind
  <2>4. SubSeq(x, 1, n) \in Seq(Token)
    BY PrefixElements
  <2>5. p \o SubSeq(x, 1, n) \in Seq(Token)
    BY <2>4, ConcatSeq
  <2>. QED
    BY <2>n, <2>2, <2>3, <2>5
<1>9. Rows(r)' = [i \in 1 .. Len(x) + 1 |-> p \o SubSeq(x, 1, i - 1)]
  BY <1>7, <1>8, <1>l
<1>10. \A i \in 1 .. Len(x) + 1 : p \o SubSeq(x, 1, i - 1) \in Seq(Token)
  BY <1>8, <1>l
<1>h. PICK h \in Seq(Seq(Token)) : h = Rows(r)' /\ Len(h) = Len(x) + 1
  <2>1. Len(x) + 1 \in Nat
    BY <1>6
  <2>2. Rows(r)' \in [1 .. Len(x) + 1 -> Seq(Token)]
    BY <1>9, <1>10
  <2>3. Rows(r)' \in Seq(Seq(Token)) /\ Len(Rows(r)') = Len(x) + 1
    <3>1. PICK m \in Nat : m = Len(x) + 1
      BY <2>1
    <3>2. PICK g \in [1 .. m -> Seq(Token)] : g = Rows(r)'
      BY <2>2, <3>1
    <3>3. g \in Seq(Seq(Token)) /\ Len(g) = m
      BY <3>1, <3>2
    <3>. QED
      BY <3>1, <3>2, <3>3
  <2>. QED
    BY <2>3
<1>11. \A i \in 1 .. Len(x) + 1 : Rows(r)'[i] = p \o SubSeq(x, 1, i - 1)
  BY <1>9
<1>. QED
  BY <1>p, <1>y, <1>2, <1>3, <1>4, <1>h, <1>11

(* A row is verified. *)
LEMMA VerifiedKeeps ==
  ASSUME Control, pc = "verify", NEW r \in Caches, r = running[Len(logits) + 1],
         NEW x \in Seq(Token), x = proposals[Len(logits) + 1],
         NEW h \in Seq(Seq(Token)), Len(h) = Len(x) + 1,
         \A i \in 1 .. Len(x) + 1 : h[i] = Prompt[r] \o output[r] \o SubSeq(x, 1, i - 1),
         context'[r] = Prompt[r] \o output[r] \o x,
         verify_L' \in [Caches -> Nat], verify_L'[r] + 1 = Len(Prompt[r]) + Len(output[r]),
         \A q \in Caches \ {r} :
           /\ context'[q] = context[q] /\ block_table'[q] = block_table[q]
           /\ verify_L'[q] = verify_L[q],
         logits' = Append(logits, h),
         pc' = IF Len(logits) + 1 = Len(running) THEN "commit" ELSE "verify",
         UNCHANGED <<waiting, running, finished, output, cancelled, admitted, cur, drafting,
                     proposals, confirmed, d_context, d_block_table>>
  PROVE  Control'
<1>n. PICK k \in Nat : k = Len(logits) + 1
  <2>1. Len(logits) \in Nat
    BY DEF Control, SpecTypes
  <2>. QED
    BY <2>1
<1>1. /\ k \in 1 .. Len(running) /\ r = running[k] /\ r \in Range(running) /\ x = proposals[k]
      /\ r \notin DOMAIN finished /\ InBatch(r) /\ ProposedFor(r, x)
  BY <1>n, VerifyRow
<1>2. /\ SpecTypes /\ OnePlace /\ Holds /\ Batch /\ running \in Seq(Caches)
      /\ logits \in Seq(Seq(Seq(Token))) /\ Len(running) \in Nat
      /\ Len(proposals) = Len(running) /\ Len(logits) \in Nat
  <2>1. SpecTypes /\ OnePlace /\ Holds /\ Batch
    BY DEF Control
  <2>2. running \in Seq(Caches) /\ logits \in Seq(Seq(Seq(Token)))
    BY <2>1 DEF SpecTypes
  <2>3. Len(proposals) = Len(running)
    BY <2>1 DEF Holds
  <2>. QED
    BY <2>1, <2>2, <2>3
<1>3. /\ logits' \in Seq(Seq(Seq(Token))) /\ Len(logits') = k /\ logits'[k] = h
      /\ \A i \in 1 .. Len(logits) : logits'[i] = logits[i]
  BY <1>2, <1>n, AppendElements
<1>4. \A j \in 1 .. Len(running) : j # k => Same(running[j])
  <2>1. \A j \in 1 .. Len(running) : j # k => running[j] \in Caches \ {r}
    BY <1>1, <1>2, BatchPosition DEF OnePlace, Distinct
  <2>. QED
    BY <2>1 DEF Same
<1>5. SpecTypes' /\ TargetTokens'
  BY <1>2, <1>3, SameTokens DEF SpecTypes, Places
<1>6. OnePlace' /\ Fresh'
  <2>1. r \in Live
    BY <1>1 DEF Live
  <2>. QED
    BY <2>1, PlaceKept, FreshKept
<1>7. Holds'
  BY <1>1, <1>2, <1>3, <1>n DEF Holds
<1>8. ASSUME NEW j \in 1 .. k PROVE Verified(running[j], proposals[j], logits[j])'
  <2>1. CASE j = k
    <3>1. Drafts(r, Prompt[r] \o output[r] \o x)
      BY <1>1 DEF ProposedFor
    <3>2. Verified(r, x, h)'
      BY <1>1, <3>1 DEF Verified, InBatch, Drafts
    <3>. QED
      BY <1>1, <1>3, <2>1, <3>2
  <2>2. CASE j # k
    <3>1. j \in 1 .. Len(logits) /\ j \in 1 .. Len(running)
      BY <1>1, <1>2, <1>n, <2>2
    <3>2. Verified(running[j], proposals[j], logits[j]) /\ Same(running[j])
      BY <1>2, <1>4, <2>2, <3>1 DEF Batch
    <3>3. logits'[j] = logits[j] /\ proposals'[j] = proposals[j] /\ running'[j] = running[j]
      BY <1>3, <3>1
    <3>. QED
      BY <3>2, <3>3, VerifiedKept
  <2>. QED
    BY <2>1, <2>2
<1>9. ASSUME NEW j \in k + 1 .. Len(running) PROVE ProposedFor(running[j], proposals[j])'
  <2>1. j \in Len(logits) + 1 .. Len(running) /\ j \in 1 .. Len(running) /\ j # k
    BY <1>2, <1>n
  <2>2. ProposedFor(running[j], proposals[j]) /\ Same(running[j])
    BY <1>2, <1>4, <2>1 DEF Batch
  <2>. QED
    BY <2>2, ProposedKept
<1>10. Batch'
  <2>1. CASE k = Len(running)
    <3>1. pc' = "commit" /\ Behind' = 0 /\ Behind' + 1 = 1
      BY <1>2, <1>3, <1>n, <2>1 DEF Behind
    <3>2. Verified(running[1], proposals[1], logits[1])'
      BY <1>1, <1>8
    <3>3. \A i \in 2 .. k : Verified(running[Behind + i], proposals[i], logits[i])'
      <4>1. ASSUME NEW i \in 2 .. k
            PROVE  Verified(running[Behind + i], proposals[i], logits[i])'
        <5>1. i \in 1 .. k /\ Behind' + i = i
          BY <3>1
        <5>2. Verified(running[i], proposals[i], logits[i])'
          BY <1>8, <5>1
        <5>. QED
          BY <5>1, <5>2
      <4>. QED
        BY <4>1
    <3>4. Verified(running[Behind + 1], proposals[1], logits[1])'
      BY <3>1, <3>2
    <3>. QED
      BY <1>3, <3>1, <3>3, <3>4 DEF Batch
  <2>2. CASE k # Len(running)
    <3>1. pc' = "verify" /\ running' = running
      BY <1>n, <2>2
    <3>. QED
      BY <1>3, <1>8, <1>9, <3>1 DEF Batch
  <2>. QED
    BY <2>1, <2>2
<1>11. Admission'
  BY DEF Admission
<1>. QED
  BY <1>5, <1>6, <1>7, <1>10, <1>11 DEF Control

LEMMA VerifyKeeps ==
  ASSUME Storage, Control, IInv', ReadsBack', Verify
  PROVE  Control'
<1>1. /\ pc = "verify" /\ d_context' = d_context /\ d_block_table' = d_block_table
      /\ UNCHANGED <<waiting, running, finished, output, cancelled, admitted, cur, drafting,
                     proposals, confirmed>>
  BY DEF Verify, draftVars, queueVars, ForwardRaises
<1>r. PICK r \in Caches : r = running[Len(logits) + 1]
  BY <1>1, VerifyRow
<1>x. PICK x \in Seq(Token) : x = proposals[Len(logits) + 1]
  BY <1>1, VerifyRow
<1>2. verify_L' = [verify_L EXCEPT ![r] = length[r]]
  BY <1>r DEF Verify
<1>3. verify_L' \in [Caches -> Nat] /\ \A q \in Caches \ {r} : verify_L'[q] = verify_L[q]
  <2>1. verify_L \in [Caches -> Nat]
    BY DEF Control, SpecTypes
  <2>2. length[r] \in 0 .. MaxSeq
    BY DEF Storage, IInv, TypeOK
  <2>. QED
    BY <1>2, <2>1, <2>2, CacheAssumption
<1>4. CASE ForwardRaises(r, cur[r] \o x) /\ UNCHANGED logits
  <2>1. pc' = "raised"
    BY <1>4 DEF ForwardRaises
  <2>. QED
    BY <1>1, <1>3, <1>4, <2>1, RaisedKeeps
<1>5. CASE /\ Forward(r, cur[r] \o x) /\ logits' = Append(logits, Rows(r)')
           /\ pc' = IF Len(logits) + 1 = Len(running) THEN "commit" ELSE "verify"
  <2>1. /\ context'[r] = Prompt[r] \o output[r] \o x
        /\ verify_L'[r] + 1 = Len(Prompt[r]) + Len(output[r])
        /\ Rows(r)' \in Seq(Seq(Token)) /\ Len(Rows(r)') = Len(x) + 1
        /\ \A i \in 1 .. Len(x) + 1 : Rows(r)'[i] = Prompt[r] \o output[r] \o SubSeq(x, 1, i - 1)
        /\ \A q \in Caches \ {r} : context'[q] = context[q] /\ block_table'[q] = block_table[q]
    BY <1>1, <1>r, <1>x, <1>2, <1>5, VerifyFeeds
  <2>h. PICK h \in Seq(Seq(Token)) : h = Rows(r)'
    BY <2>1
  <2>. QED
    BY <1>1, <1>r, <1>x, <1>3, <1>5, <2>1, <2>h, VerifiedKeeps
<1>. QED
  BY <1>r, <1>x, <1>4, <1>5 DEF Verify

(* An accepted prefix and the token behind it. *)
LEMMA AcceptedPrefix ==
  ASSUME NEW s \in Seq(Token), NEW a \in 0 .. Len(s), NEW t \in Token,
         NEW x, x = Append(SubSeq(s, 1, a), t)
  PROVE  /\ x \in Seq(Token) /\ x # <<>> /\ Len(x) = a + 1 /\ Front(x) = SubSeq(s, 1, a)
         /\ x[a + 1] = t /\ \A i \in 1 .. a : x[i] = s[i]
         /\ \A m \in 0 .. a : SubSeq(x, 1, m) = SubSeq(s, 1, m)
<1>u. PICK u \in Seq(Token) : u = SubSeq(s, 1, a) /\ Len(u) = a /\ \A i \in 1 .. a : u[i] = s[i]
  BY PrefixElements
<1>0. x = Append(u, t) /\ a \in Nat
  BY <1>u
<1>1. /\ x \in Seq(Token) /\ Len(x) = a + 1 /\ x[a + 1] = t /\ \A i \in 1 .. a : x[i] = u[i]
      /\ x # <<>> /\ Front(x) = u
  <2>1. /\ Append(u, t) \in Seq(Token) /\ Len(Append(u, t)) = Len(u) + 1
        /\ Append(u, t)[Len(u) + 1] = t
        /\ \A i \in 1 .. Len(u) : Append(u, t)[i] = u[i]
    BY AppendElements
  <2>2. Append(u, t) # <<>> /\ Front(Append(u, t)) = u
    BY AppendFront
  <2>3. Len(u) = a
    BY <1>u
  <2>. QED
    BY <1>0, <2>1, <2>2, <2>3, Zenon
<1>2. ASSUME NEW m \in 0 .. a PROVE SubSeq(x, 1, m) = SubSeq(s, 1, m)
  <2>v. PICK v \in Seq(Token) : v = <<t>>
    <3>1. <<t>> \in Seq(Token)
      OBVIOUS
    <3>. QED
      BY <3>1
  <2>1. x = u \o v
    BY <1>u, <2>v
  <2>2. m \in 0 .. Len(u)
    BY <1>u
  <2>3. SubSeq(u \o v, 1, m) = SubSeq(u, 1, m)
    BY <2>2, CutConcat
  <2>4. SubSeq(SubSeq(s, 1, a), 1, m) = SubSeq(s, 1, m)
    BY PrefixOfPrefix
  <2>. QED
    BY <1>u, <2>1, <2>3, <2>4
<1>. QED
  BY <1>u, <1>1, <1>2

(* What is accepted of a verified proposal are tokens the target picks. *)
LEMMA AcceptedPicked ==
  ASSUME NEW r \in Caches, NEW s \in Seq(Token), NEW h, Verified(r, s, h),
         NEW a \in 0 .. Len(s), NEW t \in Token, Accepts(r, s, h, a, t),
         NEW x, x = Append(SubSeq(s, 1, a), t)
  PROVE  TargetPicks(r, x)
<1>. DEFINE base == Prompt[r] \o output[r]
<1>1. /\ Len(x) = a + 1 /\ x[a + 1] = t /\ \A i \in 1 .. a : x[i] = s[i]
      /\ \A m \in 0 .. a : SubSeq(x, 1, m) = SubSeq(s, 1, m)
  BY AcceptedPrefix
<1>2. Len(h) = Len(s) + 1 /\ \A i \in 1 .. Len(h) : h[i] = base \o SubSeq(s, 1, i - 1)
  BY DEF Verified
<1>3. /\ \A i \in 1 .. a : s[i] \in Picks(r, h[i])
      /\ t \in Picks(r, h[a + 1])
  BY DEF Accepts
<1>. HIDE DEF base
<1>4. ASSUME NEW i \in 1 .. Len(x) PROVE x[i] \in Picks(r, base \o SubSeq(x, 1, i - 1))
  <2>1. i \in 1 .. a + 1 /\ i - 1 \in 0 .. a /\ i \in 1 .. Len(h)
    BY <1>1, <1>2
  <2>2. h[i] = base \o SubSeq(x, 1, i - 1)
    <3>1. PICK m \in 0 .. a : m = i - 1
      BY <2>1
    <3>2. SubSeq(x, 1, m) = SubSeq(s, 1, m)
      BY <1>1
    <3>3. h[i] = base \o SubSeq(s, 1, m)
      BY <1>2, <2>1, <3>1
    <3>. QED
      BY <3>1, <3>2, <3>3
  <2>3. CASE i = a + 1
    BY <1>1, <1>3, <2>2, <2>3
  <2>4. CASE i # a + 1
    <3>1. i \in 1 .. a
      BY <2>1, <2>4
    <3>. QED
      BY <1>1, <1>3, <2>2, <3>1
  <2>. QED
    BY <2>3, <2>4
<1>. QED
  BY <1>4 DEF TargetPicks, base

LEMMA CommitKeeps == ASSUME Storage, Control, Commit PROVE Control'
<1>1. /\ pc = "commit" /\ pc' = "accept"
      /\ UNCHANGED <<waiting, running, finished, output, cancelled, cur, verify_L, drafting,
                     proposals, logits, admitted>>
  BY DEF Commit, queueVars
<1>r. PICK r \in Caches : r = Committing
  BY <1>1, CommitRow
<1>s. PICK s \in Seq(Token) : s = Head(proposals)
  BY <1>1, CommitRow
<1>a. PICK a \in 0 .. Len(s), t \in Token :
        /\ Accepts(r, s, Head(logits), a, t)
        /\ Truncate(r, Keep(r, a))
        /\ RollbackDraft(r, Keep(r, a))
        /\ confirmed' = Append(SubSeq(s, 1, a), t)
  BY <1>r, <1>s DEF Commit
<1>n. PICK k \in Nat : k = Behind + 1
  <2>1. Len(running) - Len(logits) + 1 \in 1 .. Len(running)
    BY <1>1, CommitRow
  <2>. QED
    BY <2>1 DEF Behind
<1>2. /\ k \in 1 .. Len(running) /\ r = running[k] /\ r \in Range(running)
      /\ r \notin DOMAIN finished /\ InBatch(r) /\ Verified(r, s, Head(logits))
  <2>1. k = Len(running) - Len(logits) + 1
    BY <1>n, <1>1, CommitRow
  <2>. QED
    BY <1>1, <1>r, <1>s, <2>1, CommitRow
<1>3. SpecTypes /\ OnePlace /\ Holds /\ Batch /\ running \in Seq(Caches) /\ Len(running) \in Nat
  BY <1>1 DEF Control, SpecTypes
<1>x. PICK x \in Seq(Token) :
        x = Append(SubSeq(s, 1, a), t) /\ x # <<>> /\ Front(x) = SubSeq(s, 1, a)
  BY AcceptedPrefix
<1>4. TargetPicks(r, x)
  BY <1>2, <1>a, <1>x, AcceptedPicked
(* Both caches are cut back to the token fed and what was accepted. *)
<1>p. PICK p \in Seq(Token) : p = Prompt[r] \o output[r]
  <2>1. Prompt[r] \in Seq(Token) /\ output[r] \in Seq(Token)
    BY <1>3, RequestTypes DEF SpecTypes
  <2>. QED
    BY <2>1, ConcatSeq
<1>5. context[r] = p \o s /\ Drafts(r, p \o s) /\ Keep(r, a) = Len(p) + a
  <2>1. /\ context[r] = Prompt[r] \o output[r] \o s /\ Drafts(r, context[r])
        /\ verify_L[r] + 1 = Len(Prompt[r]) + Len(output[r])
    BY <1>2 DEF Verified
  <2>2. Len(p) = Len(Prompt[r]) + Len(output[r])
    <3>1. \A u, v \in Seq(Token) : Len(u \o v) = Len(u) + Len(v)
      BY ConcatSeq
    <3>2. Prompt[r] \in Seq(Token) /\ output[r] \in Seq(Token)
      BY <1>3, RequestTypes DEF SpecTypes
    <3>. QED
      BY <1>p, <3>1, <3>2, Zenon
  <2>3. PICK v \in Nat : v = verify_L[r]
    BY <1>3 DEF SpecTypes
  <2>4. PICK l \in Nat : l = Len(p)
    OBVIOUS
  <2>5. v + 1 = l
    BY <2>1, <2>2, <2>3, <2>4
  <2>6. a \in Int /\ v + a + 1 = l + a
    BY <2>5
  <2>. QED
    BY <1>p, <2>1, <2>3, <2>4, <2>6 DEF Keep
<1>6. SubSeq(p \o s, 1, Len(p) + a) = p \o Front(x)
  <2>1. SubSeq(p \o s, 1, Len(p) + a) = p \o SubSeq(s, 1, a)
    BY PrefixBehind
  <2>. QED
    BY <1>x, <2>1, Zenon
<1>7. /\ context'[r] = p \o Front(x)
      /\ \A q \in Caches \ {r} : context'[q] = context[q] /\ block_table'[q] = block_table[q]
  BY <1>a, <1>5, <1>6, TruncateCuts DEF Storage
<1>8. /\ Proposer[r] = "draft" => d_context'[r] = p \o Front(x)
      /\ \A q \in Caches \ {r} :
           d_context'[q] = d_context[q] /\ d_block_table'[q] = d_block_table[q]
  <2>1. CASE Proposer[r] = "draft"
    <3>1. Draft!Truncate(r, Keep(r, a)) /\ d_context[r] = p \o s
      BY <1>a, <1>5, <2>1 DEF RollbackDraft, Drafts
    <3>2. /\ d_context'[r] = SubSeq(d_context[r], 1, Keep(r, a))
          /\ \A q \in Caches \ {r} :
               d_context'[q] = d_context[q] /\ d_block_table'[q] = d_block_table[q]
      BY <3>1, DraftTruncate DEF Storage
    <3>. QED
      BY <1>5, <1>6, <3>1, <3>2
  <2>2. CASE Proposer[r] # "draft"
    BY <1>a, <2>2 DEF RollbackDraft, draftVars
  <2>. QED
    BY <2>1, <2>2
<1>9. Committed(r, confirmed)'
  BY <1>1, <1>2, <1>4, <1>a, <1>p, <1>x, <1>7, <1>8 DEF Committed, InBatch, TargetPicks, Drafts
<1>10. \A j \in 1 .. Len(running) : j # k => Same(running[j])
  <2>1. \A j \in 1 .. Len(running) : j # k => running[j] \in Caches \ {r}
    BY <1>1, <1>2, <1>3, BatchPosition DEF OnePlace, Distinct
  <2>. QED
    BY <1>1, <1>7, <1>8, <2>1 DEF Same
<1>11. SpecTypes' /\ TargetTokens'
  BY <1>1, <1>3, <1>a, <1>x, SameTokens DEF SpecTypes, Places
<1>12. OnePlace' /\ Holds'
  BY <1>1, <1>3 DEF OnePlace, Holds, Behind
<1>13. Fresh'
  <2>1. r \in Live
    BY <1>2 DEF Live
  <2>. QED
    BY <1>1, <1>7, <1>8, <2>1, FreshKept
<1>14. Batch'
  <2>1. Behind' = Behind /\ Len(logits) <= Len(running) /\ Len(logits) \in Nat
    BY <1>1, <1>3 DEF Behind, Holds
  <2>2. ASSUME NEW j \in 1 .. Behind, running[j] \notin DOMAIN finished PROVE Ready(running[j])'
    <3>1. j \in 1 .. Len(running) /\ j # k
      BY <1>3, <1>n, <2>1 DEF Behind
    <3>2. Ready(running[j]) /\ Same(running[j])
      BY <1>1, <1>3, <1>10, <2>2, <3>1 DEF Batch
    <3>. QED
      BY <1>1, <3>2, ReadyKept
  <2>3. ASSUME NEW i \in 2 .. Len(logits)
        PROVE  Verified(running[Behind + i], proposals[i], logits[i])'
    <3>1. PICK j \in 1 .. Len(running) : j = Behind + i /\ j # k
      <4>1. Behind + i \in 1 .. Len(running) /\ Behind + i # k
        BY <1>3, <1>n, <2>1 DEF Behind
      <4>. QED
        BY <4>1
    <3>2. Verified(running[j], proposals[i], logits[i]) /\ Same(running[j])
      BY <1>1, <1>3, <1>10, <3>1 DEF Batch
    <3>3. Verified(running[j], proposals[i], logits[i])'
      BY <1>1, <3>2, VerifiedKept
    <3>. QED
      BY <2>1, <3>1, <3>3
  <2>4. Committed(running[Behind + 1], confirmed)'
    BY <1>1, <1>2, <1>9, <1>n, <2>1
  <2>. QED
    BY <1>1, <2>1, <2>2, <2>3, <2>4 DEF Batch
<1>15. Admission'
  BY <1>1 DEF Admission
<1>. QED
  BY <1>11, <1>12, <1>13, <1>14, <1>15 DEF Control

(* Tokens of the target, none of them the end. *)
PickedBy(r, o) ==
  \A i \in 1 .. Len(o) :
    o[i] \in Picks(r, Prompt[r] \o SubSeq(o, 1, i - 1)) /\ o[i] # EosId[r]

\* x are tokens that the target picks behind o.
PicksBehind(r, o, x) ==
  \A i \in 1 .. Len(x) : x[i] \in Picks(r, Prompt[r] \o o \o SubSeq(x, 1, i - 1))

\* The first m of x do not end the request.
GoesOn(r, x, m) == \A i \in 1 .. m : x[i] # EosId[r]

(* The commit loop comes to the first token that stops the request, or to  *)
(* the last. *)
LEMMA ReachedStop ==
  ASSUME NEW r \in Caches, NEW x \in Seq(Token), x # <<>>, NEW n, n = Reached(r, x)
  PROVE  /\ n \in 1 .. Len(x)
         /\ \A i \in 1 .. n - 1 : ~ Stops(r, x, i)
         /\ ~ Stops(r, x, n) => n = Len(x)
<1>. DEFINE stops == {i \in DOMAIN x : Stops(r, x, i)}
<1>1. n = IF stops = {} THEN Len(x) ELSE Min(stops)
  BY Zenon DEF Reached
<1>l. PICK l \in Nat : l = Len(x) /\ l > 0 /\ DOMAIN x = 1 .. l
  BY EmptySeq, LenProperties
<1>2. CASE stops = {}
  <2>1. n = l /\ \A i \in 1 .. l : ~ Stops(r, x, i)
    BY <1>1, <1>2, <1>l, Zenon
  <2>. QED
    BY <1>l, <2>1
<1>3. CASE stops # {}
  <2>1. stops \in SUBSET (1 .. l) /\ \A i \in 1 .. l : i \in stops <=> Stops(r, x, i)
    BY <1>l
  <2>. HIDE DEF stops
  <2>2. stops \in SUBSET Nat /\ stops \subseteq Int
    BY <2>1
  <2>3. PICK m \in stops : \A y \in stops : m <= y
    BY <1>3, <2>2, LeastNatural
  <2>4. n = m
    <3>1. Min(stops) = m
      BY <2>2, <2>3, MinOf
    <3>. QED
      BY <1>1, <1>3, <3>1
  <2>5. m \in 1 .. l /\ Stops(r, x, m)
    BY <2>1, <2>3
  <2>6. ASSUME NEW i \in 1 .. m - 1 PROVE ~ Stops(r, x, i)
    <3>1. i \in 1 .. l /\ ~ m <= i
      BY <2>5
    <3>. QED
      BY <2>1, <2>3, <3>1
  <2>. QED
    BY <1>l, <2>4, <2>5, <2>6
<1>. QED
  BY <1>2, <1>3

LEMMA Regrouped ==
  ASSUME NEW p \in Seq(Token), NEW o \in Seq(Token), NEW v \in Seq(Token)
  PROVE  (p \o o) \o v = p \o (o \o v)
BY ConcatAssociative

LEMMA LengthBehind ==
  ASSUME NEW o \in Seq(Token), NEW x \in Seq(Token), NEW m \in 0 .. Len(x),
         NEW y, y = o \o SubSeq(x, 1, m)
  PROVE  y \in Seq(Token) /\ Len(y) = Len(o) + m
<1>u. PICK u \in Seq(Token) : u = SubSeq(x, 1, m) /\ Len(u) = m
  BY PrefixElements
<1>. QED
  BY <1>u, ConcatSeq

(* Tokens that the target picks continue such an answer. *)
LEMMA PickedOn ==
  ASSUME NEW r \in Caches, NEW o \in Seq(Token), PickedBy(r, o), NEW x \in Seq(Token),
         PicksBehind(r, o, x), NEW m \in 0 .. Len(x), GoesOn(r, x, m),
         NEW y, y = o \o SubSeq(x, 1, m)
  PROVE  /\ PickedBy(r, y)
         /\ m < Len(x) => x[m + 1] \in Picks(r, Prompt[r] \o y)
<1>p. PICK p \in Seq(Token) : p = Prompt[r]
  BY RequestTypes
<1>u. PICK u \in Seq(Token) : u = SubSeq(x, 1, m) /\ Len(u) = m /\ \A i \in 1 .. m : u[i] = x[i]
  <2>1. /\ SubSeq(x, 1, m) \in Seq(Token) /\ Len(SubSeq(x, 1, m)) = m
        /\ \A i \in 1 .. m : SubSeq(x, 1, m)[i] = x[i]
    BY PrefixElements
  <2>. QED
    BY <2>1, Zenon
<1>l. PICK l \in Nat : l = Len(o)
  BY LenProperties
<1>y. y = o \o u /\ m \in Nat
  BY <1>u
<1>1. /\ y \in Seq(Token) /\ Len(y) = l + m
      /\ \A i \in 1 .. l : y[i] = o[i]
      /\ \A i \in l + 1 .. l + m : y[i] = u[i - l]
  BY <1>y, <1>u, <1>l, ConcatSeq
(* What is behind the first j of them. *)
<1>2. ASSUME NEW j \in 0 .. m, j < Len(x)
      PROVE  x[j + 1] \in Picks(r, Prompt[r] \o SubSeq(y, 1, l + j))
  <2>1. j + 1 \in 1 .. Len(x) /\ j + 1 - 1 = j
    BY <1>2, <1>y
  <2>v. PICK v \in Seq(Token) : v = SubSeq(x, 1, j)
    <3>1. j \in 0 .. Len(x)
      BY <1>2, <1>y
    <3>. QED
      BY <3>1, PrefixElements
  <2>2. x[j + 1] \in Picks(r, p \o o \o v)
    BY <1>p, <2>1, <2>v DEF PicksBehind
  <2>3. (p \o o) \o v = p \o (o \o v)
    BY Regrouped
  <2>4. SubSeq(y, 1, l + j) = o \o v
    <3>1. j \in 0 .. Len(u)
      BY <1>u
    <3>2. SubSeq(o \o u, 1, Len(o) + j) = o \o SubSeq(u, 1, j)
      BY <3>1, PrefixBehind
    <3>3. SubSeq(SubSeq(x, 1, m), 1, j) = SubSeq(x, 1, j)
      BY PrefixOfPrefix
    <3>. QED
      BY <1>y, <1>u, <1>l, <2>v, <3>2, <3>3
  <2>. QED
    BY <1>p, <2>2, <2>3, <2>4, Zenon
<1>3. ASSUME NEW i \in 1 .. Len(y)
      PROVE  y[i] \in Picks(r, Prompt[r] \o SubSeq(y, 1, i - 1)) /\ y[i] # EosId[r]
  <2>1. CASE i <= l
    <3>1. i \in 1 .. l /\ i \in 1 .. Len(o) /\ y[i] = o[i]
      BY <1>1, <1>l, <2>1
    <3>2. SubSeq(y, 1, i - 1) = SubSeq(o, 1, i - 1)
      <4>1. PICK n \in 0 .. Len(o) : n = i - 1
        BY <1>l, <3>1
      <4>2. SubSeq(o \o u, 1, n) = SubSeq(o, 1, n)
        BY CutConcat
      <4>. QED
        BY <1>y, <4>1, <4>2, Zenon
    <3>. QED
      BY <3>1, <3>2 DEF PickedBy
  <2>2. CASE ~ i <= l
    <3>1. PICK j \in 0 .. m : j + l = i - 1 /\ j + 1 \in 1 .. m /\ l + j = i - 1 /\ i - l = j + 1
      <4>j. PICK j \in Int : j = i - 1 - l
        BY <1>1, <1>l
      <4>1. j \in 0 .. m /\ j + l = i - 1 /\ j + 1 \in 1 .. m /\ l + j = i - 1 /\ i - l = j + 1
        BY <1>1, <1>y, <2>2, <4>j
      <4>. QED
        BY <4>1
    <3>2. i \in l + 1 .. l + m /\ j < Len(x)
      BY <1>1, <1>l, <1>y, <2>2, <3>1
    <3>3. y[i] = x[j + 1]
      BY <1>1, <1>u, <3>1, <3>2
    <3>4. x[j + 1] \in Picks(r, Prompt[r] \o SubSeq(y, 1, l + j))
      BY <1>2, <3>2
    <3>5. x[j + 1] # EosId[r]
      BY <3>1 DEF GoesOn
    <3>. QED
      BY <3>1, <3>3, <3>4, <3>5
  <2>. QED
    BY <2>1, <2>2
<1>4. ASSUME m < Len(x) PROVE x[m + 1] \in Picks(r, Prompt[r] \o y)
  <2>1. x[m + 1] \in Picks(r, Prompt[r] \o SubSeq(y, 1, l + m))
    BY <1>2, <1>4, <1>y
  <2>2. SubSeq(y, 1, l + m) = y
    BY <1>1, SubSeqFull
  <2>. QED
    BY <2>1, <2>2
<1>. QED
  BY <1>1, <1>3, <1>4, <1>l DEF PickedBy

\* What is known of the answer y that o becomes with x, emitted up to n.
Outcome(r, o, x, n, y) ==
  /\ y \in Seq(Token) /\ PickedBy(r, y) /\ n \in 1 .. Len(x) /\ x[n] \in Token
  /\ Stops(r, x, n) => Len(y) = MaxTokens[r] \/ EosId[r] \in Picks(r, Prompt[r] \o y)
  /\ ~ Stops(r, x, n) =>
       /\ y # <<>> /\ Len(y) < MaxTokens[r]
       /\ <<x[n]>> = <<Last(y)>> /\ Front(y) = o \o Front(x)

(* What is emitted of tokens that the target picks, and whether the        *)
(* request ends with it. *)
LEMMA EmittedPicked ==
  ASSUME NEW r \in Caches, NEW o \in Seq(Token), o = output[r], PickedBy(r, o),
         Len(o) < MaxTokens[r], NEW x \in Seq(Token), x # <<>>, TargetPicks(r, x),
         NEW n, n = Reached(r, x), NEW y, y = Emitted(r, x)
  PROVE  Outcome(r, o, x, n, y)
<1>1. /\ n \in 1 .. Len(x) /\ (~ Stops(r, x, n) => n = Len(x))
      /\ \A i \in 1 .. n - 1 : ~ Stops(r, x, i)
  BY ReachedStop
<1>l. PICK l \in Nat : l = Len(o)
  BY LenProperties
<1>x. PICK k \in Nat : k = Len(x)
  BY LenProperties
<1>t. PICK t \in Nat : t = MaxTokens[r]
  BY RequestTypes
<1>2. /\ l < t /\ n \in 1 .. k /\ n \in Nat
      /\ \A i : Stops(r, x, i) <=> x[i] = EosId[r] \/ l + i >= t
  BY <1>1, <1>l, <1>x, <1>t DEF Stops
<1>3. \A i \in 1 .. n - 1 : x[i] # EosId[r]
  BY <1>1, <1>2
<1>4. x[n] \in Token
  BY <1>1, ElementOfSeq
<1>5. PicksBehind(r, o, x)
  BY DEF TargetPicks, PicksBehind
<1>e. y = o \o SubSeq(x, 1, IF n > 0 /\ x[n] = EosId[r] THEN n - 1 ELSE n)
  BY Zenon DEF Emitted
<1>6. l + n <= t
  <2>1. CASE n = 1
    BY <1>2, <2>1
  <2>2. CASE n # 1
    <3>1. PICK j \in 1 .. n - 1 : j = n - 1
      BY <1>2, <2>2
    <3>2. ~ l + j >= t
      BY <1>1, <1>2
    <3>. QED
      BY <1>2, <3>1, <3>2
  <2>. QED
    BY <2>1, <2>2
<1>7. CASE x[n] = EosId[r]
  <2>m. PICK m \in 0 .. Len(x) : m = n - 1 /\ m < Len(x) /\ n = m + 1
    BY <1>1, <1>2, <1>x
  <2>1. y = o \o SubSeq(x, 1, m)
    <3>1. (IF n > 0 /\ x[n] = EosId[r] THEN n - 1 ELSE n) = m
      BY <1>2, <1>7, <2>m
    <3>. QED
      BY <1>e, <3>1, Zenon
  <2>g. GoesOn(r, x, m)
    BY <1>3, <2>m DEF GoesOn
  <2>2. y \in Seq(Token) /\ PickedBy(r, y)
    BY <1>5, <2>g, <2>1, PickedOn, LengthBehind
  <2>4. m < Len(x) => x[m + 1] \in Picks(r, Prompt[r] \o y)
    BY <1>5, <2>g, <2>1, PickedOn
  <2>3. Stops(r, x, n)
    BY <1>2, <1>7
  <2>. QED
    BY <1>1, <1>4, <1>7, <2>m, <2>2, <2>3, <2>4 DEF Outcome
<1>8. CASE x[n] # EosId[r]
  <2>m. PICK m \in 0 .. Len(x) : m = n
    BY <1>1, <1>2, <1>x
  <2>1. y = o \o SubSeq(x, 1, m)
    <3>1. (IF n > 0 /\ x[n] = EosId[r] THEN n - 1 ELSE n) = m
      BY <1>2, <1>8, <2>m
    <3>. QED
      BY <1>e, <3>1, Zenon
  <2>2. GoesOn(r, x, m)
    <3>1. \A i \in 1 .. m : i \in 1 .. n - 1 \/ i = n
      BY <1>2, <2>m
    <3>. QED
      BY <1>3, <1>8, <3>1 DEF GoesOn
  <2>3. y \in Seq(Token) /\ Len(y) = Len(o) + m /\ PickedBy(r, y)
    <3>1. y \in Seq(Token) /\ Len(y) = Len(o) + m
      <4>1. \A w : w = o \o SubSeq(x, 1, m) => w \in Seq(Token) /\ Len(w) = Len(o) + m
        BY LengthBehind
      <4>. QED
        BY <2>1, <4>1, Zenon
    <3>2. PickedBy(r, y)
      BY <1>5, <2>1, <2>2, PickedOn
    <3>. QED
      BY <3>1, <3>2
  <2>4. Stops(r, x, n) => Len(y) = MaxTokens[r]
    BY <1>2, <1>6, <1>8, <1>l, <1>t, <2>m, <2>3
  <2>5. ASSUME ~ Stops(r, x, n)
        PROVE  /\ y # <<>> /\ Len(y) < MaxTokens[r]
               /\ <<x[n]>> = <<Last(y)>> /\ Front(y) = o \o Front(x)
    <3>1. m = Len(x) /\ SubSeq(x, 1, m) = x
      BY <1>1, <2>m, <2>5, SubSeqFull
    <3>2. y = o \o x
      BY <2>1, <3>1
    <3>3. o \o x # <<>> /\ Last(o \o x) = Last(x) /\ Front(o \o x) = o \o Front(x)
      BY LastOfConcat
    <3>4. Last(x) = x[n]
      BY <2>m, <3>1 DEF Last
    <3>5. Len(y) < MaxTokens[r]
      BY <1>2, <1>l, <1>t, <2>m, <2>3, <2>5
    <3>. QED
      BY <3>2, <3>3, <3>4, <3>5
  <2>. QED
    BY <1>1, <1>4, <2>3, <2>4, <2>5 DEF Outcome
<1>. QED
  BY <1>7, <1>8

(* An answer that grows, and what it is recorded as if it ends. *)
LEMMA AnswersKept ==
  ASSUME Control, NEW r \in Caches, r \notin DOMAIN finished, NEW y, PickedBy(r, y),
         output' = [output EXCEPT ![r] = y], cancelled' = cancelled,
         \/ /\ finished' = Recorded(r, y)
            /\ Len(y) = MaxTokens[r] \/ EosId[r] \in Picks(r, Prompt[r] \o y)
         \/ finished' = finished
  PROVE  TargetTokens'
<1>1. /\ output'[r] = y /\ \A q \in Caches \ {r} : output'[q] = output[q]
      /\ TargetTokens /\ DOMAIN finished \subseteq Caches
  BY DEF Control, SpecTypes
<1>2. ASSUME NEW q \in Caches
      PROVE  \A i \in 1 .. Len(output'[q]) :
               /\ output'[q][i] \in Picks(q, Prompt[q] \o SubSeq(output'[q], 1, i - 1))
               /\ output'[q][i] # EosId[q]
  <2>1. CASE q = r
    BY <1>1, <2>1 DEF PickedBy
  <2>2. CASE q # r
    BY <1>1, <2>2 DEF TargetTokens
  <2>. QED
    BY <2>1, <2>2
<1>3. ASSUME NEW q \in DOMAIN finished'
      PROVE  /\ finished'[q] = output'[q]
             /\ q \notin cancelled' =>
                  \/ Prompt[q] = <<>>
                  \/ Len(output'[q]) = MaxTokens[q]
                  \/ EosId[q] \in Picks(q, Prompt[q] \o output'[q])
  <2>1. CASE finished' = finished
    <3>1. q \in Caches \ {r} /\ q \in DOMAIN finished
      BY <1>1, <2>1
    <3>. QED
      BY <1>1, <2>1, <3>1 DEF TargetTokens
  <2>2. CASE /\ finished' = Recorded(r, y)
             /\ Len(y) = MaxTokens[r] \/ EosId[r] \in Picks(r, Prompt[r] \o y)
    <3>1. /\ DOMAIN finished' = DOMAIN finished \cup {r} /\ finished'[r] = y
          /\ \A p \in DOMAIN finished \ {r} : finished'[p] = finished[p]
      BY <2>2, RecordedIn
    <3>2. CASE q = r
      BY <1>1, <2>2, <3>1, <3>2
    <3>3. CASE q # r
      <4>1. q \in Caches \ {r} /\ q \in DOMAIN finished \ {r}
        BY <1>1, <3>1, <3>3
      <4>. QED
        BY <1>1, <3>1, <4>1 DEF TargetTokens
    <3>. QED
      BY <3>2, <3>3
  <2>. QED
    BY <2>1, <2>2
<1>. QED
  BY <1>2, <1>3 DEF TargetTokens

(* What an accept records, and what it leaves of the caches. *)
LEMMA EndsOrStays ==
  ASSUME Storage, Control, NEW r \in Caches, r \notin DOMAIN finished, NEW y, NEW d \in BOOLEAN,
         IF d THEN Finish(r, y) ELSE UNCHANGED <<vars, draftVars, finished>>
  PROVE  /\ DOMAIN finished' = DOMAIN finished \cup (IF d THEN {r} ELSE {})
         /\ d => /\ finished' = Recorded(r, y)
                 /\ block_table'[r] = <<>> /\ d_block_table'[r] = <<>>
         /\ ~ d => finished' = finished /\ context'[r] = context[r] /\ d_context'[r] = d_context[r]
         /\ \A q \in Caches \ {r} :
              /\ context'[q] = context[q] /\ block_table'[q] = block_table[q]
              /\ d_context'[q] = d_context[q] /\ d_block_table'[q] = d_block_table[q]
<1>1. CASE d
  <2>1. Finish(r, y) /\ finished' = Recorded(r, y)
    BY <1>1 DEF Finish
  <2>. QED
    BY <1>1, <2>1, FinishIsStorage, RecordedIn
<1>2. CASE ~ d
  BY <1>2 DEF vars, draftVars
<1>. QED
  BY <1>1, <1>2

(* A row whose tokens are emitted is ready for the next step. *)
LEMMA AcceptedIsReady ==
  ASSUME Control, NEW r \in Caches, NEW x \in Seq(Token), Committed(r, x),
         NEW y \in Seq(Token), y # <<>>, Len(y) < MaxTokens[r],
         Front(y) = output[r] \o Front(x),
         output'[r] = y, cur'[r] = <<Last(y)>>,
         context'[r] = context[r], d_context'[r] = d_context[r]
  PROVE  Ready(r)'
<1>1. /\ Prompt[r] # <<>> /\ x # <<>> /\ context[r] = Prompt[r] \o output[r] \o Front(x)
      /\ Drafts(r, context[r])
  BY DEF Committed, InBatch
<1>p. PICK p \in Seq(Token) : p = Prompt[r]
  BY RequestTypes
<1>o. PICK o \in Seq(Token) : o = output[r]
  BY DEF Control, SpecTypes
<1>f. PICK f \in Seq(Token) : f = Front(x)
  BY <1>1, FrontAndLast
<1>2. (p \o o) \o f = p \o (o \o f)
  BY Regrouped
<1>3. context'[r] = Prompt[r] \o Front(output'[r])
  BY <1>1, <1>p, <1>o, <1>f, <1>2, Zenon
<1>4. InBatch(r)'
  BY <1>1 DEF InBatch
<1>. QED
  BY <1>1, <1>3, <1>4 DEF Ready, Drafts

(* The row behind the last accepted one emits its tokens; after the last   *)
(* row the batch loses what is finished. *)
LEMMA AcceptKeeps == ASSUME Storage, Control, Accept PROVE Control'
<1>1. /\ pc = "accept" /\ waiting' = waiting /\ cancelled' = cancelled
      /\ verify_L' = verify_L /\ drafting' = drafting /\ admitted' = admitted
      /\ proposals' = Tail(proposals) /\ logits' = Tail(logits) /\ confirmed' = <<>>
  BY DEF Accept
<1>r. PICK r \in Caches : r = Committing
  BY <1>1, CommitRow
<1>x. PICK x \in Seq(Token) : x = confirmed
  BY DEF Control, SpecTypes
<1>o. PICK o \in Seq(Token) : o = output[r]
  BY DEF Control, SpecTypes
<1>m. PICK m : m = Reached(r, x)
  OBVIOUS
<1>y. PICK y : y = Emitted(r, x)
  OBVIOUS
<1>d. PICK d \in BOOLEAN : d <=> Stops(r, x, m)
  OBVIOUS
<1>k. PICK k \in Nat : k = Behind + 1 /\ Behind = k - 1
  <2>1. Len(running) - Len(logits) + 1 \in 1 .. Len(running)
    BY <1>1, CommitRow
  <2>. QED
    BY <2>1 DEF Behind
<1>2. /\ k \in 1 .. Len(running) /\ r = running[k] /\ r \in Range(running)
      /\ r \notin DOMAIN finished /\ InBatch(r) /\ Committed(r, x)
      /\ proposals # <<>> /\ logits # <<>>
  <2>1. k = Len(running) - Len(logits) + 1
    BY <1>1, <1>k, CommitRow
  <2>. QED
    BY <1>1, <1>r, <1>x, <2>1, CommitRow
<1>3. /\ SpecTypes /\ OnePlace /\ Holds /\ Fresh /\ Batch /\ running \in Seq(Caches)
      /\ TargetTokens /\ Len(running) \in Nat /\ Len(logits) \in 1 .. Len(running)
      /\ Len(proposals) = Len(logits)
  <2>1. /\ SpecTypes /\ OnePlace /\ Holds /\ Fresh /\ Batch /\ TargetTokens
    BY <1>1 DEF Control
  <2>2. running \in Seq(Caches)
    BY <2>1 DEF SpecTypes
  <2>. QED
    BY <1>1, <2>1, <2>2 DEF Holds
<1>4. /\ y \in Seq(Token) /\ PickedBy(r, y) /\ m \in 1 .. Len(x) /\ x[m] \in Token
      /\ d => Len(y) = MaxTokens[r] \/ EosId[r] \in Picks(r, Prompt[r] \o y)
      /\ ~ d => /\ y # <<>> /\ Len(y) < MaxTokens[r]
                /\ <<x[m]>> = <<Last(y)>> /\ Front(y) = o \o Front(x)
  <2>1. PickedBy(r, o) /\ Len(o) < MaxTokens[r] /\ x # <<>> /\ TargetPicks(r, x)
    BY <1>2, <1>3, <1>o DEF TargetTokens, PickedBy, InBatch, Committed
  <2>2. Outcome(r, o, x, m, y)
    BY <1>o, <1>m, <1>y, <2>1, EmittedPicked
  <2>. QED
    BY <1>d, <2>2 DEF Outcome
<1>5. /\ cur' = [cur EXCEPT ![r] = <<x[m]>>] /\ output' = [output EXCEPT ![r] = y]
      /\ IF d THEN Finish(r, y) ELSE UNCHANGED <<vars, draftVars, finished>>
      /\ IF Len(logits) = 1
           THEN running' \in Without(running, DOMAIN finished') /\ pc' = "admit"
           ELSE pc' = "commit" /\ UNCHANGED running
  BY <1>r, <1>x, <1>m, <1>y, <1>d, Zenon DEF Accept
<1>6. /\ output' \in [Caches -> Seq(Token)] /\ output'[r] = y
      /\ cur' \in [Caches -> Seq(Token)] /\ cur'[r] = <<x[m]>>
      /\ \A q \in Caches \ {r} : output'[q] = output[q] /\ cur'[q] = cur[q]
  <2>1. <<x[m]>> \in Seq(Token)
    BY <1>4
  <2>. QED
    BY <1>3, <1>4, <1>5, <2>1 DEF SpecTypes
<1>7. /\ logits' \in Seq(Seq(Seq(Token))) /\ Len(logits') = Len(logits) - 1
      /\ \A i \in 1 .. Len(logits) - 1 : logits'[i] = logits[i + 1]
      /\ proposals' \in Seq(Seq(Token)) /\ Len(proposals') = Len(logits) - 1
      /\ \A i \in 1 .. Len(logits) - 1 : proposals'[i] = proposals[i + 1]
  <2>1. logits \in Seq(Seq(Seq(Token))) /\ proposals \in Seq(Seq(Token))
    BY <1>3 DEF SpecTypes
  <2>2. /\ Tail(logits) \in Seq(Seq(Seq(Token))) /\ Len(Tail(logits)) = Len(logits) - 1
        /\ \A i \in 1 .. Len(logits) - 1 : Tail(logits)[i] = logits[i + 1]
    BY <1>2, <2>1, TailElements
  <2>3. /\ Tail(proposals) \in Seq(Seq(Token)) /\ Len(Tail(proposals)) = Len(proposals) - 1
        /\ \A i \in 1 .. Len(proposals) - 1 : Tail(proposals)[i] = proposals[i + 1]
    BY <1>2, <2>1, TailElements
  <2>. QED
    BY <1>1, <1>3, <2>2, <2>3
<1>. DEFINE fin == DOMAIN finished'
<1>8. /\ fin = DOMAIN finished \cup (IF d THEN {r} ELSE {})
      /\ d => /\ finished' = Recorded(r, y)
              /\ block_table'[r] = <<>> /\ d_block_table'[r] = <<>>
      /\ ~ d => finished' = finished /\ context'[r] = context[r] /\ d_context'[r] = d_context[r]
      /\ \A q \in Caches \ {r} :
           /\ context'[q] = context[q] /\ block_table'[q] = block_table[q]
           /\ d_context'[q] = d_context[q] /\ d_block_table'[q] = d_block_table[q]
  BY <1>2, <1>5, EndsOrStays
<1>9. ~ d => Ready(r)'
  BY <1>2, <1>4, <1>6, <1>8, <1>o, AcceptedIsReady
<1>10. \A j \in 1 .. Len(running) :
         /\ running[j] \in Caches /\ running[j] \in Range(running)
         /\ j # k => running[j] # r
  BY <1>2, <1>3, BatchPosition DEF OnePlace, Distinct
<1>11. \A j \in 1 .. Len(running) : j # k => Same(running[j])
  BY <1>1, <1>6, <1>8, <1>10 DEF Same
(* The batch after the last row. *)
<1>12. ASSUME Len(logits) = 1
       PROVE  /\ running' \in Seq(Caches) /\ Distinct(running') /\ pc' = "admit"
              /\ logits' = <<>> /\ proposals' = <<>>
              /\ Range(running') = Range(running) \ fin
              /\ \A i \in 1 .. Len(running') : \E j \in 1 .. Len(running) : running'[i] = running[j]
              /\ \A i \in 1 .. Len(running') : running'[i] \notin fin
  <2>1. running' \in Without(running, fin) /\ pc' = "admit" /\ Distinct(running)
    BY <1>3, <1>5, <1>12 DEF OnePlace
  <2>2. running' \in Seq(Caches) /\ Distinct(running') /\ Range(running') = Range(running) \ fin
    BY <1>3, <2>1, WithoutLeaves
  <2>3. \A i \in 1 .. Len(running') : running'[i] \in Range(running) \ fin
    BY <2>2, RangeSeq
  <2>4. \A q \in Range(running) : \E j \in 1 .. Len(running) : q = running[j]
    BY <1>3, RangeSeq
  <2>5. logits' = <<>> /\ proposals' = <<>>
    BY <1>7, <1>12, EmptySeq
  <2>. QED
    BY <2>1, <2>2, <2>3, <2>4, <2>5
<1>13. Len(logits) # 1 => pc' = "commit" /\ running' = running
  BY <1>5
<1>. HIDE DEF fin
(* The rows that are done. *)
<1>14. ASSUME NEW j \in 1 .. k, running[j] \notin fin, NEW i, running'[i] = running[j]
       PROVE  Ready(running[i])'
  <2>1. CASE j = k
    <3>1. ~ d /\ running'[i] = r
      BY <1>2, <1>8, <1>14, <2>1
    <3>. QED
      BY <1>9, <3>1
  <2>2. CASE j # k
    <3>1. j \in 1 .. Behind /\ j \in 1 .. Len(running) /\ running[j] \notin DOMAIN finished
      BY <1>2, <1>3, <1>8, <1>14, <1>k, <2>2
    <3>2. Ready(running[j]) /\ Same(running[j])
      BY <1>1, <1>3, <1>11, <2>2, <3>1 DEF Batch
    <3>. QED
      BY <1>14, <3>2, ReadyKept
  <2>. QED
    BY <2>1, <2>2
<1>15. SpecTypes'
  <2>1. running' \in Seq(Caches) /\ pc' \in Places
    BY <1>3, <1>12, <1>13 DEF Places
  <2>2. DOMAIN finished' \subseteq Caches /\ cancelled' \subseteq DOMAIN finished'
    BY <1>1, <1>3, <1>8 DEF SpecTypes, fin
  <2>3. confirmed' \in Seq(Token)
    BY <1>1
  <2>. QED
    BY <1>1, <1>3, <1>6, <1>7, <2>1, <2>2, <2>3 DEF SpecTypes
<1>16. TargetTokens'
  BY <1>1, <1>2, <1>4, <1>5, <1>8, AnswersKept
<1>17. OnePlace'
  <2>1. r \notin Range(waiting) /\ Distinct(waiting) /\ Distinct(running)
        /\ admitted = <<>> /\ Range(admitted) = {}
    BY <1>1, <1>2, <1>3 DEF OnePlace, Holds, Range
  <2>2. CASE Len(logits) = 1
    <3>1. \A q \in Range(waiting) : q \notin Range(running') \cup Range(admitted) \cup fin
      BY <1>3, <1>8, <1>12, <2>1, <2>2 DEF OnePlace
    <3>. QED
      BY <1>1, <1>12, <2>1, <2>2, <3>1 DEF OnePlace, fin
  <2>3. CASE Len(logits) # 1
    <3>1. Behind' = k
      <4>1. Len(logits') = Len(logits) - 1 /\ running' = running
        BY <1>7, <1>13, <2>3
      <4>. QED
        BY <1>3, <1>k, <4>1 DEF Behind
    <3>2. ASSUME NEW j \in 1 .. Len(running), running[j] \in fin PROVE j <= k
      <4>1. CASE running[j] \in DOMAIN finished
        BY <1>3, <1>k, <4>1 DEF OnePlace
      <4>2. CASE running[j] \notin DOMAIN finished
        BY <1>8, <1>10, <3>2, <4>2
      <4>. QED
        BY <4>1, <4>2
    <3>3. running' = running /\ pc' = "commit"
      BY <1>13, <2>3
    <3>4. \A q \in Range(waiting) : q \notin Range(running') \cup Range(admitted) \cup fin
      BY <1>3, <1>8, <2>1, <3>3 DEF OnePlace
    <3>. QED
      BY <1>1, <2>1, <3>1, <3>2, <3>3, <3>4 DEF OnePlace, fin
  <2>. QED
    BY <2>2, <2>3
<1>18. Holds'
  <2>1. CASE Len(logits) = 1
    BY <1>1, <1>3, <1>12, <2>1 DEF Holds
  <2>2. CASE Len(logits) # 1
    BY <1>1, <1>3, <1>7, <1>13, <2>2 DEF Holds
  <2>. QED
    BY <2>1, <2>2
<1>19. Fresh'
  <2>0. Range(admitted) = {} /\ Range(admitted') = {}
    BY <1>1, <1>3 DEF Holds, Range
  <2>1. Range(running) \subseteq Range(running') \cup fin /\ Range(running') \subseteq Range(running)
    BY <1>12, <1>13
  <2>2. ASSUME NEW q \in Caches, q \notin Live'
        PROVE  block_table'[q] = <<>> /\ d_block_table'[q] = <<>>
    <3>1. q \notin Range(running) \ fin
      BY <2>1, <2>2 DEF Live, fin
    <3>2. CASE q = r
      BY <1>2, <1>8, <3>1, <3>2
    <3>3. CASE q # r
      <4>1. q \notin Live
        BY <1>8, <2>0, <3>1, <3>3 DEF Live
      <4>. QED
        BY <1>3, <1>8, <3>3, <4>1 DEF Fresh
    <3>. QED
      BY <3>2, <3>3
  <2>3. ASSUME NEW q \in Caches, q \notin Range(running') \cup fin PROVE output'[q] = <<>>
    <3>1. q \notin Range(running) \cup DOMAIN finished /\ q # r
      BY <1>2, <1>8, <2>1, <2>3
    <3>. QED
      BY <1>3, <1>6, <3>1 DEF Fresh
  <2>. QED
    BY <2>2, <2>3 DEF Fresh, fin
<1>20. Batch'
  <2>1. CASE Len(logits) = 1
    <3>1. ASSUME NEW i \in 1 .. Len(running') PROVE Ready(running[i])'
      <4>1. PICK j \in 1 .. Len(running) : running'[i] = running[j]
        BY <1>12, <2>1
      <4>2. running[j] \notin fin /\ j \in 1 .. k
        <5>1. k = Len(running)
          BY <1>3, <1>k, <2>1 DEF Behind
        <5>. QED
          BY <1>12, <2>1, <4>1, <5>1
      <4>. QED
        BY <1>14, <4>1, <4>2
    <3>. QED
      BY <1>12, <2>1, <3>1 DEF Batch
  <2>2. CASE Len(logits) # 1
    <3>1. running' = running /\ pc' = "commit"
      BY <1>13, <2>2
    <3>n. PICK n \in Nat : n = Len(logits)
      BY <1>3
    <3>2. Behind' = k /\ n \in 2 .. Len(running) /\ Len(logits') = n - 1
          /\ k + n - 1 = Len(running)
      BY <1>3, <1>7, <1>k, <2>2, <3>1, <3>n DEF Behind
    <3>3. ASSUME NEW j \in 1 .. k, running'[j] \notin fin PROVE Ready(running[j])'
      BY <1>14, <3>1, <3>3
    <3>4. ASSUME NEW i \in 1 .. n - 1
          PROVE  Verified(running[k + i], proposals[i], logits[i])'
      <4>1. PICK h \in 2 .. n : h = i + 1
        BY <3>2
      <4>2. PICK j \in 1 .. Len(running) : j = Behind + h /\ j = k + i /\ j # k
        <5>1. k + i \in 1 .. Len(running) /\ Behind + h = k + i /\ k + i # k
          BY <1>3, <1>k, <3>2, <4>1
        <5>. QED
          BY <5>1
      <4>3. Verified(running[j], proposals[h], logits[h]) /\ Same(running[j])
        BY <1>1, <1>3, <1>11, <3>n, <4>1, <4>2 DEF Batch
      <4>4. proposals'[i] = proposals[h] /\ logits'[i] = logits[h]
        BY <1>7, <3>n, <4>1
      <4>5. Verified(running[j], proposals[i], logits[i])'
        BY <3>1, <4>3, <4>4, VerifiedKept
      <4>. QED
        BY <4>2, <4>5
    <3>5. 1 \in 1 .. n - 1 /\ \A i \in 2 .. n - 1 : i \in 1 .. n - 1
      BY <3>2
    <3>. QED
      BY <3>1, <3>2, <3>3, <3>4, <3>5 DEF Batch, fin
  <2>. QED
    BY <2>1, <2>2
<1>21. Admission'
  BY <1>12, <1>13 DEF Admission
<1>. QED
  BY <1>15, <1>16, <1>17, <1>18, <1>19, <1>20, <1>21 DEF Control

(* The first token is a pick after the prompt. *)
LEMMA FirstPicked ==
  ASSUME Storage, Control, pc = "emit", NEW r \in Caches, r = Head(admitted),
         NEW t \in Picks(r, Head(Head(logits)))
  PROVE  t \in Token /\ TargetPicks(r, <<t>>) /\ Prompt[r] # <<>> /\ context[r] = Prompt[r]
         /\ Drafts(r, Prompt[r])
<1>1. r = admitted[1] /\ output[r] = <<>> /\ Prompt[r] \in Seq(Token)
  BY AdmittedRow, RequestTypes
<1>2. /\ Prompt[r] # <<>> /\ context[r] = Prompt[r] /\ Drafts(r, Prompt[r])
      /\ logits = <<<<Prompt[r]>>>>
  BY <1>1 DEF Control, Admission
<1>3. Head(Head(logits)) = Prompt[r]
  BY <1>2
<1>p. PICK p \in Seq(Token) : p = Prompt[r] /\ Len(p) <= MaxSeq
  <2>1. length[r] \in 0 .. MaxSeq /\ length[r] = Len(context[r])
    BY DEF Storage, IInv, TypeOK, KVExact
  <2>2. Len(Prompt[r]) <= MaxSeq
    BY <1>2, <2>1, CacheAssumption
  <2>. QED
    BY <1>1, <2>2
<1>4. t \in Token
  <2>1. Picks(r, p) \subseteq Token
    BY <1>p, TokensPicked
  <2>. QED
    BY <1>3, <1>p, <2>1
<1>5. p \o <<>> \o <<>> = p
  BY ConcatEmptySeq
<1>6. Len(<<t>>) = 1 /\ <<t>>[1] = t /\ SubSeq(<<t>>, 1, 1 - 1) = <<>>
  OBVIOUS
<1>7. ASSUME NEW i \in 1 .. Len(<<t>>)
      PROVE  <<t>>[i] \in Picks(r, Prompt[r] \o output[r] \o SubSeq(<<t>>, 1, i - 1))
  <2>1. i = 1
    BY <1>6
  <2>2. Prompt[r] \o output[r] \o SubSeq(<<t>>, 1, i - 1) = p
    BY <1>1, <1>p, <1>5, <1>6, <2>1, Zenon
  <2>. QED
    BY <1>3, <1>6, <1>p, <2>1, <2>2
<1>. QED
  BY <1>2, <1>4, <1>7 DEF TargetPicks

(* What is emitted of the first token. *)
LEMMA FirstEmitted ==
  ASSUME Control, NEW r \in Caches, output[r] = <<>>, NEW t \in Token,
         TargetPicks(r, <<t>>),
         NEW y, y = IF MaxTokens[r] = 0 THEN <<>> ELSE Emitted(r, <<t>>)
  PROVE  /\ y \in Seq(Token) /\ PickedBy(r, y)
         /\ Stops(r, <<t>>, 1) =>
              Len(y) = MaxTokens[r] \/ EosId[r] \in Picks(r, Prompt[r] \o y)
         /\ ~ Stops(r, <<t>>, 1) =>
              /\ y # <<>> /\ Len(y) < MaxTokens[r]
              /\ <<t>> = <<Last(y)>> /\ Front(y) = <<>>
<1>x. PICK x \in Seq(Token) : x = <<t>> /\ x # <<>> /\ Len(x) = 1 /\ x[1] = t
  <2>1. /\ <<t>> \in Seq(Token) /\ <<t>> # <<>> /\ Len(<<t>>) = 1 /\ <<t>>[1] = t
    OBVIOUS
  <2>. QED
    BY <2>1
<1>e. PICK e \in Seq(Token) : e = <<>> /\ Len(e) = 0 /\ e = output[r]
  <2>1. <<>> \in Seq(Token) /\ Len(<<>>) = 0
    OBVIOUS
  <2>. QED
    BY <2>1, Zenon
<1>m. MaxTokens[r] \in Nat
  BY RequestTypes
<1>p. PickedBy(r, e)
  BY <1>e DEF PickedBy
<1>1. CASE MaxTokens[r] = 0
  <2>1. y = e /\ Len(y) = MaxTokens[r]
    BY <1>1, <1>e
  <2>2. Stops(r, <<t>>, 1)
    BY <1>1, <1>e DEF Stops
  <2>. QED
    BY <1>p, <2>1, <2>2
<1>2. CASE MaxTokens[r] # 0
  <2>1. Len(e) < MaxTokens[r] /\ y = Emitted(r, x) /\ TargetPicks(r, x)
    BY <1>2, <1>e, <1>m, <1>x
  <2>n. PICK n : n = Reached(r, x)
    OBVIOUS
  <2>2. Outcome(r, e, x, n, y)
    BY <1>e, <1>p, <1>x, <2>1, <2>n, EmittedPicked
  <2>3. n = 1
    BY <1>x, <2>2 DEF Outcome
  <2>4. e \o Front(x) = <<>>
    <3>1. Front(x) = <<>>
      BY <1>x DEF Front
    <3>. QED
      BY <1>e, <3>1
  <2>. QED
    BY <1>x, <2>2, <2>3, <2>4 DEF Outcome
<1>. QED
  BY <1>1, <1>2

(* The admitted request emits its first token and joins the batch, unless  *)
(* it ends with it. *)
LEMMA EmitKeeps == ASSUME Storage, Control, Emit PROVE Control'
<1>1. /\ pc = "emit" /\ pc' = "admit" /\ logits' = <<>> /\ admitted' = <<>>
      /\ waiting' = waiting /\ cancelled' = cancelled /\ verify_L' = verify_L
      /\ drafting' = drafting /\ proposals' = proposals /\ confirmed' = confirmed
  BY DEF Emit
<1>r. PICK r \in Caches : r = Head(admitted)
  BY <1>1, AdmittedRow
<1>t. PICK t \in Picks(r, Head(Head(logits))) :
        LET out == IF MaxTokens[r] = 0 THEN <<>> ELSE Emitted(r, <<t>>)
        IN  /\ cur' = [cur EXCEPT ![r] = <<t>>]
            /\ output' = [output EXCEPT ![r] = out]
            /\ IF Stops(r, <<t>>, 1) THEN Finish(r, out) /\ UNCHANGED running
               ELSE /\ running' = Append(running, r)
                    /\ UNCHANGED <<vars, draftVars, finished, reserved, reserved_draft>>
  BY <1>r, Zenon DEF Emit
<1>y. PICK y : y = IF MaxTokens[r] = 0 THEN <<>> ELSE Emitted(r, <<t>>)
  OBVIOUS
<1>d. PICK d \in BOOLEAN : d <=> Stops(r, <<t>>, 1)
  OBVIOUS
<1>2. /\ r \notin Range(running) /\ r \notin DOMAIN finished /\ r \notin Range(waiting)
      /\ Range(admitted) = {r} /\ r = admitted[1] /\ Prompt[r] \in Seq(Token)
      /\ output[r] = <<>>
  BY <1>1, <1>r, AdmittedRow, RequestTypes
<1>3. /\ t \in Token /\ TargetPicks(r, <<t>>) /\ Prompt[r] # <<>> /\ context[r] = Prompt[r]
      /\ Drafts(r, Prompt[r])
  BY <1>1, <1>r, FirstPicked
<1>4. /\ y \in Seq(Token) /\ PickedBy(r, y)
      /\ d => Len(y) = MaxTokens[r] \/ EosId[r] \in Picks(r, Prompt[r] \o y)
      /\ ~ d => /\ y # <<>> /\ Len(y) < MaxTokens[r]
                /\ <<t>> = <<Last(y)>> /\ Front(y) = <<>>
  <2>1. /\ y \in Seq(Token) /\ PickedBy(r, y)
        /\ Stops(r, <<t>>, 1) =>
             Len(y) = MaxTokens[r] \/ EosId[r] \in Picks(r, Prompt[r] \o y)
        /\ ~ Stops(r, <<t>>, 1) =>
             /\ y # <<>> /\ Len(y) < MaxTokens[r]
             /\ <<t>> = <<Last(y)>> /\ Front(y) = <<>>
    BY <1>2, <1>3, <1>y, FirstEmitted
  <2>. QED
    BY <1>d, <2>1
<1>5. /\ cur' = [cur EXCEPT ![r] = <<t>>] /\ output' = [output EXCEPT ![r] = y]
      /\ IF d THEN Finish(r, y) ELSE UNCHANGED <<vars, draftVars, finished>>
      /\ running' = IF d THEN running ELSE Append(running, r)
  BY <1>t, <1>y, <1>d, Zenon
<1>6. /\ SpecTypes /\ OnePlace /\ Holds /\ Fresh /\ Batch /\ TargetTokens
      /\ running \in Seq(Caches) /\ Len(running) \in Nat /\ DOMAIN finished \subseteq Caches
      /\ Range(admitted') = {}
  <2>1. SpecTypes /\ OnePlace /\ Holds /\ Fresh /\ Batch /\ TargetTokens
    BY <1>1 DEF Control
  <2>2. running \in Seq(Caches) /\ DOMAIN finished \subseteq Caches
    BY <2>1 DEF SpecTypes
  <2>. QED
    BY <1>1, <2>1, <2>2 DEF Range
<1>7. /\ output' \in [Caches -> Seq(Token)] /\ output'[r] = y
      /\ cur' \in [Caches -> Seq(Token)] /\ cur'[r] = <<t>>
      /\ \A q \in Caches \ {r} : output'[q] = output[q] /\ cur'[q] = cur[q]
  <2>1. <<t>> \in Seq(Token)
    BY <1>3
  <2>. QED
    BY <1>4, <1>5, <1>6, <2>1 DEF SpecTypes
<1>. DEFINE fin == DOMAIN finished'
<1>8. /\ fin = DOMAIN finished \cup (IF d THEN {r} ELSE {})
      /\ d => /\ finished' = Recorded(r, y)
              /\ block_table'[r] = <<>> /\ d_block_table'[r] = <<>>
      /\ ~ d => finished' = finished /\ context'[r] = context[r] /\ d_context'[r] = d_context[r]
      /\ \A q \in Caches \ {r} :
           /\ context'[q] = context[q] /\ block_table'[q] = block_table[q]
           /\ d_context'[q] = d_context[q] /\ d_block_table'[q] = d_block_table[q]
  BY <1>2, <1>5, EndsOrStays
<1>. HIDE DEF fin
<1>9. /\ running' \in Seq(Caches) /\ Len(running') \in Nat
      /\ \A j \in 1 .. Len(running) : running'[j] = running[j]
      /\ Len(running') = IF d THEN Len(running) ELSE Len(running) + 1
      /\ ~ d => running'[Len(running) + 1] = r
      /\ Range(running') = Range(running) \cup (IF d THEN {} ELSE {r})
  <2>1. CASE d
    BY <1>5, <1>6, <2>1
  <2>2. CASE ~ d
    <3>1. running' = Append(running, r)
      BY <1>5, <2>2
    <3>2. /\ Append(running, r) \in Seq(Caches) /\ Len(Append(running, r)) = Len(running) + 1
          /\ Append(running, r)[Len(running) + 1] = r
          /\ \A j \in 1 .. Len(running) : Append(running, r)[j] = running[j]
          /\ Range(Append(running, r)) = Range(running) \cup {r}
      BY <1>6, AppendElements
    <3>3. Len(running) + 1 \in Nat
      BY <1>6
    <3>. QED
      BY <2>2, <3>1, <3>2, <3>3
  <2>. QED
    BY <2>1, <2>2
<1>10. \A j \in 1 .. Len(running) :
         /\ running[j] \in Caches \ {r} /\ running[j] \notin DOMAIN finished
         /\ running[j] \notin fin /\ Same(running[j])
  <2>1. \A j \in 1 .. Len(running) : running[j] \in Caches \ {r}
    BY <1>2, <1>6, BatchPosition
  <2>2. \A j \in 1 .. Len(running) : running[j] \notin DOMAIN finished
    BY <1>1, <1>6 DEF OnePlace
  <2>3. \A j \in 1 .. Len(running) : running[j] \notin fin
    BY <1>8, <2>1, <2>2
  <2>4. \A j \in 1 .. Len(running) : Same(running[j])
    BY <1>1, <1>7, <1>8, <2>1 DEF Same
  <2>. QED
    BY <2>1, <2>2, <2>3, <2>4
<1>11. ~ d => Ready(r)'
  <2>1. SUFFICES ASSUME ~ d PROVE Ready(r)'
    OBVIOUS
  <2>2. InBatch(r)'
    BY <1>3, <1>4, <1>7, <2>1 DEF InBatch
  <2>3. Prompt[r] \o <<>> = Prompt[r]
    BY <1>2, ConcatEmptySeq
  <2>4. context'[r] = Prompt[r] \o Front(output'[r])
    BY <1>3, <1>4, <1>7, <1>8, <2>1, <2>3, Zenon
  <2>5. Drafts(r, context[r])'
    BY <1>3, <1>8, <2>1 DEF Drafts
  <2>. QED
    BY <2>2, <2>4, <2>5 DEF Ready
<1>12. SpecTypes'
  <2>1. DOMAIN finished' \subseteq Caches /\ cancelled' \subseteq DOMAIN finished'
    BY <1>1, <1>6, <1>8 DEF SpecTypes, fin
  <2>2. logits' \in Seq(Seq(Seq(Token))) /\ admitted' \in Seq(Caches) /\ pc' \in Places
    BY <1>1 DEF Places
  <2>. QED
    BY <1>1, <1>6, <1>7, <1>9, <2>1, <2>2 DEF SpecTypes
<1>13. TargetTokens'
  BY <1>1, <1>2, <1>4, <1>5, <1>8, AnswersKept
<1>14. OnePlace'
  <2>1. Distinct(running)'
    <3>1. Distinct(running)
      BY <1>6 DEF OnePlace
    <3>. QED
      BY <1>6, <1>9, <1>10, <3>1 DEF Distinct
  <2>2. ASSUME NEW j \in 1 .. Len(running') PROVE running'[j] \notin fin
    <3>1. CASE j \in 1 .. Len(running)
      BY <1>9, <1>10, <3>1
    <3>2. CASE j \notin 1 .. Len(running)
      <4>1. ~ d /\ running'[j] = r
        BY <1>6, <1>9, <3>2
      <4>. QED
        BY <1>2, <1>8, <4>1
    <3>. QED
      BY <3>1, <3>2
  <2>3. \A q \in Range(waiting) : q \notin Range(running') \cup Range(admitted') \cup fin
    BY <1>2, <1>6, <1>8, <1>9 DEF OnePlace
  <2>4. Distinct(waiting)
    BY <1>6 DEF OnePlace
  <2>. QED
    BY <1>1, <1>6, <2>1, <2>2, <2>3, <2>4 DEF OnePlace, fin
<1>15. Holds' /\ Admission'
  BY <1>1, <1>6 DEF Holds, Admission
<1>16. Fresh'
  <2>1. ASSUME NEW q \in Caches, q \notin Live'
        PROVE  block_table'[q] = <<>> /\ d_block_table'[q] = <<>>
    <3>1. q \notin Range(running') \ fin
      BY <2>1 DEF Live, fin
    <3>2. CASE q = r
      BY <1>2, <1>8, <1>9, <3>1, <3>2
    <3>3. CASE q # r
      <4>1. q \notin Live
        BY <1>2, <1>8, <1>9, <3>1, <3>3 DEF Live
      <4>. QED
        BY <1>6, <1>8, <3>3, <4>1 DEF Fresh
    <3>. QED
      BY <3>2, <3>3
  <2>2. ASSUME NEW q \in Caches, q \notin Range(running') \cup fin PROVE output'[q] = <<>>
    <3>1. q \notin Range(running) \cup DOMAIN finished /\ q # r
      BY <1>8, <1>9, <2>2
    <3>. QED
      BY <1>6, <1>7, <3>1 DEF Fresh
  <2>. QED
    BY <2>1, <2>2 DEF Fresh, fin
<1>17. Batch'
  <2>1. ASSUME NEW j \in 1 .. Len(running') PROVE Ready(running[j])'
    <3>1. CASE j \in 1 .. Len(running)
      <4>1. running'[j] = running[j] /\ Ready(running[j]) /\ Same(running[j])
        BY <1>1, <1>6, <1>9, <1>10, <3>1 DEF Batch
      <4>. QED
        BY <4>1, ReadyKept
    <3>2. CASE j \notin 1 .. Len(running)
      <4>1. ~ d /\ running'[j] = r
        BY <1>6, <1>9, <3>2
      <4>. QED
        BY <1>11, <4>1
    <3>. QED
      BY <3>1, <3>2
  <2>. QED
    BY <1>1, <2>1 DEF Batch
<1>. QED
  BY <1>12, <1>13, <1>14, <1>15, <1>16, <1>17 DEF Control

-----------------------------------------------------------------------------
(* The theorems. *)

LEMMA NextControl ==
  Storage /\ Control /\ IInv' /\ ReadsBack' /\ D!ReadsBack' /\ [SpecSchedNext]_specVars => Control'
<1>. SUFFICES ASSUME Storage, Control, IInv', ReadsBack', D!ReadsBack', [SpecSchedNext]_specVars
              PROVE  Control'
  OBVIOUS
<1>1. CASE UNCHANGED specVars
  BY <1>1, StutterKeeps
<1>2. CASE Step
  BY <1>2, StepBeginKeeps, ProposeLookupKeeps, ProposeDraftKeeps, ProposeNothingKeeps,
     VerifyKeeps, CommitKeeps, AcceptKeeps, AdmitEmptyKeeps, AdmitTooBigKeeps, AdmitHeadKeeps,
     StepEndKeeps, PrimeKeeps, PrefillKeeps, RegisterPromptKeeps, EmitKeeps
     DEF Step
<1>3. CASE \E r \in Caches : Add(r) \/ CancelWaiting(r) \/ CancelRunning(r)
  BY <1>3, AddKeeps, CancelWaitingKeeps, CancelRunningKeeps
<1>4. CASE ClearPrefixCache
  BY <1>4, ClearKeepsControl
<1>. QED
  BY <1>1, <1>2, <1>3, <1>4 DEF SpecSchedNext

LEMMA InitStorage == SpecInit => Storage /\ Init /\ Draft!Init
<1>. SUFFICES ASSUME SpecInit PROVE Storage /\ Init /\ Draft!Init
  OBVIOUS
<1>1. Init /\ Draft!Init /\ D!Init
  BY SameInit DEF SpecInit
<1>2. IInv
  BY <1>1, InitIInv
<1>3. D!IInv
  BY <1>1, DAssumptions, PoolAssumption, CacheAssumption, StoreAssumption, D!InitIInv
     DEF D!InitIInv
<1>4. /\ \A c \in Caches : block_table[c] = <<>> /\ Len(block_table[c]) = 0
      /\ \A c \in Caches : d_block_table[c] = <<>> /\ Len(d_block_table[c]) = 0
  BY <1>1 DEF Init, KVInit, Draft!Init, Draft!KVInit
<1>5. OwnedBehind(PromptLength) /\ D!OwnedBehind(NoPrompt)
  BY <1>4 DEF OwnedBehind, D!OwnedBehind
<1>. QED
  BY <1>1, <1>2, <1>3, <1>5 DEF Storage

LEMMA TwoStores == SpecSchedSpec => [](Storage /\ Control) /\ Spec /\ Draft!Spec
<1>1. SpecInit => Storage /\ Control /\ Init /\ Draft!Init
  BY InitStorage, InitControl
<1>2. (IInv' => ReadsBack') /\ (D!IInv' => D!ReadsBack')
  <2>1. (IInv => ReadsBack)'
    BY ReadBack, PTL
  <2>2. (D!IInv => D!ReadsBack)'
    BY DraftReadBack, PTL
  <2>. QED
    BY <2>1, <2>2
<1>3. Storage /\ Control /\ [SpecSchedNext]_specVars
        => Storage' /\ Control' /\ [Next]_vars /\ [Draft!Next]_(Draft!vars)
  <2>. SUFFICES ASSUME Storage, Control, [SpecSchedNext]_specVars
                PROVE  Storage' /\ Control' /\ [Next]_vars /\ [Draft!Next]_(Draft!vars)
    OBVIOUS
  <2>1. /\ [Next]_vars /\ OwnedBehind(PromptLength)'
        /\ [D!Next]_(D!vars) /\ D!OwnedBehind(NoPrompt)'
    BY StorageStep DEF StorageSteps
  <2>2. IInv'
    BY <2>1, NextIInv DEF Storage
  <2>3. D!IInv'
    BY <2>1, DraftKeeps DEF Storage
  <2>4. Control'
    BY <1>2, <2>2, <2>3, NextControl
  <2>5. [Draft!Next]_(Draft!vars)
    BY <2>1, SameNext
  <2>. QED
    BY <2>1, <2>2, <2>3, <2>4, <2>5 DEF Storage
<1>. QED
  BY <1>1, <1>3, PTL DEF SpecSchedSpec, Spec, Draft!Spec

(* The target's blocks and the draft's are used within the contract of the *)
(* storage layer: every step of step(), add(), cancel() and                *)
(* clear_prefix_cache() is one that the layer allows, on either pool; no   *)
(* rollback of a rejected proposal cuts into a block that is shared.  So   *)
(* all that is proved of the layer holds of both pools. *)
THEOREM SpecSchedulerUsesStorage == SpecSchedSpec => StorageContracts
BY TwoStores, PTL DEF StorageContracts

(* Whatever the proposer guesses, and however requests are batched, every  *)
(* token emitted is one that the target may pick after the tokens before   *)
(* it, EOS is not emitted, and what is not cancelled ends by EOS or its    *)
(* budget (accept_prefix, rejection_accept and the commit loop of step()). *)
THEOREM TokensAreTargets == SpecSchedSpec => []TargetTokens
<1>1. Control => TargetTokens
  BY DEF Control
<1>. QED
  BY <1>1, TwoStores, PTL

(* Between two rounds the target's cache and the draft's hold the same     *)
(* tokens, all but the one that is fed next: however much of a proposal is *)
(* rejected, both are rolled back to the same place. *)
THEOREM CachesInLockStep == SpecSchedSpec => []LockStep
<1>1. Control => LockStep
  <2>. SUFFICES ASSUME Control, NEW r \in Range(running), pc \in {"idle", "admit"}
                PROVE  /\ cur[r] = <<Last(output[r])>>
                       /\ context[r] = Prompt[r] \o Front(output[r])
                       /\ Proposer[r] = "draft" => d_context[r] = context[r]
    BY DEF LockStep
  <2>1. running \in Seq(Caches)
    BY DEF Control, SpecTypes
  <2>2. PICK j \in 1 .. Len(running) : running[j] = r
    BY <2>1, RangeSeq
  <2>3. Ready(r)
    BY <2>2 DEF Control, Batch
  <2>. QED
    BY <2>3 DEF Ready, InBatch, Drafts
<1>. QED
  BY <1>1, TwoStores, PTL
====
