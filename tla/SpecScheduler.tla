---------------------------- MODULE SpecScheduler ----------------------------
(***************************************************************************)
(* The speculative-decoding scheduler (cpp/python/ni/spec_scheduler.py:    *)
(* SpecScheduler, with the proposers and the accept rules of               *)
(* speculative.py) in paged mode.                                          *)
(*                                                                         *)
(* A step drafts up to K tokens for each running sequence, verifies them   *)
(* all with one forward of the target, accepts a prefix of them and one    *)
(* token of the target's own, and rolls the target's and the draft's       *)
(* cache back to what was accepted.  The target's storage is PrefixCache;  *)
(* the draft's is a second one of the same kind over a pool of its own,    *)
(* with no prefix cache.                                                   *)
(*                                                                         *)
(* Sampling is abstracted to the set of tokens of positive probability:    *)
(* one token, the argmax, for a greedy request.                            *)
(***************************************************************************)
EXTENDS PrefixCache, SequencesExt

CONSTANTS
  Prompt,      \* prompt_ids of each request
  MaxTokens,   \* max_tokens of each request
  EosId,       \* eos_id of each request; -1, the default, is no token
  Proposer,    \* proposer of each request: "draft", "lookup", or "none" for one that
               \* the scheduler cannot make: unknown, or a draft without a model
  K,           \* k of each request
  Ngram,       \* ngram of each request
  Picks(_, _),  \* the tokens the target may pick for a request after a history
  Guesses(_, _),  \* the tokens the draft model may propose after a history
  MaxBatch,    \* max_batch
  PrefixSharing,  \* prefix_sharing
  ClearAnyTime \* may clear_prefix_cache() come while sequences run?

ASSUME SpecSchedulerAssumption ==
  /\ \A r \in Caches :
       /\ Prompt[r] \in Prompts
       /\ MaxTokens[r] \in Nat /\ K[r] \in Nat /\ Ngram[r] \in Nat
       /\ Proposer[r] \in {"draft", "lookup", "none"}
  /\ MaxBatch \in Nat \ {0}
  /\ PrefixSharing \in BOOLEAN /\ ClearAnyTime \in BOOLEAN
  /\ \A p \in Prompts : \A i \in 1 .. Len(p) : SubSeq(p, i, Len(p)) \in Chunks
  /\ \A r \in Caches : BoundedSeq(Token, K[r] + 1) \ {<<>>} \subseteq Chunks
  /\ \A r \in Caches : \A h \in BoundedSeq(Token, MaxSeq) :
       Picks(r, h) \cup Guesses(r, h) \subseteq Token

VARIABLES
  d_free_list, d_refcount, d_block_table, d_length, d_slot, d_context, \* the draft's storage
  waiting, running, finished, output,    \* as in Scheduler
  reserved, reserved_draft,              \* blocks reserved in the two pools
  reserved_blocks, reserved_draft_blocks,\* the part of it that is each sequence's
  cur,         \* the token each sequence feeds next, in a sequence; <<>> before the first
  verify_L,    \* the target cache's length before the verify
  pc,          \* where step() is; "idle" between steps, "raised" after an exception
  drafting,    \* the proposal being drafted
  proposals,   \* the proposals of the rows not yet committed
  logits,      \* for each row, the histories its logits come from
  confirmed,   \* the tokens a commit has confirmed and not yet emitted
  admitted,    \* the request between popleft() and the running set
  cancelled    \* the requests that cancel() ended

draftVars == <<d_free_list, d_refcount, d_block_table, d_length, d_slot, d_context>>
queueVars == <<waiting, running, finished, output, cancelled>>
reserveVars == <<reserved, reserved_draft, reserved_blocks, reserved_draft_blocks>>
stepVars == <<cur, verify_L, drafting, proposals, logits, confirmed, admitted>>
specVars == <<vars, draftVars, queueVars, reserveVars, stepVars, pc>>

(* The draft's caches over the draft's pool. *)
Empty == <<>>
Draft == INSTANCE PrefixCache WITH
  free_list <- d_free_list, refcount <- d_refcount, block_table <- d_block_table,
  length <- d_length, slot <- d_slot, context <- d_context, cached <- Empty

SpecInit ==
  /\ Init /\ Draft!KVInit
  /\ waiting = <<>> /\ running = <<>> /\ finished = <<>> /\ cancelled = {}
  /\ output = [r \in Caches |-> <<>>]
  /\ reserved = 0 /\ reserved_blocks = [r \in Caches |-> 0]
  /\ reserved_draft = 0 /\ reserved_draft_blocks = [r \in Caches |-> 0]
  /\ cur = [r \in Caches |-> <<>>] /\ verify_L = [r \in Caches |-> 0]
  /\ drafting = <<>> /\ proposals = <<>> /\ logits = <<>> /\ confirmed = <<>>
  /\ admitted = <<>>
  /\ pc = "idle"

-----------------------------------------------------------------------------
Live == (Range(running) \ DOMAIN finished) \cup Range(admitted)
Known == Range(waiting) \cup Live \cup DOMAIN finished

HasWork == running # <<>> \/ waiting # <<>>

(* The cache's capacity: the prompt, what is emitted, and the tentative    *)
(* tail that a verify writes before it is rolled back.                     *)
Cap(r) == Len(Prompt[r]) + MaxTokens[r] + K[r] + 1

\* Mutation: no room for the tentative tail.
Worst_NoTail(r) == BlocksFor(Len(Prompt[r]) + MaxTokens[r])

Worst(r) == BlocksFor(Cap(r))
DraftWorst(r) == IF Proposer[r] = "draft" THEN Worst(r) ELSE 0

Recorded(r, out) ==
  [q \in DOMAIN finished \cup {r} |-> IF q = r THEN out ELSE finished[q]]

\* Mutation: the target's reservation is kept.
Finish_Reserved(r, out) ==
  /\ finished' = Recorded(r, out)
  /\ reserved_draft' = reserved_draft - reserved_draft_blocks[r]
  /\ Release(r) /\ Draft!Release(r)
  /\ UNCHANGED <<cached, reserved>>

(* _finish: both reservations and both caches go. *)
Finish(r, out) ==
  /\ finished' = Recorded(r, out)
  /\ reserved' = reserved - reserved_blocks[r]
  /\ reserved_draft' = reserved_draft - reserved_draft_blocks[r]
  /\ Release(r) /\ Draft!Release(r)
  /\ UNCHANGED cached

Stops(r, new, i) == new[i] = EosId[r] \/ Len(output[r]) + i >= MaxTokens[r]

(* How many of the confirmed tokens the commit loop comes to ... *)
Reached(r, new) ==
  LET stops == {i \in DOMAIN new : Stops(r, new, i)}
  IN  IF stops = {} THEN Len(new) ELSE Min(stops)

(* ... and the output they make: EOS is not emitted. *)
Emitted(r, new) ==
  LET n == Reached(r, new)
  IN  output[r] \o SubSeq(new, 1, IF n > 0 /\ new[n] = EosId[r] THEN n - 1 ELSE n)

(* prompt_lookup: up to K tokens behind the latest earlier occurrence of   *)
(* the context's last Ngram tokens.                                        *)
Lookup(ctx, ngram, k) ==
  LET at(i) == SubSeq(ctx, i, i + ngram - 1)
      found == {i \in 1 .. Len(ctx) - ngram : at(i) = at(Len(ctx) - ngram + 1)}
  IN  IF ngram < 1 \/ found = {} THEN <<>>
      ELSE LET from == Max(found) + ngram
           IN  SubSeq(ctx, from, Min({from + k - 1, Len(ctx)}))

\* Mutation: the correction is taken from the row behind the rejected token.
Accepts_NextRow(r, d, h, a, t) ==
  /\ \A i \in 1 .. a : d[i] \in Picks(r, h[i])
  /\ t \in Picks(r, h[IF a < Len(d) THEN a + 2 ELSE a + 1])

(* accept_prefix, rejection_accept: the first a tokens of proposal d are   *)
(* accepted and t follows them.  h[i] is the history that the target's     *)
(* i-th row of logits comes from.  A rejected token's correction is        *)
(* another one: the argmax, or a draw from what is left of the target's    *)
(* distribution without it.                                                *)
Accepts(r, d, h, a, t) ==
  /\ \A i \in 1 .. a : d[i] \in Picks(r, h[i])
  /\ t \in Picks(r, h[a + 1])
  /\ a < Len(d) => t # d[a + 1]

(* The histories behind the rows of a verify, as its forward leaves them. *)
Rows(r) ==
  [i \in 1 .. length[r] - verify_L[r] |-> SlotAt(block_table[r], verify_L[r] + i - 1)]

ForwardRaises(r, toks) ==
  /\ \/ length[r] + Len(toks) > MaxSeq /\ UNCHANGED kvVars
     \/ ForwardOutOfBlocks(r, toks)
  /\ pc' = "raised"
  /\ UNCHANGED <<cached, draftVars>>

DraftRaises(r, toks) ==
  /\ \/ d_length[r] + Len(toks) > MaxSeq /\ UNCHANGED draftVars
     \/ Draft!ForwardOutOfBlocks(r, toks)
  /\ pc' = "raised"
  /\ UNCHANGED vars

-----------------------------------------------------------------------------
(* Between two steps. *)
Add(r) ==
  /\ pc = "idle" /\ r \notin Known
  /\ waiting' = Append(waiting, r)
  /\ UNCHANGED <<vars, draftVars, running, finished, output, cancelled, reserveVars,
                 stepVars, pc>>

CancelWaiting(r) ==
  /\ pc = "idle" /\ r \in Range(waiting)
  /\ waiting' \in Without(waiting, {r})
  /\ finished' = Recorded(r, <<>>)
  /\ cancelled' = cancelled \cup {r}
  /\ UNCHANGED <<vars, draftVars, running, output, reserveVars, stepVars, pc>>

CancelRunning(r) ==
  /\ pc = "idle" /\ r \in Range(running)
  /\ Finish(r, output[r])
  /\ running' \in Without(running, DOMAIN finished')
  /\ cancelled' = cancelled \cup {r}
  /\ UNCHANGED <<waiting, output, reserved_blocks, reserved_draft_blocks, stepVars, pc>>

ClearPrefixCache ==
  /\ pc = "idle" /\ cached # <<>>
  /\ ClearAnyTime \/ running = <<>>
  /\ Clear
  /\ UNCHANGED <<draftVars, queueVars, reserveVars, stepVars, pc>>

-----------------------------------------------------------------------------
(* step() *)
StepBegin ==
  /\ pc = "idle" /\ HasWork
  /\ pc' = IF running # <<>> THEN "propose" ELSE "admit"
  /\ UNCHANGED <<vars, draftVars, queueVars, reserveVars, stepVars>>

(* 1. Propose for each row, in order. *)
Proposing == running[Len(proposals) + 1]

Proposed(d) ==
  /\ proposals' = Append(proposals, d)
  /\ pc' = IF Len(proposals) + 1 = Len(running) THEN "verify" ELSE "propose"
  /\ drafting' = <<>>

ProposeLookup ==
  LET r == Proposing
  IN  /\ pc = "propose" /\ Proposer[r] = "lookup"
      /\ Proposed(Lookup(Prompt[r] \o output[r], Ngram[r], K[r]))
      /\ UNCHANGED <<vars, draftVars, queueVars, reserveVars, cur, verify_L, logits,
                     confirmed, admitted>>

(* A draft of the token before, and at the end the last drafted token once *)
(* more, which leaves the draft's cache as long as the target's will be.   *)
ProposeDraft ==
  LET r == Proposing
      x == IF drafting = <<>> THEN cur[r] ELSE <<Last(drafting)>>
  IN  /\ pc = "propose" /\ Proposer[r] = "draft"
      /\ \/ /\ Len(drafting) < K[r]
            /\ Draft!Forward(r, x)
            /\ \E c \in {r} : \E g \in Guesses(c, Draft!Encoded(c)') :
                 drafting' = Append(drafting, g)
            /\ UNCHANGED <<vars, pc, proposals>>
         \/ /\ Len(drafting) = K[r] /\ K[r] > 0
            /\ Draft!Forward(r, x)
            /\ Proposed(drafting)
            /\ UNCHANGED vars
         \/ /\ K[r] > 0
            /\ DraftRaises(r, x)
            /\ UNCHANGED <<drafting, proposals>>
      /\ UNCHANGED <<queueVars, reserveVars, cur, verify_L, logits, confirmed, admitted>>

(* d[-1] of an empty proposal. *)
ProposeNothing ==
  /\ pc = "propose" /\ Proposer[Proposing] = "draft" /\ K[Proposing] = 0
  /\ pc' = "raised"
  /\ UNCHANGED <<vars, draftVars, queueVars, reserveVars, stepVars>>

(* 2. Verify each row's token and proposal with one forward of the target. *)
Verify ==
  LET r     == running[Len(logits) + 1]
      block == cur[r] \o proposals[Len(logits) + 1]
  IN  /\ pc = "verify"
      /\ verify_L' = [verify_L EXCEPT ![r] = length[r]]
      /\ \/ /\ Forward(r, block)
            /\ \E c \in {r} : logits' = Append(logits, Rows(c)')
            /\ pc' = IF Len(logits) + 1 = Len(running) THEN "commit" ELSE "verify"
            /\ UNCHANGED <<cached, draftVars>>
         \/ /\ ForwardRaises(r, block)
            /\ UNCHANGED logits
      /\ UNCHANGED <<queueVars, reserveVars, cur, drafting, proposals, confirmed, admitted>>

(* 3. Commit each row: accept, roll both caches back to the token fed and  *)
(* what was accepted, ...                                                  *)
Committing == running[Len(running) - Len(logits) + 1]

\* Mutation: the rollback counts what was prefilled, and forgets the shared prefix.
Keep_Suffix(r, a) ==
  verify_L[r] + a + 1 - BlockSize * (Worst(r) - reserved_blocks[r])

Keep(r, a) == verify_L[r] + a + 1

\* Mutation: only the target is rolled back.
RollbackDraft_Not(r, keep) == UNCHANGED draftVars

RollbackDraft(r, keep) ==
  IF Proposer[r] = "draft" THEN Draft!Truncate(r, keep) ELSE UNCHANGED draftVars

Commit ==
  LET r == Committing
      d == Head(proposals)
  IN  /\ pc = "commit"
      /\ \E a \in 0 .. Len(d), t \in Token :
           /\ Accepts(r, d, Head(logits), a, t)
           /\ Truncate(r, Keep(r, a)) /\ UNCHANGED cached
           /\ RollbackDraft(r, Keep(r, a))
           /\ confirmed' = Append(SubSeq(d, 1, a), t)
      /\ pc' = "accept"
      /\ UNCHANGED <<queueVars, reserveVars, cur, verify_L, drafting, proposals, logits,
                     admitted>>

(* ... emit; and 4. evict the finished after the last row. *)
Accept ==
  LET r == Committing
      n == Reached(r, confirmed)
      out == Emitted(r, confirmed)
  IN  /\ pc = "accept"
      /\ cur' = [cur EXCEPT ![r] = <<confirmed[n]>>]
      /\ output' = [output EXCEPT ![r] = out]
      /\ IF Stops(r, confirmed, n) THEN Finish(r, out)
         ELSE UNCHANGED <<vars, draftVars, finished, reserved, reserved_draft>>
      /\ proposals' = Tail(proposals) /\ logits' = Tail(logits) /\ confirmed' = <<>>
      /\ IF Len(logits) = 1
           THEN running' \in Without(running, DOMAIN finished') /\ pc' = "admit"
           ELSE pc' = "commit" /\ UNCHANGED running
      /\ UNCHANGED <<waiting, cancelled, reserved_blocks, reserved_draft_blocks, verify_L,
                     drafting, admitted>>

(* 5. Admit from the head of the queue. *)
MayAdmit == pc = "admit" /\ Len(running) < MaxBatch /\ waiting # <<>>

AdmitEmpty ==
  /\ MayAdmit /\ Prompt[Head(waiting)] = <<>>
  /\ waiting' = Tail(waiting)
  /\ finished' = Recorded(Head(waiting), <<>>)
  /\ UNCHANGED <<vars, draftVars, running, output, cancelled, reserveVars, stepVars, pc>>

AdmitTooBig ==
  /\ MayAdmit /\ Prompt[Head(waiting)] # <<>>
  /\ Worst(Head(waiting)) > NumBlocks
  /\ pc' = "raised"
  /\ UNCHANGED <<vars, draftVars, queueVars, reserveVars, stepVars>>

Shares(r, n) == IF PrefixSharing THEN Matches(Prompt[r], n) ELSE n = 0

Fits(r, n) ==
  /\ reserved + Held + Worst(r) - n <= NumBlocks
  /\ reserved_draft + DraftWorst(r) <= NumBlocks

AdmitHead ==
  LET r == Head(waiting)
  IN  /\ MayAdmit
      /\ Prompt[r] # <<>> /\ Worst(r) <= NumBlocks
      /\ \E n \in 0 .. Len(Prompt[r]) :
           /\ Shares(r, n) /\ Fits(r, n)
           /\ IF n > 0 THEN SharePrefix(r, Matched(Prompt[r], n), Key(Prompt[r], n))
                       ELSE UNCHANGED kvVars
           /\ reserved' = reserved + Worst(r) - n
           /\ reserved_blocks' = [reserved_blocks EXCEPT ![r] = Worst(r) - n]
      /\ reserved_draft' = reserved_draft + DraftWorst(r)
      /\ reserved_draft_blocks' = [reserved_draft_blocks EXCEPT ![r] = DraftWorst(r)]
      /\ waiting' = Tail(waiting) /\ admitted' = <<r>>
      /\ pc' = "prime"
      /\ UNCHANGED <<cached, draftVars, running, finished, output, cancelled, cur, verify_L,
                     drafting, proposals, logits, confirmed>>

StepEnd ==
  /\ pc = "admit"
  /\ MayAdmit =>
       LET r == Head(waiting)
       IN  /\ Prompt[r] # <<>> /\ Worst(r) <= NumBlocks
           /\ \E n \in 0 .. Len(Prompt[r]) : Shares(r, n) /\ ~ Fits(r, n)
  /\ pc' = "idle"
  /\ UNCHANGED <<vars, draftVars, queueVars, reserveVars, stepVars>>

(* _make_proposer and the draft's prefill. *)
Prime ==
  LET r == Head(admitted)
  IN  /\ pc = "prime"
      /\ \/ /\ Proposer[r] = "lookup"
            /\ pc' = "prefill" /\ UNCHANGED <<vars, draftVars>>
         \/ /\ Proposer[r] = "none"
            /\ pc' = "raised" /\ UNCHANGED <<vars, draftVars>>
         \/ /\ Proposer[r] = "draft"
            /\ Draft!Forward(r, Prompt[r])
            /\ pc' = "prefill" /\ UNCHANGED vars
         \/ /\ Proposer[r] = "draft"
            /\ DraftRaises(r, Prompt[r])
      /\ UNCHANGED <<queueVars, reserveVars, stepVars>>

(* Prefill the target with what the shared prefix does not cover. *)
Prefill ==
  LET r == Head(admitted)
      suffix == SubSeq(Prompt[r], length[r] + 1, Len(Prompt[r]))
  IN  /\ pc = "prefill"
      /\ \/ /\ Forward(r, suffix)
            /\ \E c \in {r} : logits' = <<<<Encoded(c)'>>>>
            /\ pc' = IF PrefixSharing THEN "register" ELSE "emit"
            /\ UNCHANGED <<cached, draftVars>>
         \/ ForwardRaises(r, suffix) /\ UNCHANGED logits
      /\ UNCHANGED <<queueVars, reserveVars, cur, verify_L, drafting, proposals, confirmed,
                     admitted>>

RegisterPrompt ==
  /\ pc = "register"
  /\ Register(Head(admitted), Prompt[Head(admitted)])
  /\ pc' = "emit"
  /\ UNCHANGED <<draftVars, queueVars, reserveVars, stepVars>>

Emit ==
  LET r == Head(admitted)
  IN  /\ pc = "emit"
      /\ \E t \in Picks(r, Head(Head(logits))) :
           LET out == IF MaxTokens[r] = 0 THEN <<>> ELSE Emitted(r, <<t>>)
           IN  /\ cur' = [cur EXCEPT ![r] = <<t>>]
               /\ output' = [output EXCEPT ![r] = out]
               /\ IF Stops(r, <<t>>, 1) THEN Finish(r, out) /\ UNCHANGED running
                  ELSE /\ running' = Append(running, r)
                       /\ UNCHANGED <<vars, draftVars, finished, reserved, reserved_draft>>
      /\ logits' = <<>> /\ admitted' = <<>>
      /\ pc' = "admit"
      /\ UNCHANGED <<waiting, cancelled, reserved_blocks, reserved_draft_blocks, verify_L,
                     drafting, proposals, confirmed>>

-----------------------------------------------------------------------------
Step ==
  \/ StepBegin \/ ProposeLookup \/ ProposeDraft \/ ProposeNothing \/ Verify
  \/ Commit \/ Accept
  \/ AdmitEmpty \/ AdmitTooBig \/ AdmitHead \/ StepEnd
  \/ Prime \/ Prefill \/ RegisterPrompt \/ Emit

SpecSchedNext ==
  \/ Step
  \/ \E r \in Caches : Add(r) \/ CancelWaiting(r) \/ CancelRunning(r)
  \/ ClearPrefixCache

SpecSchedSpec == SpecInit /\ [][SpecSchedNext]_specVars

(* run() calls step() while there is work. *)
FairSpecSched == SpecSchedSpec /\ WF_specVars(Step)

-----------------------------------------------------------------------------
(* Whatever the proposer guesses and however requests are batched, every   *)
(* token is one the target itself may pick after the tokens before it:     *)
(* for a greedy request, exactly plain greedy's token.  EOS is never       *)
(* emitted.  A request that was not cancelled ends by EOS or its budget,   *)
(* with all of its tokens: none of a confirmed run is dropped before.      *)
TargetTokens ==
  /\ \A r \in Caches : \A i \in 1 .. Len(output[r]) :
       /\ output[r][i] \in Picks(r, Prompt[r] \o SubSeq(output[r], 1, i - 1))
       /\ output[r][i] # EosId[r]
  /\ \A r \in DOMAIN finished :
       /\ finished[r] = output[r]
       /\ r \notin cancelled =>
            \/ Prompt[r] = <<>>
            \/ Len(output[r]) = MaxTokens[r]
            \/ EosId[r] \in Picks(r, Prompt[r] \o output[r])

(* Between two rounds the target's cache and the draft's hold the same     *)
(* tokens: the prompt and all that was emitted but the last token, which   *)
(* is the one fed next.                                                    *)
LockStep ==
  \A r \in Range(running) :
    pc \in {"idle", "admit"} =>
      /\ cur[r] = <<Last(output[r])>>
      /\ context[r] = Prompt[r] \o Front(output[r])
      /\ Proposer[r] = "draft" => d_context[r] = context[r]

(* Neither pool is ever over-committed: what is held and what the live     *)
(* sequences may still come to, the tentative tail of a last verify        *)
(* included, fits.  And what no live sequence reserves is reserved by      *)
(* nobody.                                                                 *)
Need(r) ==
  BlocksFor(Len(Prompt[r]) + IF MaxTokens[r] = 0 THEN 0 ELSE MaxTokens[r] - 1 + K[r])
Short(n, table) == IF n > Len(table) THEN n - Len(table) ELSE 0
Owed == MapThenSumSet(LAMBDA r : Short(Need(r), block_table[r]), Live)
DraftOwed ==
  MapThenSumSet(LAMBDA r : Short(Need(r), d_block_table[r]),
                {r \in Live : Proposer[r] = "draft"})
BothPoolsFit ==
  /\ Cardinality({b \in Blocks : refcount[b] > 0}) + Owed <= NumBlocks
  /\ Cardinality({b \in Blocks : d_refcount[b] > 0}) + DraftOwed <= NumBlocks
  /\ reserved = MapThenSumSet(LAMBDA r : reserved_blocks[r], Live)
  /\ reserved_draft = MapThenSumSet(LAMBDA r : reserved_draft_blocks[r], Live)

(* The storage is used within its contract: every step is a step of        *)
(* PrefixCache!Next on the target's storage, and one on the draft's.  In   *)
(* particular no rollback cuts into a block that is shared.                *)
StorageContracts == Spec /\ Draft!Spec

(* Greedy requests go through StepMachine, along the answer of plain       *)
(* greedy decoding, several tokens a step.                                 *)
Standalone(r) ==
  LET upTo[n \in 0 .. MaxTokens[r]] ==
        IF n = 0 THEN <<>>
        ELSE LET out == upTo[n - 1]
                 tok == CHOOSE t \in Picks(r, Prompt[r] \o out) : TRUE
             IN  IF Len(out) < n - 1 \/ tok = EosId[r] THEN out ELSE Append(out, tok)
  IN  IF Prompt[r] = <<>> THEN <<>> ELSE upTo[MaxTokens[r]]

Answers == [r \in Caches |-> Standalone(r)]

Undecoded ==
  CASE pc \in {"propose", "verify"} -> Range(running)
    [] pc \in {"commit", "accept"} ->
         Range(SubSeq(running, Len(running) - Len(logits) + 1, Len(running)))
    [] OTHER -> {}

Machine == INSTANCE StepMachine WITH
  Requests <- Caches, Answer <- Answers, MayStall <- PrefixSharing, MayRaise <- TRUE,
  queue <- admitted \o waiting,
  running <- Range(running) \ DOMAIN finished,
  phase <- IF pc \in {"idle", "raised"} THEN pc ELSE "step",
  todo <- Undecoded

GreedyIsStepMachine == Machine!MachineSpec

(* run() drives all queued requests to completion. *)
SpecCompletes == \A r \in Caches : r \in Range(waiting) ~> r \in DOMAIN finished

(* Requests that plain decoding would serve, by a pool that has room for   *)
(* each of them, are served without an exception: the output is that of    *)
(* plain greedy "regardless of what `proposer` returns" (speculative.py).  *)
PlainFits ==
  \A r \in Caches :
    /\ Worst(r) <= NumBlocks /\ Len(Prompt[r]) + MaxTokens[r] <= MaxSeq + 1
    /\ K[r] > 0 /\ Proposer[r] # "none"
SpecServesPlain == PlainFits => pc # "raised"
=============================================================================
