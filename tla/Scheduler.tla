------------------------------ MODULE Scheduler ------------------------------
(***************************************************************************)
(* The continuous-batching scheduler (cpp/python/ni/scheduler.py:          *)
(* Scheduler) in paged mode, over the storage layer of PrefixCache.        *)
(*                                                                         *)
(* step() is one call, on one thread; here it is a sequence of actions in  *)
(* the order of the code, because an exception leaves it half done and     *)
(* because every forward is an action of the storage layer.  add, cancel   *)
(* and clear_prefix_cache come between two steps.                          *)
(*                                                                         *)
(* A request owns at most one cache, so both go by one name, of Caches.    *)
(***************************************************************************)
EXTENDS PrefixCache, SequencesExt

CONSTANTS
  Prompt,      \* prompt_ids of each request
  MaxTokens,   \* max_tokens of each request
  Eos,         \* the end-of-sequence token
  Sample(_, _),\* the token a request picks from the logits after a history:
               \* the argmax, or the draw of its own seeded generator
  MaxBatch,    \* max_batch
  PrefixSharing,  \* prefix_sharing
  ClearAnyTime \* may clear_prefix_cache() come while sequences run?

ASSUME SchedulerAssumption ==
  /\ Prompt \in [Caches -> Prompts]
  /\ MaxTokens \in [Caches -> Nat]
  /\ MaxBatch \in Nat \ {0}
  /\ PrefixSharing \in BOOLEAN /\ ClearAnyTime \in BOOLEAN
  /\ \A t \in Token : <<t>> \in Chunks
  /\ \A p \in Prompts : \A i \in 1 .. Len(p) : SubSeq(p, i, Len(p)) \in Chunks
  /\ \A r \in Caches : \A h \in BoundedSeq(Token, MaxSeq) : Sample(r, h) \in Token

VARIABLES
  waiting,     \* the queue of requests
  running,     \* the running sequences, by request
  finished,    \* request -> its output
  output,      \* output_ids of each sequence
  reserved,    \* KV blocks reserved by running sequences
  reserved_blocks,  \* the part of it that is each sequence's
  pc,          \* where step() is; "idle" between steps, "raised" after an exception
  logits,      \* the histories whose logits step() holds, one per row
  admitted,    \* the request between popleft() and the running set
  cancelled    \* the requests that cancel() ended

storageVars == vars
schedVars == <<waiting, running, finished, output, reserved, reserved_blocks,
               pc, logits, admitted, cancelled>>
allVars == <<vars, schedVars>>

SchedInit ==
  /\ Init
  /\ waiting = <<>> /\ running = <<>> /\ finished = <<>>
  /\ output = [r \in Caches |-> <<>>]
  /\ reserved = 0 /\ reserved_blocks = [r \in Caches |-> 0]
  /\ pc = "idle" /\ logits = <<>> /\ admitted = <<>>
  /\ cancelled = {}

-----------------------------------------------------------------------------
Live == (Range(running) \ DOMAIN finished) \cup Range(admitted)
Known == Range(waiting) \cup Live \cup DOMAIN finished

HasWork == running # <<>> \/ waiting # <<>>

\* Mutation: every decode step feeds the prompt's last token.
LastToken_Prompt(r) == Last(Prompt[r])

LastToken(r) == IF output[r] # <<>> THEN Last(output[r]) ELSE Last(Prompt[r])

(* Worst-case blocks of a request: its prompt and every token it may emit. *)
Worst(r) ==
  BlocksFor(Len(Prompt[r]) + (IF MaxTokens[r] > 1 THEN MaxTokens[r] ELSE 1))

Recorded(r, out) ==
  [q \in DOMAIN finished \cup {r} |-> IF q = r THEN out ELSE finished[q]]

\* Mutation: the reservation is kept.
Finish_Reserved(r, out) ==
  /\ finished' = Recorded(r, out)
  /\ Release(r)
  /\ UNCHANGED <<cached, reserved>>

\* Mutation: the cache is kept.
Finish_Held(r, out) ==
  /\ finished' = Recorded(r, out)
  /\ reserved' = reserved - reserved_blocks[r]
  /\ UNCHANGED storageVars

(* _finish: record the output, drop the reservation and the cache, whose   *)
(* destructor frees its blocks.                                            *)
Finish(r, out) ==
  /\ finished' = Recorded(r, out)
  /\ reserved' = reserved - reserved_blocks[r]
  /\ Release(r)
  /\ UNCHANGED cached

(* _accept: EOS ends the sequence and is not emitted. *)
Emitted(r, tok) == IF tok = Eos THEN output[r] ELSE Append(output[r], tok)

Done(r, tok) == tok = Eos \/ Len(output[r]) + 1 >= MaxTokens[r]

(* A forward in the step: the next logits row, or an exception. *)
ForwardRow(r, toks, next) ==
  /\ Forward(r, toks)
  /\ \E c \in {r} : logits' = Append(logits, Encoded(c)')
  /\ pc' = next

ForwardRaises(r, toks) ==
  /\ \/ length[r] + Len(toks) > MaxSeq /\ UNCHANGED kvVars
     \/ ForwardOutOfBlocks(r, toks)
  /\ pc' = "raised"
  /\ UNCHANGED logits

-----------------------------------------------------------------------------
(* Between two steps. *)
Add(r) ==
  /\ pc = "idle"
  /\ r \notin Known
  /\ waiting' = Append(waiting, r)
  /\ UNCHANGED <<storageVars, running, finished, output, reserved, reserved_blocks,
                 pc, logits, admitted, cancelled>>

CancelWaiting(r) ==
  /\ pc = "idle"
  /\ r \in Range(waiting)
  /\ waiting' \in Without(waiting, {r})
  /\ finished' = Recorded(r, <<>>)
  /\ cancelled' = cancelled \cup {r}
  /\ UNCHANGED <<storageVars, running, output, reserved, reserved_blocks,
                 pc, logits, admitted>>

CancelRunning(r) ==
  /\ pc = "idle"
  /\ r \in Range(running)
  /\ Finish(r, output[r])
  /\ running' \in Without(running, DOMAIN finished')
  /\ cancelled' = cancelled \cup {r}
  /\ UNCHANGED <<waiting, output, reserved_blocks, pc, logits, admitted>>

ClearPrefixCache ==
  /\ pc = "idle"
  /\ ClearAnyTime \/ running = <<>>
  /\ cached # <<>>
  /\ Clear
  /\ UNCHANGED schedVars

-----------------------------------------------------------------------------
(* step() *)
StepBegin ==
  /\ pc = "idle"
  /\ HasWork
  /\ pc' = IF running # <<>> THEN "decode" ELSE "admit"
  /\ UNCHANGED <<storageVars, waiting, running, finished, output, reserved,
                 reserved_blocks, logits, admitted, cancelled>>

(* 1. Decode the running set by one token: a forward for each row, in      *)
(* order, ...                                                              *)
Decode ==
  LET r == running[Len(logits) + 1]
      next == IF Len(logits) + 1 = Len(running) THEN "accept" ELSE "decode"
  IN  /\ pc = "decode"
      /\ ForwardRow(r, <<LastToken(r)>>, next) \/ ForwardRaises(r, <<LastToken(r)>>)
      /\ UNCHANGED <<cached, waiting, running, finished, output, reserved,
                     reserved_blocks, admitted, cancelled>>

(* ... then each row's token, and 2. the finished evicted after the last.  *)
Accept ==
  LET r   == running[Len(running) - Len(logits) + 1]
      tok == Sample(r, Head(logits))
  IN  /\ pc = "accept"
      /\ output' = [output EXCEPT ![r] = Emitted(r, tok)]
      /\ \/ Done(r, tok) /\ Finish(r, Emitted(r, tok))
         \/ ~ Done(r, tok) /\ UNCHANGED <<storageVars, finished, reserved>>
      /\ logits' = Tail(logits)
      /\ IF Len(logits) = 1
           THEN /\ running' \in Without(running, DOMAIN finished')
                /\ pc' = "admit"
           ELSE UNCHANGED <<running, pc>>
      /\ UNCHANGED <<waiting, reserved_blocks, admitted, cancelled>>

(* 3. Admit from the head of the queue. *)
MayAdmit == Len(running) < MaxBatch /\ waiting # <<>>

\* Mutation: the request is dropped without an output.
AdmitEmpty_Unrecorded ==
  /\ pc = "admit" /\ MayAdmit
  /\ Prompt[Head(waiting)] = <<>>
  /\ waiting' = Tail(waiting)
  /\ UNCHANGED <<storageVars, running, finished, output, reserved, reserved_blocks,
                 pc, logits, admitted, cancelled>>

AdmitEmpty ==
  /\ pc = "admit" /\ MayAdmit
  /\ Prompt[Head(waiting)] = <<>>
  /\ waiting' = Tail(waiting)
  /\ finished' = Recorded(Head(waiting), <<>>)
  /\ UNCHANGED <<storageVars, running, output, reserved, reserved_blocks,
                 pc, logits, admitted, cancelled>>

AdmitTooBig ==
  /\ pc = "admit" /\ MayAdmit
  /\ Prompt[Head(waiting)] # <<>>
  /\ Worst(Head(waiting)) > NumBlocks
  /\ pc' = "raised"
  /\ UNCHANGED <<storageVars, waiting, running, finished, output, reserved,
                 reserved_blocks, logits, admitted, cancelled>>

(* match(), or no prefix cache. *)
Shares(r, n) == IF PrefixSharing THEN Matches(Prompt[r], n) ELSE n = 0

\* Mutation: the blocks the prefix cache holds are not counted.
Fits_Unheld(need) == reserved + need <= NumBlocks

Fits(need) == reserved + Held + need <= NumBlocks

AdmitHead ==
  LET r == Head(waiting)
  IN  /\ pc = "admit" /\ MayAdmit
      /\ Prompt[r] # <<>>
      /\ Worst(r) <= NumBlocks
      /\ \E n \in 0 .. Len(Prompt[r]) :
           /\ Shares(r, n)
           /\ Fits(Worst(r) - n)
           /\ IF n > 0 THEN SharePrefix(r, Matched(Prompt[r], n), Key(Prompt[r], n))
                       ELSE UNCHANGED kvVars
           /\ reserved' = reserved + Worst(r) - n
           /\ reserved_blocks' = [reserved_blocks EXCEPT ![r] = Worst(r) - n]
      /\ waiting' = Tail(waiting)
      /\ admitted' = <<r>>
      /\ pc' = "prefill"
      /\ UNCHANGED <<cached, running, finished, output, logits, cancelled>>

(* The queue is empty, the batch full, or the head has to wait. *)
StepEnd ==
  /\ pc = "admit"
  /\ MayAdmit =>
       LET r == Head(waiting)
       IN  /\ Prompt[r] # <<>> /\ Worst(r) <= NumBlocks
           /\ \E n \in 0 .. Len(Prompt[r]) : Shares(r, n) /\ ~ Fits(Worst(r) - n)
  /\ pc' = "idle"
  /\ UNCHANGED <<storageVars, waiting, running, finished, output, reserved,
                 reserved_blocks, logits, admitted, cancelled>>

(* Prefill what the shared prefix does not cover. *)
Prefill ==
  LET r == Head(admitted)
      suffix == SubSeq(Prompt[r], length[r] + 1, Len(Prompt[r]))
  IN  /\ pc = "prefill"
      /\ \/ ForwardRow(r, suffix, IF PrefixSharing THEN "register" ELSE "emit")
         \/ ForwardRaises(r, suffix)
      /\ UNCHANGED <<cached, waiting, running, finished, output, reserved,
                     reserved_blocks, admitted, cancelled>>

\* Mutation: the first token, which no forward has fed yet, is registered too.
RegisterPrompt_Fed ==
  /\ pc = "register"
  /\ Register(Head(admitted),
              Append(Prompt[Head(admitted)], Sample(Head(admitted), Head(logits))))
  /\ pc' = "emit"
  /\ UNCHANGED <<waiting, running, finished, output, reserved, reserved_blocks,
                 logits, admitted, cancelled>>

RegisterPrompt ==
  /\ pc = "register"
  /\ Register(Head(admitted), Prompt[Head(admitted)])
  /\ pc' = "emit"
  /\ UNCHANGED <<waiting, running, finished, output, reserved, reserved_blocks,
                 logits, admitted, cancelled>>

(* The first token, from the prefill's logits; a request of no tokens is   *)
(* finished without one.                                                   *)
Emit ==
  LET r   == Head(admitted)
      tok == Sample(r, Head(logits))
  IN  /\ pc = "emit"
      /\ \/ /\ MaxTokens[r] = 0
            /\ Finish(r, <<>>)
            /\ UNCHANGED <<output, running>>
         \/ /\ MaxTokens[r] > 0 /\ Done(r, tok)
            /\ output' = [output EXCEPT ![r] = Emitted(r, tok)]
            /\ Finish(r, Emitted(r, tok))
            /\ UNCHANGED running
         \/ /\ MaxTokens[r] > 0 /\ ~ Done(r, tok)
            /\ output' = [output EXCEPT ![r] = Emitted(r, tok)]
            /\ running' = Append(running, r)
            /\ UNCHANGED <<storageVars, finished, reserved>>
      /\ logits' = <<>> /\ admitted' = <<>>
      /\ pc' = "admit"
      /\ UNCHANGED <<waiting, reserved_blocks, cancelled>>

-----------------------------------------------------------------------------
Step ==
  \/ StepBegin \/ Decode \/ Accept
  \/ AdmitEmpty \/ AdmitTooBig \/ AdmitHead \/ StepEnd
  \/ Prefill \/ RegisterPrompt \/ Emit

SchedNext ==
  \/ Step
  \/ \E r \in Caches : Add(r) \/ CancelWaiting(r) \/ CancelRunning(r)
  \/ ClearPrefixCache

SchedSpec == SchedInit /\ [][SchedNext]_allVars

(* run(): whoever owns the scheduler calls step() while it has work. *)
FairSpec == SchedSpec /\ WF_allVars(Step)

-----------------------------------------------------------------------------
(* Scheduling, batching and prefix sharing are invisible in the tokens:    *)
(* every token a request has emitted is the one a run of its own would     *)
(* have picked after the same history (run_serve.py's parity check, for    *)
(* every interleaving).  And one that finished of its own accord has its   *)
(* whole output, a cancelled one what it had emitted.                      *)
StandaloneTokens ==
  /\ \A r \in Caches : \A i \in 1 .. Len(output[r]) :
       /\ output[r][i] = Sample(r, Prompt[r] \o SubSeq(output[r], 1, i - 1))
       /\ output[r][i] # Eos
       /\ i <= MaxTokens[r]
  /\ \A r \in DOMAIN finished :
       /\ finished[r] = output[r]
       /\ r \notin cancelled =>
            \/ Prompt[r] = <<>>
            \/ Len(output[r]) = MaxTokens[r]
            \/ Sample(r, Prompt[r] \o output[r]) = Eos

(* The cache of a live sequence holds its prompt and every token it        *)
(* emitted but the last, which the next decode step feeds; and whatever    *)
(* is not live holds no block.                                             *)
CacheFollowsOutput ==
  \A r \in Caches :
    /\ r \in Range(running) \ DOMAIN finished /\ pc \in {"idle", "admit", "prefill"} =>
         context[r] = Prompt[r] \o Front(output[r])
    /\ r \notin Live => block_table[r] = <<>>

(* The reservation counter is the sum over the live sequences. *)
ReservedExact ==
  reserved = MapThenSumSet(LAMBDA r : reserved_blocks[r], Live)

(* The pool is not over-committed: the blocks in use and those the live    *)
(* sequences may still allocate fit it, shared and cached blocks counted   *)
(* once.                                                                   *)
InUse == Cardinality({b \in Blocks : refcount[b] > 0})
Owed  == MapThenSumSet(LAMBDA r : Worst(r) - Len(block_table[r]), Live)
NeverOverCommits == InUse + Owed <= NumBlocks

(* What a sequence borrowed and its reservation leaves out is counted with *)
(* the blocks the prefix cache holds.                                      *)
Covered ==
  \A r \in Live :
    Worst(r) - reserved_blocks[r] <= Cardinality(Range(block_table[r]) \cap Range(cached))

(* Once the pool is not over-committed, no admission, decode step, cancel  *)
(* or exception over-commits it, in any order: only clear_prefix_cache()   *)
(* while sequences run can.                                                *)
OnlyClearOverCommits ==
  [][NeverOverCommits /\ Covered =>
       (NeverOverCommits /\ Covered)' \/ (cached # <<>> /\ cached' = <<>>)]_allVars

(* Requests that fit the pool and the context, each by itself, are served  *)
(* without an exception: "lazy allocation can't exceed the pool"           *)
(* (scheduler.py, on the reservation).                                     *)
EachFits ==
  \A r \in Caches :
    Worst(r) <= NumBlocks /\ Len(Prompt[r]) + MaxTokens[r] <= MaxSeq + 1

NeverOutOfBlocks == EachFits => pc # "raised"

(* The scheduler uses the storage layer within its contract: each of its   *)
(* steps is a step of PrefixCache!Next, or leaves the storage alone, so    *)
(* that all that is proved of PrefixCache holds of the scheduler's blocks. *)
StorageContract == Spec

(* The scheduler keeps the promise its driver relies on: its requests go   *)
(* through StepMachine, each token along the answer of a run of its own.   *)
(* A step may leave a queue behind an idle batch only when the prefix      *)
(* cache holds blocks.                                                     *)
Standalone(r) ==
  LET upTo[n \in 0 .. MaxTokens[r]] ==
        IF n = 0 THEN <<>>
        ELSE LET out == upTo[n - 1]
                 tok == Sample(r, Prompt[r] \o out)
             IN  IF Len(out) < n - 1 \/ tok = Eos THEN out ELSE Append(out, tok)
  IN  IF Prompt[r] = <<>> THEN <<>> ELSE upTo[MaxTokens[r]]

Answers == [r \in Caches |-> Standalone(r)]

Undecoded ==
  CASE pc = "decode" -> Range(running)
    [] pc = "accept" -> Range(SubSeq(running, Len(running) - Len(logits) + 1, Len(running)))
    [] OTHER -> {}

Machine == INSTANCE StepMachine WITH
  Requests <- Caches, Answer <- Answers, MayStall <- PrefixSharing, MayRaise <- TRUE,
  queue <- admitted \o waiting,
  running <- Range(running) \ DOMAIN finished,
  phase <- IF pc \in {"idle", "raised"} THEN pc ELSE "step",
  todo <- Undecoded

IsStepMachine == Machine!MachineSpec

(* run() drives all queued requests to completion. *)
Completes == \A r \in Caches : r \in Range(waiting) ~> r \in DOMAIN finished

=============================================================================
