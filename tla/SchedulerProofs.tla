---------------------------- MODULE SchedulerProofs ----------------------------
(***************************************************************************)
(* Proofs about the scheduler, for every pool, batch size, set of requests *)
(* and sampler: it keeps within the contract of the storage layer, so what *)
(* PrefixCacheProofs says of that layer holds of the scheduler's blocks;   *)
(* the cache of a sequence is its tokens, so that each token is the one    *)
(* the request would get by itself; and it is a StepMachine.               *)
(***************************************************************************)
EXTENDS Scheduler, PrefixCacheProofs

-----------------------------------------------------------------------------
(* The inductive invariant. *)
Places == {"idle", "decode", "accept", "admit", "prefill", "register", "emit", "raised"}

SchedTypes ==
  /\ waiting \in Seq(Caches) /\ running \in Seq(Caches) /\ admitted \in Seq(Caches)
  /\ output \in [Caches -> Seq(Token)]
  /\ DOMAIN finished \subseteq Caches /\ cancelled \subseteq DOMAIN finished
  /\ logits \in Seq(Seq(Token))
  /\ pc \in Places

(* A request is in one place: queued, between the queue and the batch, in  *)
(* the batch, or finished; what finishes in a decode step stays in the     *)
(* batch to the end of the step, among the rows already accepted.          *)
OnePlace ==
  /\ Distinct(waiting) /\ Distinct(running)
  /\ \A r \in Range(waiting) :
       r \notin Range(running) \cup Range(admitted) \cup DOMAIN finished
  /\ \A r \in Range(admitted) : r \notin Range(running) \cup DOMAIN finished
  /\ \A j \in 1 .. Len(running) :
       running[j] \in DOMAIN finished => pc = "accept" /\ j <= Len(running) - Len(logits)

(* What step() holds, by where it is. *)
Holds ==
  /\ pc \in {"idle", "admit"} => admitted = <<>> /\ logits = <<>>
  /\ pc = "decode" => admitted = <<>> /\ Len(logits) < Len(running)
  /\ pc = "accept" => admitted = <<>> /\ Len(logits) \in 1 .. Len(running)
  /\ pc \in {"prefill", "register", "emit"} => Len(admitted) = 1
  /\ pc = "prefill" => logits = <<>>

(* Only live sequences hold blocks, and only those in the batch and the    *)
(* finished have emitted anything. *)
Fresh ==
  /\ \A r \in Caches : r \notin Live => block_table[r] = <<>>
  /\ \A r \in Caches : r \notin Range(running) \cup DOMAIN finished => output[r] = <<>>

(* Row j of the batch has been fed its last token in this step, and that   *)
(* row's logits are not consumed. *)
Fed(j) ==
  \/ pc = "decode" /\ j <= Len(logits)
  \/ pc = "accept" /\ j > Len(running) - Len(logits)

RowOf(k) == IF pc = "accept" THEN running[Len(running) - Len(logits) + k] ELSE running[k]

BatchRow(j) ==
  LET r == running[j]
  IN  /\ Prompt[r] # <<>> /\ output[r] # <<>>
      /\ Len(output[r]) < MaxTokens[r]
      /\ context[r] = Prompt[r] \o (IF Fed(j) THEN output[r] ELSE Front(output[r]))

Batch ==
  /\ pc # "raised" =>
       \A j \in 1 .. Len(running) : running[j] \notin DOMAIN finished => BatchRow(j)
  /\ pc \in {"decode", "accept"} =>
       \A k \in 1 .. Len(logits) :
         /\ logits[k] = Prompt[RowOf(k)] \o output[RowOf(k)]
         /\ Len(logits[k]) <= MaxSeq

(* The request in its prefill: a shared prefix, then the whole prompt. *)
Prefilled ==
  /\ pc = "prefill" =>
       LET r == admitted[1]
       IN  /\ length[r] < Len(Prompt[r])
           /\ context[r] = SubSeq(Prompt[r], 1, length[r])
  /\ pc \in {"register", "emit"} =>
       LET r == admitted[1]
       IN  /\ Prompt[r] # <<>> /\ Len(Prompt[r]) <= MaxSeq
           /\ context[r] = Prompt[r] /\ logits = <<Prompt[r]>>

SInv ==
  /\ SchedTypes
  /\ OnePlace
  /\ Holds
  /\ Fresh
  /\ Batch
  /\ Prefilled
  /\ StandaloneTokens

-----------------------------------------------------------------------------
(* Each step of the scheduler is a step of the storage layer. *)

LEMMA DecodeRow ==
  ASSUME SInv, pc = "decode"
  PROVE  LET r == running[Len(logits) + 1]
         IN  /\ Len(logits) + 1 \in 1 .. Len(running) /\ r \in Caches
             /\ r \notin DOMAIN finished /\ r \in Range(running)
             /\ Prompt[r] # <<>> /\ output[r] # <<>> /\ output[r] \in Seq(Token)
             /\ context[r] = Prompt[r] \o Front(output[r])
             /\ LastToken(r) = Last(output[r]) /\ <<LastToken(r)>> \in Seq(Token)
             /\ <<LastToken(r)>> \in Chunks
<1>. DEFINE j == Len(logits) + 1
            r == running[j]
<1>1. /\ running \in Seq(Caches) /\ Len(logits) \in Nat /\ Len(running) \in Nat
      /\ Len(logits) < Len(running)
  BY DEF SInv, SchedTypes, Holds
<1>2. j \in 1 .. Len(running)
  BY <1>1
<1>3. r \in Caches /\ r \in Range(running)
  BY <1>1, <1>2, RangeSeq
<1>4. r \notin DOMAIN finished
  BY <1>2 DEF SInv, OnePlace
<1>5. BatchRow(j)
  BY <1>2, <1>4 DEF SInv, Batch
<1>6. ~ Fed(j)
  BY <1>1 DEF Fed
<1>7. /\ Prompt[r] # <<>> /\ output[r] # <<>>
      /\ context[r] = Prompt[r] \o Front(output[r])
  BY <1>5, <1>6 DEF BatchRow
<1>8. output[r] \in Seq(Token)
  BY <1>3 DEF SInv, SchedTypes
<1>9. LastToken(r) = Last(output[r]) /\ LastToken(r) \in Token
  BY <1>7, <1>8, FrontAndLast DEF LastToken
<1>10. <<LastToken(r)>> \in Chunks /\ <<LastToken(r)>> \in Seq(Token)
  BY <1>9, SchedulerAssumption
<1>. QED
  BY <1>2, <1>3, <1>4, <1>7, <1>8, <1>9, <1>10

(* The sampler's histories. *)
LEMMA ShortEnough ==
  ASSUME NEW h \in Seq(Token), Len(h) <= MaxSeq
  PROVE  h \in BoundedSeq(Token, MaxSeq)
<1>1. Len(h) \in 0 .. MaxSeq
  BY CacheAssumption, LenProperties
<1>2. h \in [1 .. Len(h) -> Token]
  BY LenProperties
<1>. QED
  BY <1>1, <1>2 DEF BoundedSeq, SeqOf

LEMMA AcceptRow ==
  ASSUME SInv, pc = "accept"
  PROVE  LET j == Len(running) - Len(logits) + 1
             r == running[j]
         IN  /\ j \in 1 .. Len(running) /\ r \in Caches
             /\ r \notin DOMAIN finished /\ r \in Range(running)
             /\ Prompt[r] # <<>> /\ output[r] \in Seq(Token)
             /\ Len(output[r]) < MaxTokens[r] /\ MaxTokens[r] \in Nat
             /\ context[r] = Prompt[r] \o output[r]
             /\ logits # <<>> /\ Head(logits) = Prompt[r] \o output[r]
             /\ Sample(r, Head(logits)) \in Token
<1>. DEFINE j == Len(running) - Len(logits) + 1
            r == running[j]
<1>1. /\ running \in Seq(Caches) /\ Len(logits) \in Nat /\ Len(running) \in Nat
      /\ Len(logits) \in 1 .. Len(running) /\ logits \in Seq(Seq(Token))
  BY DEF SInv, SchedTypes, Holds
<1>2. j \in 1 .. Len(running) /\ ~ j <= Len(running) - Len(logits)
  BY <1>1
<1>3. r \in Caches /\ r \in Range(running)
  BY <1>1, <1>2, RangeSeq
<1>4. r \notin DOMAIN finished
  BY <1>2 DEF SInv, OnePlace
<1>5. BatchRow(j)
  BY <1>2, <1>4 DEF SInv, Batch
<1>6. Fed(j)
  BY <1>1 DEF Fed
<1>7. /\ Prompt[r] # <<>> /\ Len(output[r]) < MaxTokens[r]
      /\ context[r] = Prompt[r] \o output[r]
  BY <1>5, <1>6 DEF BatchRow
<1>8. output[r] \in Seq(Token) /\ MaxTokens[r] \in Nat
  BY <1>3, SchedulerAssumption DEF SInv, SchedTypes
<1>9. logits # <<>> /\ Head(logits) = logits[1] /\ logits[1] \in Seq(Token)
  BY <1>1, EmptySeq
<1>10. RowOf(1) = r /\ 1 \in 1 .. Len(logits)
  BY <1>1 DEF RowOf
<1>11. logits[1] = Prompt[r] \o output[r] /\ Len(logits[1]) <= MaxSeq
  BY <1>10 DEF SInv, Batch
<1>12. logits[1] \in BoundedSeq(Token, MaxSeq)
  BY <1>9, <1>11, ShortEnough
<1>13. Sample(r, Head(logits)) \in Token
  BY <1>3, <1>9, <1>12, SchedulerAssumption
<1>. QED
  BY <1>2, <1>3, <1>4, <1>7, <1>8, <1>9, <1>11, <1>13

(* The request being admitted, and its logits once it has any. *)
LEMMA AdmittedRow ==
  ASSUME SInv, pc \in {"prefill", "register", "emit"}
  PROVE  LET r == Head(admitted)
         IN  /\ r = admitted[1] /\ admitted = <<r>> /\ r \in Caches
             /\ r \notin Range(running) /\ r \notin DOMAIN finished /\ r \notin Range(waiting)
             /\ Range(admitted) = {r}
             /\ Prompt[r] \in Seq(Token) /\ Prompt[r] \in Prompts /\ output[r] = <<>>
<1>. DEFINE r == Head(admitted)
<1>1. admitted \in Seq(Caches) /\ Len(admitted) = 1
  BY DEF SInv, SchedTypes, Holds
<1>2. r = admitted[1] /\ r \in Caches /\ admitted = <<r>>
  BY <1>1
<1>3. Range(admitted) = {r}
  BY <1>2 DEF Range
<1>4. r \notin Range(running) /\ r \notin DOMAIN finished /\ r \notin Range(waiting)
  BY <1>3 DEF SInv, OnePlace
<1>5. Prompt[r] \in Seq(Token) /\ Prompt[r] \in Prompts
  BY <1>2, SchedulerAssumption, StoreAssumption
<1>6. output[r] = <<>>
  BY <1>2, <1>4 DEF SInv, Fresh
<1>. QED
  BY <1>2, <1>3, <1>4, <1>5, <1>6

LEMMA PrefillSuffix ==
  ASSUME IInv, SInv, pc = "prefill"
  PROVE  LET r == Head(admitted)
             suffix == SubSeq(Prompt[r], length[r] + 1, Len(Prompt[r]))
         IN  /\ suffix \in Chunks /\ suffix \in Seq(Token)
             /\ context[r] \o suffix = Prompt[r]
<1>. DEFINE r == Head(admitted)
            n == length[r]
            p == Prompt[r]
<1>1. r = admitted[1] /\ r \in Caches /\ p \in Seq(Token) /\ p \in Prompts
  BY AdmittedRow
<1>2. n \in Nat /\ n < Len(p) /\ context[r] = SubSeq(p, 1, n)
  BY <1>1 DEF SInv, Prefilled, IInv, TypeOK
<1>. HIDE DEF n, p
<1>3. n + 1 \in 1 .. Len(p)
  BY <1>1, <1>2
<1>4. SubSeq(p, n + 1, Len(p)) \in Chunks
  BY <1>1, <1>3, SchedulerAssumption
<1>5. SubSeq(p, 1, n) \o SubSeq(p, n + 1, Len(p)) = SubSeq(p, 1, Len(p))
  BY <1>1, <1>2, <1>3, ConcatAdjacentSubSeq
<1>6. SubSeq(p, 1, Len(p)) = p
  BY <1>1, SubSeqFull
<1>. QED
  BY <1>2, <1>4, <1>5, <1>6, StoreAssumption DEF n, p

LEMMA DecodeIsStorage == ASSUME IInv, SInv, Decode PROVE [Next]_vars
<1>. DEFINE r == running[Len(logits) + 1]
            toks == <<LastToken(r)>>
<1>1. r \in Caches /\ toks \in Chunks
  BY DecodeRow DEF Decode
<1>2. Forward(r, toks) \/ ForwardOutOfBlocks(r, toks) \/ UNCHANGED kvVars
  BY DEF Decode, ForwardRow, ForwardRaises
<1>3. UNCHANGED cached
  BY DEF Decode
<1>. QED
  BY <1>1, <1>2, <1>3 DEF Next, vars, kvVars

LEMMA PrefillIsStorage == ASSUME IInv, SInv, Prefill PROVE [Next]_vars
<1>. DEFINE r == Head(admitted)
            suffix == SubSeq(Prompt[r], length[r] + 1, Len(Prompt[r]))
<1>0. pc = "prefill"
  BY DEF Prefill
<1>1. r \in Caches /\ suffix \in Chunks
  BY <1>0, AdmittedRow, PrefillSuffix
<1>2. Forward(r, suffix) \/ ForwardOutOfBlocks(r, suffix) \/ UNCHANGED kvVars
  BY DEF Prefill, ForwardRow, ForwardRaises
<1>3. UNCHANGED cached
  BY DEF Prefill
<1>. QED
  BY <1>1, <1>2, <1>3 DEF Next, vars, kvVars

LEMMA FinishIsStorage ==
  ASSUME IInv, NEW r \in Caches, NEW out, Finish(r, out)
  PROVE  [Next]_vars
BY ReleaseIsStorage DEF Finish

LEMMA AdmitHeadIsStorage == ASSUME IInv, SInv, AdmitHead PROVE [Next]_vars
<1>. DEFINE r == Head(waiting)
<1>1. waiting \in Seq(Caches) /\ waiting # <<>>
  BY DEF AdmitHead, MayAdmit, SInv, SchedTypes
<1>2. r \in Caches
  BY <1>1, TailElements
<1>3. Prompt[r] \in Prompts /\ Prompt[r] \in Seq(Token)
  BY <1>2, SchedulerAssumption, StoreAssumption
<1>4. PICK n \in 0 .. Len(Prompt[r]) :
        /\ Shares(r, n)
        /\ IF n > 0 THEN SharePrefix(r, Matched(Prompt[r], n), Key(Prompt[r], n))
                    ELSE UNCHANGED kvVars
  BY DEF AdmitHead
<1>5. UNCHANGED cached
  BY DEF AdmitHead
<1>6. CASE n = 0
  BY <1>4, <1>5, <1>6 DEF vars, kvVars
<1>7. CASE n > 0
  <2>1. Matches(Prompt[r], n)
    BY <1>4, <1>7 DEF Shares
  <2>2. n \in 1 .. Len(Prompt[r])
    BY <1>3, <1>4, <1>7
  <2>3. Seed(r, Prompt[r])
    BY <1>4, <1>5, <1>7, <2>1, <2>2 DEF Seed
  <2>. QED
    BY <1>2, <1>3, <2>3 DEF Next
<1>. QED
  BY <1>3, <1>4, <1>6, <1>7

LEMMA RegisterIsStorage == ASSUME IInv, SInv, RegisterPrompt PROVE [Next]_vars
<1>. DEFINE r == Head(admitted)
<1>1. pc = "register" /\ Register(r, Prompt[r])
  BY DEF RegisterPrompt
<1>2. r = admitted[1] /\ r \in Caches /\ Prompt[r] \in Seq(Token)
  BY <1>1, AdmittedRow
<1>3. Prompt[r] # <<>> /\ context[r] = Prompt[r]
  BY <1>1, <1>2 DEF SInv, Prefilled
<1>4. length[r] = Len(Prompt[r]) /\ length[r] \in 1 .. length[r]
  BY <1>2, <1>3, EmptySeq DEF IInv, KVExact
<1>5. SubSeq(context[r], 1, length[r]) = Prompt[r]
  BY <1>2, <1>3, <1>4, SubSeqFull
<1>. QED
  BY <1>1, <1>2, <1>4, <1>5 DEF Next

LEMMA StorageStep ==
  IInv /\ SInv /\ [SchedNext]_allVars => [Next]_vars
<1>. SUFFICES ASSUME IInv, SInv, [SchedNext]_allVars PROVE [Next]_vars
  OBVIOUS
<1>1. CASE StepBegin \/ AdmitEmpty \/ AdmitTooBig \/ StepEnd
  BY <1>1 DEF StepBegin, AdmitEmpty, AdmitTooBig, StepEnd, storageVars
<1>2. CASE Decode \/ Prefill \/ AdmitHead \/ RegisterPrompt
  BY <1>2, DecodeIsStorage, PrefillIsStorage, AdmitHeadIsStorage, RegisterIsStorage
<1>3. CASE Accept
  <2>1. running[Len(running) - Len(logits) + 1] \in Caches
    BY <1>3, AcceptRow DEF Accept
  <2>. QED
    BY <1>3, <2>1, FinishIsStorage DEF Accept, storageVars
<1>4. CASE Emit
  <2>1. Head(admitted) \in Caches
    BY <1>4, AdmittedRow DEF Emit
  <2>. QED
    BY <1>4, <2>1, FinishIsStorage DEF Emit, storageVars
<1>5. ASSUME NEW r \in Caches, Add(r) \/ CancelWaiting(r)
      PROVE  [Next]_vars
  BY <1>5 DEF Add, CancelWaiting, storageVars
<1>6. ASSUME NEW r \in Caches, CancelRunning(r)
      PROVE  [Next]_vars
  BY <1>6, FinishIsStorage DEF CancelRunning
<1>7. CASE ClearPrefixCache
  BY <1>7 DEF ClearPrefixCache, Next
<1>8. CASE UNCHANGED allVars
  BY <1>8 DEF allVars
<1>. QED
  BY <1>1, <1>2, <1>3, <1>4, <1>5, <1>6, <1>7, <1>8 DEF SchedNext, Step

-----------------------------------------------------------------------------
(* The invariant holds at first and is kept by every step. *)

LEMMA InitSInv == SchedInit => SInv
<1>. SUFFICES ASSUME SchedInit PROVE SInv
  OBVIOUS
<1>. USE DEF SchedInit
<1>1. DOMAIN finished = {} /\ Range(waiting) = {} /\ Range(running) = {} /\ Range(admitted) = {}
  BY DEF Range
<1>2. SchedTypes
  BY <1>1 DEF SchedTypes, Places
<1>3. OnePlace
  BY <1>1 DEF OnePlace, Distinct
<1>4. Holds
  BY DEF Holds
<1>5. Fresh
  BY DEF Fresh, Init, KVInit
<1>6. Batch
  BY DEF Batch
<1>7. Prefilled
  BY DEF Prefilled
<1>8. StandaloneTokens
  BY <1>1 DEF StandaloneTokens
<1>. QED
  BY <1>2, <1>3, <1>4, <1>5, <1>6, <1>7, <1>8 DEF SInv

(* Where no token is emitted and nothing finishes. *)
LEMMA SameTokens ==
  ASSUME SInv, UNCHANGED <<output, finished, cancelled>>
  PROVE  StandaloneTokens'
BY DEF SInv, StandaloneTokens

LEMMA StepBeginKeeps == ASSUME SInv, StepBegin PROVE SInv'
<1>. USE DEF StepBegin
<1>1. /\ UNCHANGED <<waiting, running, finished, output, logits, admitted, cancelled,
                     block_table, length, context>>
      /\ pc = "idle" /\ running \in Seq(Caches) /\ logits = <<>> /\ admitted = <<>>
  BY DEF storageVars, vars, SInv, SchedTypes, Holds
<1>2. SchedTypes'
  BY <1>1 DEF SInv, SchedTypes, Places
<1>3. OnePlace'
  BY <1>1 DEF SInv, OnePlace, Distinct
<1>4. Holds'
  BY <1>1, EmptySeq DEF Holds
<1>5. Fresh'
  BY <1>1 DEF SInv, Fresh, Live
<1>6. Batch'
  <2>1. \A j \in 1 .. Len(running) : ~ Fed(j) /\ ~ Fed(j)'
    BY <1>1 DEF Fed
  <2>2. 1 .. Len(logits') = {}
    BY <1>1
  <2>3. pc # "raised"
    BY <1>1
  <2>4. \A j \in 1 .. Len(running) : running[j] \notin DOMAIN finished => BatchRow(j)
    BY <2>3 DEF SInv, Batch
  <2>5. \A j \in 1 .. Len(running) : running[j] \notin DOMAIN finished => BatchRow(j)'
    BY <1>1, <2>1, <2>4 DEF BatchRow
  <2>. QED
    BY <1>1, <2>2, <2>5 DEF Batch
<1>7. Prefilled'
  BY DEF Prefilled
<1>8. StandaloneTokens'
  BY <1>1, SameTokens
<1>. QED
  BY <1>2, <1>3, <1>4, <1>5, <1>6, <1>7, <1>8 DEF SInv

LEMMA ToIdleOrRaisedKeeps ==
  ASSUME SInv, StepEnd \/ AdmitTooBig
  PROVE  SInv'
<1>1. /\ UNCHANGED <<waiting, running, finished, output, logits, admitted, cancelled,
                     block_table, length, context>>
      /\ pc = "admit" /\ pc' \in {"idle", "raised"} /\ logits = <<>> /\ admitted = <<>>
  BY DEF StepEnd, AdmitTooBig, storageVars, vars, SInv, SchedTypes, Holds
<1>2. SchedTypes'
  BY <1>1 DEF SInv, SchedTypes, Places
<1>3. OnePlace'
  BY <1>1 DEF SInv, OnePlace, Distinct
<1>4. Holds'
  BY <1>1 DEF Holds
<1>5. Fresh'
  BY <1>1 DEF SInv, Fresh, Live
<1>6. Batch'
  <2>1. \A j : ~ Fed(j) /\ ~ Fed(j)'
    BY <1>1 DEF Fed
  <2>. QED
    BY <1>1, <2>1 DEF SInv, Batch, BatchRow
<1>7. Prefilled'
  BY <1>1 DEF Prefilled
<1>8. StandaloneTokens'
  BY <1>1, SameTokens
<1>. QED
  BY <1>2, <1>3, <1>4, <1>5, <1>6, <1>7, <1>8 DEF SInv

LEMMA ClearKeepsSched == ASSUME SInv, ClearPrefixCache PROVE SInv'
<1>1. UNCHANGED schedVars /\ UNCHANGED <<block_table, length, context>>
  BY DEF ClearPrefixCache, Clear
<1>2. SchedTypes' /\ OnePlace' /\ Holds' /\ Fresh' /\ Prefilled' /\ StandaloneTokens'
  BY <1>1 DEF schedVars, SInv, SchedTypes, OnePlace, Distinct, Holds, Fresh, Live, Prefilled,
              StandaloneTokens
<1>3. Batch'
  BY <1>1 DEF schedVars, SInv, Batch, BatchRow, Fed, RowOf
<1>. QED
  BY <1>2, <1>3 DEF SInv

LEMMA StutterKeeps == ASSUME SInv, UNCHANGED allVars PROVE SInv'
<1>1. UNCHANGED schedVars /\ UNCHANGED <<block_table, length, context>>
  BY DEF allVars, vars
<1>2. SchedTypes' /\ OnePlace' /\ Holds' /\ Fresh' /\ Prefilled' /\ StandaloneTokens'
  BY <1>1 DEF schedVars, SInv, SchedTypes, OnePlace, Distinct, Holds, Fresh, Live, Prefilled,
              StandaloneTokens
<1>3. Batch'
  BY <1>1 DEF schedVars, SInv, Batch, BatchRow, Fed, RowOf
<1>. QED
  BY <1>2, <1>3 DEF SInv

LEMMA RegisterPromptKeeps == ASSUME SInv, RegisterPrompt PROVE SInv'
<1>1. /\ UNCHANGED <<waiting, running, finished, output, logits, admitted, cancelled,
                     block_table, length, context>>
      /\ pc = "register" /\ pc' = "emit"
  BY DEF RegisterPrompt, Register
<1>2. SchedTypes'
  BY <1>1 DEF SInv, SchedTypes, Places
<1>3. OnePlace'
  BY <1>1 DEF SInv, OnePlace, Distinct
<1>4. Holds'
  BY <1>1 DEF SInv, Holds
<1>5. Fresh'
  BY <1>1 DEF SInv, Fresh, Live
<1>6. Batch'
  <2>1. \A j : ~ Fed(j) /\ ~ Fed(j)'
    BY <1>1 DEF Fed
  <2>. QED
    BY <1>1, <2>1 DEF SInv, Batch, BatchRow
<1>7. Prefilled'
  BY <1>1 DEF SInv, Prefilled
<1>8. StandaloneTokens'
  BY <1>1, SameTokens
<1>. QED
  BY <1>2, <1>3, <1>4, <1>5, <1>6, <1>7, <1>8 DEF SInv

LEMMA AddKeeps == ASSUME SInv, NEW r \in Caches, Add(r) PROVE SInv'
<1>. USE DEF Add
<1>1. /\ UNCHANGED <<running, finished, output, logits, admitted, cancelled,
                     block_table, length, context, pc>>
      /\ pc = "idle" /\ waiting \in Seq(Caches) /\ waiting' = Append(waiting, r)
  BY DEF storageVars, vars, SInv, SchedTypes
<1>2. /\ waiting' \in Seq(Caches) /\ Len(waiting') = Len(waiting) + 1
      /\ waiting'[Len(waiting) + 1] = r
      /\ \A i \in 1 .. Len(waiting) : waiting'[i] = waiting[i] /\ waiting[i] \in Range(waiting)
      /\ Range(waiting') = Range(waiting) \cup {r}
  BY <1>1, AppendElements, RangeSeq
<1>3. r \notin Range(waiting) \cup Range(running) \cup Range(admitted) \cup DOMAIN finished
  BY DEF Known, Live
<1>4. SchedTypes'
  BY <1>1, <1>2 DEF SInv, SchedTypes
<1>5. OnePlace'
  <2>1. Distinct(waiting)'
    <3>1. \A i \in 1 .. Len(waiting) : waiting'[i] # r
      BY <1>2, <1>3
    <3>2. Distinct(waiting) /\ Len(waiting) \in Nat
      BY <1>1 DEF SInv, OnePlace
    <3>. QED
      BY <1>2, <3>1, <3>2 DEF Distinct
  <2>. QED
    BY <1>1, <1>2, <1>3, <2>1 DEF SInv, OnePlace, Distinct
<1>6. Holds' /\ Fresh' /\ Prefilled'
  BY <1>1 DEF SInv, Holds, Fresh, Live, Prefilled
<1>7. Batch'
  BY <1>1 DEF SInv, Batch, BatchRow, Fed, RowOf
<1>8. StandaloneTokens'
  BY <1>1, SameTokens
<1>. QED
  BY <1>4, <1>5, <1>6, <1>7, <1>8 DEF SInv

LEMMA AdmitEmptyKeeps == ASSUME SInv, AdmitEmpty PROVE SInv'
<1>. DEFINE r == Head(waiting)
<1>1. /\ UNCHANGED <<running, output, logits, admitted, cancelled,
                     block_table, length, context, pc>>
      /\ pc = "admit" /\ waiting \in Seq(Caches) /\ waiting # <<>> /\ waiting' = Tail(waiting)
      /\ finished' = Recorded(r, <<>>) /\ Prompt[r] = <<>>
  BY DEF AdmitEmpty, MayAdmit, storageVars, vars, SInv, SchedTypes
<1>2. /\ waiting' \in Seq(Caches) /\ Len(waiting') = Len(waiting) - 1 /\ Len(waiting) \in Nat
      /\ \A i \in 1 .. Len(waiting) - 1 : waiting'[i] = waiting[i + 1]
      /\ r = waiting[1] /\ r \in Caches /\ r \in Range(waiting)
      /\ \A b : b \in Range(waiting) <=> b = r \/ b \in Range(waiting')
  BY <1>1, TailElements
<1>3. /\ DOMAIN finished' = DOMAIN finished \cup {r} /\ finished'[r] = <<>>
      /\ \A q \in DOMAIN finished \ {r} : finished'[q] = finished[q]
  <2>1. finished' = Recorded(r, <<>>)
    BY <1>1
  <2>2. /\ DOMAIN Recorded(r, <<>>) = DOMAIN finished \cup {r}
        /\ Recorded(r, <<>>)[r] = <<>>
        /\ \A q \in DOMAIN finished \ {r} : Recorded(r, <<>>)[q] = finished[q]
    BY DEF Recorded
  <2>. QED
    BY <2>1, <2>2
<1>4. r \notin Range(running) \cup Range(admitted) \cup DOMAIN finished
  BY <1>2 DEF SInv, OnePlace
<1>5. r \notin Range(waiting')
  BY <1>1, <1>2, HeadOnce DEF SInv, OnePlace
<1>6. \A j \in 1 .. Len(running) : running[j] \in Range(running)
  BY RangeSeq DEF SInv, SchedTypes
<1>7. SchedTypes'
  BY <1>1, <1>2, <1>3 DEF SInv, SchedTypes
<1>8. OnePlace'
  <2>1. Distinct(waiting)'
    BY <1>2 DEF SInv, OnePlace, Distinct
  <2>. QED
    BY <1>1, <1>2, <1>3, <1>4, <1>5, <1>6, <2>1 DEF SInv, OnePlace, Distinct
<1>9. Holds' /\ Prefilled'
  BY <1>1 DEF SInv, Holds, Prefilled
<1>10. Fresh'
  BY <1>1, <1>3, <1>4 DEF SInv, Fresh, Live
<1>11. Batch'
  BY <1>1, <1>3 DEF SInv, Batch, BatchRow, Fed, RowOf
<1>12. StandaloneTokens'
  <2>1. output[r] = <<>>
    BY <1>2, <1>4 DEF SInv, Fresh
  <2>. QED
    BY <1>1, <1>3, <2>1 DEF SInv, StandaloneTokens
<1>. QED
  BY <1>7, <1>8, <1>9, <1>10, <1>11, <1>12 DEF SInv

LEMMA CancelWaitingKeeps == ASSUME SInv, NEW r \in Caches, CancelWaiting(r) PROVE SInv'
<1>1. /\ UNCHANGED <<running, output, logits, admitted, block_table, length, context, pc>>
      /\ pc = "idle" /\ waiting \in Seq(Caches) /\ waiting' \in Without(waiting, {r})
      /\ finished' = Recorded(r, <<>>) /\ cancelled' = cancelled \cup {r} /\ r \in Range(waiting)
  BY DEF CancelWaiting, storageVars, vars, SInv, SchedTypes
<1>2. waiting' \in Seq(Caches) /\ Distinct(waiting') /\ Range(waiting') = Range(waiting) \ {r}
  BY <1>1, WithoutLeaves DEF SInv, OnePlace
<1>3. /\ DOMAIN finished' = DOMAIN finished \cup {r} /\ finished'[r] = <<>>
      /\ \A q \in DOMAIN finished \ {r} : finished'[q] = finished[q]
  <2>1. finished' = Recorded(r, <<>>)
    BY <1>1
  <2>2. /\ DOMAIN Recorded(r, <<>>) = DOMAIN finished \cup {r}
        /\ Recorded(r, <<>>)[r] = <<>>
        /\ \A q \in DOMAIN finished \ {r} : Recorded(r, <<>>)[q] = finished[q]
    BY DEF Recorded
  <2>. QED
    BY <2>1, <2>2
<1>4. r \notin Range(running) \cup Range(admitted) \cup DOMAIN finished
  BY <1>1 DEF SInv, OnePlace
<1>6. \A j \in 1 .. Len(running) : running[j] \in Range(running)
  BY RangeSeq DEF SInv, SchedTypes
<1>7. SchedTypes'
  BY <1>1, <1>2, <1>3 DEF SInv, SchedTypes
<1>8. OnePlace'
  BY <1>1, <1>2, <1>3, <1>4, <1>6 DEF SInv, OnePlace, Distinct
<1>9. Holds' /\ Prefilled'
  BY <1>1 DEF SInv, Holds, Prefilled
<1>10. Fresh'
  BY <1>1, <1>3, <1>4 DEF SInv, Fresh, Live
<1>11. Batch'
  BY <1>1, <1>3 DEF SInv, Batch, BatchRow, Fed, RowOf
<1>12. StandaloneTokens'
  <2>1. output[r] = <<>>
    BY <1>4 DEF SInv, Fresh
  <2>. QED
    BY <1>1, <1>3, <2>1 DEF SInv, StandaloneTokens
<1>. QED
  BY <1>7, <1>8, <1>9, <1>10, <1>11, <1>12 DEF SInv

LEMMA CancelRunningKeeps ==
  ASSUME IInv, SInv, NEW r \in Caches, CancelRunning(r)
  PROVE  SInv'
<1>1. /\ UNCHANGED <<waiting, output, logits, admitted, pc>>
      /\ pc = "idle" /\ running \in Seq(Caches) /\ logits = <<>> /\ admitted = <<>>
      /\ running' \in Without(running, DOMAIN finished')
      /\ finished' = Recorded(r, output[r]) /\ cancelled' = cancelled \cup {r}
      /\ Release(r) /\ r \in Range(running)
  BY DEF CancelRunning, Finish, SInv, SchedTypes, Holds
<1>2. /\ running' \in Seq(Caches) /\ Distinct(running')
      /\ Range(running') = Range(running) \ DOMAIN finished'
  BY <1>1, WithoutLeaves DEF SInv, OnePlace
<1>3. /\ DOMAIN finished' = DOMAIN finished \cup {r} /\ finished'[r] = output[r]
      /\ \A q \in DOMAIN finished \ {r} : finished'[q] = finished[q]
  <2>1. finished' = Recorded(r, output[r])
    BY <1>1
  <2>2. /\ DOMAIN Recorded(r, output[r]) = DOMAIN finished \cup {r}
        /\ Recorded(r, output[r])[r] = output[r]
        /\ \A q \in DOMAIN finished \ {r} : Recorded(r, output[r])[q] = finished[q]
    BY DEF Recorded
  <2>. QED
    BY <2>1, <2>2
<1>4. /\ block_table'[r] = <<>>
      /\ \A q \in Caches \ {r} : context'[q] = context[q] /\ block_table'[q] = block_table[q]
  BY <1>1, ReleaseEmpties
<1>5. Range(admitted) = {}
  BY <1>1 DEF Range
<1>6. /\ \A q : q \in Range(running) <=> \E j \in 1 .. Len(running) : running[j] = q
      /\ \A q : q \in Range(running') <=> \E j \in 1 .. Len(running') : running'[j] = q
  BY <1>1, <1>2, RangeSeq
<1>7. SchedTypes'
  BY <1>1, <1>2, <1>3 DEF SInv, SchedTypes
<1>8. OnePlace'
  BY <1>1, <1>2, <1>3, <1>5, <1>6 DEF SInv, OnePlace, Distinct
<1>9. Holds' /\ Prefilled'
  BY <1>1 DEF SInv, Holds, Prefilled
<1>10. Fresh'
  <2>1. \A q \in Caches : q \notin Live' => block_table'[q] = <<>>
    BY <1>1, <1>2, <1>3, <1>4, <1>5 DEF SInv, Fresh, Live
  <2>2. \A q \in Caches : q \notin Range(running)' \cup DOMAIN finished' => output'[q] = <<>>
    BY <1>1, <1>2, <1>3 DEF SInv, Fresh
  <2>. QED
    BY <2>1, <2>2 DEF Fresh
<1>11. Batch'
  <2>1. ASSUME NEW j \in 1 .. Len(running'), running'[j] \notin DOMAIN finished'
        PROVE  BatchRow(j)'
    <3>1. PICK i \in 1 .. Len(running) : running[i] = running'[j]
      BY <1>2, <1>6
    <3>2. BatchRow(i) /\ ~ Fed(i) /\ ~ Fed(j)'
      BY <1>1, <1>3, <2>1, <3>1 DEF SInv, Batch, Fed
    <3>3. running'[j] \in Caches \ {r}
      BY <1>2, <1>3, <2>1, RangeSeq
    <3>. QED
      BY <1>1, <1>4, <3>1, <3>2, <3>3 DEF BatchRow
  <2>. QED
    BY <1>1, <2>1 DEF Batch
<1>12. StandaloneTokens'
  BY <1>1, <1>3 DEF SInv, StandaloneTokens
<1>. QED
  BY <1>7, <1>8, <1>9, <1>10, <1>11, <1>12 DEF SInv


(* An exception in a forward leaves the blocks it got in the table of a    *)
(* live sequence and everything else alone. *)
LEMMA RaisesKeeps ==
  ASSUME IInv, SInv, NEW r \in Live, r \in Caches, NEW toks, ForwardRaises(r, toks),
         pc \in {"decode", "prefill"},
         UNCHANGED <<waiting, running, finished, output, admitted, cancelled>>
  PROVE  SInv'
<1>1. /\ pc' = "raised" /\ logits' = logits
      /\ \A q \in Caches \ {r} : block_table'[q] = block_table[q]
  BY DEF ForwardRaises, ForwardOutOfBlocks, kvVars, IInv, TypeOK
<1>2. SchedTypes'
  BY <1>1 DEF SInv, SchedTypes, Places
<1>3. OnePlace'
  BY <1>1 DEF SInv, OnePlace, Distinct
<1>4. Holds'
  BY <1>1 DEF Holds
<1>5. Fresh'
  BY <1>1 DEF SInv, Fresh, Live
<1>6. Batch' /\ Prefilled'
  BY <1>1 DEF Batch, Prefilled
<1>7. StandaloneTokens'
  BY SameTokens
<1>. QED
  BY <1>2, <1>3, <1>4, <1>5, <1>6, <1>7 DEF SInv

(* A decode row feeds the sequence its last token. *)
LEMMA DecodeFeeds ==
  ASSUME IInv, SInv, ReadsBack', NEW next, pc = "decode",
         NEW r \in Caches, r = running[Len(logits) + 1],
         ForwardRow(r, <<LastToken(r)>>, next)
  PROVE  /\ context'[r] = Prompt[r] \o output[r] /\ context'[r] \in Seq(Token)
         /\ Len(context'[r]) <= MaxSeq
         /\ logits' = Append(logits, context'[r])
         /\ \A q \in Caches \ {r} :
              context'[q] = context[q] /\ block_table'[q] = block_table[q]
<1>. DEFINE toks == <<LastToken(r)>>
<1>1. /\ toks \in Seq(Token) /\ output[r] \in Seq(Token) /\ output[r] # <<>>
      /\ context[r] = Prompt[r] \o Front(output[r]) /\ LastToken(r) = Last(output[r])
  BY DecodeRow
<1>2. Forward(r, toks) /\ logits' = Append(logits, Encoded(r)')
  BY DEF ForwardRow
<1>3. /\ context'[r] = context[r] \o toks /\ context'[r] \in Seq(Token)
      /\ Len(context'[r]) <= MaxSeq /\ Encoded(r)' = context'[r]
      /\ \A q \in Caches \ {r} :
           context'[q] = context[q] /\ block_table'[q] = block_table[q]
  <2>. HIDE DEF toks
  <2>. QED
    BY <1>1, <1>2, ForwardFeeds
<1>4. Prompt[r] \in Seq(Token)
  BY SchedulerAssumption, StoreAssumption
<1>5. /\ Front(output[r]) \in Seq(Token)
      /\ Front(output[r]) \o <<Last(output[r])>> = output[r]
  BY <1>1, FrontAndLast
<1>6. Front(output[r]) \o toks = output[r]
  BY <1>1, <1>5
<1>7. (Prompt[r] \o Front(output[r])) \o toks = Prompt[r] \o (Front(output[r]) \o toks)
  <2>. DEFINE p == Prompt[r]
              f == Front(output[r])
  <2>1. p \in Seq(Token) /\ f \in Seq(Token) /\ toks \in Seq(Token)
    BY <1>1, <1>4, <1>5
  <2>. HIDE DEF toks, p, f
  <2>2. (p \o f) \o toks = p \o (f \o toks)
    BY <2>1, ConcatAssociative
  <2>. QED
    BY <2>2 DEF p, f
<1>8. context'[r] = Prompt[r] \o output[r]
  BY <1>1, <1>3, <1>6, <1>7
<1>. QED
  BY <1>2, <1>3, <1>8

LEMMA DecodeKeeps == ASSUME IInv, SInv, ReadsBack', Decode PROVE SInv'
<1>. DEFINE k == Len(logits) + 1
            next == IF k = Len(running) THEN "accept" ELSE "decode"
<1>0. /\ pc = "decode"
      /\ UNCHANGED <<waiting, running, finished, output, admitted, cancelled>>
  BY DEF Decode
<1>r. PICK r \in Caches : r = running[k]
  BY <1>0, DecodeRow
<1>1. k \in 1 .. Len(running) /\ r \notin DOMAIN finished /\ r \in Range(running)
  BY <1>0, <1>r, DecodeRow
<1>2. CASE ForwardRaises(r, <<LastToken(r)>>)
  <2>1. r \in Live
    BY <1>1 DEF Live
  <2>. QED
    BY <1>0, <1>1, <1>2, <2>1, RaisesKeeps
<1>3. CASE ForwardRow(r, <<LastToken(r)>>, next)
  <2>1. /\ context'[r] = Prompt[r] \o output[r] /\ context'[r] \in Seq(Token)
        /\ Len(context'[r]) <= MaxSeq
        /\ logits' = Append(logits, context'[r])
        /\ \A q \in Caches \ {r} : context'[q] = context[q] /\ block_table'[q] = block_table[q]
    BY <1>0, <1>r, <1>3, DecodeFeeds
  <2>2. pc' = next
    BY <1>3 DEF ForwardRow
  <2>3. /\ logits \in Seq(Seq(Token)) /\ running \in Seq(Caches) /\ Len(logits) \in Nat
        /\ Len(running) \in Nat /\ Len(logits) < Len(running) /\ admitted = <<>>
    BY <1>0 DEF SInv, SchedTypes, Holds
  <2>4. /\ logits' \in Seq(Seq(Token)) /\ Len(logits') = k /\ logits'[k] = context'[r]
        /\ \A i \in 1 .. Len(logits) : logits'[i] = logits[i]
    <3>. DEFINE x == context'[r]
    <3>1. x \in Seq(Token) /\ logits' = Append(logits, x)
      BY <2>1
    <3>. HIDE DEF x
    <3>2. /\ Append(logits, x) \in Seq(Seq(Token)) /\ Len(Append(logits, x)) = Len(logits) + 1
          /\ Append(logits, x)[Len(logits) + 1] = x
          /\ \A i \in 1 .. Len(logits) : Append(logits, x)[i] = logits[i]
      BY <2>3, <3>1, AppendElements
    <3>3. /\ logits' \in Seq(Seq(Token)) /\ Len(logits') = k /\ logits'[k] = x
          /\ \A i \in 1 .. Len(logits) : logits'[i] = logits[i]
      BY <3>1, <3>2
    <3>. QED
      BY <3>3 DEF x
  <2>5. SchedTypes'
    BY <1>0, <2>2, <2>4 DEF SInv, SchedTypes, Places
  <2>6. OnePlace'
    BY <1>0 DEF SInv, OnePlace, Distinct
  <2>7. Holds'
    BY <1>0, <2>2, <2>3, <2>4 DEF Holds
  <2>8. Fresh'
    <3>1. r \in Live
      BY <1>1 DEF Live
    <3>. QED
      BY <1>0, <2>1, <3>1 DEF SInv, Fresh, Live
  <2>9. ASSUME NEW j \in 1 .. Len(running), running[j] \notin DOMAIN finished
        PROVE  BatchRow(j)'
    <3>1. BatchRow(j)
      BY <1>0, <2>9 DEF SInv, Batch
    <3>2. CASE j = k
      <4>1. Fed(j)'
        BY <1>0, <2>2, <2>3, <2>4, <3>2 DEF Fed
      <4>2. context'[running[j]] = Prompt[running[j]] \o output[running[j]]
        BY <1>r, <2>1, <3>2
      <4>. QED
        BY <1>0, <3>1, <4>1, <4>2 DEF BatchRow
    <3>3. CASE j # k
      <4>1. running[j] \in Caches \ {r}
        <5>1. running[j] \in Caches
          BY <2>3
        <5>. QED
          BY <1>r, <1>1, <3>3, <5>1 DEF SInv, OnePlace, Distinct
      <4>2. Fed(j)' <=> Fed(j)
        BY <1>0, <2>2, <2>3, <2>4, <3>3 DEF Fed
      <4>. QED
        BY <1>0, <2>1, <3>1, <4>1, <4>2 DEF BatchRow
    <3>. QED
      BY <3>2, <3>3
  <2>10. ASSUME NEW i \in 1 .. Len(logits')
         PROVE  /\ logits'[i] = Prompt[RowOf(i)'] \o output[RowOf(i)']
                /\ Len(logits'[i]) <= MaxSeq
    <3>1. RowOf(i)' = running[i]
      BY <1>0, <2>2, <2>3, <2>4 DEF RowOf
    <3>2. CASE i = k
      BY <1>r, <2>1, <2>4, <3>1, <3>2
    <3>3. CASE i # k
      <4>1. i \in 1 .. Len(logits) /\ RowOf(i) = running[i]
        BY <1>0, <2>3, <2>4, <3>3 DEF RowOf
      <4>. QED
        BY <1>0, <2>4, <3>1, <4>1 DEF SInv, Batch
    <3>. QED
      BY <3>2, <3>3
  <2>11. Batch'
    BY <1>0, <2>9, <2>10 DEF Batch
  <2>12. Prefilled'
    BY <2>2 DEF Prefilled
  <2>13. StandaloneTokens'
    BY <1>0, SameTokens
  <2>. QED
    BY <2>5, <2>6, <2>7, <2>8, <2>11, <2>12, <2>13 DEF SInv
<1>. QED
  BY <1>r, <1>2, <1>3 DEF Decode

(* What _accept leaves of the output, from the logits of the sequence's    *)
(* own history. *)
LEMMA NextToken ==
  ASSUME SInv, NEW r \in Caches, NEW tok \in Token, Prompt[r] \in Seq(Token),
         tok = Sample(r, Prompt[r] \o output[r]), Len(output[r]) < MaxTokens[r],
         MaxTokens[r] \in Nat
  PROVE  LET e == Emitted(r, tok)
         IN  /\ e \in Seq(Token)
             /\ \A i \in 1 .. Len(e) :
                  /\ e[i] = Sample(r, Prompt[r] \o SubSeq(e, 1, i - 1))
                  /\ e[i] # Eos /\ i <= MaxTokens[r]
             /\ Done(r, tok) => Len(e) = MaxTokens[r] \/ Sample(r, Prompt[r] \o e) = Eos
             /\ ~ Done(r, tok) => e # <<>> /\ Len(e) < MaxTokens[r] /\ Front(e) = output[r]
<1>. DEFINE out == output[r]
            e == Emitted(r, tok)
<1>1. out \in Seq(Token) /\ Len(out) \in Nat
  BY DEF SInv, SchedTypes
<1>2. \A i \in 1 .. Len(out) :
        /\ out[i] = Sample(r, Prompt[r] \o SubSeq(out, 1, i - 1))
        /\ out[i] # Eos /\ i <= MaxTokens[r]
  BY DEF SInv, StandaloneTokens
<1>3. CASE tok = Eos
  <2>1. e = out /\ Done(r, tok) /\ Sample(r, Prompt[r] \o e) = Eos
    BY <1>3 DEF Emitted, Done
  <2>. QED
    BY <1>1, <1>2, <2>1
<1>4. CASE tok # Eos
  <2>1. e = Append(out, tok) /\ (Done(r, tok) <=> Len(out) + 1 >= MaxTokens[r])
    BY <1>4 DEF Emitted, Done
  <2>2. /\ e \in Seq(Token) /\ Len(e) = Len(out) + 1 /\ e[Len(out) + 1] = tok
        /\ \A i \in 1 .. Len(out) : e[i] = out[i]
    BY <1>1, <2>1, AppendElements
  <2>3. e # <<>> /\ Front(e) = out
    BY <1>1, <2>1, AppendFront
  <2>. HIDE DEF e
  <2>4. ASSUME NEW i \in 1 .. Len(e) PROVE SubSeq(e, 1, i - 1) = SubSeq(out, 1, i - 1)
    <3>. DEFINE n == i - 1
    <3>1. n \in Nat /\ n <= Len(out) /\ n <= Len(e)
      BY <1>1, <2>2
    <3>. HIDE DEF n
    <3>2. /\ SubSeq(e, 1, n) \in Seq(Token) /\ SubSeq(out, 1, n) \in Seq(Token)
          /\ Len(SubSeq(e, 1, n)) = n /\ Len(SubSeq(out, 1, n)) = n
          /\ \A l \in 1 .. n : SubSeq(e, 1, n)[l] = e[l] /\ SubSeq(out, 1, n)[l] = out[l]
      BY <1>1, <2>2, <3>1
    <3>3. \A l \in 1 .. n : e[l] = out[l]
      BY <1>1, <2>2, <3>1
    <3>4. SubSeq(e, 1, n) = SubSeq(out, 1, n)
      BY <3>2, <3>3, SeqEqual
    <3>. QED
      BY <3>4 DEF n
  <2>5. SubSeq(out, 1, Len(out)) = out
    BY <1>1, SubSeqFull
  <2>6. ASSUME NEW i \in 1 .. Len(e)
        PROVE  /\ e[i] = Sample(r, Prompt[r] \o SubSeq(e, 1, i - 1))
               /\ e[i] # Eos /\ i <= MaxTokens[r]
    <3>1. SubSeq(e, 1, i - 1) = SubSeq(out, 1, i - 1)
      BY <2>4
    <3>2. CASE i = Len(out) + 1
      <4>1. i - 1 = Len(out)
        BY <1>1, <3>2
      <4>2. SubSeq(e, 1, i - 1) = out
        BY <2>5, <3>1, <4>1
      <4>3. e[i] = tok /\ i <= MaxTokens[r]
        BY <1>1, <2>2, <3>2
      <4>. QED
        BY <1>4, <4>2, <4>3
    <3>3. CASE i # Len(out) + 1
      <4>1. i \in 1 .. Len(out)
        BY <1>1, <2>2, <3>3
      <4>. QED
        BY <1>2, <2>2, <3>1, <4>1
    <3>. QED
      BY <3>2, <3>3
  <2>7. Done(r, tok) => Len(e) = MaxTokens[r]
    BY <1>1, <2>1, <2>2
  <2>8. ~ Done(r, tok) => Len(e) < MaxTokens[r]
    BY <1>1, <2>1, <2>2
  <2>. QED
    BY <2>2, <2>3, <2>6, <2>7, <2>8 DEF e
<1>. QED
  BY <1>3, <1>4

LEMMA AcceptKeeps == ASSUME IInv, SInv, Accept PROVE SInv'
<1>. DEFINE k == Len(running) - Len(logits) + 1
<1>0. pc = "accept" /\ UNCHANGED <<waiting, admitted, cancelled>>
  BY DEF Accept
<1>r. PICK r \in Caches : r = running[k]
  BY <1>0, AcceptRow
<1>t. PICK tok \in Token : tok = Sample(r, Head(logits))
  BY <1>0, <1>r, AcceptRow
<1>. DEFINE e == Emitted(r, tok)
            fin == DOMAIN finished'
<1>1. /\ k \in 1 .. Len(running) /\ r \notin DOMAIN finished /\ r \in Range(running)
      /\ Prompt[r] # <<>> /\ output[r] \in Seq(Token)
      /\ Len(output[r]) < MaxTokens[r] /\ MaxTokens[r] \in Nat
      /\ context[r] = Prompt[r] \o output[r]
      /\ logits # <<>> /\ Head(logits) = Prompt[r] \o output[r]
  BY <1>0, <1>r, AcceptRow
<1>2. Prompt[r] \in Seq(Token)
  BY SchedulerAssumption, StoreAssumption
<1>3. /\ e \in Seq(Token)
      /\ \A i \in 1 .. Len(e) :
           /\ e[i] = Sample(r, Prompt[r] \o SubSeq(e, 1, i - 1))
           /\ e[i] # Eos /\ i <= MaxTokens[r]
      /\ Done(r, tok) => Len(e) = MaxTokens[r] \/ Sample(r, Prompt[r] \o e) = Eos
      /\ ~ Done(r, tok) => e # <<>> /\ Len(e) < MaxTokens[r] /\ Front(e) = output[r]
  BY <1>1, <1>2, <1>t, NextToken
<1>4. /\ output' = [output EXCEPT ![r] = e]
      /\ \/ Done(r, tok) /\ Finish(r, e)
         \/ ~ Done(r, tok) /\ UNCHANGED <<storageVars, finished, reserved>>
      /\ logits' = Tail(logits)
      /\ IF Len(logits) = 1
           THEN running' \in Without(running, fin) /\ pc' = "admit"
           ELSE UNCHANGED <<running, pc>>
  BY <1>r, <1>t DEF Accept
<1>. HIDE DEF e
<1>5. /\ running \in Seq(Caches) /\ logits \in Seq(Seq(Token)) /\ output \in [Caches -> Seq(Token)]
      /\ Len(running) \in Nat /\ Len(logits) \in 1 .. Len(running)
      /\ admitted = <<>> /\ Range(admitted) = {} /\ DOMAIN finished \subseteq Caches
  BY <1>0 DEF SInv, SchedTypes, Holds, Range
<1>6. /\ output' \in [Caches -> Seq(Token)] /\ output'[r] = e
      /\ \A q \in Caches \ {r} : output'[q] = output[q]
  BY <1>3, <1>4, <1>5
<1>7. /\ logits' \in Seq(Seq(Token)) /\ Len(logits') = Len(logits) - 1
      /\ \A i \in 1 .. Len(logits) - 1 : logits'[i] = logits[i + 1]
  BY <1>1, <1>4, <1>5, TailElements
(* What ends here is recorded with its output and gives up its blocks. *)
<1>8. /\ fin = DOMAIN finished \cup (IF Done(r, tok) THEN {r} ELSE {})
      /\ Done(r, tok) => finished'[r] = e /\ block_table'[r] = <<>>
      /\ \A q \in DOMAIN finished : finished'[q] = finished[q]
  <2>1. CASE Done(r, tok)
    <3>1. finished' = Recorded(r, e) /\ Release(r)
      BY <1>4, <2>1 DEF Finish
    <3>2. /\ DOMAIN Recorded(r, e) = DOMAIN finished \cup {r} /\ Recorded(r, e)[r] = e
          /\ \A q \in DOMAIN finished \ {r} : Recorded(r, e)[q] = finished[q]
      BY DEF Recorded
    <3>3. block_table'[r] = <<>>
      BY <3>1, ReleaseEmpties
    <3>. QED
      BY <1>1, <2>1, <3>1, <3>2, <3>3
  <2>2. CASE ~ Done(r, tok)
    BY <1>4, <2>2
  <2>. QED
    BY <2>1, <2>2
<1>9. /\ \A q \in Caches \ {r} : context'[q] = context[q] /\ block_table'[q] = block_table[q]
      /\ ~ Done(r, tok) => context' = context /\ block_table' = block_table
  BY <1>4, ReleaseEmpties DEF Finish, storageVars, vars
<1>10. \A j \in 1 .. Len(running) : running[j] \in Caches /\ running[j] \in Range(running)
                                    /\ (running[j] = r => j = k)
  BY <1>r, <1>1, <1>5, RangeSeq DEF SInv, OnePlace, Distinct
(* The batch after the last row. *)
<1>11. ASSUME Len(logits) = 1
       PROVE  /\ running' \in Seq(Caches) /\ Distinct(running') /\ pc' = "admit" /\ logits' = <<>>
              /\ Range(running') = Range(running) \ fin
              /\ \A i \in 1 .. Len(running') : \E j \in 1 .. Len(running) : running'[i] = running[j]
              /\ \A i \in 1 .. Len(running') : running'[i] \notin fin
  <2>1. running' \in Without(running, fin) /\ pc' = "admit" /\ Distinct(running)
    BY <1>4, <1>11 DEF SInv, OnePlace
  <2>2. running' \in Seq(Caches) /\ Distinct(running') /\ Range(running') = Range(running) \ fin
    BY <1>5, <2>1, WithoutLeaves
  <2>3. \A i \in 1 .. Len(running') : running'[i] \in Range(running) \ fin
    BY <2>2, RangeSeq
  <2>4. \A q \in Range(running) : \E j \in 1 .. Len(running) : q = running[j]
    BY <1>5, RangeSeq
  <2>5. logits' = <<>>
    BY <1>7, <1>11, EmptySeq
  <2>. QED
    BY <2>1, <2>2, <2>3, <2>4, <2>5
<1>12. SchedTypes'
  BY <1>0, <1>4, <1>5, <1>6, <1>7, <1>8, <1>11 DEF SInv, SchedTypes, Places
<1>13. OnePlace'
  <2>1. r \notin Range(waiting)
    BY <1>1 DEF SInv, OnePlace
  <2>2. CASE Len(logits) = 1
    <3>1. /\ \A q \in Range(waiting) : q \notin Range(running') \cup Range(admitted) \cup fin
          /\ Distinct(waiting)
      BY <1>8, <1>11, <2>1, <2>2 DEF SInv, OnePlace
    <3>. QED
      BY <1>0, <1>5, <1>11, <2>2, <3>1 DEF OnePlace, Distinct
  <2>3. CASE Len(logits) # 1
    <3>1. running' = running /\ pc' = "accept"
      BY <1>0, <1>4, <2>3
    <3>2. ASSUME NEW j \in 1 .. Len(running), running[j] \in fin
          PROVE  j <= Len(running) - Len(logits')
      <4>1. running[j] \in DOMAIN finished => j <= Len(running) - Len(logits)
        BY DEF SInv, OnePlace
      <4>2. CASE running[j] \in DOMAIN finished
        BY <1>5, <1>7, <4>1, <4>2
      <4>3. CASE running[j] \notin DOMAIN finished
        <5>1. running[j] = r
          BY <1>8, <3>2, <4>3
        <5>2. j = k
          BY <1>10, <5>1
        <5>. QED
          BY <1>5, <1>7, <5>2
      <4>. QED
        BY <4>2, <4>3
    <3>. QED
      BY <1>0, <1>5, <1>8, <2>1, <3>1, <3>2 DEF SInv, OnePlace, Distinct
  <2>. QED
    BY <2>2, <2>3
<1>14. Holds'
  <2>1. CASE Len(logits) = 1
    BY <1>0, <1>5, <1>11, <2>1 DEF Holds
  <2>2. CASE Len(logits) # 1
    BY <1>0, <1>4, <1>5, <1>7, <2>2 DEF Holds
  <2>. QED
    BY <2>1, <2>2
<1>15. Fresh'
  <2>1. Range(running) \subseteq Range(running') \cup fin /\ Range(running') \subseteq Range(running)
    BY <1>4, <1>11
  <2>2. ASSUME NEW q \in Caches, q \notin Live' PROVE block_table'[q] = <<>>
    <3>1. q \notin Range(running) \ fin
      BY <1>0, <2>1, <2>2 DEF Live
    <3>2. CASE q = r
      BY <1>1, <1>8, <3>1, <3>2
    <3>3. CASE q # r
      <4>1. q \notin Live
        BY <1>5, <1>8, <3>1, <3>3 DEF Live
      <4>. QED
        BY <1>9, <3>3, <4>1 DEF SInv, Fresh
    <3>. QED
      BY <3>2, <3>3
  <2>3. ASSUME NEW q \in Caches, q \notin Range(running') \cup fin PROVE output'[q] = <<>>
    <3>1. q \notin Range(running) \cup DOMAIN finished /\ q # r
      BY <1>1, <1>8, <2>1, <2>3
    <3>. QED
      BY <1>6, <3>1 DEF SInv, Fresh
  <2>. QED
    BY <2>2, <2>3 DEF Fresh
(* The rows of the batch: this one emitted its token, the others are as    *)
(* they were. *)
<1>16. ASSUME NEW j \in 1 .. Len(running), running[j] \notin fin
       PROVE  LET q == running[j]
              IN  /\ Prompt[q] # <<>> /\ output'[q] # <<>> /\ Len(output'[q]) < MaxTokens[q]
                  /\ context'[q] = Prompt[q] \o
                       (IF j > k THEN output'[q] ELSE Front(output'[q]))
  <2>1. running[j] \notin DOMAIN finished
    BY <1>8, <1>16
  <2>2. BatchRow(j)
    BY <1>0, <2>1 DEF SInv, Batch
  <2>3. CASE j = k
    <3>1. ~ Done(r, tok)
      BY <1>r, <1>8, <1>16, <2>3
    <3>2. context'[r] = Prompt[r] \o Front(output'[r])
      BY <1>1, <1>3, <1>6, <1>9, <3>1
    <3>3. output'[r] # <<>> /\ Len(output'[r]) < MaxTokens[r]
      BY <1>3, <1>6, <3>1
    <3>4. running[j] = r /\ ~ j > k
      BY <1>r, <1>1, <2>3
    <3>. QED
      BY <1>1, <3>2, <3>3, <3>4
  <2>4. CASE j # k
    <3>1. running[j] \in Caches \ {r}
      BY <1>10, <2>4
    <3>2. j > Len(running) - Len(logits) <=> j > k
      <4>1. j \in Int /\ Len(running) \in Int /\ Len(logits) \in Int
        BY <1>5
      <4>. QED
        BY <2>4, <4>1
    <3>3. Fed(j) <=> j > k
      BY <1>0, <3>2 DEF Fed
    <3>. QED
      BY <1>6, <1>9, <2>2, <3>1, <3>3 DEF BatchRow
  <2>. QED
    BY <2>3, <2>4
<1>17. Batch'
  <2>1. CASE Len(logits) = 1
    <3>1. ASSUME NEW i \in 1 .. Len(running') PROVE BatchRow(i)'
      <4>1. PICK j \in 1 .. Len(running) : running'[i] = running[j]
        BY <1>11, <2>1
      <4>2. running[j] \notin fin /\ ~ j > k
        BY <1>5, <1>11, <2>1, <4>1
      <4>3. ~ Fed(i)'
        BY <1>11, <2>1 DEF Fed
      <4>. QED
        BY <1>16, <4>1, <4>2, <4>3 DEF BatchRow
    <3>. QED
      BY <1>11, <2>1, <3>1 DEF Batch
  <2>2. CASE Len(logits) # 1
    <3>1. running' = running /\ pc' = "accept"
      BY <1>0, <1>4, <2>2
    <3>2. ASSUME NEW j \in 1 .. Len(running), running[j] \notin fin PROVE BatchRow(j)'
      <4>1. Fed(j)' <=> j > k
        BY <1>5, <1>7, <3>1 DEF Fed
      <4>. QED
        BY <1>16, <3>1, <3>2, <4>1 DEF BatchRow
    <3>3. ASSUME NEW i \in 1 .. Len(logits')
          PROVE  /\ logits'[i] = Prompt[RowOf(i)'] \o output'[RowOf(i)']
                 /\ Len(logits'[i]) <= MaxSeq
      <4>1. /\ i + 1 \in 1 .. Len(logits) /\ k + i \in 1 .. Len(running) /\ k + i # k
            /\ Len(running) - Len(logits) + (i + 1) = k + i
            /\ Len(running) - Len(logits') + i = k + i
        <5>. DEFINE n == Len(running)
                    m == Len(logits)
                    l == Len(logits')
        <5>1. n \in Nat /\ m \in 1 .. n /\ l = m - 1 /\ i \in 1 .. l
          BY <1>5, <1>7
        <5>. HIDE DEF n, m, l
        <5>2. /\ i + 1 \in 1 .. m /\ n - m + 1 + i \in 1 .. n /\ n - m + 1 + i # n - m + 1
              /\ n - m + (i + 1) = n - m + 1 + i /\ n - l + i = n - m + 1 + i
          BY <5>1
        <5>. QED
          BY <5>2 DEF n, m, l
      <4>2. RowOf(i)' = running[k + i] /\ RowOf(i + 1) = running[k + i]
        BY <1>0, <3>1, <4>1 DEF RowOf
      <4>3. running[k + i] \in Caches \ {r}
        BY <1>10, <4>1
      <4>4. /\ logits[i + 1] = Prompt[RowOf(i + 1)] \o output[RowOf(i + 1)]
            /\ Len(logits[i + 1]) <= MaxSeq
        BY <1>0, <4>1 DEF SInv, Batch
      <4>5. logits'[i] = logits[i + 1]
        BY <1>7
      <4>. QED
        BY <1>6, <4>2, <4>3, <4>4, <4>5
    <3>. QED
      BY <3>1, <3>2, <3>3 DEF Batch
  <2>. QED
    BY <2>1, <2>2
<1>18. Prefilled'
  BY <1>0, <1>4 DEF Prefilled
<1>19. StandaloneTokens'
  <2>1. ASSUME NEW q \in Caches, NEW i \in 1 .. Len(output'[q])
        PROVE  /\ output'[q][i] = Sample(q, Prompt[q] \o SubSeq(output'[q], 1, i - 1))
               /\ output'[q][i] # Eos
               /\ i <= MaxTokens[q]
    <3>1. CASE q = r
      BY <1>3, <1>6, <3>1
    <3>2. CASE q # r
      BY <1>6, <3>2 DEF SInv, StandaloneTokens
    <3>. QED
      BY <3>1, <3>2
  <2>2. ASSUME NEW q \in fin
        PROVE  /\ finished'[q] = output'[q]
               /\ q \notin cancelled' =>
                    \/ Prompt[q] = <<>>
                    \/ Len(output'[q]) = MaxTokens[q]
                    \/ Sample(q, Prompt[q] \o output'[q]) = Eos
    <3>1. CASE q \in DOMAIN finished
      <4>1. q \in Caches \ {r}
        BY <1>1, <1>5, <3>1
      <4>. QED
        BY <1>0, <1>6, <1>8, <3>1, <4>1 DEF SInv, StandaloneTokens
    <3>2. CASE q \notin DOMAIN finished
      <4>1. q = r /\ Done(r, tok)
        BY <1>8, <2>2, <3>2
      <4>. QED
        BY <1>3, <1>6, <1>8, <4>1
    <3>. QED
      BY <3>1, <3>2
  <2>. QED
    BY <2>1, <2>2 DEF StandaloneTokens
<1>. QED
  BY <1>12, <1>13, <1>14, <1>15, <1>17, <1>18, <1>19 DEF SInv


(* Admission takes the head of the queue: it holds nothing yet, and gets   *)
(* the cached prefix of its prompt. *)
LEMMA AdmitHeadKeeps == ASSUME IInv, SInv, AdmitHead PROVE SInv'
<1>0. /\ pc = "admit" /\ pc' = "prefill" /\ waiting \in Seq(Caches) /\ waiting # <<>>
      /\ UNCHANGED <<running, finished, output, logits, cancelled>>
      /\ waiting' = Tail(waiting) /\ admitted = <<>> /\ logits = <<>>
  BY DEF AdmitHead, MayAdmit, SInv, SchedTypes, Holds
<1>1. /\ waiting' \in Seq(Caches) /\ Len(waiting') = Len(waiting) - 1 /\ Len(waiting) \in Nat
      /\ \A i \in 1 .. Len(waiting) - 1 : waiting'[i] = waiting[i + 1]
      /\ Head(waiting) \in Caches /\ Head(waiting) \in Range(waiting)
      /\ \A b : b \in Range(waiting) <=> b = Head(waiting) \/ b \in Range(waiting')
  BY <1>0, TailElements
<1>r. PICK r \in Caches : r = Head(waiting)
  BY <1>1
<1>. DEFINE p == Prompt[r]
<1>2. p \in Seq(Token) /\ Len(p) \in Nat /\ p # <<>> /\ admitted' = <<r>>
  BY <1>r, SchedulerAssumption, StoreAssumption DEF AdmitHead
<1>3. r \notin Range(running) \cup Range(admitted) \cup DOMAIN finished /\ r \notin Range(waiting')
  BY <1>r, <1>0, <1>1, HeadOnce DEF SInv, OnePlace
<1>4. block_table[r] = <<>> /\ output[r] = <<>>
  BY <1>3 DEF SInv, Fresh, Live
<1>5. /\ length \in [Caches -> 0 .. MaxSeq] /\ context \in [Caches -> Seq(Token)]
      /\ block_table \in [Caches -> Seq(Blocks)]
      /\ length[r] = Len(context[r]) /\ length[r] <= BlockSize * Len(block_table[r])
  BY DEF IInv, TypeOK, KVExact
<1>6. length[r] = 0 /\ context[r] = <<>>
  <2>1. length[r] = 0
    BY <1>4, <1>5, PoolAssumption, CacheAssumption
  <2>. QED
    BY <1>5, <2>1, EmptySeq
<1>7. PICK n \in 0 .. Len(p) :
        /\ Shares(r, n)
        /\ IF n > 0 THEN SharePrefix(r, Matched(p, n), Key(p, n))
                    ELSE UNCHANGED kvVars
  BY <1>r DEF AdmitHead
<1>8. /\ length'[r] < Len(p) /\ context'[r] = SubSeq(p, 1, length'[r])
      /\ \A q \in Caches \ {r} : context'[q] = context[q] /\ block_table'[q] = block_table[q]
  <2>1. CASE n = 0
    <3>1. length'[r] = 0 /\ context' = context /\ block_table' = block_table
      BY <1>6, <1>7, <2>1 DEF kvVars
    <3>2. Len(p) > 0
      BY <1>2, EmptySeq
    <3>3. SubSeq(p, 1, 0) = <<>>
      BY <1>2
    <3>. QED
      BY <1>6, <3>1, <3>2, <3>3
  <2>2. CASE n # 0
    <3>. DEFINE most == (Len(p) - 1) \div BlockSize
                l == n * BlockSize
    <3>1. n \in 1 .. Len(p) /\ BlockSize \in Nat \ {0}
      BY <1>2, <2>2, PoolAssumption
    <3>2. SharePrefix(r, Matched(p, n), Key(p, n)) /\ n <= most
      <4>1. SharePrefix(r, Matched(p, n), Key(p, n)) /\ Matches(p, n)
        BY <1>7, <3>1 DEF Shares
      <4>. QED
        BY <4>1 DEF Matches
    <3>3. l \in Nat /\ l <= Len(p) - 1
      <4>. DEFINE m == Len(p) - 1
      <4>1. m \in Nat
        BY <1>2, <3>1
      <4>2. /\ m \div BlockSize \in Nat /\ m % BlockSize \in 0 .. BlockSize - 1
            /\ m = BlockSize * (m \div BlockSize) + (m % BlockSize)
        <5>. HIDE DEF m
        <5>. QED
          BY <4>1, DivMod
      <4>3. most \in Nat /\ BlockSize * most <= m
        <5>. DEFINE t == BlockSize * most
                    o == m % BlockSize
        <5>1. m = t + o /\ o \in 0 .. BlockSize - 1 /\ most \in Nat
          BY <4>2
        <5>. HIDE DEF o, m, most
        <5>3. t \in Nat
          BY <3>1, <5>1
        <5>. HIDE DEF t
        <5>2. t <= m
          BY <3>1, <5>1, <5>3
        <5>. QED
          BY <5>1, <5>2 DEF t
      <4>. HIDE DEF most, m
      <4>4. BlockSize * n <= BlockSize * most
        BY <3>1, <3>2, <4>3, TimesMonotone
      <4>5. l = BlockSize * n /\ l \in Nat /\ BlockSize * most \in Nat
        BY <3>1, <4>3
      <4>6. l <= m
        <5>. DEFINE t == BlockSize * most
                    u == BlockSize * n
        <5>1. u <= t /\ t <= m /\ l = u /\ u \in Nat /\ t \in Nat
          BY <4>3, <4>4, <4>5
        <5>. HIDE DEF t, u, l
        <5>. QED
          BY <4>1, <5>1
      <4>. QED
        BY <4>5, <4>6 DEF m
    <3>. HIDE DEF l
    <3>4. Key(p, n) = SubSeq(p, 1, l) /\ Len(SubSeq(p, 1, l)) = l
      BY <1>2, <3>3 DEF Key, l
    <3>5. length'[r] = l /\ context'[r] = SubSeq(p, 1, l)
          /\ \A q \in Caches \ {r} : context'[q] = context[q] /\ block_table'[q] = block_table[q]
      BY <1>5, <3>2, <3>4 DEF SharePrefix
    <3>. QED
      BY <1>2, <3>3, <3>5
  <2>. QED
    BY <2>1, <2>2
<1>9. admitted'[1] = r /\ Len(admitted') = 1 /\ admitted' \in Seq(Caches) /\ Range(admitted') = {r}
  BY <1>2 DEF Range
<1>10. \A j \in 1 .. Len(running) : running[j] \in Range(running) /\ running[j] \in Caches
  BY RangeSeq DEF SInv, SchedTypes
<1>11. SchedTypes'
  BY <1>0, <1>1, <1>9 DEF SInv, SchedTypes, Places
<1>12. OnePlace'
  <2>1. Distinct(waiting)'
    BY <1>1 DEF SInv, OnePlace, Distinct
  <2>2. \A q \in Range(waiting') :
          q \notin Range(running) \cup Range(admitted') \cup DOMAIN finished
    BY <1>1, <1>3, <1>9 DEF SInv, OnePlace
  <2>. QED
    BY <1>0, <1>3, <1>9, <2>1, <2>2 DEF SInv, OnePlace, Distinct
<1>13. Holds'
  BY <1>0, <1>9 DEF Holds
<1>14. Fresh'
  <2>1. Range(admitted) = {}
    BY <1>0 DEF Range
  <2>2. ASSUME NEW q \in Caches, q \notin Live' PROVE block_table'[q] = <<>>
    <3>1. q # r /\ q \notin Live
      BY <1>0, <1>9, <2>1, <2>2 DEF Live
    <3>. QED
      BY <1>8, <3>1 DEF SInv, Fresh
  <2>. QED
    BY <1>0, <2>2 DEF SInv, Fresh
<1>15. Batch'
  <2>1. ASSUME NEW j \in 1 .. Len(running), running[j] \notin DOMAIN finished PROVE BatchRow(j)'
    <3>1. BatchRow(j) /\ ~ Fed(j) /\ ~ Fed(j)'
      BY <1>0, <2>1 DEF SInv, Batch, Fed
    <3>2. running[j] \in Caches \ {r}
      BY <1>3, <1>10
    <3>. QED
      BY <1>0, <1>8, <3>1, <3>2 DEF BatchRow
  <2>. QED
    BY <1>0, <2>1 DEF Batch
<1>16. Prefilled'
  BY <1>0, <1>8, <1>9 DEF Prefilled
<1>17. StandaloneTokens'
  BY <1>0, SameTokens
<1>. QED
  BY <1>11, <1>12, <1>13, <1>14, <1>15, <1>16, <1>17 DEF SInv

LEMMA PrefillKeeps == ASSUME IInv, SInv, ReadsBack', Prefill PROVE SInv'
<1>. DEFINE next == IF PrefixSharing THEN "register" ELSE "emit"
            suffix(r) == SubSeq(Prompt[r], length[r] + 1, Len(Prompt[r]))
<1>0. /\ pc = "prefill"
      /\ UNCHANGED <<waiting, running, finished, output, admitted, cancelled>>
  BY DEF Prefill
<1>r. PICK r \in Caches : r = Head(admitted)
  BY <1>0, AdmittedRow
<1>1. /\ r = admitted[1] /\ admitted = <<r>> /\ Range(admitted) = {r}
      /\ r \notin Range(running) /\ r \notin DOMAIN finished
      /\ Prompt[r] \in Seq(Token)
      /\ suffix(r) \in Seq(Token) /\ context[r] \o suffix(r) = Prompt[r]
  BY <1>0, <1>r, AdmittedRow, PrefillSuffix
<1>2. r \in Live
  BY <1>1 DEF Live
<1>3. CASE ForwardRaises(r, suffix(r))
  BY <1>0, <1>2, <1>3, RaisesKeeps
<1>4. CASE ForwardRow(r, suffix(r), next)
  <2>1. /\ Forward(r, suffix(r)) /\ logits' = Append(logits, Encoded(r)') /\ pc' = next
        /\ logits = <<>>
    BY <1>0, <1>4 DEF ForwardRow, SInv, Holds
  <2>2. /\ context'[r] = Prompt[r] /\ Len(context'[r]) <= MaxSeq /\ Encoded(r)' = context'[r]
        /\ \A q \in Caches \ {r} : context'[q] = context[q] /\ block_table'[q] = block_table[q]
    <3>. HIDE DEF suffix
    <3>. QED
      BY <1>1, <2>1, ForwardFeeds
  <2>3. logits' = <<Prompt[r]>>
    BY <2>1, <2>2
  <2>4. Prompt[r] # <<>>
    <3>1. length[r] \in Nat /\ length[r] < Len(Prompt[r])
      BY <1>0, <1>1 DEF SInv, Prefilled, IInv, TypeOK
    <3>. QED
      BY <1>1, <3>1, EmptySeq
  <2>5. \A j \in 1 .. Len(running) : running[j] \in Caches \ {r}
    BY <1>1, RangeSeq DEF SInv, SchedTypes
  <2>6. SchedTypes'
    BY <1>0, <1>1, <2>1, <2>3 DEF SInv, SchedTypes, Places
  <2>7. OnePlace'
    BY <1>0 DEF SInv, OnePlace, Distinct
  <2>8. Holds'
    BY <1>0, <2>1 DEF SInv, Holds
  <2>9. Fresh'
    BY <1>0, <1>2, <2>2 DEF SInv, Fresh, Live
  <2>10. Batch'
    <3>1. ASSUME NEW j \in 1 .. Len(running), running[j] \notin DOMAIN finished PROVE BatchRow(j)'
      <4>1. BatchRow(j) /\ ~ Fed(j) /\ ~ Fed(j)'
        BY <1>0, <2>1, <3>1 DEF SInv, Batch, Fed
      <4>. QED
        BY <1>0, <2>2, <2>5, <4>1 DEF BatchRow
    <3>. QED
      BY <1>0, <2>1, <3>1 DEF Batch
  <2>11. Prefilled'
    BY <1>0, <1>1, <2>1, <2>2, <2>3, <2>4 DEF Prefilled
  <2>12. StandaloneTokens'
    BY <1>0, SameTokens
  <2>. QED
    BY <2>6, <2>7, <2>8, <2>9, <2>10, <2>11, <2>12 DEF SInv
<1>. QED
  BY <1>r, <1>3, <1>4 DEF Prefill


(* A request that ends with its first token or, asking for none, without:  *)
(* it is recorded and gives up its blocks. *)
LEMMA EmitDoneKeeps ==
  ASSUME IInv, SInv, pc = "emit", pc' = "admit", logits' = <<>>, admitted' = <<>>,
         UNCHANGED <<waiting, cancelled, running>>,
         NEW r \in Caches, r = Head(admitted), NEW e \in Seq(Token), Finish(r, e),
         output' = [output EXCEPT ![r] = e],
         \A i \in 1 .. Len(e) :
           /\ e[i] = Sample(r, Prompt[r] \o SubSeq(e, 1, i - 1))
           /\ e[i] # Eos /\ i <= MaxTokens[r],
         Len(e) = MaxTokens[r] \/ Sample(r, Prompt[r] \o e) = Eos
  PROVE  SInv'
<1>1. /\ r \notin Range(running) /\ r \notin DOMAIN finished /\ r \notin Range(waiting)
      /\ Range(admitted) = {r}
  BY AdmittedRow
<1>2. finished' = Recorded(r, e) /\ Release(r)
  BY DEF Finish
<1>3. /\ DOMAIN finished' = DOMAIN finished \cup {r} /\ finished'[r] = e
      /\ \A q \in DOMAIN finished : finished'[q] = finished[q]
  <2>1. /\ DOMAIN Recorded(r, e) = DOMAIN finished \cup {r} /\ Recorded(r, e)[r] = e
        /\ \A q \in DOMAIN finished \ {r} : Recorded(r, e)[q] = finished[q]
    BY DEF Recorded
  <2>. QED
    BY <1>1, <1>2, <2>1
<1>4. /\ block_table'[r] = <<>>
      /\ \A q \in Caches \ {r} : context'[q] = context[q] /\ block_table'[q] = block_table[q]
  BY <1>2, ReleaseEmpties
<1>5. /\ output \in [Caches -> Seq(Token)] /\ running \in Seq(Caches) /\ DOMAIN finished \subseteq Caches
      /\ Range(admitted') = {}
  BY DEF SInv, SchedTypes, Range
<1>6. /\ output' \in [Caches -> Seq(Token)] /\ output'[r] = e
      /\ \A q \in Caches \ {r} : output'[q] = output[q]
  BY <1>5
<1>7. \A j \in 1 .. Len(running) :
        running[j] \in Caches \ {r} /\ running[j] \notin DOMAIN finished
  BY <1>1, <1>5, RangeSeq DEF SInv, OnePlace
<1>8. SchedTypes'
  BY <1>3, <1>5, <1>6 DEF SInv, SchedTypes, Places
<1>9. OnePlace'
  BY <1>1, <1>3, <1>5, <1>7 DEF SInv, OnePlace, Distinct
<1>10. Holds' /\ Prefilled'
  BY DEF Holds, Prefilled
<1>11. Fresh'
  <2>1. ASSUME NEW q \in Caches, q \notin Live' PROVE block_table'[q] = <<>>
    <3>1. q # r => q \notin Live
      BY <1>1, <1>3, <2>1 DEF Live
    <3>. QED
      BY <1>4, <3>1 DEF SInv, Fresh
  <2>2. ASSUME NEW q \in Caches, q \notin Range(running) \cup DOMAIN finished'
        PROVE  output'[q] = <<>>
    BY <1>3, <1>6, <2>2 DEF SInv, Fresh
  <2>. QED
    BY <2>1, <2>2 DEF Fresh
<1>12. Batch'
  <2>1. ASSUME NEW j \in 1 .. Len(running) PROVE BatchRow(j)'
    <3>1. BatchRow(j) /\ ~ Fed(j) /\ ~ Fed(j)'
      BY <1>7 DEF SInv, Batch, Fed
    <3>. QED
      BY <1>4, <1>6, <1>7, <3>1 DEF BatchRow
  <2>. QED
    BY <2>1 DEF Batch
<1>13. StandaloneTokens'
  <2>1. ASSUME NEW q \in Caches, NEW i \in 1 .. Len(output'[q])
        PROVE  /\ output'[q][i] = Sample(q, Prompt[q] \o SubSeq(output'[q], 1, i - 1))
               /\ output'[q][i] # Eos
               /\ i <= MaxTokens[q]
    <3>1. CASE q = r
      BY <1>6, <3>1
    <3>2. CASE q # r
      BY <1>6, <3>2 DEF SInv, StandaloneTokens
    <3>. QED
      BY <3>1, <3>2
  <2>2. ASSUME NEW q \in DOMAIN finished'
        PROVE  /\ finished'[q] = output'[q]
               /\ q \notin cancelled' =>
                    \/ Prompt[q] = <<>>
                    \/ Len(output'[q]) = MaxTokens[q]
                    \/ Sample(q, Prompt[q] \o output'[q]) = Eos
    <3>1. CASE q \in DOMAIN finished
      <4>1. q \in Caches \ {r}
        BY <1>1, <1>5, <3>1
      <4>. QED
        BY <1>3, <1>6, <3>1, <4>1 DEF SInv, StandaloneTokens
    <3>2. CASE q \notin DOMAIN finished
      <4>1. q = r
        BY <1>3, <2>2, <3>2
      <4>. QED
        BY <1>3, <1>6, <4>1
    <3>. QED
      BY <3>1, <3>2
  <2>. QED
    BY <2>1, <2>2 DEF StandaloneTokens
<1>. QED
  BY <1>8, <1>9, <1>10, <1>11, <1>12, <1>13 DEF SInv

(* A request that goes on joins the batch behind the others. *)
LEMMA EmitRunningKeeps ==
  ASSUME IInv, SInv, pc = "emit", pc' = "admit", logits' = <<>>, admitted' = <<>>,
         UNCHANGED <<waiting, cancelled, finished, block_table, context>>,
         NEW r \in Caches, r = Head(admitted), NEW e \in Seq(Token),
         running' = Append(running, r),
         output' = [output EXCEPT ![r] = e],
         \A i \in 1 .. Len(e) :
           /\ e[i] = Sample(r, Prompt[r] \o SubSeq(e, 1, i - 1))
           /\ e[i] # Eos /\ i <= MaxTokens[r],
         e # <<>>, Len(e) < MaxTokens[r], Front(e) = <<>>
  PROVE  SInv'
<1>1. /\ r \notin Range(running) /\ r \notin DOMAIN finished /\ r \notin Range(waiting)
      /\ Range(admitted) = {r} /\ r = admitted[1] /\ Prompt[r] \in Seq(Token)
  BY AdmittedRow
<1>2. Prompt[r] # <<>> /\ context[r] = Prompt[r]
  BY <1>1 DEF SInv, Prefilled
<1>3. /\ output \in [Caches -> Seq(Token)] /\ running \in Seq(Caches) /\ DOMAIN finished \subseteq Caches
      /\ Range(admitted') = {} /\ Len(running) \in Nat
  BY DEF SInv, SchedTypes, Range
<1>4. /\ output' \in [Caches -> Seq(Token)] /\ output'[r] = e
      /\ \A q \in Caches \ {r} : output'[q] = output[q]
  BY <1>3
<1>5. /\ running' \in Seq(Caches) /\ Len(running') = Len(running) + 1
      /\ running'[Len(running) + 1] = r
      /\ \A j \in 1 .. Len(running) : running'[j] = running[j]
      /\ Range(running') = Range(running) \cup {r}
  BY <1>3, AppendElements
<1>6. \A j \in 1 .. Len(running) :
        running[j] \in Caches \ {r} /\ running[j] \notin DOMAIN finished
  BY <1>1, <1>3, RangeSeq DEF SInv, OnePlace
<1>7. SchedTypes'
  BY <1>3, <1>4, <1>5 DEF SInv, SchedTypes, Places
<1>8. OnePlace'
  <2>1. Distinct(running)'
    <3>1. Distinct(running)
      BY DEF SInv, OnePlace
    <3>. QED
      BY <1>3, <1>5, <1>6, <3>1 DEF Distinct
  <2>2. \A j \in 1 .. Len(running') : running'[j] \notin DOMAIN finished
    BY <1>1, <1>3, <1>5, <1>6
  <2>. QED
    BY <1>1, <1>3, <1>5, <2>1, <2>2 DEF SInv, OnePlace, Distinct
<1>9. Holds' /\ Prefilled'
  BY DEF Holds, Prefilled
<1>10. Fresh'
  <2>1. Live' = Live
    BY <1>1, <1>3, <1>5 DEF Live
  <2>. QED
    BY <1>4, <1>5, <2>1 DEF SInv, Fresh
<1>11. Batch'
  <2>1. ASSUME NEW j \in 1 .. Len(running') PROVE BatchRow(j)'
    <3>1. ~ Fed(j)'
      BY DEF Fed
    <3>2. CASE j = Len(running) + 1
      <4>1. Prompt[r] = Prompt[r] \o <<>>
        BY <1>1, ConcatEmptySeq
      <4>2. running'[j] = r
        BY <1>5, <3>2
      <4>. QED
        BY <1>2, <1>4, <3>1, <4>1, <4>2 DEF BatchRow
    <3>3. CASE j # Len(running) + 1
      <4>1. j \in 1 .. Len(running) /\ running'[j] = running[j]
        BY <1>3, <1>5, <3>3
      <4>2. BatchRow(j) /\ ~ Fed(j)
        BY <1>6, <4>1 DEF SInv, Batch, Fed
      <4>. QED
        BY <1>4, <1>6, <3>1, <4>1, <4>2 DEF BatchRow
    <3>. QED
      BY <3>2, <3>3
  <2>. QED
    BY <2>1 DEF Batch
<1>12. StandaloneTokens'
  <2>1. ASSUME NEW q \in Caches, NEW i \in 1 .. Len(output'[q])
        PROVE  /\ output'[q][i] = Sample(q, Prompt[q] \o SubSeq(output'[q], 1, i - 1))
               /\ output'[q][i] # Eos
               /\ i <= MaxTokens[q]
    <3>1. CASE q = r
      BY <1>4, <3>1
    <3>2. CASE q # r
      BY <1>4, <3>2 DEF SInv, StandaloneTokens
    <3>. QED
      BY <3>1, <3>2
  <2>2. \A q \in DOMAIN finished : q \in Caches \ {r}
    BY <1>1, <1>3
  <2>. QED
    BY <1>4, <2>1, <2>2 DEF SInv, StandaloneTokens
<1>. QED
  BY <1>7, <1>8, <1>9, <1>10, <1>11, <1>12 DEF SInv

LEMMA EmitKeeps == ASSUME IInv, SInv, Emit PROVE SInv'
<1>0. /\ pc = "emit" /\ pc' = "admit" /\ logits' = <<>> /\ admitted' = <<>>
      /\ UNCHANGED <<waiting, cancelled>>
  BY DEF Emit
<1>r. PICK r \in Caches : r = Head(admitted)
  BY <1>0, AdmittedRow
<1>1. /\ Prompt[r] \in Seq(Token) /\ output[r] = <<>> /\ r = admitted[1]
      /\ MaxTokens[r] \in Nat /\ output \in [Caches -> Seq(Token)]
  BY <1>0, <1>r, AdmittedRow, SchedulerAssumption DEF SInv, SchedTypes
<1>2. logits = <<Prompt[r]>> /\ Len(Prompt[r]) <= MaxSeq
  BY <1>0, <1>1 DEF SInv, Prefilled
<1>3. Head(logits) = Prompt[r] /\ Prompt[r] \o output[r] = Prompt[r]
  BY <1>1, <1>2, ConcatEmptySeq
<1>4. Sample(r, Prompt[r]) \in Token
  BY <1>1, <1>2, ShortEnough, SchedulerAssumption
<1>t. PICK tok \in Token : tok = Sample(r, Head(logits))
  BY <1>3, <1>4
<1>. DEFINE e == Emitted(r, tok)
<1>5. CASE MaxTokens[r] = 0
  <2>1. Finish(r, <<>>) /\ output' = output /\ running' = running
    BY <1>r, <1>5 DEF Emit
  <2>2. output' = [output EXCEPT ![r] = <<>>] /\ <<>> \in Seq(Token) /\ Len(<<>>) = MaxTokens[r]
    BY <1>1, <1>5, <2>1
  <2>3. 1 .. Len(<<>>) = {}
    OBVIOUS
  <2>. QED
    BY <1>0, <1>r, <2>1, <2>2, <2>3, EmitDoneKeeps
<1>6. CASE MaxTokens[r] > 0
  <2>1. Len(output[r]) < MaxTokens[r]
    BY <1>1, <1>6
  <2>2. /\ e \in Seq(Token)
        /\ \A i \in 1 .. Len(e) :
             /\ e[i] = Sample(r, Prompt[r] \o SubSeq(e, 1, i - 1))
             /\ e[i] # Eos /\ i <= MaxTokens[r]
        /\ Done(r, tok) => Len(e) = MaxTokens[r] \/ Sample(r, Prompt[r] \o e) = Eos
        /\ ~ Done(r, tok) => e # <<>> /\ Len(e) < MaxTokens[r] /\ Front(e) = output[r]
    <3>1. tok = Sample(r, Prompt[r] \o output[r])
      BY <1>3, <1>t
    <3>. QED
      BY <1>1, <2>1, <3>1, NextToken
  <2>3. /\ output' = [output EXCEPT ![r] = e]
        /\ \/ Done(r, tok) /\ Finish(r, e) /\ UNCHANGED running
           \/ /\ ~ Done(r, tok) /\ running' = Append(running, r)
              /\ UNCHANGED <<storageVars, finished, reserved>>
    BY <1>1, <1>r, <1>t, <1>6 DEF Emit
  <2>. HIDE DEF e
  <2>4. CASE Done(r, tok)
    BY <1>0, <1>r, <2>2, <2>3, <2>4, EmitDoneKeeps
  <2>5. CASE ~ Done(r, tok)
    <3>1. UNCHANGED <<finished, block_table, context>> /\ running' = Append(running, r)
      BY <2>3, <2>5 DEF storageVars, vars
    <3>. QED
      BY <1>0, <1>r, <1>1, <2>2, <2>3, <2>5, <3>1, EmitRunningKeeps
  <2>. QED
    BY <2>4, <2>5
<1>. QED
  BY <1>1, <1>5, <1>6


LEMMA NextSInv == IInv /\ SInv /\ ReadsBack' /\ [SchedNext]_allVars => SInv'
<1>. SUFFICES ASSUME IInv, SInv, ReadsBack', [SchedNext]_allVars PROVE SInv'
  OBVIOUS
<1>1. ASSUME NEW r \in Caches, Add(r) \/ CancelWaiting(r) \/ CancelRunning(r) PROVE SInv'
  BY <1>1, AddKeeps, CancelWaitingKeeps, CancelRunningKeeps
<1>2. ClearPrefixCache \/ UNCHANGED allVars => SInv'
  BY ClearKeepsSched, StutterKeeps
<1>3. StepBegin \/ AdmitEmpty \/ AdmitTooBig \/ StepEnd \/ RegisterPrompt => SInv'
  BY StepBeginKeeps, AdmitEmptyKeeps, ToIdleOrRaisedKeeps, RegisterPromptKeeps
<1>4. Decode \/ Accept \/ AdmitHead \/ Prefill \/ Emit => SInv'
  BY DecodeKeeps, AcceptKeeps, AdmitHeadKeeps, PrefillKeeps, EmitKeeps
<1>. QED
  BY <1>1, <1>2, <1>3, <1>4 DEF SchedNext, Step

(* The two layers' invariants hold together: the scheduler's keeps each    *)
(* step within the storage layer, and the storage layer's gives each row   *)
(* the logits of its own history. *)
LEMMA TwoLayers == SchedSpec => [](IInv /\ SInv) /\ Spec
<1>1. SchedInit => Init /\ IInv /\ SInv
  BY InitIInv, InitSInv DEF SchedInit
<1>2. IInv' => ReadsBack'
  <2>1. (IInv => ReadsBack)'
    BY ReadBack, PTL
  <2>. QED
    BY <2>1
<1>3. IInv /\ SInv /\ [SchedNext]_allVars => IInv' /\ SInv' /\ [Next]_vars
  BY <1>2, StorageStep, NextIInv, NextSInv
<1>. QED
  BY <1>1, <1>3, PTL DEF SchedSpec, Spec

-----------------------------------------------------------------------------
(* The scheduler keeps within the contract of the storage layer: every     *)
(* step of step(), add(), cancel() and clear_prefix_cache() is one the     *)
(* layer allows, so StorageInvariant, AccountingExact, ReadsExact,         *)
(* SharedNeverWritten and Refinement hold of the scheduler's blocks. *)
THEOREM SchedulerUsesStorage == SchedSpec => StorageContract
BY TwoLayers, PTL DEF StorageContract

(* Whatever is batched, shared or recycled around a request, its tokens    *)
(* are those of a run of its own (Scheduler.step, _accept, _finish). *)
THEOREM TokensAreStandalone == SchedSpec => []StandaloneTokens
<1>1. SInv => StandaloneTokens
  BY DEF SInv
<1>. QED
  BY <1>1, TwoLayers, PTL

LEMMA CacheFollows == SInv => CacheFollowsOutput
<1>. SUFFICES ASSUME SInv, NEW r \in Caches
     PROVE  /\ r \in Range(running) \ DOMAIN finished /\ pc \in {"idle", "admit", "prefill"} =>
                 context[r] = Prompt[r] \o Front(output[r])
            /\ r \notin Live => block_table[r] = <<>>
  BY DEF CacheFollowsOutput
<1>1. ASSUME r \in Range(running) \ DOMAIN finished, pc \in {"idle", "admit", "prefill"}
      PROVE  context[r] = Prompt[r] \o Front(output[r])
  <2>1. PICK j \in 1 .. Len(running) : running[j] = r
    BY <1>1, RangeSeq DEF SInv, SchedTypes
  <2>2. BatchRow(j) /\ ~ Fed(j)
    BY <1>1, <2>1 DEF SInv, Batch, Fed
  <2>. QED
    BY <2>1, <2>2 DEF BatchRow
<1>2. r \notin Live => block_table[r] = <<>>
  BY DEF SInv, Fresh
<1>. QED
  BY <1>1, <1>2

(* Between two steps, the cache of a sequence in the batch holds its       *)
(* prompt and all its tokens but the last, and what is finished or still   *)
(* queued holds no block (Scheduler.step, _finish). *)
THEOREM CacheFollowsTokens == SchedSpec => []CacheFollowsOutput
BY CacheFollows, TwoLayers, PTL

-----------------------------------------------------------------------------
(* The answer of a run of its own.                                         *)

(* What it has emitted after n rounds, if after one less it is out, ... *)
Round(r, n, out) ==
  IF Len(out) < n - 1 \/ Sample(r, Prompt[r] \o out) = Eos THEN out
  ELSE Append(out, Sample(r, Prompt[r] \o out))

UpTo(r) ==
  CHOOSE u : u = [n \in 0 .. MaxTokens[r] |-> IF n = 0 THEN <<>> ELSE Round(r, n, u[n - 1])]

LEMMA StandaloneUnfolded ==
  ASSUME NEW r
  PROVE  Standalone(r) = IF Prompt[r] = <<>> THEN <<>> ELSE UpTo(r)[MaxTokens[r]]
BY Zenon DEF Standalone, UpTo, Round

(* ... round by round. *)
LEMMA Rounds ==
  ASSUME NEW r \in Caches
  PROVE  /\ UpTo(r)[0] = <<>>
         /\ \A n \in Nat : n < MaxTokens[r] => UpTo(r)[n + 1] = Round(r, n + 1, UpTo(r)[n])
<1>0. PICK M \in Nat : M = MaxTokens[r]
  BY SchedulerAssumption
<1>. DEFINE Good(g, m) ==
              /\ DOMAIN g = 0 .. m /\ g[0] = <<>>
              /\ \A i \in 0 .. m : i # 0 => g[i] = Round(r, i, g[i - 1])
            P == {m \in Nat : \E g : Good(g, m)}
<1>1. 0 \in P
  <2>1. Good([i \in 0 .. 0 |-> <<>>], 0)
    OBVIOUS
  <2>. HIDE DEF Good
  <2>. QED
    BY <2>1
<1>2. ASSUME NEW m \in Nat, m \in P PROVE m + 1 \in P
  <2>1. PICK g : Good(g, m)
    BY <1>2
  <2>. DEFINE h == [i \in 0 .. m + 1 |-> IF i = m + 1 THEN Round(r, m + 1, g[m]) ELSE g[i]]
  <2>2. Good(h, m + 1)
    <3>1. DOMAIN h = 0 .. m + 1 /\ h[0] = <<>> /\ h[m + 1] = Round(r, m + 1, g[m])
          /\ \A i \in 0 .. m : h[i] = g[i]
      BY <2>1
    <3>. HIDE DEF h
    <3>2. ASSUME NEW i \in 0 .. m + 1, i # 0 PROVE h[i] = Round(r, i, h[i - 1])
      <4>1. CASE i = m + 1
        BY <3>1, <4>1
      <4>2. CASE i # m + 1
        <5>1. i \in 0 .. m /\ i - 1 \in 0 .. m
          BY <3>2, <4>2
        <5>. QED
          BY <2>1, <3>1, <3>2, <5>1
      <4>. QED
        BY <4>1, <4>2
    <3>. QED
      BY <3>1, <3>2
  <2>. HIDE DEF Good, h
  <2>. QED
    BY <2>2
<1>3. Nat \subseteq P
  <2>. HIDE DEF P
  <2>. QED
    BY <1>1, <1>2, InductionOnNat
<1>4. PICK g : Good(g, M)
  BY <1>3
<1>7. PICK k : k = [n \in 0 .. M |-> g[n]]
  OBVIOUS
<1>8. /\ DOMAIN k = 0 .. M /\ \A n \in 0 .. M : k[n] = g[n]
  BY <1>7
<1>9. k = [n \in 0 .. M |-> IF n = 0 THEN <<>> ELSE Round(r, n, k[n - 1])]
  <2>1. \A n \in 0 .. M : g[n] = IF n = 0 THEN <<>> ELSE Round(r, n, k[n - 1])
    BY <1>4, <1>8
  <2>. QED
    BY <1>7, <2>1
<1>10. UpTo(r) = [n \in 0 .. M |-> IF n = 0 THEN <<>> ELSE Round(r, n, UpTo(r)[n - 1])]
  <2>1. \E f : f = [n \in 0 .. MaxTokens[r] |-> IF n = 0 THEN <<>> ELSE Round(r, n, f[n - 1])]
    BY <1>0, <1>9, Zenon
  <2>. QED
    BY <1>0, <2>1, Zenon DEF UpTo
<1>11. PICK u : u = UpTo(r)
  OBVIOUS
<1>12. PICK v : v = [n \in 0 .. M |-> IF n = 0 THEN <<>> ELSE Round(r, n, u[n - 1])] /\ v = u
  BY <1>10, <1>11, Zenon
<1>13. v[0] = <<>> /\ \A n \in Nat : n < M => v[n + 1] = Round(r, n + 1, u[n])
  <2>1. v[0] = <<>>
    BY <1>12
  <2>2. ASSUME NEW n \in Nat, n < M PROVE v[n + 1] = Round(r, n + 1, u[n])
    <3>1. n + 1 \in 0 .. M /\ n + 1 # 0 /\ n + 1 - 1 = n
      BY <2>2
    <3>. QED
      BY <1>12, <3>1
  <2>. QED
    BY <2>1, <2>2
<1>. QED
  BY <1>0, <1>11, <1>12, <1>13, Zenon

(* A run of its own goes through every output that follows it, and stops   *)
(* where that output is at its budget or its end.                          *)
LEMMA AnswerFollows ==
  ASSUME NEW r \in Caches, Prompt[r] # <<>>, NEW out \in Seq(Token),
         Len(out) <= MaxTokens[r],
         \A i \in 1 .. Len(out) :
           out[i] = Sample(r, Prompt[r] \o SubSeq(out, 1, i - 1)) /\ out[i] # Eos
  PROVE  /\ Len(Answers[r]) \in Nat /\ Len(out) <= Len(Answers[r])
         /\ SubSeq(Answers[r], 1, Len(out)) = out
         /\ Len(out) = MaxTokens[r] \/ Sample(r, Prompt[r] \o out) = Eos => Answers[r] = out
<1>u. PICK u : u = UpTo(r)
  OBVIOUS
<1>0. PICK M \in Nat, L \in Nat : M = MaxTokens[r] /\ L = Len(out)
  BY SchedulerAssumption
<1>1. L <= M /\ Answers[r] = u[M]
  BY <1>0, <1>u, StandaloneUnfolded DEF Answers
<1>2. u[0] = <<>> /\ \A n \in Nat : n < M => u[n + 1] = Round(r, n + 1, u[n])
  BY <1>0, <1>u, Rounds
<1>3. \A i \in 1 .. L : /\ out[i] = Sample(r, Prompt[r] \o SubSeq(out, 1, i - 1))
                        /\ out[i] # Eos /\ out[i] \in Token
  BY <1>0, <1>u
<1>. DEFINE Pre(n) == SubSeq(out, 1, n)
<1>4. ASSUME NEW n \in Nat, n <= L
      PROVE  Pre(n) \in Seq(Token) /\ Len(Pre(n)) = n /\ \A i \in 1 .. n : Pre(n)[i] = out[i]
  BY <1>0, <1>u, <1>4
<1>5. Pre(0) = <<>> /\ Pre(L) = out
  <2>1. Pre(0) = <<>>
    BY <1>4, EmptySeq
  <2>2. Pre(L) = out
    BY <1>0, <1>u, <1>4, SeqEqual
  <2>. QED
    BY <2>1, <2>2
<1>6. ASSUME NEW n \in Nat, n < L PROVE Append(Pre(n), out[n + 1]) = Pre(n + 1)
  <2>1. /\ Pre(n) \in Seq(Token) /\ Len(Pre(n)) = n /\ \A i \in 1 .. n : Pre(n)[i] = out[i]
        /\ Pre(n + 1) \in Seq(Token) /\ Len(Pre(n + 1)) = n + 1
        /\ \A i \in 1 .. n + 1 : Pre(n + 1)[i] = out[i]
        /\ out[n + 1] \in Token
    BY <1>3, <1>4, <1>6
  <2>. HIDE DEF Pre
  <2>2. /\ Append(Pre(n), out[n + 1]) \in Seq(Token)
        /\ Len(Append(Pre(n), out[n + 1])) = n + 1
        /\ \A i \in 1 .. n + 1 : Append(Pre(n), out[n + 1])[i] = out[i]
    BY <2>1, AppendElements
  <2>. QED
    BY <2>1, <2>2, SeqEqual
<1>. DEFINE Q == {n \in Nat : n <= L => u[n] = Pre(n)}
<1>7. 0 \in Q
  BY <1>2, <1>5
<1>8. ASSUME NEW n \in Nat, n \in Q PROVE n + 1 \in Q
  <2>. SUFFICES ASSUME n + 1 <= L PROVE u[n + 1] = Pre(n + 1)
    OBVIOUS
  <2>0. n < M /\ n < L /\ u[n] = Pre(n)
    BY <1>1, <1>8
  <2>1. u[n + 1] = Round(r, n + 1, Pre(n)) /\ Len(Pre(n)) = n
    <3>. HIDE DEF Pre
    <3>1. u[n + 1] = Round(r, n + 1, u[n])
      BY <1>2, <2>0
    <3>2. Len(Pre(n)) = n
      BY <1>4, <2>0
    <3>. QED
      BY <2>0, <3>1, <3>2
  <2>2. n + 1 \in 1 .. L /\ n + 1 - 1 = n
    OBVIOUS
  <2>3. out[n + 1] = Sample(r, Prompt[r] \o Pre(n)) /\ out[n + 1] # Eos
    BY <1>3, <2>2
  <2>. HIDE DEF Pre
  <2>4. Round(r, n + 1, Pre(n)) = Append(Pre(n), out[n + 1])
    BY <2>1, <2>2, <2>3 DEF Round
  <2>5. Append(Pre(n), out[n + 1]) = Pre(n + 1)
    BY <1>6, <2>0
  <2>. QED
    BY <2>1, <2>4, <2>5
<1>9. u[L] = out
  <2>1. Nat \subseteq Q
    <3>. HIDE DEF Q
    <3>. QED
      BY <1>7, <1>8, InductionOnNat
  <2>2. u[L] = Pre(L)
    BY <2>1
  <2>. QED
    BY <1>5, <2>2
\* Past it, the run of its own keeps what it has.
<1>. DEFINE Keeps(s) == \E T : s \in Seq(T) /\ L <= Len(s) /\ \A i \in 1 .. L : s[i] = out[i]
            W == {n \in Nat : L + n <= M => Keeps(u[L + n])}
<1>10. 0 \in W
  BY <1>0, <1>u, <1>9
<1>11. ASSUME NEW n \in Nat, n \in W PROVE n + 1 \in W
  <2>. SUFFICES ASSUME L + (n + 1) <= M PROVE Keeps(u[L + (n + 1)])
    OBVIOUS
  <2>1. PICK k \in Nat : k = L + n /\ k < M /\ k + 1 = L + (n + 1)
    OBVIOUS
  <2>2. PICK s : s = u[k] /\ Keeps(s)
    BY <1>11, <2>1
  <2>3. u[k + 1] = Round(r, k + 1, s)
    BY <1>2, <2>1, <2>2
  <2>4. PICK T : s \in Seq(T) /\ L <= Len(s) /\ \A i \in 1 .. L : s[i] = out[i]
    BY <2>2
  <2>5. PICK x : x = Sample(r, Prompt[r] \o s)
    OBVIOUS
  <2>6. u[k + 1] = s \/ u[k + 1] = Append(s, x)
    BY <2>3, <2>5 DEF Round
  <2>7. Keeps(Append(s, x))
    <3>1. s \in Seq(T \cup {x})
      BY <2>4
    <3>2. /\ Append(s, x) \in Seq(T \cup {x}) /\ Len(Append(s, x)) = Len(s) + 1
          /\ \A i \in 1 .. Len(s) : Append(s, x)[i] = s[i]
      BY <3>1, AppendElements
    <3>3. Len(s) \in Nat
      BY <2>4
    <3>. QED
      BY <2>4, <3>2, <3>3
  <2>. HIDE DEF Keeps
  <2>8. Keeps(u[k + 1])
    BY <2>2, <2>6, <2>7
  <2>. QED
    BY <2>1, <2>8
<1>12. Keeps(u[M])
  <2>1. Nat \subseteq W
    <3>. HIDE DEF W
    <3>. QED
      BY <1>10, <1>11, InductionOnNat
  <2>2. M - L \in Nat /\ L + (M - L) = M
    BY <1>1
  <2>. HIDE DEF Keeps
  <2>. QED
    BY <2>1, <2>2
<1>13. Len(u[M]) \in Nat /\ L <= Len(u[M]) /\ SubSeq(u[M], 1, L) = out
  <2>1. PICK T : u[M] \in Seq(T) /\ L <= Len(u[M]) /\ \A i \in 1 .. L : u[M][i] = out[i]
    BY <1>12
  <2>2. PICK s : s = u[M]
    OBVIOUS
  <2>3. s \in Seq(T \cup Token) /\ out \in Seq(T \cup Token) /\ L <= Len(s)
        /\ \A i \in 1 .. L : s[i] = out[i]
    BY <2>1, <2>2, SeqMonotonic
  <2>4. \A i \in 1 .. L : s[i] \in T \cup Token
    BY <2>3
  <2>5. /\ SubSeq(s, 1, L) \in Seq(T \cup Token) /\ Len(SubSeq(s, 1, L)) = L
        /\ \A i \in 1 .. L : SubSeq(s, 1, L)[i] = out[i]
    <3>1. /\ SubSeq(s, 1, L) \in Seq(T \cup Token)
          /\ Len(SubSeq(s, 1, L)) = IF 1 <= L THEN L - 1 + 1 ELSE 0
          /\ \A i \in 1 .. L - 1 + 1 : SubSeq(s, 1, L)[i] = s[1 + i - 1]
      BY <2>4, SubSeqProperties
    <3>. QED
      BY <2>3, <3>1
  <2>6. SubSeq(s, 1, L) = out
    BY <1>0, <1>u, <2>3, <2>5, SeqEqual
  <2>. QED
    BY <2>1, <2>2, <2>6
\* At an end, it adds nothing.
<1>. DEFINE V == {n \in Nat : L + n <= M => u[L + n] = out}
<1>14. ASSUME L = M \/ Sample(r, Prompt[r] \o out) = Eos
       PROVE  u[M] = out
  <2>1. CASE L = M
    BY <1>9, <2>1
  <2>2. CASE Sample(r, Prompt[r] \o out) = Eos
    <3>1. 0 \in V
      BY <1>9
    <3>2. ASSUME NEW n \in Nat, n \in V PROVE n + 1 \in V
      <4>. SUFFICES ASSUME L + (n + 1) <= M PROVE u[L + (n + 1)] = out
        OBVIOUS
      <4>1. PICK k \in Nat : k = L + n /\ k < M /\ k + 1 = L + (n + 1)
        OBVIOUS
      <4>2. u[k + 1] = Round(r, k + 1, out)
        BY <1>2, <3>2, <4>1
      <4>3. Round(r, k + 1, out) = out
        BY <2>2 DEF Round
      <4>. QED
        BY <4>1, <4>2, <4>3
    <3>3. Nat \subseteq V
      <4>. HIDE DEF V
      <4>. QED
        BY <3>1, <3>2, InductionOnNat
    <3>4. PICK n \in Nat : L + n = M
      <4>1. M - L \in Nat /\ L + (M - L) = M
        BY <1>1
      <4>. QED
        BY <4>1
    <3>5. n \in V
      BY <3>3
    <3>. QED
      BY <3>4, <3>5
  <2>. QED
    BY <1>14, <2>1, <2>2
<1>. QED
  BY <1>0, <1>u, <1>1, <1>13, <1>14

-----------------------------------------------------------------------------
(* The scheduler is a StepMachine.                                         *)
Active == Range(running) \ DOMAIN finished
Queue == admitted \o waiting
Phase == IF pc \in {"idle", "raised"} THEN pc ELSE "step"
machine == <<Queue, Active, finished, output, Phase, Undecoded>>

(* The reservations that the counter adds up, and what can leave a queue   *)
(* behind an idle batch. *)
Reserves ==
  /\ reserved_blocks \in [Caches -> Int]
  /\ reserved = SumOver(reserved_blocks, Live)
  /\ PrefixSharing \/ (cached = <<>> /\ pc # "register")

LEMMA ReservesExact == Reserves => ReservedExact
BY Zenon DEF Reserves, ReservedExact, SumOver

LEMMA LiveFinite == ASSUME SInv PROVE Live \in SUBSET Caches /\ IsFiniteSet(Caches)
<1>1. Range(running) \subseteq Caches /\ Range(admitted) \subseteq Caches
  BY RangeOfSeq DEF SInv, SchedTypes
<1>. QED
  BY <1>1, StoreAssumption DEF Live

(* A step that neither admits nor finishes a request. *)
LEMMA SameLiveReserves ==
  ASSUME Reserves, Live' = Live, UNCHANGED <<reserved, reserved_blocks>>,
         PrefixSharing \/ (cached' = <<>> /\ pc' # "register")
  PROVE  Reserves'
BY DEF Reserves

LEMMA FinishReserves ==
  ASSUME SInv, Reserves, NEW r \in Live, Live' = Live \ {r}, UNCHANGED reserved_blocks,
         reserved' = reserved - reserved_blocks[r],
         PrefixSharing \/ (cached' = <<>> /\ pc' # "register")
  PROVE  Reserves'
<1>1. Live \in SUBSET Caches /\ IsFiniteSet(Caches) /\ reserved_blocks \in [Caches -> Int]
  BY LiveFinite DEF Reserves
<1>2. /\ SumOver(reserved_blocks, Live) = reserved_blocks[r] + SumOver(reserved_blocks, Live \ {r})
      /\ SumOver(reserved_blocks, Live \ {r}) \in Int
  BY <1>1, SumOverTakes
<1>. QED
  BY <1>1, <1>2 DEF Reserves

LEMMA AdmitReserves ==
  ASSUME SInv, Reserves, NEW r \in Caches, r \notin Live, Live' = Live \cup {r}, NEW n \in Int,
         reserved' = reserved + n, reserved_blocks' = [reserved_blocks EXCEPT ![r] = n],
         PrefixSharing \/ (cached' = <<>> /\ pc' # "register")
  PROVE  Reserves'
<1>0. PICK f, f1, S : f = reserved_blocks /\ f1 = reserved_blocks' /\ S = Live
  OBVIOUS
<1>1. S \in SUBSET Caches /\ IsFiniteSet(Caches) /\ f \in [Caches -> Int] /\ r \notin S
  BY <1>0, LiveFinite DEF Reserves
<1>2. f1 \in [Caches -> Int] /\ f1[r] = n /\ \A q \in S : f[q] = f1[q]
  BY <1>0, <1>1
<1>3. SumOver(f, S) = SumOver(f1, S)
  BY <1>1, <1>2, SumOverAgrees
<1>4. S \cup {r} \in SUBSET Caches /\ (S \cup {r}) \ {r} = S /\ r \in S \cup {r}
  BY <1>1
<1>5. PICK U \in SUBSET Caches : U = S \cup {r} /\ U \ {r} = S /\ r \in U
  BY <1>4
<1>6. SumOver(f1, U) = f1[r] + SumOver(f1, S) /\ SumOver(f, S) \in Int
  <2>0. \A y \in U : SumOver(f1, U) = f1[y] + SumOver(f1, U \ {y})
    <3>1. IsFiniteSet(Caches) /\ f1 \in [Caches -> Int] /\ U \in SUBSET Caches
      BY <1>1, <1>2
    <3>2. \A y \in U : SumOver(f1, U) = f1[y] + SumOver(f1, U \ {y})
      BY <3>1, SumTakes
    <3>. QED
      BY <3>2
  <2>1. SumOver(f1, U) = f1[r] + SumOver(f1, U \ {r})
    BY <1>5, <2>0, Zenon
  <2>2. SumOver(f, S) \in Int
    BY <1>1, SumOverTakes
  <2>. QED
    BY <1>5, <2>1, <2>2
<1>7. reserved = SumOver(f, S)
  BY <1>0 DEF Reserves
<1>8. reserved' = SumOver(f1, U)
  BY <1>2, <1>3, <1>6, <1>7
<1>9. f1 = reserved_blocks' /\ U = Live'
  BY <1>0, <1>5
<1>. QED
  BY <1>2, <1>8, <1>9 DEF Reserves

-----------------------------------------------------------------------------
(* StepMachine's own names of the sequence operators. *)
LEMMA SameRange == \A s : Machine!Range(s) = Range(s)
BY Zenon DEF Range, Machine!Range

LEMMA SameWithout == \A s, out : Machine!Without(s, out) = Without(s, out)
<1>1. \A S : Machine!Cardinality(S) = Cardinality(S)
  BY Zenon DEF Cardinality, Machine!Cardinality
<1>2. \A s, B, t : Machine!InOrder(s, B, t) <=> InOrder(s, B, t)
  BY SameRange, Zenon DEF InOrder, Machine!InOrder
<1>. QED
  BY <1>1, <1>2, SameRange DEF Without, Machine!Without

LEMMA AddSteps ==
  ASSUME SInv, Reserves, NEW r \in Caches, Add(r)
  PROVE  Reserves' /\ Machine!Enqueue(r)
<1>1. /\ pc = "idle" /\ r \notin Known /\ waiting' = Append(waiting, r)
      /\ UNCHANGED <<running, finished, output, reserved, reserved_blocks, pc, logits,
                     admitted, cached>>
      /\ admitted = <<>> /\ waiting \in Seq(Caches)
  BY DEF Add, storageVars, vars, SInv, Holds, SchedTypes
<1>2. Queue = waiting /\ Queue' = Append(waiting, r)
  BY <1>1, ConcatEmptySeq, AppendElements DEF Queue
<1>3. Reserves'
  BY <1>1, SameLiveReserves DEF Live, Reserves
<1>4. Machine!Enqueue(r)
  <2>1. r \notin Machine!Range(Queue) \cup Active \cup DOMAIN finished
    BY <1>1, <1>2, SameRange DEF Known, Live, Active
  <2>2. Undecoded' = Undecoded
    BY <1>1 DEF Undecoded
  <2>. QED
    BY <1>1, <1>2, <2>1, <2>2 DEF Machine!Enqueue, Queue, Active
<1>. QED
  BY <1>3, <1>4

LEMMA CancelWaitingSteps ==
  ASSUME SInv, Reserves, NEW r \in Caches, CancelWaiting(r)
  PROVE  Reserves' /\ Machine!Abort(r)
<1>1. /\ pc = "idle" /\ r \in Range(waiting) /\ waiting' \in Without(waiting, {r})
      /\ finished' = Recorded(r, <<>>)
      /\ UNCHANGED <<running, output, reserved, reserved_blocks, pc, logits,
                     admitted, cached>>
      /\ admitted = <<>> /\ waiting \in Seq(Caches)
  BY DEF CancelWaiting, storageVars, vars, SInv, Holds, SchedTypes
<1>2. Queue = waiting /\ Queue' = waiting'
  <2>1. waiting' \in Seq(Caches)
    BY <1>1, WithoutLeaves DEF SInv, OnePlace
  <2>. QED
    BY <1>1, <2>1, ConcatEmptySeq DEF Queue
<1>3. DOMAIN finished' = DOMAIN finished \cup {r}
  BY <1>1 DEF Recorded
<1>4. Live' = Live /\ Active' = Active \ {r}
  BY <1>1, <1>3 DEF Live, Active, SInv, OnePlace
<1>5. Reserves'
  BY <1>1, <1>4, SameLiveReserves DEF Reserves
<1>6. Machine!Abort(r)
  <2>1. Queue' \in Machine!Without(Queue, {r}) /\ r \in Machine!Range(Queue)
    BY <1>1, <1>2, SameRange, SameWithout
  <2>2. finished' = Machine!Recorded(r, <<>>)
    BY <1>1 DEF Recorded, Machine!Recorded
  <2>. QED
    <3>1. Undecoded' = Undecoded
      BY <1>1 DEF Undecoded
    <3>. QED
      BY <1>1, <1>4, <2>1, <2>2, <3>1 DEF Machine!Abort, Queue, Active
<1>. QED
  BY <1>5, <1>6

(* What the abstract machine calls to get further along an answer. *)
LEMMA FinishAdvances ==
  ASSUME SInv, SInv', NEW r \in Caches, NEW e \in Seq(Token),
         output' = [output EXCEPT ![r] = e], finished' = Recorded(r, e),
         r \notin DOMAIN finished, UNCHANGED cancelled,
         Prompt[r] = <<>> => e = <<>>, Active' = Active \ {r}
  PROVE  Machine!Advance(r)
<1>1. output \in [Caches -> Seq(Token)] /\ output'[r] = e /\ r \notin cancelled'
  BY DEF SInv, SchedTypes
<1>2. r \in DOMAIN finished'
  BY DEF Recorded
<1>3. /\ \A i \in 1 .. Len(e) :
           e[i] = Sample(r, Prompt[r] \o SubSeq(e, 1, i - 1)) /\ e[i] # Eos /\ i <= MaxTokens[r]
      /\ Prompt[r] = <<>> \/ Len(e) = MaxTokens[r] \/ Sample(r, Prompt[r] \o e) = Eos
  BY <1>1, <1>2 DEF SInv, StandaloneTokens
<1>4. Answers[r] = e
  <2>1. CASE Prompt[r] = <<>>
    BY <2>1 DEF Answers, Standalone
  <2>2. CASE Prompt[r] # <<>>
    <3>1. Len(e) \in Nat /\ (Len(e) = 0 \/ Len(e) \in 1 .. Len(e)) /\ MaxTokens[r] \in Nat
      BY SchedulerAssumption
    <3>2. Len(e) <= MaxTokens[r]
      BY <1>3, <3>1
    <3>. QED
      BY <1>3, <2>2, <3>2, AnswerFollows
  <2>. QED
    BY <2>1, <2>2
<1>5. finished' = Machine!Recorded(r, Answers[r])
  BY <1>4 DEF Recorded, Machine!Recorded
<1>. QED
  BY <1>4, <1>5 DEF Machine!Advance, Active

LEMMA EmitAdvances ==
  ASSUME SInv, SInv', NEW r \in Caches, NEW e \in Seq(Token), Prompt[r] # <<>>,
         output' = [output EXCEPT ![r] = e], Len(output[r]) < Len(e),
         UNCHANGED finished, Active' = Active \cup {r}
  PROVE  Machine!Advance(r)
<1>1. output \in [Caches -> Seq(Token)] /\ output'[r] = e
  BY DEF SInv, SchedTypes
<1>2. \A i \in 1 .. Len(e) :
        e[i] = Sample(r, Prompt[r] \o SubSeq(e, 1, i - 1)) /\ e[i] # Eos /\ i <= MaxTokens[r]
  BY <1>1 DEF SInv, StandaloneTokens
<1>3. Len(e) \in Nat /\ Len(output[r]) \in Nat /\ MaxTokens[r] \in Nat /\ Len(e) \in 1 .. Len(e)
  BY <1>1, SchedulerAssumption
<1>4. Len(e) <= MaxTokens[r]
  BY <1>2, <1>3
<1>5. Len(Answers[r]) \in Nat /\ Len(e) <= Len(Answers[r]) /\ SubSeq(Answers[r], 1, Len(e)) = e
  BY <1>2, <1>4, AnswerFollows
<1>6. Len(e) \in Len(output[r]) + 1 .. Len(Answers[r])
  BY <1>3, <1>5
<1>7. \E n \in Len(output[r]) + 1 .. Len(Answers[r]) :
        output' = [output EXCEPT ![r] = SubSeq(Answers[r], 1, n)]
  BY <1>5, <1>6
<1>. QED
  BY <1>7 DEF Machine!Advance, Active

(* The rows that a decode step has yet to accept. *)
LEMMA RestRange ==
  ASSUME NEW S, NEW s \in Seq(S), NEW k \in 1 .. Len(s)
  PROVE  \A x : x \in Range(SubSeq(s, k, Len(s))) <=> \E j \in k .. Len(s) : s[j] = x
<1>0. PICK n \in Nat : n = Len(s)
  BY LenProperties
<1>1. \A i \in k .. n : s[i] \in S
  BY <1>0
<1>2. PICK t : t = SubSeq(s, k, n)
  OBVIOUS
<1>3. t \in Seq(S) /\ Len(t) = n - k + 1 /\ \A i \in 1 .. n - k + 1 : t[i] = s[k + i - 1]
  BY <1>0, <1>1, <1>2, SubSeqProperties
<1>4. \A x : x \in Range(t) <=> \E i \in 1 .. n - k + 1 : t[i] = x
  BY <1>3, RangeSeq
<1>5. ASSUME NEW x, x \in Range(t) PROVE \E j \in k .. n : s[j] = x
  <2>1. PICK i \in 1 .. n - k + 1 : t[i] = x
    BY <1>4, <1>5
  <2>2. k + i - 1 \in k .. n /\ s[k + i - 1] = x
    BY <1>0, <1>3, <2>1
  <2>. QED
    BY <2>2
<1>6. ASSUME NEW x, NEW j \in k .. n, s[j] = x PROVE x \in Range(t)
  <2>1. j - k + 1 \in 1 .. n - k + 1 /\ k + (j - k + 1) - 1 = j
    BY <1>0
  <2>2. t[j - k + 1] = x
    BY <1>3, <1>6, <2>1
  <2>. QED
    BY <1>4, <2>1, <2>2
<1>. QED
  BY <1>0, <1>2, <1>5, <1>6

LEMMA AcceptedRow ==
  ASSUME NEW S, NEW s \in Seq(S), Distinct(s), NEW k \in 1 .. Len(s)
  PROVE  /\ s[k] \in Range(SubSeq(s, k, Len(s)))
         /\ k < Len(s) => Range(SubSeq(s, k + 1, Len(s))) = Range(SubSeq(s, k, Len(s))) \ {s[k]}
         /\ k = Len(s) => {} = Range(SubSeq(s, k, Len(s))) \ {s[k]}
<1>0. PICK n \in Nat : n = Len(s)
  BY LenProperties
<1>1. \A x : x \in Range(SubSeq(s, k, n)) <=> \E j \in k .. n : s[j] = x
  BY <1>0, RestRange
<1>2. k \in k .. n /\ \A j \in k .. n : j = k \/ j \in k + 1 .. n
  BY <1>0
<1>3. \A i, j \in 1 .. n : s[i] = s[j] => i = j
  BY <1>0 DEF Distinct
<1>4. \A j \in k + 1 .. n : s[j] # s[k] /\ j \in k .. n
  BY <1>0, <1>3
<1>5. s[k] \in Range(SubSeq(s, k, n))
  BY <1>1, <1>2
<1>6. ASSUME k < n
      PROVE  Range(SubSeq(s, k + 1, n)) = Range(SubSeq(s, k, n)) \ {s[k]}
  <2>1. k + 1 \in 1 .. n
    BY <1>6
  <2>2. \A x : x \in Range(SubSeq(s, k + 1, n)) <=> \E j \in k + 1 .. n : s[j] = x
    BY <1>0, <2>1, RestRange
  <2>. QED
    BY <1>1, <1>2, <1>4, <2>2, Zenon
<1>7. ASSUME k = n
      PROVE  {} = Range(SubSeq(s, k, n)) \ {s[k]}
  <2>1. \A j \in k .. n : j = k
    BY <1>7
  <2>. QED
    BY <1>1, <2>1
<1>. QED
  BY <1>0, <1>5, <1>6, <1>7

LEMMA CancelRunningSteps ==
  ASSUME SInv, Reserves, NEW r \in Caches, CancelRunning(r)
  PROVE  Reserves' /\ Machine!Abort(r)
<1>1. /\ pc = "idle" /\ r \in Range(running) /\ running' \in Without(running, DOMAIN finished')
      /\ finished' = Recorded(r, output[r]) /\ reserved' = reserved - reserved_blocks[r]
      /\ UNCHANGED <<waiting, output, reserved_blocks, pc, logits, admitted, cached>>
      /\ admitted = <<>> /\ waiting \in Seq(Caches) /\ running \in Seq(Caches)
  BY DEF CancelRunning, Finish, storageVars, vars, SInv, Holds, SchedTypes
<1>2. Queue = waiting /\ Queue' = waiting
  BY <1>1, ConcatEmptySeq DEF Queue
<1>3. DOMAIN finished' = DOMAIN finished \cup {r}
  BY <1>1 DEF Recorded
<1>4. Range(running') = Range(running) \ DOMAIN finished' /\ Range(admitted) = {}
  BY <1>1, WithoutLeaves DEF SInv, OnePlace, Range
<1>5. r \in Active
  <2>1. PICK j \in 1 .. Len(running) : running[j] = r
    BY <1>1, RangeSeq
  <2>. QED
    BY <1>1, <2>1 DEF SInv, OnePlace, Active
<1>6. Active' = Active \ {r} /\ Live' = Live \ {r} /\ r \in Live
  BY <1>1, <1>3, <1>4, <1>5 DEF Active, Live
<1>7. Reserves'
  <2>1. PrefixSharing \/ (cached' = <<>> /\ pc' # "register")
    BY <1>1 DEF Reserves
  <2>. QED
    BY <1>1, <1>6, <2>1, FinishReserves
<1>8. Machine!Abort(r)
  <2>1. Queue' \in Machine!Without(Queue, {r})
    <3>1. Range(waiting) \cap {r} = {} /\ Distinct(waiting)
      BY <1>1 DEF SInv, OnePlace
    <3>. QED
      BY <1>1, <1>2, <3>1, WithoutNone, SameWithout
  <2>2. finished' = Machine!Recorded(r, output[r])
    BY <1>1 DEF Recorded, Machine!Recorded
  <2>3. Undecoded' = Undecoded
    BY <1>1 DEF Undecoded
  <2>. QED
    BY <1>1, <1>5, <1>6, <2>1, <2>2, <2>3 DEF Machine!Abort, Queue, Active
<1>. QED
  BY <1>7, <1>8

LEMMA StepBeginSteps ==
  ASSUME SInv, Reserves, StepBegin
  PROVE  Reserves' /\ Machine!BeginStep
<1>1. /\ pc = "idle" /\ HasWork
      /\ pc' = IF running # <<>> THEN "decode" ELSE "admit"
      /\ UNCHANGED <<waiting, running, finished, output, reserved, reserved_blocks,
                     admitted, cached>>
      /\ admitted = <<>> /\ waiting \in Seq(Caches) /\ running \in Seq(Caches)
  BY DEF StepBegin, storageVars, vars, SInv, Holds, SchedTypes
<1>2. Reserves'
  BY <1>1, SameLiveReserves DEF Live, Reserves
<1>3. Active = Range(running)
  <2>1. \A j \in 1 .. Len(running) : running[j] \notin DOMAIN finished
    BY <1>1 DEF SInv, OnePlace
  <2>. QED
    BY <1>1, <2>1, RangeSeq DEF Active
<1>4. running # <<>> => Active # {}
  <2>1. running # <<>> => 1 \in 1 .. Len(running)
    BY <1>1, EmptySeq
  <2>. QED
    BY <1>1, <1>3, <2>1, RangeSeq
<1>5. Queue # <<>> \/ Active # {}
  <2>1. Queue = waiting
    BY <1>1, ConcatEmptySeq DEF Queue
  <2>. QED
    BY <1>1, <1>4, <2>1 DEF HasWork
<1>6. Undecoded' = Active
  <2>1. CASE running # <<>>
    BY <1>1, <1>3, <2>1 DEF Undecoded
  <2>2. CASE running = <<>>
    <3>1. pc' = "admit" /\ Range(running) = {}
      BY <1>1, <2>2 DEF Range
    <3>. QED
      BY <1>3, <3>1 DEF Undecoded
  <2>. QED
    BY <2>1, <2>2
<1>7. Machine!BeginStep
  <2>1. pc' \notin {"idle", "raised"}
    BY <1>1
  <2>. QED
    BY <1>1, <1>5, <1>6, <2>1 DEF Machine!BeginStep, Machine!Busy, Queue, Active
<1>. QED
  BY <1>2, <1>7

(* A forward leaves the machine as it is, or raises. *)
LEMMA RaisesSteps ==
  ASSUME Reserves, pc \notin {"idle", "raised"}, pc' = "raised",
         UNCHANGED <<waiting, running, finished, output, reserved, reserved_blocks,
                     admitted, cached>>
  PROVE  Reserves' /\ Machine!Raise
<1>1. Reserves'
  BY SameLiveReserves DEF Live, Reserves
<1>2. Undecoded' = {}
  BY DEF Undecoded
<1>. QED
  BY <1>1, <1>2 DEF Machine!Raise

LEMMA DecodeSteps ==
  ASSUME SInv, Reserves, Decode
  PROVE  Reserves' /\ (Machine!Raise \/ UNCHANGED machine)
<1>. DEFINE r == running[Len(logits) + 1]
            toks == <<LastToken(r)>>
            next == IF Len(logits) + 1 = Len(running) THEN "accept" ELSE "decode"
<1>1. /\ pc = "decode"
      /\ UNCHANGED <<waiting, running, finished, output, reserved, reserved_blocks,
                     admitted, cached>>
      /\ ForwardRow(r, toks, next) \/ ForwardRaises(r, toks)
      /\ running \in Seq(Caches) /\ logits \in Seq(Seq(Token))
  BY DEF Decode, SInv, SchedTypes
<1>2. CASE ForwardRaises(r, toks)
  <2>1. pc' = "raised"
    BY <1>2 DEF ForwardRaises
  <2>. QED
    BY <1>1, <2>1, RaisesSteps
<1>3. CASE ForwardRow(r, toks, next)
  <2>1. pc' = next
    BY <1>3 DEF ForwardRow
  <2>2. Len(logits') = Len(logits) + 1
    <3>1. PICK x : logits' = Append(logits, x)
      BY <1>3 DEF ForwardRow
    <3>. QED
      BY <1>1, <3>1
  <2>3. Reserves'
    BY <1>1, <2>1, SameLiveReserves DEF Live, Reserves
  <2>4. Undecoded' = Undecoded
    <3>1. CASE Len(logits) + 1 = Len(running)
      <4>1. Len(running) - Len(logits') + 1 = 1 /\ SubSeq(running, 1, Len(running)) = running
        BY <1>1, <2>2, <3>1, SubSeqFull
      <4>2. Undecoded' = Range(running) /\ Undecoded = Range(running)
        BY <1>1, <2>1, <3>1, <4>1 DEF Undecoded
      <4>. QED
        BY <4>2
    <3>2. CASE Len(logits) + 1 # Len(running)
      BY <1>1, <2>1, <3>2 DEF Undecoded
    <3>. QED
      BY <3>1, <3>2
  <2>5. Phase' = Phase
    BY <1>1, <2>1 DEF Phase
  <2>. QED
    BY <1>1, <2>3, <2>4, <2>5 DEF machine, Queue, Active
<1>. QED
  BY <1>1, <1>2, <1>3

LEMMA PrefillSteps ==
  ASSUME SInv, Reserves, Prefill
  PROVE  Reserves' /\ (Machine!Raise \/ UNCHANGED machine)
<1>. DEFINE r == Head(admitted)
            toks == SubSeq(Prompt[r], length[r] + 1, Len(Prompt[r]))
            next == IF PrefixSharing THEN "register" ELSE "emit"
<1>1. /\ pc = "prefill"
      /\ UNCHANGED <<waiting, running, finished, output, reserved, reserved_blocks,
                     admitted, cached>>
      /\ ForwardRow(r, toks, next) \/ ForwardRaises(r, toks)
  BY DEF Prefill
<1>2. CASE ForwardRaises(r, toks)
  <2>1. pc' = "raised"
    BY <1>2 DEF ForwardRaises
  <2>. QED
    BY <1>1, <2>1, RaisesSteps
<1>3. CASE ForwardRow(r, toks, next)
  <2>1. pc' = next
    BY <1>3 DEF ForwardRow
  <2>2. Reserves'
    BY <1>1, <2>1, SameLiveReserves DEF Live, Reserves
  <2>3. Undecoded' = {} /\ Undecoded = {} /\ Phase' = "step" /\ Phase = "step"
    BY <1>1, <2>1 DEF Undecoded, Phase
  <2>. QED
    BY <1>1, <2>2, <2>3 DEF machine, Queue, Active
<1>. QED
  BY <1>1, <1>2, <1>3

LEMMA RegisterSteps ==
  ASSUME SInv, Reserves, RegisterPrompt
  PROVE  Reserves' /\ UNCHANGED machine
<1>1. /\ pc = "register" /\ pc' = "emit"
      /\ UNCHANGED <<waiting, running, finished, output, reserved, reserved_blocks, admitted>>
  BY DEF RegisterPrompt
<1>2. Reserves'
  BY <1>1, SameLiveReserves DEF Live, Reserves
<1>3. Undecoded' = Undecoded /\ Phase' = Phase
  BY <1>1 DEF Undecoded, Phase
<1>. QED
  BY <1>1, <1>2, <1>3 DEF machine, Queue, Active

LEMMA ClearSteps ==
  ASSUME SInv, Reserves, ClearPrefixCache
  PROVE  Reserves' /\ UNCHANGED machine
<1>1. UNCHANGED schedVars /\ cached' = <<>>
  BY DEF ClearPrefixCache, Clear
<1>2. Reserves'
  BY <1>1, SameLiveReserves DEF schedVars, Live, Reserves
<1>3. Undecoded' = Undecoded /\ Phase' = Phase
  BY <1>1 DEF schedVars, Undecoded, Phase
<1>. QED
  BY <1>1, <1>2, <1>3 DEF schedVars, machine, Queue, Active

LEMMA AdmitEmptySteps ==
  ASSUME SInv, SInv', Reserves, AdmitEmpty
  PROVE  Reserves' /\ Machine!Admit
<1>. DEFINE r == Head(waiting)
<1>1. /\ pc = "admit" /\ waiting \in Seq(Caches) /\ waiting # <<>> /\ waiting' = Tail(waiting)
      /\ finished' = Recorded(r, <<>>) /\ Prompt[r] = <<>>
      /\ UNCHANGED <<running, output, reserved, reserved_blocks, pc, logits, admitted,
                     cancelled, cached>>
      /\ admitted = <<>> /\ output \in [Caches -> Seq(Token)]
  BY DEF AdmitEmpty, MayAdmit, storageVars, vars, SInv, SchedTypes, Holds
<1>2. waiting' \in Seq(Caches) /\ r \in Caches /\ r \in Range(waiting)
  BY <1>1, TailElements
<1>3. Queue = waiting /\ Queue' = Tail(waiting)
  BY <1>1, <1>2, ConcatEmptySeq DEF Queue
<1>4. r \notin Range(running) \cup Range(admitted) \cup DOMAIN finished
  BY <1>2 DEF SInv, OnePlace
<1>5. output[r] = <<>> /\ DOMAIN finished' = DOMAIN finished \cup {r}
  BY <1>1, <1>2, <1>4 DEF SInv, Fresh, Recorded
<1>6. Live' = Live /\ Active' = Active \ {r}
  BY <1>1, <1>4, <1>5 DEF Live, Active
<1>7. Reserves'
  BY <1>1, <1>6, SameLiveReserves DEF Reserves
<1>8. Machine!Advance(r)
  <2>1. output' = [output EXCEPT ![r] = <<>>]
    BY <1>1, <1>2, <1>5
  <2>. HIDE DEF r
  <2>. QED
    BY <1>1, <1>2, <1>4, <1>6, <2>1, EmptySeq, FinishAdvances
<1>9. Machine!Admit
  <2>1. Undecoded' = {} /\ Undecoded = {} /\ Phase' = "step" /\ Phase = "step"
    BY <1>1 DEF Undecoded, Phase
  <2>2. Queue # <<>> /\ Head(Queue) = r /\ Queue' = Tail(Queue)
    BY <1>1, <1>3
  <2>. QED
    BY <1>8, <2>1, <2>2 DEF Machine!Admit, Queue, Phase
<1>. QED
  BY <1>7, <1>9

LEMMA TooBigSteps ==
  ASSUME SInv, Reserves, AdmitTooBig
  PROVE  Reserves' /\ Machine!Raise
BY RaisesSteps DEF AdmitTooBig, storageVars, vars

LEMMA WorstCase == ASSUME NEW r \in Caches PROVE Worst(r) \in Nat
<1>1. PICK n \in Nat : n = Len(Prompt[r]) + (IF MaxTokens[r] > 1 THEN MaxTokens[r] ELSE 1)
  <2>1. Prompt[r] \in Seq(Token) /\ MaxTokens[r] \in Nat
    BY SchedulerAssumption, StoreAssumption
  <2>. QED
    BY <2>1
<1>. QED
  BY <1>1, BlocksForCovers DEF Worst

LEMMA AdmitHeadSteps ==
  ASSUME SInv, Reserves, AdmitHead
  PROVE  Reserves' /\ UNCHANGED machine
<1>. DEFINE r == Head(waiting)
<1>1. /\ pc = "admit" /\ waiting \in Seq(Caches) /\ waiting # <<>> /\ waiting' = Tail(waiting)
      /\ admitted' = <<r>> /\ pc' = "prefill"
      /\ UNCHANGED <<cached, running, finished, output, logits>>
      /\ admitted = <<>> /\ Range(admitted) = {}
  BY DEF AdmitHead, MayAdmit, SInv, SchedTypes, Holds, Range
<1>2. waiting' \in Seq(Caches) /\ r \in Caches /\ r \in Range(waiting)
  BY <1>1, TailElements
<1>3. PICK n \in 0 .. Len(Prompt[r]) :
        /\ reserved' = reserved + Worst(r) - n
        /\ reserved_blocks' = [reserved_blocks EXCEPT ![r] = Worst(r) - n]
  BY ZenonT(40) DEF AdmitHead
<1>4. r \notin Live /\ Range(admitted') = {r}
  <2>1. r \notin Live
    BY <1>1, <1>2 DEF SInv, OnePlace, Live
  <2>2. Range(<<r>>) = {r}
    BY DEF Range
  <2>. QED
    BY <1>1, <2>1, <2>2
<1>5. Live' = Live \cup {r}
  BY <1>1, <1>4 DEF Live
<1>6. Reserves'
  <2>1. reserved \in Int
    <3>1. Live \in SUBSET Caches /\ IsFiniteSet(Caches) /\ reserved_blocks \in [Caches -> Int]
      BY LiveFinite DEF Reserves
    <3>2. SumOver(reserved_blocks, Live) \in Int
      BY <3>1, SumOverTakes
    <3>. QED
      BY <3>2 DEF Reserves
  <2>2. PICK m \in Int : m = Worst(r) - n /\ reserved' = reserved + m
    <3>. HIDE DEF r
    <3>1. n \in Int /\ Worst(r) \in Int
      BY <1>2, WorstCase
    <3>. QED
      BY <1>3, <2>1, <3>1
  <2>3. PrefixSharing \/ (cached' = <<>> /\ pc' # "register")
    BY <1>1 DEF Reserves
  <2>. HIDE DEF r
  <2>. QED
    BY <1>2, <1>3, <1>4, <1>5, <2>2, <2>3, AdmitReserves
<1>7. Queue' = Queue
  <2>1. Queue = waiting
    BY <1>1, ConcatEmptySeq DEF Queue
  <2>2. <<r>> \o Tail(waiting) = waiting
    <3>. DEFINE t == <<r>> \o Tail(waiting)
    <3>1. /\ Tail(waiting) \in Seq(Caches) /\ Len(Tail(waiting)) = Len(waiting) - 1
          /\ Len(waiting) > 0 /\ r = waiting[1] /\ Len(waiting) \in Nat
          /\ \A i \in 1 .. Len(waiting) - 1 : Tail(waiting)[i] = waiting[i + 1]
      BY <1>1, TailElements
    <3>2. /\ <<r>> \in Seq(Caches) /\ Len(<<r>>) = 1 /\ <<r>>[1] = r
      BY <1>2
    <3>3. /\ t \in Seq(Caches) /\ Len(t) = Len(waiting)
          /\ t[1] = r /\ \A i \in 2 .. Len(waiting) : t[i] = Tail(waiting)[i - 1]
      <4>. HIDE DEF r
      <4>. QED
        BY <3>1, <3>2, ConcatSeq
    <3>4. \A i \in 1 .. Len(waiting) : t[i] = waiting[i]
      <4>. HIDE DEF t, r
      <4>. QED
        BY <3>1, <3>3
    <3>. HIDE DEF t
    <3>. QED
      BY <1>1, <3>3, <3>4, SeqEqual DEF t
  <2>. QED
    BY <1>1, <2>1, <2>2 DEF Queue
<1>8. Undecoded' = Undecoded /\ Phase' = Phase
  BY <1>1 DEF Undecoded, Phase
<1>. QED
  BY <1>1, <1>6, <1>7, <1>8 DEF machine, Active

LEMMA StepEndSteps ==
  ASSUME SInv, Reserves, StepEnd
  PROVE  Reserves' /\ Machine!EndStep
<1>1. /\ pc = "admit" /\ pc' = "idle"
      /\ UNCHANGED <<waiting, running, finished, output, reserved, reserved_blocks, logits,
                     admitted, cached>>
      /\ admitted = <<>> /\ waiting \in Seq(Caches) /\ running \in Seq(Caches)
  BY DEF StepEnd, storageVars, vars, SInv, Holds, SchedTypes
<1>2. Reserves'
  BY <1>1, SameLiveReserves DEF Live, Reserves
<1>3. ASSUME Active = {}, ~ PrefixSharing
      PROVE  Queue = <<>>
  <2>1. Queue = waiting /\ Range(admitted) = {}
    BY <1>1, ConcatEmptySeq DEF Queue, Range
  <2>2. Live = {}
    BY <1>3, <2>1 DEF Live, Active
  <2>3. Len(running) = 0
    <3>1. \A j \in 1 .. Len(running) : running[j] \notin DOMAIN finished
      BY <1>1 DEF SInv, OnePlace
    <3>2. \A j \in 1 .. Len(running) : running[j] \in Range(running)
      BY <1>1, RangeSeq
    <3>3. Len(running) \in Nat /\ (Len(running) # 0 => 1 \in 1 .. Len(running))
      BY <1>1
    <3>. QED
      BY <1>3, <3>1, <3>2, <3>3 DEF Active
  <2>4. reserved = 0 /\ Held = 0
    <3>1. IsFiniteSet(Caches) /\ reserved_blocks \in [Caches -> Int] /\ {} \in SUBSET Caches
      BY LiveFinite DEF Reserves
    <3>2. SumOver(reserved_blocks, {}) = 0
      BY <3>1, SumOverTakes
    <3>3. cached = <<>>
      BY <1>3 DEF Reserves
    <3>4. DOMAIN cached = {}
      BY <3>3
    <3>. QED
      BY <2>2, <3>2, <3>4, FS_EmptySet DEF Reserves, Held
  <2>5. ASSUME waiting # <<>> PROVE FALSE
    <3>1. MayAdmit
      BY <2>3, <2>5, SchedulerAssumption DEF MayAdmit
    <3>2. PICK r : r = Head(waiting)
      OBVIOUS
    <3>3. /\ Worst(r) <= NumBlocks
          /\ \E n \in 0 .. Len(Prompt[r]) : Shares(r, n) /\ ~ Fits(Worst(r) - n)
      BY <3>1, <3>2 DEF StepEnd
    <3>4. ~ Fits(Worst(r) - 0)
      BY <1>3, <3>3 DEF Shares
    <3>5. r \in Caches
      BY <1>1, <2>5, <3>2, TailElements
    <3>6. Worst(r) \in Nat /\ NumBlocks \in Nat
      BY <3>5, WorstCase, PoolAssumption
    <3>. QED
      BY <2>4, <3>3, <3>4, <3>6 DEF Fits
  <2>. QED
    BY <2>1, <2>5
<1>4. Machine!EndStep
  <2>1. Undecoded' = {} /\ Undecoded = {}
    BY <1>1 DEF Undecoded
  <2>. QED
    BY <1>1, <1>3, <2>1 DEF Machine!EndStep, Queue, Active
<1>. QED
  BY <1>2, <1>4

LEMMA AcceptSteps ==
  ASSUME IInv, SInv, SInv', Reserves, Accept
  PROVE  Reserves' /\ \E r \in Caches : Machine!Accept(r)
<1>. DEFINE k == Len(running) - Len(logits) + 1
            fin == DOMAIN finished'
<1>0. pc = "accept" /\ UNCHANGED <<waiting, admitted, cancelled, reserved_blocks>>
  BY DEF Accept
<1>r. PICK r \in Caches : r = running[k]
  BY <1>0, AcceptRow
<1>t. PICK tok \in Token : tok = Sample(r, Head(logits))
  BY <1>0, <1>r, AcceptRow
<1>. DEFINE e == Emitted(r, tok)
<1>1. /\ k \in 1 .. Len(running) /\ r \notin DOMAIN finished /\ r \in Range(running)
      /\ Prompt[r] # <<>> /\ output[r] \in Seq(Token)
      /\ Len(output[r]) < MaxTokens[r] /\ MaxTokens[r] \in Nat
      /\ logits # <<>> /\ Head(logits) = Prompt[r] \o output[r]
  BY <1>0, <1>r, AcceptRow
<1>2. Prompt[r] \in Seq(Token)
  BY SchedulerAssumption, StoreAssumption
<1>3. /\ e \in Seq(Token)
      /\ ~ Done(r, tok) => e # <<>> /\ Len(e) < MaxTokens[r] /\ Front(e) = output[r]
  BY <1>1, <1>2, <1>t, NextToken
<1>4. /\ output' = [output EXCEPT ![r] = e]
      /\ \/ Done(r, tok) /\ Finish(r, e)
         \/ ~ Done(r, tok) /\ UNCHANGED <<storageVars, finished, reserved>>
      /\ logits' = Tail(logits)
      /\ IF Len(logits) = 1
           THEN running' \in Without(running, fin) /\ pc' = "admit"
           ELSE UNCHANGED <<running, pc>>
  BY <1>r, <1>t DEF Accept
<1>5. /\ running \in Seq(Caches) /\ Len(running) \in Nat /\ Len(logits) \in 1 .. Len(running)
      /\ logits \in Seq(Seq(Token)) /\ Range(admitted) = {} /\ Distinct(running)
  BY <1>0 DEF SInv, SchedTypes, Holds, OnePlace, Range
<1>6. Len(logits') = Len(logits) - 1
  BY <1>1, <1>4, <1>5, TailElements
<1>7. ~ Done(r, tok) => Len(output[r]) < Len(e)
  <2>. SUFFICES ASSUME ~ Done(r, tok) PROVE Len(output[r]) < Len(e)
    OBVIOUS
  <2>1. e = Append(output[r], tok)
    BY DEF Done, Emitted
  <2>. QED
    BY <1>1, <2>1, AppendElements
<1>. HIDE DEF e
<1>8. fin = DOMAIN finished \cup (IF Done(r, tok) THEN {r} ELSE {})
  BY <1>4 DEF Finish, Recorded
<1>9. Range(running') \ fin = Range(running) \ fin
  <2>1. CASE Len(logits) = 1
    BY <1>4, <1>5, <2>1, WithoutLeaves
  <2>2. CASE Len(logits) # 1
    BY <1>4, <2>2
  <2>. QED
    BY <2>1, <2>2
<1>10. /\ Active' = Active \ (IF Done(r, tok) THEN {r} ELSE {}) /\ r \in Active
       /\ Live' = Live \ (IF Done(r, tok) THEN {r} ELSE {}) /\ r \in Live
  BY <1>0, <1>1, <1>5, <1>8, <1>9 DEF Active, Live
<1>11. Reserves' /\ Machine!Advance(r)
  <2>0. cached' = cached /\ pc' # "register"
    BY <1>0, <1>4 DEF Finish, storageVars, vars
  <2>1. PrefixSharing \/ (cached' = <<>> /\ pc' # "register")
    BY <2>0 DEF Reserves
  <2>2. CASE Done(r, tok)
    <3>1. finished' = Recorded(r, e) /\ reserved' = reserved - reserved_blocks[r]
      BY <1>4, <2>2 DEF Finish
    <3>2. Reserves'
      BY <1>0, <1>10, <2>1, <2>2, <3>1, FinishReserves
    <3>. QED
      BY <1>0, <1>1, <1>3, <1>4, <1>10, <2>2, <3>1, <3>2, FinishAdvances
  <2>3. CASE ~ Done(r, tok)
    <3>1. UNCHANGED <<finished, reserved>>
      BY <1>4, <2>3
    <3>2. Reserves'
      BY <1>0, <1>10, <2>1, <2>3, <3>1, SameLiveReserves
    <3>3. Active' = Active \cup {r}
      BY <1>10, <2>3
    <3>. QED
      BY <1>1, <1>3, <1>4, <1>7, <2>3, <3>1, <3>2, <3>3, EmitAdvances
  <2>. QED
    BY <2>2, <2>3
<1>12. r \in Undecoded /\ Undecoded' = Undecoded \ {r}
  <2>. DEFINE left(i) == Range(SubSeq(running, i, Len(running)))
  <2>1. Undecoded = left(k)
    BY <1>0 DEF Undecoded
  <2>2. /\ r \in left(k)
        /\ k < Len(running) => left(k + 1) = left(k) \ {r}
        /\ k = Len(running) => {} = left(k) \ {r}
    BY <1>r, <1>1, <1>5, AcceptedRow
  <2>3. CASE Len(logits) = 1
    <3>1. k = Len(running) /\ pc' = "admit"
      BY <1>4, <1>5, <2>3
    <3>2. Undecoded' = {}
      BY <3>1 DEF Undecoded
    <3>. QED
      BY <2>1, <2>2, <3>1, <3>2
  <2>4. CASE Len(logits) # 1
    <3>0. running' = running /\ pc' = "accept"
      BY <1>0, <1>4, <2>4
    <3>1. k < Len(running) /\ Len(running') - Len(logits') + 1 = k + 1
      <4>1. PICK n \in Nat, l \in Nat : n = Len(running) /\ l = Len(logits) /\ 2 <= l /\ l <= n
        <5>1. \A l, n \in Nat : l \in 1 .. n /\ l # 1 => 2 <= l /\ l <= n
          OBVIOUS
        <5>2. Len(logits) \in Nat /\ Len(running) \in Nat
          BY <1>5
        <5>. QED
          BY <1>5, <2>4, <5>1, <5>2, Zenon
      <4>2. Len(logits') = l - 1 /\ Len(running') = n
        BY <1>6, <3>0, <4>1
      <4>. QED
        BY <4>1, <4>2
    <3>2. Undecoded' = Range(SubSeq(running', Len(running') - Len(logits') + 1, Len(running')))
      BY <3>0 DEF Undecoded
    <3>3. Undecoded' = left(k + 1)
      BY <3>0, <3>1, <3>2
    <3>. QED
      BY <2>1, <2>2, <3>1, <3>3
  <2>. QED
    BY <2>3, <2>4
<1>13. Machine!Accept(r)
  <2>1. pc \notin {"idle", "raised"} /\ pc' \notin {"idle", "raised"}
    BY <1>0, <1>4
  <2>. QED
    BY <1>0, <1>11, <1>12, <2>1 DEF Machine!Accept
<1>. QED
  BY <1>11, <1>13

LEMMA EmitSteps ==
  ASSUME SInv, SInv', Reserves, Emit
  PROVE  Reserves' /\ Machine!Admit
<1>0. /\ pc = "emit" /\ pc' = "admit" /\ logits' = <<>> /\ admitted' = <<>>
      /\ UNCHANGED <<waiting, cancelled, reserved_blocks>> /\ waiting \in Seq(Caches)
  BY DEF Emit, SInv, SchedTypes
<1>r. PICK r \in Caches : r = Head(admitted)
  BY <1>0, AdmittedRow
<1>1. /\ Prompt[r] \in Seq(Token) /\ output[r] = <<>> /\ r = admitted[1]
      /\ MaxTokens[r] \in Nat /\ output \in [Caches -> Seq(Token)]
  BY <1>0, <1>r, AdmittedRow, SchedulerAssumption DEF SInv, SchedTypes
<1>2. /\ logits = <<Prompt[r]>> /\ Len(Prompt[r]) <= MaxSeq /\ Prompt[r] # <<>>
      /\ Len(admitted) = 1 /\ admitted \in Seq(Caches) /\ running \in Seq(Caches)
  BY <1>0, <1>1 DEF SInv, Prefilled, Holds, SchedTypes
<1>3. Head(logits) = Prompt[r] /\ Prompt[r] \o output[r] = Prompt[r]
  BY <1>1, <1>2, ConcatEmptySeq
<1>4. Sample(r, Prompt[r]) \in Token
  BY <1>1, <1>2, ShortEnough, SchedulerAssumption
<1>t. PICK tok \in Token : tok = Sample(r, Head(logits))
  BY <1>3, <1>4
<1>5. Range(admitted) = {r} /\ Range(admitted') = {}
  <2>1. \A x : x \in Range(admitted) <=> \E i \in 1 .. 1 : admitted[i] = x
    BY <1>2, RangeSeq
  <2>2. Range(admitted) = {r}
    BY <1>1, <2>1
  <2>. QED
    BY <1>0, <2>2 DEF Range
<1>6. r \notin Range(running) \cup DOMAIN finished /\ r \in Live
  BY <1>5 DEF SInv, OnePlace, Live
<1>7. Queue = <<r>> \o waiting /\ Queue' = waiting
  <2>1. admitted = <<r>>
    BY <1>1, <1>2
  <2>. QED
    BY <1>0, <2>1, ConcatEmptySeq DEF Queue
<1>8. Queue # <<>> /\ Head(Queue) = r /\ Queue' = Tail(Queue)
  <2>1. /\ <<r>> \in Seq(Caches) /\ Len(<<r>>) = 1 /\ <<r>>[1] = r
    OBVIOUS
  <2>2. /\ <<r>> \o waiting \in Seq(Caches) /\ Len(<<r>> \o waiting) = Len(waiting) + 1
        /\ (<<r>> \o waiting)[1] = r
        /\ \A i \in 2 .. Len(waiting) + 1 : (<<r>> \o waiting)[i] = waiting[i - 1]
    BY <1>0, <2>1, ConcatSeq
  <2>. DEFINE q == <<r>> \o waiting
  <2>. HIDE DEF q
  <2>3. q \in Seq(Caches) /\ Len(q) = Len(waiting) + 1 /\ q[1] = r /\ Len(waiting) \in Nat
        /\ \A i \in 2 .. Len(waiting) + 1 : q[i] = waiting[i - 1]
    BY <1>0, <2>2 DEF q
  <2>4. q # <<>>
    BY <2>3, EmptySeq
  <2>5. /\ Tail(q) \in Seq(Caches) /\ Len(Tail(q)) = Len(waiting) /\ Head(q) = r
        /\ \A i \in 1 .. Len(waiting) : Tail(q)[i] = q[i + 1]
    BY <2>3, <2>4, TailElements
  <2>6. \A i \in 1 .. Len(waiting) : Tail(q)[i] = waiting[i]
    BY <2>3, <2>5
  <2>7. Tail(q) = waiting
    BY <1>0, <2>5, <2>6, SeqEqual
  <2>. QED
    BY <1>7, <2>4, <2>5, <2>7 DEF q
<1>9. ASSUME NEW e \in Seq(Token), Finish(r, e), UNCHANGED running,
             output' = [output EXCEPT ![r] = e]
      PROVE  Reserves' /\ Machine!Advance(r)
  <2>1. /\ finished' = Recorded(r, e) /\ reserved' = reserved - reserved_blocks[r]
        /\ cached' = cached
    BY <1>9 DEF Finish
  <2>2. DOMAIN finished' = DOMAIN finished \cup {r}
    BY <2>1 DEF Recorded
  <2>3. Live' = Live \ {r} /\ Active' = Active \ {r}
    BY <1>5, <1>6, <1>9, <2>2 DEF Live, Active
  <2>4. PrefixSharing \/ (cached' = <<>> /\ pc' # "register")
    BY <1>0, <2>1 DEF Reserves
  <2>5. Reserves'
    BY <1>0, <1>6, <2>1, <2>3, <2>4, FinishReserves
  <2>. QED
    BY <1>0, <1>2, <1>6, <1>9, <2>1, <2>3, <2>5, FinishAdvances
<1>10. Reserves' /\ Machine!Advance(r)
  <2>. DEFINE e == Emitted(r, tok)
  <2>1. CASE MaxTokens[r] = 0
    <3>1. Finish(r, <<>>) /\ output' = output /\ running' = running
      BY <1>r, <2>1 DEF Emit
    <3>2. output' = [output EXCEPT ![r] = <<>>] /\ <<>> \in Seq(Token)
      BY <1>1, <2>1, <3>1
    <3>. QED
      BY <1>9, <3>1, <3>2
  <2>2. CASE MaxTokens[r] > 0
    <3>1. /\ output' = [output EXCEPT ![r] = e]
          /\ \/ Done(r, tok) /\ Finish(r, e) /\ UNCHANGED running
             \/ /\ ~ Done(r, tok) /\ running' = Append(running, r)
                /\ UNCHANGED <<storageVars, finished, reserved>>
      BY <1>1, <1>r, <1>t, <2>2 DEF Emit
    <3>2. e \in Seq(Token) /\ (~ Done(r, tok) => Len(output[r]) < Len(e))
      <4>1. /\ Append(output[r], tok) \in Seq(Token)
            /\ Len(Append(output[r], tok)) = Len(output[r]) + 1 /\ Len(output[r]) \in Nat
        BY <1>1, AppendElements
      <4>. QED
        BY <1>1, <4>1 DEF Emitted, Done
    <3>. HIDE DEF e
    <3>3. CASE Done(r, tok)
      BY <1>9, <3>1, <3>2, <3>3
    <3>4. CASE ~ Done(r, tok)
      <4>1. running' = Append(running, r) /\ UNCHANGED <<cached, finished, reserved>>
        BY <3>1, <3>4 DEF storageVars, vars
      <4>2. Range(running') = Range(running) \cup {r}
        BY <1>2, <4>1, AppendElements
      <4>3. Live' = Live /\ Active' = Active \cup {r}
        BY <1>5, <1>6, <4>1, <4>2 DEF Live, Active
      <4>4. PrefixSharing \/ (cached' = <<>> /\ pc' # "register")
        BY <1>0, <4>1 DEF Reserves
      <4>5. Reserves'
        BY <1>0, <4>1, <4>3, <4>4, SameLiveReserves
      <4>. QED
        BY <1>2, <3>1, <3>2, <3>4, <4>1, <4>3, <4>5, EmitAdvances
    <3>. QED
      BY <3>3, <3>4
  <2>. QED
    BY <1>1, <2>1, <2>2
<1>11. Machine!Admit
  <2>1. Undecoded' = {} /\ Undecoded = {}
    BY <1>0 DEF Undecoded
  <2>2. Machine!Advance(Head(admitted \o waiting))
    BY <1>8, <1>10 DEF Queue
  <2>. QED
    BY <1>0, <1>8, <2>1, <2>2 DEF Machine!Admit, Queue
<1>. QED
  BY <1>10, <1>11

LEMMA NextSteps ==
  ASSUME IInv, SInv, SInv', Reserves, [SchedNext]_allVars
  PROVE  Reserves' /\ [Machine!MachineNext]_machine
<1>1. ASSUME NEW r \in Caches, Add(r) \/ CancelWaiting(r) \/ CancelRunning(r)
      PROVE  Reserves' /\ Machine!MachineNext
  BY <1>1, AddSteps, CancelWaitingSteps, CancelRunningSteps DEF Machine!MachineNext
<1>2. ASSUME StepBegin \/ AdmitEmpty \/ AdmitTooBig \/ StepEnd \/ Emit
      PROVE  Reserves' /\ Machine!MachineNext
  BY <1>2, StepBeginSteps, AdmitEmptySteps, TooBigSteps, StepEndSteps, EmitSteps
     DEF Machine!MachineNext
<1>3. Accept => Reserves' /\ Machine!MachineNext
  BY AcceptSteps DEF Machine!MachineNext
<1>4. ASSUME Decode \/ Prefill \/ AdmitHead \/ RegisterPrompt \/ ClearPrefixCache
      PROVE  Reserves' /\ [Machine!MachineNext]_machine
  BY <1>4, DecodeSteps, PrefillSteps, AdmitHeadSteps, RegisterSteps, ClearSteps
     DEF Machine!MachineNext
<1>5. UNCHANGED allVars => Reserves' /\ UNCHANGED machine
  BY DEF allVars, schedVars, vars, Reserves, Live, machine, Queue, Active, Phase, Undecoded
<1>. QED
  BY <1>1, <1>2, <1>3, <1>4, <1>5 DEF SchedNext, Step

LEMMA InitSteps == SchedInit => Reserves /\ Machine!MachineInit
<1>. SUFFICES ASSUME SchedInit PROVE Reserves /\ Machine!MachineInit
  OBVIOUS
<1>1. /\ waiting = <<>> /\ running = <<>> /\ finished = <<>> /\ admitted = <<>>
      /\ output = [r \in Caches |-> <<>>] /\ pc = "idle" /\ logits = <<>> /\ reserved = 0
      /\ reserved_blocks = [r \in Caches |-> 0] /\ cached = <<>>
  BY DEF SchedInit, Init
<1>2. Range(running) = {} /\ Range(admitted) = {}
  BY <1>1 DEF Range
<1>3. Reserves
  <2>1. IsFiniteSet(Caches) /\ reserved_blocks \in [Caches -> Int] /\ {} \in SUBSET Caches
    BY <1>1, StoreAssumption
  <2>2. SumOver(reserved_blocks, {}) = 0
    BY <2>1, SumOverTakes
  <2>3. Live = {}
    BY <1>2 DEF Live
  <2>. QED
    BY <1>1, <2>1, <2>2, <2>3 DEF Reserves
<1>4. Machine!MachineInit
  <2>1. admitted \o waiting = <<>>
    BY <1>1, ConcatEmptySeq, EmptySeq
  <2>. QED
    BY <1>1, <1>2, <2>1 DEF Machine!MachineInit, Undecoded
<1>. QED
  BY <1>3, <1>4

LEMMA ThreeLayers == SchedSpec => [](IInv /\ SInv /\ Reserves) /\ Machine!MachineSpec
<1>1. IInv /\ SInv /\ SInv' /\ Reserves /\ [SchedNext]_allVars =>
        Reserves' /\ [Machine!MachineNext]_machine
  BY NextSteps
<1>2. [Machine!MachineNext]_machine <=> [Machine!MachineNext]_(Machine!machineVars)
  BY DEF machine, Queue, Active, Phase, Machine!machineVars
<1>. QED
  BY <1>1, <1>2, InitSteps, TwoLayers, PTL DEF SchedSpec, Machine!MachineSpec

(* The counter that admission compares with the pool is what the live      *)
(* sequences have reserved, through every admission, finish, cancel and    *)
(* exception (Scheduler._reserved). *)
THEOREM ReservationsExact == SchedSpec => []ReservedExact
BY ReservesExact, ThreeLayers, PTL

(* The scheduler keeps the promise its driver relies on: whatever it       *)
(* batches, admits, raises or cancels, its requests go through StepMachine *)
(* along the answers of runs of their own, and a step leaves a queue       *)
(* behind an idle batch only with prefix sharing. *)
THEOREM SchedulerRefinesMachine == SchedSpec => IsStepMachine
BY ThreeLayers, PTL DEF IsStepMachine

================================================================================
