--------------------------- MODULE MCSpecScheduler ---------------------------
(* Bounds for model-checking SpecScheduler.                                *)
EXTENDS SpecScheduler

CONSTANTS r1, r2, r3, r4, r5, r6, r7, r8, r9, r10, r11, r12, a, b, e

MCToken == {a, b, e}

\* The default eos_id, -1.
NoEosId == "none"

MCPrompts == {Prompt[r] : r \in Caches}
\* What one forward may be fed: a prompt or what is left of it, a token and a
\* proposal behind it.
MCChunks ==
  BoundedSeq(MCToken, 3) \cup
  UNION {{SubSeq(p, i, Len(p)) : i \in 1 .. Len(p)} : p \in MCPrompts}

\* The argmax: a token that tells histories apart, and EOS after six tokens.
Argmax(h) ==
  IF Len(h) = 6 THEN e
  ELSE IF Cardinality({i \in 1 .. Len(h) : h[i] = a}) % 2 = Len(h) % 2 THEN a ELSE b

GreedyPicks(r, h) == {Argmax(h)}
\* r11 samples, the others are greedy.
MixedPicks(r, h) == IF r = r11 /\ Len(h) < 5 THEN {a, b} ELSE {Argmax(h)}

\* The draft model is right, or wrong by a token that tells its history.
AnyGuess(r, h) == {Argmax(h), IF Len(h) % 2 = 0 THEN a ELSE b}

\* A draft request that ends by EOS and a lookup one, with a block in common, and
\* a draft one that ends by its budget, on pools that hold two of the three.
ManyRequests == {r1, r2, r3}
ManyPrompt == (r1 :> <<a, a, b>>) @@ (r2 :> <<a, a, a>>) @@ (r3 :> <<b>>)
ManyMaxTokens == (r1 :> 5) @@ (r2 :> 3) @@ (r3 :> 3)
ManyEosId == (r1 :> e) @@ (r2 :> NoEosId) @@ (r3 :> NoEosId)
ManyProposer == (r1 :> "draft") @@ (r2 :> "lookup") @@ (r3 :> "draft")
ManyK == (r1 :> 2) @@ (r2 :> 2) @@ (r3 :> 2)
ManyNgram == [r \in ManyRequests |-> 1]

\* r2 borrows r1's blocks, and r3 is admitted on them when they are no longer
\* held: a verify finds no block.  r4 to r10 fail each at a place of its own: in
\* order, the target's prefill, the draft's, the draft's proposal, a proposal of no
\* token, the verify, the proposer and the pool.  r11 samples, r12 is empty.
FailRequests == {r1, r2, r3, r4, r5, r6, r7, r8, r9, r10, r11, r12}
FailPrompt == (r1 :> <<a, b, a, b>>) @@ (r2 :> <<a, b, a, b, b>>) @@ (r3 :> <<b, b, b>>)
              @@ (r4 :> [i \in 1 .. 8 |-> b]) @@ (r5 :> [i \in 1 .. 8 |-> b])
              @@ (r6 :> <<a, b, a, b>>) @@ (r7 :> <<a>>) @@ (r8 :> <<a, b, a, b, a, b, a>>)
              @@ (r9 :> <<a>>) @@ (r10 :> <<a>>) @@ (r11 :> <<b>>) @@ (r12 :> <<>>)
FailMaxTokens == [r \in FailRequests |->
  CASE r \in {r1, r4} -> 1 [] r \in {r2, r6, r11} -> 3 [] r = r10 -> 12 [] OTHER -> 2]
FailEosId == [r \in FailRequests |-> NoEosId]
FailProposer == [r \in FailRequests |->
  IF r \in {r5, r6, r7, r10, r11} THEN "draft" ELSE IF r = r9 THEN "none" ELSE "lookup"]
FailK == [r \in FailRequests |->
  IF r \in {r5, r6, r8} THEN 2 ELSE IF r = r11 THEN 1 ELSE 0]
FailNgram == [r \in FailRequests |-> 1]

\* Bound: which requests come in one behaviour, the first three or r1 and another.
FewKnown == Known \subseteq {r1, r2, r3} \/ Cardinality(Known \ {r1}) <= 1

\* One request near the end of the context.
NearRequests == {r1}
NearPrompt == (r1 :> <<a, b, a>>)
NearMaxTokens == (r1 :> 3)
NearEosId == (r1 :> NoEosId)
NearProposer == (r1 :> "lookup")
NearK == (r1 :> 2)
NearNgram == (r1 :> 1)
=============================================================================
