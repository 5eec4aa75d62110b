----------------------------- MODULE MCScheduler -----------------------------
(* Bounds for model-checking Scheduler.                                    *)
EXTENDS Scheduler

CONSTANTS r1, r2, r3, r4, r5, r6, r7, r8, a, b, e

MCToken == {a, b, e}

\* Every token a request can be fed in one forward: a decode step's, and what
\* is left of a prompt behind a shared prefix.
MCPrompts == {Prompt[r] : r \in Caches}
MCChunks ==
  {<<t>> : t \in MCToken} \cup
  UNION {{SubSeq(p, i, Len(p)) : i \in 1 .. Len(p)} : p \in MCPrompts}

\* A token that tells histories apart; r8 ends by EOS, the others by budget.
MCSample(r, h) ==
  IF r = r8 /\ Len(h) = Len(Prompt[r]) + 2 THEN e
  ELSE IF Cardinality({i \in 1 .. Len(h) : h[i] = a}) % 2 = Len(h) % 2 THEN a ELSE b

\* Prompts with one or two blocks in common, some that end on a block boundary, an
\* empty one; r3 asks for no token; r6 is too big for the pool, r4 for the context.
\* When r1 runs on two blocks that the prefix cache gave up, r3 runs out of blocks
\* in its prefill, or r1 in a decode step beside r5.
ManyRequests == {r1, r2, r3, r4, r5, r6, r7, r8}
ManyPrompt == (r1 :> <<a, a, b, b, a>>) @@ (r2 :> <<a, a, b, b>>)
              @@ (r3 :> <<b, b, b, b, b>>) @@ (r4 :> <<b, b, b, b, b, b, b, b>>)
              @@ (r5 :> <<b>>) @@ (r6 :> <<a>>) @@ (r7 :> <<>>) @@ (r8 :> <<a, a, b>>)
ManyMaxTokens == (r1 :> 3) @@ (r2 :> 1) @@ (r3 :> 0) @@ (r4 :> 1) @@ (r5 :> 3)
                 @@ (r6 :> 11) @@ (r7 :> 1) @@ (r8 :> 3)

\* Bound: how many requests come in a behaviour, any of the eight.
MaxKnown == 3
FewKnown == Cardinality(Known) <= MaxKnown

\* r1 needs three blocks of two slots and fills them; r3 needs and fills two.
FewRequests == {r1, r2, r3}
FewPrompt == (r1 :> <<a, a, b>>) @@ (r2 :> <<a, a, a>>) @@ (r3 :> <<b, b>>)
FewMaxTokens == (r1 :> 3) @@ (r2 :> 2) @@ (r3 :> 2)

\* Two prompts with nothing in common, and a full block each.
ApartRequests == {r1, r2}
ApartPrompt == (r1 :> <<a, a, b>>) @@ (r2 :> <<b, b, a>>)
ApartMaxTokens == (r1 :> 2) @@ (r2 :> 3)
=============================================================================
