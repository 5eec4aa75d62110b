---------------------------- MODULE Speculative ----------------------------
(***************************************************************************)
(* The decoding loops for one sequence: generate(), plain (generate.cpp,   *)
(* generate.py), and the speculative loops (speculative.py), greedy or     *)
(* sampled, with a draft model or prompt lookup.                           *)
(*                                                                         *)
(* A model is a function from the tokens in its cache to logits.  A draw   *)
(* is any token of positive probability; RejectionAccept also follows the  *)
(* probabilities.                                                          *)
(***************************************************************************)
EXTENDS Sampling

CONSTANTS
  TargetLogits(_), DraftLogits(_), \* tokens -> token -> logit
  Runs  \* [method, rule, prompt, max_tokens, k, ngram, eos, params]

VARIABLES
  run,        \* the call; method is "plain", "draft" or "lookup", rule "greedy" or "sample"
  loop,       \* "prefill", "propose", "verify", "step" or "returned"
  generated,  \* tokens emitted
  cur,        \* the newest token, not in the cache yet
  tcache,     \* what the target's cache holds
  dcache,     \* what the draft's cache holds
  drafted     \* the proposal

loopVars == <<run, loop, generated, cur, tcache, dcache, drafted>>

Emitted == run.prompt \o generated
Cap == Len(run.prompt) + run.max_tokens + (IF run.method = "plain" THEN 0 ELSE run.k + 1)
Probs(logits, context) == TokenProbs(logits, run.params, context)
Support(probs) == {t \in DOMAIN probs : probs[t] > 0}

\* forward() on a cache that has room.
Fits(cache, t) == Len(cache) + t <= Cap

\* emit(), token by token: nothing after EOS or the last of the budget.
Stops(g, tok) == tok = run.eos \/ Len(g) + 1 >= run.max_tokens
EmitAll(g, new) ==
  FoldLeft(LAMBDA st, tok :
             IF st.stop THEN st
             ELSE [g |-> IF tok = run.eos THEN st.g ELSE Append(st.g, tok), stop |-> Stops(st.g, tok)],
           [g |-> g, stop |-> FALSE], new)

------------------------------------------------------------------------------
\* The proposers.

\* Suffixes of the context, the latest occurrence first, and what followed it.
PromptLookup(context, ngram, max_k) ==
  LET n == Len(context)
      At(i) == SubSeq(context, i + 1, i + ngram)
      starts == {i \in 0 .. n - ngram - 1 : At(i) = At(n - ngram)}
  IN IF ngram < 1 \/ n <= ngram \/ starts = {} THEN <<>>
     ELSE LET i == CHOOSE s \in starts : \A r \in starts : r <= s
              end == IF i + ngram + max_k < n THEN i + ngram + max_k ELSE n
          IN SubSeq(context, i + ngram + 1, end)

\* The draft's distribution for d[i], in a context that grows with the proposal.
DraftProbs(d, i) ==
  Probs(DraftLogits(dcache \o <<cur>> \o SubSeq(d, 1, i - 1)), Emitted \o SubSeq(d, 1, i - 1))
DraftSequences ==
  {d \in [1 .. run.k -> DOMAIN TargetLogits(<<>>)] :
     \A i \in 1 .. run.k : d[i] \in Support(DraftProbs(d, i))}

------------------------------------------------------------------------------
\* The accept rule.

\* Mutation: the penalty sees the context before the proposal only.
TargetProbs_NoDraft(d, i) ==
  Probs(TargetLogits(tcache \o <<cur>> \o SubSeq(d, 1, i - 1)), Emitted)
\* Row i of the verify, shaped in the context of the proposal so far.
TargetProbs(d, i) ==
  Probs(TargetLogits(tcache \o <<cur>> \o SubSeq(d, 1, i - 1)), Emitted \o SubSeq(d, 1, i - 1))

\* p and q over a common denominator; a point mass has no q.
Scaled(f, by) == [t \in DOMAIN f |-> f[t] * Total(by)]
OneAt(x, p) == [t \in DOMAIN p |-> IF t = x THEN 1 ELSE 0]
QProbs(d, i, p) == IF run.method = "draft" THEN DraftProbs(d, i) ELSE OneAt(d[i], p)

\* Mutation: the correction is drawn from p itself.
Residual_Whole(p, q, x) == p
\* The normalized (p - q)_+; a point mass only zeroes its token.
Residual(p, q, x) ==
  IF run.method = "draft"
  THEN [t \in DOMAIN p |-> IF p[t] > q[t] THEN p[t] - q[t] ELSE 0]
  ELSE [p EXCEPT ![x] = 0]

\* At position i, x proposed: the chance it stands and, over the same denominator, the
\* chance that it falls for y.  Weights in units of 1 / (M * Total(residual)).
Verdict(p, q, x) ==
  LET least == IF q[x] <= p[x] THEN q[x] ELSE p[x]
      residual == Residual(p, q, x)
      s == Total(residual)
      lost == q[x] - least
  IN [stand |-> least * (IF s > 0 THEN s ELSE 1),
      fall |-> [y \in DOMAIN p |->
                  IF s > 0 THEN lost * residual[y] ELSE IF y = Argmax(p) THEN lost ELSE 0]]

\* What the rule can make of a proposal: a stands, then a correction or the bonus.
RejectionAccept(d) ==
  LET Of(i) == LET p == TargetProbs(d, i)
                   q == QProbs(d, i, p)
               IN Verdict(Scaled(p, q), Scaled(q, p), d[i])
  IN {SubSeq(d, 1, i - 1) \o <<y>> :
        <<i, y>> \in {iy \in (1 .. Len(d)) \X DOMAIN TargetLogits(<<>>) :
                        /\ \A j \in 1 .. iy[1] - 1 : Of(j).stand > 0
                        /\ Of(iy[1]).fall[iy[2]] > 0}}
     \cup (IF \A j \in DOMAIN d : Of(j).stand > 0
           THEN {d \o <<y>> : y \in Support(TargetProbs(d, Len(d) + 1))} ELSE {})

\* The greedy rule: the longest prefix the target's argmax agrees with, and its next token.
AcceptPrefix(d) ==
  LET tv(i) == Argmax(TargetLogits(tcache \o <<cur>> \o SubSeq(d, 1, i - 1)))
      a == CHOOSE n \in 0 .. Len(d) :
             /\ \A i \in 1 .. n : tv(i) = d[i]
             /\ n < Len(d) => tv(n + 1) # d[n + 1]
  IN SubSeq(d, 1, a) \o <<tv(a + 1)>>

------------------------------------------------------------------------------
Prefill ==
  /\ loop = "prefill"
  /\ IF run.max_tokens <= 0 \/ run.prompt = <<>>
     THEN loop' = "returned" /\ UNCHANGED <<generated, cur, tcache, dcache>>
     ELSE /\ tcache' = run.prompt
          /\ dcache' = IF run.method = "draft" THEN run.prompt ELSE <<>>
          /\ \E tok \in Support(Probs(TargetLogits(run.prompt), run.prompt)) :
               /\ generated' = EmitAll(<<>>, <<tok>>).g
               /\ cur' = tok
               /\ loop' = IF EmitAll(<<>>, <<tok>>).stop THEN "returned"
                          ELSE IF run.method = "plain" THEN "step" ELSE "propose"
  /\ UNCHANGED <<run, drafted>>

\* The k + 1 feeds that keep the draft's cache as long as the target's will be.
Propose ==
  /\ loop = "propose"
  /\ IF run.method = "lookup"
     THEN drafted' = PromptLookup(Emitted, run.ngram, run.k) /\ dcache' = dcache
     ELSE /\ Fits(dcache, run.k + 1)
          /\ drafted' \in DraftSequences
          /\ dcache' = dcache \o <<cur>> \o drafted'
  /\ loop' = "verify"
  /\ UNCHANGED <<run, generated, cur, tcache>>

\* Mutation: the correction is kept in the caches too.
Keep_Correction(L, a) == L + a + 2
\* cur and the accepted stay, the rest is rolled back.
Keep(L, a) == L + a + 1
Verify ==
  /\ loop = "verify"
  /\ Fits(tcache, Len(drafted) + 1)
  /\ \E new \in IF run.rule = "greedy" THEN {AcceptPrefix(drafted)} ELSE RejectionAccept(drafted) :
       LET keep == Keep(Len(tcache), Len(new) - 1)
           end == EmitAll(generated, new)
       IN /\ tcache' = SubSeq(tcache \o <<cur>> \o drafted, 1, keep)
          /\ dcache' = IF run.method = "draft" THEN SubSeq(dcache, 1, keep) ELSE dcache
          /\ generated' = end.g
          /\ loop' = IF end.stop THEN "returned" ELSE "propose"
          /\ cur' = Last(new)
  /\ drafted' = <<>>
  /\ UNCHANGED run

\* generate(): the newest token in, the next one out.
Step ==
  /\ loop = "step"
  /\ Fits(tcache, 1)
  /\ tcache' = Append(tcache, cur)
  /\ \E tok \in Support(Probs(TargetLogits(tcache'), Emitted)) :
       /\ cur' = tok
       /\ generated' = EmitAll(generated, <<tok>>).g
       /\ loop' = IF EmitAll(generated, <<tok>>).stop THEN "returned" ELSE "step"
  /\ UNCHANGED <<run, dcache, drafted>>

LoopInit ==
  /\ run \in Runs
  /\ loop = "prefill"
  /\ generated = <<>> /\ cur = 0 /\ tcache = <<>> /\ dcache = <<>> /\ drafted = <<>>
LoopNext == Prefill \/ Propose \/ Verify \/ Step
LoopSpec == LoopInit /\ [][LoopNext]_loopVars

------------------------------------------------------------------------------
\* A token is one the target could have drawn itself after those before it, and the loop
\* ends where generate() may: at the budget or where the target draws EOS.  Greedy decoding
\* has one possible token at each position, so there the output is generate()'s own,
\* whatever was proposed (speculative.py:210-213).
TokensOfTarget ==
  LET Possible(n) == LET seen == run.prompt \o SubSeq(generated, 1, n)
                     IN Support(Probs(TargetLogits(seen), seen))
  IN /\ \A i \in DOMAIN generated : generated[i] \in Possible(i - 1) \ {run.eos}
     /\ Len(generated) <= (IF run.max_tokens > 0 THEN run.max_tokens ELSE 0)
     /\ loop = "returned" /\ run.prompt # <<>> /\ run.max_tokens > Len(generated)
          => run.eos \in Possible(Len(generated))

\* Whatever the proposal's distribution, the token at each position of a verify has exactly
\* the target's distribution there, given that the tokens before it stood: what stands and
\* what falls add up to p (speculative.py:239-241).  At temperature 0 the rule is the
\* greedy one (speculative.py:241-244).
DistributionKept ==
  loop = "verify" /\ run.rule = "sample" =>
    /\ \A i \in DOMAIN drafted :
         LET pr == TargetProbs(drafted, i)
             qr == QProbs(drafted, i, pr)
             p == Scaled(pr, qr)
             q == Scaled(qr, pr)
             At(x) == Verdict(p, q, x)
             s == Total(Residual(p, q, drafted[i]))
         IN \A y \in DOMAIN p :
              (IF q[y] > 0 THEN At(y).stand ELSE 0) + Total([x \in Support(q) |-> At(x).fall[y]])
                = p[y] * (IF s > 0 THEN s ELSE 1)
    /\ run.params.temperature = 0 /\ run.params.penalty = 1
         => RejectionAccept(drafted) = {AcceptPrefix(drafted)}

\* When a proposal begins both caches hold exactly the tokens emitted but the newest, after
\* any mix of accepted, corrected and rolled back tokens, and neither cache, sized once at
\* the start, is ever asked for more than it has (speculative.py:298-300, 128-131).
LoopCaches ==
  /\ loop \in {"propose", "step"} => Append(tcache, cur) = Emitted
  /\ loop = "propose" /\ run.method = "draft" => dcache = tcache /\ Fits(dcache, run.k + 1)
  /\ loop = "verify" => Fits(tcache, Len(drafted) + 1)
  /\ loop = "step" => Fits(tcache, 1)

\* What top-p is given, the tokens it keeps when the sort leaves them in `order`, and
\* what is enough by the documented rule: "the smallest set of tokens whose cumulative
\* prob >= p" (sampling.py:104).
Shaped ==
  TopKept(Tempered(Penalized(TargetLogits(Emitted), Emitted, run.params.penalty),
                   run.params.temperature), run.params.top_k)
Nucleated(order) == {t \in DOMAIN Shaped : Nucleus(Shaped, run.params.top_p, order)[t] # NegInf}
Samples == run.params.temperature # 0
Mass(S) == Total([t \in S |-> Weights(Shaped)[t]])
\* How the mass of S lies to p of the whole.
Excess(S) == Mass(S) * run.params.top_p[2] - run.params.top_p[1] * Mass(DOMAIN Shaped)
Smallest(S) ==
  /\ Excess(S) >= 0
  /\ \A other \in SUBSET DOMAIN Shaped : Excess(other) >= 0 => Cardinality(S) <= Cardinality(other)
\* The heaviest tokens weigh exactly p.
Ties(order) == \E i \in DOMAIN order : Excess({order[j] : j \in 1 .. i}) = 0

\* Top-p keeps, among the top-k, no token without all heavier ones, and the smallest set
\* whose mass is at least p, in whatever order the sort leaves equal logits, unless some
\* prefix of that order weighs exactly p (SmallestNucleus says what happens then); the
\* Python mask keeps the same with a tie and without (sampling.cpp:69-88).
NucleusMinimal ==
  Samples => \A order \in Orders(Shaped) :
    /\ \A t \in Nucleated(order), u \in DOMAIN Shaped \ Nucleated(order) : Shaped[t] >= Shaped[u]
    /\ Excess(DOMAIN Shaped) > 0 /\ ~Ties(order) => Smallest(Nucleated(order))
    /\ \A t \in Nucleated(order) : Cardinality({u \in DOMAIN Shaped : Shaped[u] > Shaped[t]}) <
         (IF run.params.top_k > 0 THEN run.params.top_k ELSE Cardinality(DOMAIN Shaped))
    /\ NucleusMask(Shaped, run.params.top_p, order) = Nucleus(Shaped, run.params.top_p, order)

\* The documented rule itself (sampling.py:104, and :34 "keep the smallest nucleus with
\* cumprob >= p"): whenever p < 1, what is kept is the smallest set of mass at least p.
SmallestNucleus ==
  Samples /\ Excess(DOMAIN Shaped) > 0 => \A order \in Orders(Shaped) : Smallest(Nucleated(order))
=============================================================================
