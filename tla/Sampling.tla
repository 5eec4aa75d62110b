------------------------------ MODULE Sampling ------------------------------
(***************************************************************************)
(* From the logits of a position to the next token: repetition penalty,    *)
(* temperature, top-k and top-p, in C++ (sampling.cpp) and in Python       *)
(* (sampling.py).                                                          *)
(*                                                                         *)
(* A logit is an integer and exp(x) is 2^x, so a probability is a ratio of *)
(* integers.  The caller picks logits that penalty and temperature divide. *)
(***************************************************************************)
EXTENDS Integers, Sequences, FiniteSets, SequencesExt

NegInf == -99
Total(f) == FoldFunction(+, 0, f)

\* argmax: the first of the largest.
Argmax(logits) ==
  CHOOSE t \in DOMAIN logits :
    \A u \in DOMAIN logits : logits[u] < logits[t] \/ (logits[u] = logits[t] /\ t <= u)

\* A token of the context is penalized once, an id past the vocabulary not at all.
Penalized(logits, context, penalty) ==
  [t \in DOMAIN logits |->
     IF t \notin ToSet(context) THEN logits[t]
     ELSE IF logits[t] > 0 THEN logits[t] \div penalty ELSE logits[t] * penalty]

Tempered(logits, temperature) == [t \in DOMAIN logits |-> logits[t] \div temperature]

\* Everything strictly below the k-th largest goes.
TopKept(logits, k) ==
  IF k <= 0 \/ k >= Cardinality(DOMAIN logits) THEN logits
  ELSE LET AtLeast(x) == Cardinality({t \in DOMAIN logits : logits[t] >= x})
           kth == CHOOSE x \in {logits[t] : t \in DOMAIN logits} :
                    AtLeast(x) >= k /\ \A t \in DOMAIN logits : logits[t] > x => AtLeast(logits[t]) < k
       IN [t \in DOMAIN logits |-> IF logits[t] < kth THEN NegInf ELSE logits[t]]

\* exp(x - max), in units that make all of them integers.
Weights(logits) ==
  LET finite == {logits[t] : t \in DOMAIN logits} \ {NegInf}
      least == CHOOSE x \in finite : \A y \in finite : x <= y
  IN [t \in DOMAIN logits |-> IF logits[t] = NegInf THEN 0 ELSE 2 ^ (logits[t] - least)]

\* The orders std::sort may leave: equal logits come in any.
Orders(logits) ==
  {o \in [1 .. Cardinality(DOMAIN logits) -> DOMAIN logits] :
     /\ \A i, j \in DOMAIN o : i < j => o[i] # o[j] /\ logits[o[i]] >= logits[o[j]]}

\* Mutation: the token that crosses p goes with the rest.
Nucleus_Inclusive(logits, p, order) ==
  IF p[1] >= p[2] THEN logits
  ELSE LET w == Weights(logits)
           Cum(i) == FoldLeft(LAMBDA n, t : n + w[t], 0, SubSeq(order, 1, i))
       IN [t \in DOMAIN logits |->
             IF \E i \in DOMAIN order : order[i] = t /\ Cum(i) * p[2] > p[1] * Total(w)
             THEN NegInf ELSE logits[t]]
\* A token goes once what comes before it weighs more than p.
Nucleus(logits, p, order) ==
  IF p[1] >= p[2] THEN logits
  ELSE LET w == Weights(logits)
           Cum(i) == FoldLeft(LAMBDA n, t : n + w[t], 0, SubSeq(order, 1, i - 1))
       IN [t \in DOMAIN logits |->
             IF \E i \in DOMAIN order : order[i] = t /\ Cum(i) * p[2] > p[1] * Total(w)
             THEN NegInf ELSE logits[t]]

\* The same with a mask over the cumulative sums, shifted by one (sampling.py).
NucleusMask(logits, p, order) ==
  IF p[1] >= p[2] THEN logits
  ELSE LET w == Weights(logits)
           cumprobs == [i \in DOMAIN order |-> FoldLeft(LAMBDA n, t : n + w[t], 0, SubSeq(order, 1, i))]
           over == [i \in DOMAIN order |-> cumprobs[i] * p[2] > p[1] * Total(w)]
           drop == [i \in DOMAIN order |-> i > 1 /\ over[i - 1]]
       IN [t \in DOMAIN logits |->
             IF drop[CHOOSE i \in DOMAIN order : order[i] = t] THEN NegInf ELSE logits[t]]


\* The order that a library leaves for these logits is one of them, whichever caller asks.
SortOrder(logits) == CHOOSE o \in Orders(logits) : TRUE

\* The distribution token_probs() returns and sample_next_token() draws from, as weights:
\* at temperature 0 one-hot.
TokenProbs(logits, params, context) ==
  LET l == Penalized(logits, context, params.penalty) IN
  IF params.temperature = 0
  THEN [t \in DOMAIN l |-> IF t = Argmax(l) THEN 1 ELSE 0]
  ELSE LET k == TopKept(Tempered(l, params.temperature), params.top_k)
       IN Weights(Nucleus(k, params.top_p, SortOrder(k)))
=============================================================================
