---------------------------- MODULE SequenceFacts ----------------------------
(***************************************************************************)
(* What the proofs need to know of sequences, of Subsequence, and of the   *)
(* naturals.  Induction is stated with sets: a set of naturals that has 0  *)
(* and with each number the next has them all.  An instance defines the    *)
(* set of the numbers that have the property and cites InductionOnNat.       *)
(***************************************************************************)
EXTENDS Subsequence, SequencesExt, FiniteSetTheorems, SequenceTheorems,
        WellFoundedInduction, TLAPS

(* Names nothing twice. *)
Distinct(s) == \A i, j \in 1 .. Len(s) : s[i] = s[j] => i = j

-----------------------------------------------------------------------------
(* Induction.                                                              *)

(* A set of naturals has a least element. *)
LEMMA LeastNatural ==
  ASSUME NEW T, T \in SUBSET Nat, T # {}
  PROVE  \E x \in T : \A y \in T : x <= y
<1>1. PICK R : R = OpToRel(<, Nat)
  BY Zenon
<1>2. IsWellFoundedOn(R, Nat)
  BY <1>1, NatLessThanWellFounded, Zenon
<1>3. PICK x \in T : \A y \in T : ~(<<y, x>> \in R)
  BY <1>2, WFMin, Zenon
<1>4. \A p \in Nat \X Nat : p[1] < p[2] => p \in R
  BY <1>1, Zenon DEF OpToRel
<1>5. ASSUME NEW y \in T PROVE x <= y
  <2>1. x \in Nat /\ y \in Nat /\ <<y, x>> \in Nat \X Nat
    OBVIOUS
  <2>2. y < x => <<y, x>> \in R
    BY <1>4, <2>1
  <2>. QED
    BY <1>3, <2>1, <2>2
<1>. QED
  BY <1>5

(* The least and the greatest of a set. *)
LEMMA MinOf ==
  ASSUME NEW S, NEW m \in S, S \subseteq Int, \A x \in S : m <= x
  PROVE  Min(S) = m
<1>1. Min(S) = CHOOSE x \in S : \A y \in S : x <= y
  BY Zenon DEF Min
<1>2. PICK x \in S : x = Min(S) /\ \A y \in S : x <= y
  BY <1>1, Zenon
<1>3. x <= m /\ m <= x /\ x \in Int /\ m \in Int
  BY <1>2
<1>. QED
  BY <1>2, <1>3

LEMMA MaxIn ==
  ASSUME NEW n \in Nat, NEW S \in SUBSET (1 .. n), S # {}
  PROVE  Max(S) \in S
<1>. DEFINE T == {n - x : x \in S}
<1>1. T \in SUBSET Nat /\ T # {}
  <2>1. \A x \in S : n - x \in Nat /\ n - x \in T
    OBVIOUS
  <2>2. T \subseteq Nat
    BY <2>1
  <2>. QED
    BY <2>1, <2>2
<1>2. PICK t \in T : \A u \in T : t <= u
  BY <1>1, LeastNatural
<1>3. PICK m \in S : t = n - m
  BY <1>2
<1>4. ASSUME NEW y \in S PROVE y <= m
  <2>1. n - y \in T
    OBVIOUS
  <2>2. t <= n - y
    BY <1>2, <2>1
  <2>. HIDE DEF T
  <2>. QED
    BY <1>3, <2>2
<1>5. Max(S) = CHOOSE x \in S : \A y \in S : x >= y
  BY Zenon DEF Max
<1>6. \A y \in S : m >= y
  BY <1>4
<1>. QED
  BY <1>5, <1>6, Zenon

LEMMA MinOfTwo ==
  ASSUME NEW a \in Int, NEW b \in Int
  PROVE  Min({a, b}) = IF a <= b THEN a ELSE b
<1>. PICK S : S = {a, b}
  OBVIOUS
<1>1. S \subseteq Int /\ a \in S /\ b \in S
  OBVIOUS
<1>2. CASE a <= b
  <2>1. \A x \in S : a <= x
    BY <1>2
  <2>. QED
    BY <1>1, <1>2, <2>1, MinOf
<1>3. CASE ~ a <= b
  <2>1. \A x \in S : b <= x
    BY <1>3
  <2>. QED
    BY <1>1, <1>3, <2>1, MinOf
<1>. QED
  BY <1>2, <1>3

(* Induction over the naturals. *)
LEMMA InductionOnNat ==
  ASSUME NEW P, 0 \in P, \A n \in Nat : n \in P => n + 1 \in P
  PROVE  Nat \subseteq P
<1>. SUFFICES ASSUME Nat \ P # {} PROVE FALSE
  OBVIOUS
<1>1. PICK x \in Nat \ P : \A y \in Nat \ P : x <= y
  BY LeastNatural
<1>2. x # 0
  OBVIOUS
<1>3. x - 1 \in Nat /\ x - 1 \in P
  BY <1>1, <1>2
<1>. QED
  BY <1>3

(* f iterates the functions d, from z on.                                  *)
Iterates(f, S, N, z, d) ==
  /\ f \in [0 .. N -> S] /\ f[0] = z
  /\ \A i \in 1 .. N : f[i] = d[i][f[i - 1]]

(* There is such an f.                                                     *)
LEMMA Iteration ==
  ASSUME NEW S, NEW z \in S, NEW N \in Nat, NEW d \in [1 .. N -> [S -> S]]
  PROVE  \E f : Iterates(f, S, N, z, d)
<1>. DEFINE Good(g, m) ==
              /\ g \in [0 .. m -> S] /\ g[0] = z
              /\ \A i \in 1 .. m : g[i] = d[i][g[i - 1]]
            P == {m \in Nat : m <= N => \E g \in [0 .. m -> S] : Good(g, m)}
<1>1. 0 \in P
  <2>1. Good([i \in 0 .. 0 |-> z], 0)
    OBVIOUS
  <2>. QED
    BY <2>1
<1>2. ASSUME NEW m \in Nat, m \in P PROVE m + 1 \in P
  <2>. SUFFICES ASSUME m + 1 <= N
                PROVE  \E g \in [0 .. m + 1 -> S] : Good(g, m + 1)
    OBVIOUS
  <2>1. PICK g \in [0 .. m -> S] : Good(g, m)
    BY <1>2
  <2>. DEFINE h == [i \in 0 .. m + 1 |-> IF i = m + 1 THEN d[m + 1][g[m]] ELSE g[i]]
  <2>2. m + 1 \in 1 .. N /\ d[m + 1][g[m]] \in S
    OBVIOUS
  <2>3. h \in [0 .. m + 1 -> S]
    BY <2>2
  <2>4. Good(h, m + 1)
    BY <2>1, <2>2, <2>3
  <2>. HIDE DEF h, Good
  <2>. QED
    BY <2>3, <2>4
<1>3. Nat \subseteq P
  <2>. HIDE DEF P
  <2>. QED
    BY <1>1, <1>2, InductionOnNat
<1>4. PICK g \in [0 .. N -> S] : Good(g, N)
  BY <1>3
<1>5. Iterates(g, S, N, z, d)
  BY <1>4, Zenon DEF Iterates
<1>. QED
  BY <1>5, Zenon

-----------------------------------------------------------------------------
(* Sequences.                                                              *)

(* The elements of a sequence. *)
LEMMA RangeSeq ==
  ASSUME NEW S, NEW s \in Seq(S)
  PROVE  /\ DOMAIN s = 1 .. Len(s) /\ Len(s) \in Nat
         /\ \A b : b \in Range(s) <=> \E i \in 1 .. Len(s) : s[i] = b
         /\ \A i \in 1 .. Len(s) : s[i] \in S /\ s[i] \in Range(s)
BY DEF Range

(* The elements of a concatenation. *)
LEMMA ConcatSeq ==
  ASSUME NEW S, NEW s \in Seq(S), NEW t \in Seq(S)
  PROVE  /\ s \o t \in Seq(S)
         /\ Len(s \o t) = Len(s) + Len(t)
         /\ \A i \in 1 .. Len(s) : (s \o t)[i] = s[i]
         /\ \A i \in Len(s) + 1 .. Len(s) + Len(t) : (s \o t)[i] = t[i - Len(s)]
         /\ Range(s \o t) = Range(s) \cup Range(t)
<1>1. /\ s \o t \in Seq(S)
      /\ Len(s \o t) = Len(s) + Len(t)
      /\ \A i \in 1 .. Len(s) + Len(t) :
           (s \o t)[i] = IF i <= Len(s) THEN s[i] ELSE t[i - Len(s)]
  BY ConcatProperties
<1>2. Len(s) \in Nat /\ Len(t) \in Nat
  OBVIOUS
<1>. QED
  BY <1>1, <1>2, RangeConcatenation

LEMMA AppendElements ==
  ASSUME NEW S, NEW s \in Seq(S), NEW x \in S
  PROVE  /\ Append(s, x) \in Seq(S) /\ Len(Append(s, x)) = Len(s) + 1
         /\ Append(s, x)[Len(s) + 1] = x
         /\ \A i \in 1 .. Len(s) : Append(s, x)[i] = s[i]
         /\ Range(Append(s, x)) = Range(s) \cup {x}
<1>1. /\ Append(s, x) \in Seq(S) /\ Len(Append(s, x)) = Len(s) + 1
      /\ Append(s, x)[Len(s) + 1] = x
      /\ \A i \in 1 .. Len(s) : Append(s, x)[i] = s[i]
  OBVIOUS
<1>2. \A t \in Seq(S) : \A b : b \in Range(t) <=> \E i \in 1 .. Len(t) : t[i] = b
  BY RangeSeq
<1>. DEFINE t == Append(s, x)
<1>3. t \in Seq(S) /\ Len(t) = Len(s) + 1 /\ Len(s) \in Nat
  BY <1>1
<1>. HIDE DEF t
<1>4. ASSUME NEW b, b \in Range(t) PROVE b \in Range(s) \cup {x}
  <2>1. PICK i \in 1 .. Len(s) + 1 : t[i] = b
    BY <1>2, <1>3, <1>4
  <2>2. i = Len(s) + 1 => b = x
    BY <1>1, <2>1 DEF t
  <2>3. i \in 1 .. Len(s) => s[i] = b
    BY <1>1, <2>1 DEF t
  <2>. QED
    BY <1>2, <1>3, <2>1, <2>2, <2>3
<1>5. ASSUME NEW b, b \in Range(s) \cup {x} PROVE b \in Range(t)
  <2>1. CASE b = x
    <3>1. Len(s) + 1 \in 1 .. Len(t) /\ t[Len(s) + 1] = b
      BY <1>1, <1>3, <2>1 DEF t
    <3>. QED
      BY <1>2, <1>3, <3>1
  <2>2. CASE b \in Range(s)
    <3>1. PICK i \in 1 .. Len(s) : s[i] = b
      BY <1>2, <2>2
    <3>2. i \in 1 .. Len(t) /\ t[i] = b
      BY <1>1, <1>3, <3>1 DEF t
    <3>. QED
      BY <1>2, <1>3, <3>2
  <2>. QED
    BY <1>5, <2>1, <2>2
<1>. QED
  BY <1>1, <1>4, <1>5 DEF t

LEMMA TailElements ==
  ASSUME NEW S, NEW s \in Seq(S), s # <<>>
  PROVE  /\ Tail(s) \in Seq(S) /\ Len(Tail(s)) = Len(s) - 1 /\ Len(s) > 0
         /\ \A i \in 1 .. Len(s) - 1 : Tail(s)[i] = s[i + 1]
         /\ Head(s) = s[1] /\ Head(s) \in S /\ Head(s) \in Range(s)
         /\ \A b : b \in Range(s) <=> b = Head(s) \/ b \in Range(Tail(s))
<1>1. /\ Tail(s) \in Seq(S) /\ Len(Tail(s)) = Len(s) - 1 /\ Len(s) > 0
      /\ \A i \in 1 .. Len(s) - 1 : Tail(s)[i] = s[i + 1]
      /\ Head(s) = s[1] /\ Head(s) \in S
  BY EmptySeq
<1>2. Head(s) \in Range(s)
  BY <1>1, RangeSeq
<1>3. ASSUME NEW b, b \in Range(s) PROVE b = Head(s) \/ b \in Range(Tail(s))
  <2>1. PICK i \in 1 .. Len(s) : s[i] = b
    BY <1>3, RangeSeq
  <2>2. CASE i = 1
    BY <1>1, <2>1, <2>2
  <2>3. CASE i # 1
    <3>1. i - 1 \in 1 .. Len(Tail(s)) /\ Tail(s)[i - 1] = b
      BY <1>1, <2>1, <2>3
    <3>. QED
      BY <1>1, <3>1, RangeSeq
  <2>. QED
    BY <2>2, <2>3
<1>4. ASSUME NEW b, b \in Range(Tail(s)) PROVE b \in Range(s)
  <2>1. PICK i \in 1 .. Len(s) - 1 : Tail(s)[i] = b
    <3>1. \E i \in 1 .. Len(Tail(s)) : Tail(s)[i] = b
      <4>1. PICK t \in Seq(S) : t = Tail(s)
        BY <1>1
      <4>2. \E i \in 1 .. Len(t) : t[i] = b
        BY <1>4, <4>1, RangeSeq
      <4>. QED
        BY <4>1, <4>2
    <3>. QED
      BY <1>1, <3>1
  <2>2. i + 1 \in 1 .. Len(s) /\ s[i + 1] = b
    BY <1>1, <2>1
  <2>. QED
    BY <2>2, RangeSeq
<1>. QED
  BY <1>1, <1>2, <1>3, <1>4

(* The head of a sequence that names nothing twice is not in the tail. *)
LEMMA HeadOnce ==
  ASSUME NEW S, NEW s \in Seq(S), s # <<>>, Distinct(s)
  PROVE  Head(s) \notin Range(Tail(s))
<1>. SUFFICES ASSUME Head(s) \in Range(Tail(s)) PROVE FALSE
  OBVIOUS
<1>1. /\ Tail(s) \in Seq(S) /\ Len(Tail(s)) = Len(s) - 1 /\ Len(s) \in Nat
      /\ \A i \in 1 .. Len(s) - 1 : Tail(s)[i] = s[i + 1]
      /\ Head(s) = s[1]
  BY TailElements
<1>2. PICK i \in 1 .. Len(s) - 1 : Tail(s)[i] = s[1]
  <2>1. \E i \in 1 .. Len(Tail(s)) : Tail(s)[i] = s[1]
    BY <1>1, RangeSeq
  <2>. QED
    BY <1>1, <2>1
<1>3. s[i + 1] = s[1] /\ i + 1 \in 1 .. Len(s) /\ 1 \in 1 .. Len(s)
  BY <1>1, <1>2
<1>. QED
  BY <1>1, <1>2, <1>3 DEF Distinct

(* A sequence is its front and its last element. *)
LEMMA FrontAndLast ==
  ASSUME NEW S, NEW s \in Seq(S), s # <<>>
  PROVE  /\ Front(s) \in Seq(S) /\ Last(s) \in S
         /\ Front(s) \o <<Last(s)>> = s
<1>1. Len(s) \in Nat /\ Len(s) > 0 /\ \A i \in 1 .. Len(s) : s[i] \in S
  BY EmptySeq
<1>2. Front(s) = SubSeq(s, 1, Len(s) - 1) /\ Last(s) = s[Len(s)]
  BY DEF Front, Last
<1>3. /\ SubSeq(s, 1, Len(s) - 1) \in Seq(S)
      /\ Len(SubSeq(s, 1, Len(s) - 1)) = Len(s) - 1
      /\ \A i \in 1 .. Len(s) - 1 : SubSeq(s, 1, Len(s) - 1)[i] = s[i]
  <2>. DEFINE n == Len(s) - 1
  <2>1. n \in Nat /\ \A i \in 1 .. n : s[i] \in S
    BY <1>1
  <2>2. /\ SubSeq(s, 1, n) \in Seq(S)
        /\ Len(SubSeq(s, 1, n)) = IF 1 <= n THEN n - 1 + 1 ELSE 0
        /\ \A i \in 1 .. n - 1 + 1 : SubSeq(s, 1, n)[i] = s[1 + i - 1]
    <3>. HIDE DEF n
    <3>. QED
      BY <2>1, SubSeqProperties
  <2>. HIDE DEF n
  <2>3. /\ SubSeq(s, 1, n) \in Seq(S) /\ Len(SubSeq(s, 1, n)) = n
        /\ \A i \in 1 .. n : SubSeq(s, 1, n)[i] = s[i]
    BY <2>1, <2>2
  <2>. QED
    BY <2>3 DEF n
<1>4. s[Len(s)] \in S /\ <<s[Len(s)]>> \in Seq(S)
  BY <1>1
<1>5. /\ SubSeq(s, 1, Len(s) - 1) \o <<s[Len(s)]>> \in Seq(S)
      /\ Len(SubSeq(s, 1, Len(s) - 1) \o <<s[Len(s)]>>) = Len(s)
      /\ \A i \in 1 .. Len(s) : (SubSeq(s, 1, Len(s) - 1) \o <<s[Len(s)]>>)[i] = s[i]
  BY <1>1, <1>3, <1>4
<1>6. SubSeq(s, 1, Len(s) - 1) \o <<s[Len(s)]>> = s
  BY <1>5, SeqEqual
<1>. QED
  BY <1>2, <1>3, <1>4, <1>6

LEMMA AppendFront ==
  ASSUME NEW S, NEW s \in Seq(S), NEW x \in S
  PROVE  Append(s, x) # <<>> /\ Front(Append(s, x)) = s
<1>1. Append(s, x) \in Seq(S) /\ Len(Append(s, x)) = Len(s) + 1
      /\ \A i \in 1 .. Len(s) : Append(s, x)[i] = s[i]
  BY AppendElements
<1>2. Front(Append(s, x)) = SubSeq(Append(s, x), 1, Len(s))
  BY <1>1 DEF Front
<1>3. SubSeq(Append(s, x), 1, Len(s)) \in Seq(S) /\ Len(SubSeq(Append(s, x), 1, Len(s))) = Len(s)
      /\ \A i \in 1 .. Len(s) : SubSeq(Append(s, x), 1, Len(s))[i] = s[i]
  BY <1>1
<1>4. SubSeq(Append(s, x), 1, Len(s)) = s
  BY <1>3, SeqEqual
<1>. QED
  BY <1>1, <1>2, <1>4, EmptySeq

-----------------------------------------------------------------------------
(* What Without leaves.                                                    *)

(* Without keeps what is not taken out, once. *)
LEMMA WithoutLeaves ==
  ASSUME NEW S, NEW s \in Seq(S), NEW out, Distinct(s), NEW t \in Without(s, out)
  PROVE  /\ t \in Seq(S) /\ Distinct(t)
         /\ Range(t) = Range(s) \ out
<1>. DEFINE rest == Range(s) \ out
<1>1. t \in [1 .. Cardinality(rest) -> rest] /\ InOrder(t, rest, s)
  BY DEF Without
<1>2. rest \subseteq S
  BY RangeSeq
<1>3. IsFiniteSet(rest)
  <2>0. PICK n \in Nat : n = Len(s)
    BY LenProperties
  <2>1. s \in [1 .. n -> Range(s)] /\ \A x \in Range(s) : \E i \in 1 .. n : s[i] = x
    BY <2>0, RangeSeq, LenProperties
  <2>2. IsFiniteSet(1 .. n)
    BY FS_Interval
  <2>3. s \in Surjection(1 .. n, Range(s))
    BY <2>1 DEF Surjection
  <2>4. IsFiniteSet(Range(s))
    BY <2>2, <2>3, FS_Surjection
  <2>. QED
    BY <2>4, FS_Subset
<1>4. Cardinality(rest) \in Nat
  BY <1>3, FS_CardinalityType
<1>5. t \in Seq(S) /\ DOMAIN t = 1 .. Len(t) /\ DOMAIN s = 1 .. Len(s)
  <2>. DEFINE n == Cardinality(rest)
  <2>1. n \in Nat /\ t \in [1 .. n -> S]
    BY <1>1, <1>2, <1>4
  <2>. HIDE DEF n
  <2>. QED
    BY <2>1
<1>6. ASSUME NEW i \in 1 .. Len(t), NEW j \in 1 .. Len(t), i < j
      PROVE  t[i] # t[j]
  <2>1. \A k, l \in DOMAIN t : k < l =>
          \E p, q \in DOMAIN s : p < q /\ s[p] = t[k] /\ s[q] = t[l]
    BY <1>1 DEF InOrder
  <2>2. i \in DOMAIN t /\ j \in DOMAIN t
    BY <1>5
  <2>3. PICK p \in DOMAIN s, q \in DOMAIN s : p < q /\ s[p] = t[i] /\ s[q] = t[j]
    BY <1>6, <2>1, <2>2
  <2>. QED
    BY <1>5, <2>3 DEF Distinct
<1>7. Distinct(t)
  BY <1>5, <1>6 DEF Distinct
<1>. QED
  BY <1>1, <1>5, <1>7 DEF InOrder

(* How many a sequence that names nothing twice names. *)
LEMMA DistinctLength ==
  ASSUME NEW S, NEW s \in Seq(S), Distinct(s)
  PROVE  IsFiniteSet(Range(s)) /\ Cardinality(Range(s)) = Len(s)
<1>0. PICK n \in Nat : n = Len(s)
  BY LenProperties
<1>1. s \in [1 .. n -> Range(s)] /\ \A x \in Range(s) : \E i \in 1 .. n : s[i] = x
  BY <1>0, RangeSeq, LenProperties
<1>2. \A i, j \in 1 .. n : s[i] = s[j] => i = j
  BY <1>0 DEF Distinct
<1>3. IsFiniteSet(1 .. n) /\ Cardinality(1 .. n) = n
  <2>1. n >= 1 \/ n = 0
    OBVIOUS
  <2>. QED
    BY <2>1, FS_Interval
<1>4. s \in Bijection(1 .. n, Range(s))
  BY <1>1, <1>2 DEF Bijection, Surjection, Injection, IsInjective
<1>5. ExistsBijection(1 .. n, Range(s))
  BY <1>4 DEF ExistsBijection
<1>. QED
  BY <1>0, <1>3, <1>5, FS_Bijection

(* Taking out nothing it names leaves the sequence as one of the choices. *)
LEMMA WithoutNone ==
  ASSUME NEW S, NEW s \in Seq(S), NEW out, Distinct(s), Range(s) \cap out = {}
  PROVE  s \in Without(s, out)
<1>1. Range(s) \ out = Range(s) /\ Cardinality(Range(s)) = Len(s)
  BY DistinctLength
<1>2. s \in [1 .. Len(s) -> Range(s)] /\ DOMAIN s = 1 .. Len(s)
  BY RangeSeq, LenProperties
<1>3. InOrder(s, Range(s), s)
  BY DEF InOrder
<1>. QED
  BY <1>1, <1>2, <1>3 DEF Without

(* Taking out all of it leaves nothing. *)
LEMMA WithoutAll ==
  ASSUME NEW S, NEW s \in Seq(S), NEW out, Distinct(s), Range(s) \subseteq out,
         NEW t \in Without(s, out)
  PROVE  t = <<>>
<1>1. t \in Seq(S) /\ Range(t) = {}
  BY WithoutLeaves
<1>2. Len(t) \in Nat /\ (Len(t) # 0 => t[1] \in Range(t))
  BY <1>1, RangeSeq
<1>. QED
  BY <1>1, <1>2, EmptySeq

-----------------------------------------------------------------------------
(* Sums over a set.                                                        *)

SumOver(f, S) == MapThenSumSet(LAMBDA x : f[x], S)

Pick(s) == CHOOSE x \in s : TRUE

(* g sums f over the subsets of D, as MapThenSumSet does. *)
Sums(g, f, D) ==
  g = [s \in SUBSET D |-> IF s = {} THEN 0 ELSE f[Pick(s)] + g[s \ {Pick(s)}]]

LEMMA SumUnfolded ==
  ASSUME NEW f, NEW S
  PROVE  SumOver(f, S) = (CHOOSE g : Sums(g, f, S))[S]
BY Zenon DEF SumOver, MapThenSumSet, MapThenFoldSet, Pick, Sums

(* A nonempty set has one element more than what is left of it. *)
LEMMA PickOne ==
  ASSUME NEW D, IsFiniteSet(D), NEW s \in SUBSET D, s # {}
  PROVE  /\ Pick(s) \in s /\ s \ {Pick(s)} \in SUBSET D
         /\ Cardinality(s) \in Nat
         /\ \A x \in s : Cardinality(s \ {x}) \in Nat /\ Cardinality(s \ {x}) = Cardinality(s) - 1
<1>1. Pick(s) \in s
  BY Zenon DEF Pick
<1>2. IsFiniteSet(s)
  BY FS_Subset
<1>3. Cardinality(s) \in Nat
  BY <1>2, FS_CardinalityType
<1>4. ASSUME NEW x \in s
      PROVE  Cardinality(s \ {x}) \in Nat /\ Cardinality(s \ {x}) = Cardinality(s) - 1
  <2>1. IsFiniteSet(s \ {x}) /\ Cardinality(s \ {x}) = Cardinality(s) - 1
    BY <1>2, FS_RemoveElement
  <2>. QED
    BY <2>1, FS_CardinalityType
<1>. QED
  BY <1>1, <1>3, <1>4

(* There is such a function. *)
LEMMA SumsExist ==
  ASSUME NEW D, IsFiniteSet(D), NEW f \in [D -> Int]
  PROVE  \E g \in [SUBSET D -> Int] : Sums(g, f, D)
<1>. DEFINE Size(s) == Cardinality(s)
            P(n, g) == \A s \in SUBSET D :
                         Size(s) <= n =>
                           g[s] = IF s = {} THEN 0 ELSE f[Pick(s)] + g[s \ {Pick(s)}]
            R == {n \in Nat : \E g \in [SUBSET D -> Int] : P(n, g)}
<1>0. \A s \in SUBSET D : Size(s) \in Nat /\ (Size(s) = 0 <=> s = {})
  BY FS_Subset, FS_CardinalityType, FS_EmptySet
<1>1. \A s \in SUBSET D : s # {} =>
        /\ Pick(s) \in D /\ s \ {Pick(s)} \in SUBSET D
        /\ Size(s \ {Pick(s)}) = Size(s) - 1
  BY PickOne
<1>. HIDE DEF Size
<1>2. 0 \in R
  <2>. DEFINE g == [s \in SUBSET D |-> 0]
  <2>1. g \in [SUBSET D -> Int] /\ P(0, g)
    BY <1>0
  <2>. QED
    BY <2>1
<1>3. ASSUME NEW n \in Nat, n \in R PROVE n + 1 \in R
  <2>1. PICK g \in [SUBSET D -> Int] : P(n, g)
    BY <1>3
  <2>. DEFINE v(s) == f[Pick(s)] + g[s \ {Pick(s)}]
              h == [s \in SUBSET D |-> IF Size(s) = n + 1 THEN v(s) ELSE g[s]]
  <2>2. \A s \in SUBSET D : Size(s) = n + 1 => s # {} /\ v(s) \in Int
    BY <1>0, <1>1
  <2>3. h \in [SUBSET D -> Int]
    <3>. HIDE DEF v
    <3>. QED
      BY <2>2
  <2>4. ASSUME NEW s \in SUBSET D, Size(s) <= n + 1
        PROVE  h[s] = IF s = {} THEN 0 ELSE f[Pick(s)] + h[s \ {Pick(s)}]
    <3>1. CASE s = {}
      <4>1. Size(s) = 0 /\ h[s] = g[s]
        BY <1>0, <3>1
      <4>. QED
        BY <2>1, <3>1, <4>1
    <3>2. CASE s # {}
      <4>. DEFINE t == s \ {Pick(s)}
      <4>1. t \in SUBSET D /\ Size(t) = Size(s) - 1 /\ Size(s) \in Nat
        BY <1>0, <1>1, <3>2
      <4>2. h[t] = g[t]
        <5>. HIDE DEF t, v
        <5>1. Size(t) # n + 1
          BY <2>4, <4>1
        <5>. QED
          BY <4>1, <5>1
      <4>3. h[s] = f[Pick(s)] + g[t]
        <5>1. CASE Size(s) = n + 1
          BY <5>1
        <5>2. CASE Size(s) # n + 1
          <6>1. Size(s) <= n /\ h[s] = g[s]
            BY <2>4, <4>1, <5>2
          <6>. QED
            BY <2>1, <3>2, <6>1
        <5>. QED
          BY <5>1, <5>2
      <4>. QED
        BY <3>2, <4>2, <4>3
    <3>. QED
      BY <3>1, <3>2
  <2>5. P(n + 1, h)
    <3>. HIDE DEF h
    <3>. QED
      BY <2>4
  <2>. HIDE DEF h, P
  <2>. QED
    BY <2>3, <2>5
<1>4. Nat \subseteq R
  <2>. HIDE DEF R
  <2>. QED
    BY <1>2, <1>3, InductionOnNat
<1>5. PICK n \in Nat : n = Size(D)
  BY <1>0
<1>6. \A s \in SUBSET D : Size(s) <= n
  BY <1>5, FS_Subset DEF Size
<1>7. PICK g \in [SUBSET D -> Int] : P(n, g)
  BY <1>4
<1>8. \A s \in SUBSET D : g[s] = IF s = {} THEN 0 ELSE f[Pick(s)] + g[s \ {Pick(s)}]
  BY <1>6, <1>7
<1>9. g = [s \in SUBSET D |-> IF s = {} THEN 0 ELSE f[Pick(s)] + g[s \ {Pick(s)}]]
  BY <1>8
<1>. QED
  BY <1>9 DEF Sums

(* What Sums says of each set. *)
LEMMA SumsStep ==
  ASSUME NEW g, NEW f, NEW D, Sums(g, f, D)
  PROVE  /\ g[{}] = 0
         /\ \A s \in SUBSET D : s # {} => g[s] = f[Pick(s)] + g[s \ {Pick(s)}]
<1>1. PICK h : h = [s \in SUBSET D |-> IF s = {} THEN 0 ELSE f[Pick(s)] + g[s \ {Pick(s)}]] /\ g = h
  BY Zenon DEF Sums
<1>2. /\ h[{}] = 0
      /\ \A s \in SUBSET D : s # {} => h[s] = f[Pick(s)] + g[s \ {Pick(s)}]
  BY <1>1
<1>. QED
  BY <1>1, <1>2, Zenon

(* Two of them agree where the functions they sum do. *)
LEMMA SumsAgree ==
  ASSUME NEW D, NEW E, IsFiniteSet(D), IsFiniteSet(E), NEW f, NEW f1, NEW g, NEW g1,
         Sums(g, f, D), Sums(g1, f1, E), NEW S, S \subseteq D, S \subseteq E,
         \A x \in S : f[x] = f1[x]
  PROVE  g[S] = g1[S]
<1>. DEFINE Size(s) == Cardinality(s)
            Q == {n \in Nat : \A s \in SUBSET S : Size(s) = n => g[s] = g1[s]}
<1>0. \A s \in SUBSET S : Size(s) \in Nat /\ (Size(s) = 0 <=> s = {})
  BY FS_Subset, FS_CardinalityType, FS_EmptySet
<1>1. \A s \in SUBSET S : s # {} =>
        /\ Pick(s) \in S /\ s \ {Pick(s)} \in SUBSET S
        /\ Size(s \ {Pick(s)}) = Size(s) - 1
  BY PickOne
<1>2. /\ g[{}] = 0 /\ g1[{}] = 0
      /\ \A s \in SUBSET S : s # {} =>
           /\ g[s] = f[Pick(s)] + g[s \ {Pick(s)}]
           /\ g1[s] = f1[Pick(s)] + g1[s \ {Pick(s)}]
  <2>1. g[{}] = 0 /\ \A s \in SUBSET D : s # {} => g[s] = f[Pick(s)] + g[s \ {Pick(s)}]
    BY SumsStep
  <2>2. g1[{}] = 0 /\ \A s \in SUBSET E : s # {} => g1[s] = f1[Pick(s)] + g1[s \ {Pick(s)}]
    BY SumsStep
  <2>3. \A s \in SUBSET S : s \in SUBSET D /\ s \in SUBSET E
    OBVIOUS
  <2>. QED
    BY <2>1, <2>2, <2>3, Zenon
<1>. HIDE DEF Size
<1>3. 0 \in Q
  BY <1>0, <1>2
<1>4. ASSUME NEW n \in Nat, n \in Q PROVE n + 1 \in Q
  <2>. SUFFICES ASSUME NEW s \in SUBSET S, Size(s) = n + 1
                PROVE  g[s] = g1[s]
    OBVIOUS
  <2>1. s # {}
    BY <1>0
  <2>2. s \ {Pick(s)} \in SUBSET S /\ Size(s \ {Pick(s)}) = n /\ Pick(s) \in S
    BY <1>1, <2>1
  <2>3. g[s \ {Pick(s)}] = g1[s \ {Pick(s)}]
    BY <1>4, <2>2
  <2>. QED
    BY <1>2, <2>1, <2>2, <2>3
<1>5. Nat \subseteq Q
  <2>. HIDE DEF Q
  <2>. QED
    BY <1>3, <1>4, InductionOnNat
<1>. QED
  BY <1>0, <1>5

(* A sum is an integer, over no elements 0, and any element may be taken   *)
(* out of it first.                                                        *)
LEMMA SumOverTakes ==
  ASSUME NEW D, IsFiniteSet(D), NEW f \in [D -> Int], NEW S \in SUBSET D
  PROVE  /\ SumOver(f, S) \in Int
         /\ S = {} => SumOver(f, S) = 0
         /\ \A y \in S : SumOver(f, S) = f[y] + SumOver(f, S \ {y})
<1>1. PICK G \in [SUBSET D -> Int] : Sums(G, f, D)
  BY SumsExist
<1>2. ASSUME NEW T \in SUBSET D PROVE SumOver(f, T) = G[T]
  <2>. DEFINE ft == [x \in T |-> f[x]]
              g == CHOOSE h : Sums(h, f, T)
  <2>1. IsFiniteSet(T) /\ ft \in [T -> Int]
    BY FS_Subset
  <2>2. PICK h \in [SUBSET T -> Int] : Sums(h, ft, T)
    BY <2>1, SumsExist
  <2>3. \A s \in SUBSET T : s # {} => ft[Pick(s)] = f[Pick(s)]
    BY Zenon DEF Pick
  <2>4. Sums(h, f, T)
    <3>1. \A s \in SUBSET T : h[s] = IF s = {} THEN 0 ELSE ft[Pick(s)] + h[s \ {Pick(s)}]
      <4>. HIDE DEF ft
      <4>1. h[{}] = 0 /\ \A s \in SUBSET T : s # {} => h[s] = ft[Pick(s)] + h[s \ {Pick(s)}]
        BY <2>2, SumsStep, Zenon
      <4>. QED
        BY <4>1
    <3>. HIDE DEF ft
    <3>2. \A s \in SUBSET T : h[s] = IF s = {} THEN 0 ELSE f[Pick(s)] + h[s \ {Pick(s)}]
      BY <2>3, <3>1
    <3>3. h = [s \in SUBSET T |-> IF s = {} THEN 0 ELSE f[Pick(s)] + h[s \ {Pick(s)}]]
      BY <3>2
    <3>. QED
      BY <3>3 DEF Sums
  <2>5. Sums(g, f, T)
    BY <2>4, Zenon
  <2>6. SumOver(f, T) = g[T]
    BY SumUnfolded, Zenon
  <2>. HIDE DEF g, ft
  <2>7. g[T] = G[T]
    BY <1>1, <2>1, <2>5, SumsAgree
  <2>. QED
    BY <2>6, <2>7
<1>. DEFINE Size(s) == Cardinality(s)
            Q == {n \in Nat : \A s \in SUBSET D : \A y \in s :
                    Size(s) = n => G[s] = f[y] + G[s \ {y}]}
<1>3. \A s \in SUBSET D : Size(s) \in Nat /\ (Size(s) = 0 <=> s = {})
  BY FS_Subset, FS_CardinalityType, FS_EmptySet
<1>4. \A s \in SUBSET D : s # {} =>
        /\ Pick(s) \in s /\ \A x \in s : Size(s \ {x}) = Size(s) - 1
  BY PickOne
<1>5. /\ G[{}] = 0
      /\ \A s \in SUBSET D : s # {} => G[s] = f[Pick(s)] + G[s \ {Pick(s)}]
  BY <1>1, SumsStep
<1>. HIDE DEF Size
<1>6. 0 \in Q
  BY <1>3
<1>7. ASSUME NEW n \in Nat, n \in Q PROVE n + 1 \in Q
  <2>. SUFFICES ASSUME NEW s \in SUBSET D, NEW y \in s, Size(s) = n + 1
                PROVE  G[s] = f[y] + G[s \ {y}]
    OBVIOUS
  <2>. DEFINE x == Pick(s)
  <2>1. x \in s /\ G[s] = f[x] + G[s \ {x}] /\ Size(s \ {x}) = n /\ Size(s \ {y}) = n
    <3>1. s # {} /\ Size(s) - 1 = n
      OBVIOUS
    <3>2. x \in s /\ \A z \in s : Size(s \ {z}) = Size(s) - 1
      BY <1>4, <3>1, Zenon
    <3>3. G[s] = f[x] + G[s \ {x}]
      BY <1>5, <3>1, Zenon
    <3>. QED
      BY <3>1, <3>2, <3>3, Zenon
  <2>. HIDE DEF x
  <2>2. CASE x = y
    BY <2>1, <2>2
  <2>3. CASE x # y
    <3>1. y \in s \ {x} /\ x \in s \ {y} /\ s \ {x} \in SUBSET D /\ s \ {y} \in SUBSET D
      BY <2>1, <2>3
    <3>2. G[s \ {x}] = f[y] + G[(s \ {x}) \ {y}]
      BY <1>7, <2>1, <3>1
    <3>3. G[s \ {y}] = f[x] + G[(s \ {y}) \ {x}]
      BY <1>7, <2>1, <3>1
    <3>4. PICK t \in SUBSET D : t = (s \ {x}) \ {y} /\ t = (s \ {y}) \ {x}
      OBVIOUS
    <3>5. f[x] \in Int /\ f[y] \in Int /\ G[t] \in Int
      BY <1>1, <2>1
    <3>6. G[s \ {x}] = f[y] + G[t] /\ G[s \ {y}] = f[x] + G[t]
      BY <3>2, <3>3, <3>4, Zenon
    <3>7. G[s] = f[x] + G[s \ {x}]
      BY <2>1
    <3>8. G[s] = f[x] + (f[y] + G[t]) /\ G[s \ {y}] = f[x] + G[t]
      BY <3>6, <3>7, Zenon
    <3>. QED
      BY <3>5, <3>8
  <2>. QED
    BY <2>2, <2>3
<1>8. Nat \subseteq Q
  <2>. HIDE DEF Q
  <2>. QED
    BY <1>6, <1>7, InductionOnNat
<1>9. \A y \in S : G[S] = f[y] + G[S \ {y}]
  BY <1>3, <1>8
<1>. QED
  BY <1>1, <1>2, <1>5, <1>9

LEMMA SumTakes ==
  ASSUME NEW D, IsFiniteSet(D), NEW f \in [D -> Int], NEW S \in SUBSET D
  PROVE  \A y \in S : SumOver(f, S) = f[y] + SumOver(f, S \ {y})
BY SumOverTakes

(* Sums over one set of functions that agree there. *)
LEMMA SumOverAgrees ==
  ASSUME NEW D, IsFiniteSet(D), NEW f \in [D -> Int], NEW f1 \in [D -> Int],
         NEW S \in SUBSET D, \A x \in S : f[x] = f1[x]
  PROVE  SumOver(f, S) = SumOver(f1, S)
<1>. DEFINE Q == {n \in Nat : \A s \in SUBSET S :
                    Cardinality(s) = n => SumOver(f, s) = SumOver(f1, s)}
<1>1. \A s \in SUBSET S : Cardinality(s) \in Nat /\ (Cardinality(s) = 0 <=> s = {})
  BY FS_Subset, FS_CardinalityType, FS_EmptySet
<1>2. 0 \in Q
  <2>1. \A s \in SUBSET S : s = {} => SumOver(f, s) = 0 /\ SumOver(f1, s) = 0
    BY SumOverTakes
  <2>. QED
    BY <1>1, <2>1
<1>3. ASSUME NEW n \in Nat, n \in Q PROVE n + 1 \in Q
  <2>. SUFFICES ASSUME NEW s \in SUBSET S, Cardinality(s) = n + 1
                PROVE  SumOver(f, s) = SumOver(f1, s)
    OBVIOUS
  <2>1. PICK x \in s : TRUE
    BY <1>1
  <2>2. Cardinality(s \ {x}) = n
    BY PickOne
  <2>3. SumOver(f, s \ {x}) = SumOver(f1, s \ {x})
    BY <1>3, <2>2
  <2>4. SumOver(f, s) = f[x] + SumOver(f, s \ {x}) /\ SumOver(f1, s) = f1[x] + SumOver(f1, s \ {x})
    BY SumOverTakes
  <2>. QED
    BY <2>3, <2>4
<1>4. Nat \subseteq Q
  <2>. HIDE DEF Q
  <2>. QED
    BY <1>2, <1>3, InductionOnNat
<1>. QED
  BY <1>1, <1>4

-----------------------------------------------------------------------------
(* The sequences of a sequence, one after the other.                       *)

Flattens(g, s) == g = [i \in 1 .. Len(s) |-> IF i = 1 THEN s[i] ELSE g[i - 1] \o s[i]]

LEMMA FlattenUnfolded ==
  ASSUME NEW s, Len(s) # 0
  PROVE  FlattenSeq(s) = (CHOOSE g : Flattens(g, s))[Len(s)]
BY Zenon DEF FlattenSeq, Flattens

(* What there is after each of them when they are put together in turn.    *)
PutTogether(f, T, N, w) ==
  /\ f \in [0 .. N -> Seq(T)] /\ f[0] = <<>>
  /\ \A i \in 1 .. N : f[i] = f[i - 1] \o w[i]

LEMMA CanBePutTogether ==
  ASSUME NEW T, NEW N \in Nat, NEW w \in [1 .. N -> Seq(T)]
  PROVE  \E f : PutTogether(f, T, N, w)
<1>. DEFINE S == Seq(T)
            d == [n \in 1 .. N |-> [v \in S |-> v \o w[n]]]
<1>1. d \in [1 .. N -> [S -> S]]
  <2>1. \A n \in 1 .. N : \A v \in S : v \o w[n] \in S
    BY ConcatSeq
  <2>. HIDE DEF S
  <2>. QED
    BY <2>1
<1>2. <<>> \in S
  OBVIOUS
<1>3. PICK f : Iterates(f, S, N, <<>>, d)
  <2>. HIDE DEF S, d
  <2>. QED
    BY <1>1, <1>2, Iteration
<1>4. ASSUME NEW n \in 1 .. N PROVE f[n] = f[n - 1] \o w[n]
  <2>0. f \in [0 .. N -> S] /\ f[n] = d[n][f[n - 1]]
    <3>. HIDE DEF S, d
    <3>. QED
      BY <1>3 DEF Iterates
  <2>1. f[n - 1] \in S
    <3>1. n - 1 \in 0 .. N
      OBVIOUS
    <3>. HIDE DEF S
    <3>. QED
      BY <2>0, <3>1
  <2>2. \A v \in S : d[n][v] = v \o w[n]
    OBVIOUS
  <2>. HIDE DEF d, S
  <2>. QED
    BY <2>0, <2>1, <2>2, Zenon
<1>. QED
  BY <1>3, <1>4, Zenon DEF Iterates, PutTogether

(* ... and that is FlattenSeq.                                             *)
LEMMA FlattenSteps ==
  ASSUME NEW T, NEW N \in Nat, NEW w \in [1 .. N -> Seq(T)]
  PROVE  \E f : PutTogether(f, T, N, w) /\ f[N] = FlattenSeq(w)
<1>0. Len(w) = N
  OBVIOUS
<1>1. PICK f : PutTogether(f, T, N, w)
  BY CanBePutTogether
<1>2. f[0] = <<>> /\ \A i \in 1 .. N : f[i] = f[i - 1] \o w[i]
  BY <1>1, Zenon DEF PutTogether
<1>3. CASE N = 0
  <2>1. FlattenSeq(w) = w
    BY <1>0, <1>3, Zenon DEF FlattenSeq
  <2>2. w = <<>>
    BY <1>3
  <2>. QED
    BY <1>1, <1>2, <1>3, <2>1, <2>2
<1>4. CASE N # 0
  <2>0. f[1] = w[1]
    <3>1. 1 \in 1 .. N /\ 1 - 1 = 0
      BY <1>4
    <3>2. f[1] = <<>> \o w[1] /\ w[1] \in Seq(T)
      BY <1>2, <3>1, Zenon
    <3>. QED
      BY <3>2
  <2>. DEFINE f1 == [i \in 1 .. N |-> f[i]]
  <2>1. \A i \in 1 .. N : f[i] = IF i = 1 THEN w[i] ELSE f1[i - 1] \o w[i]
    <3>1. \A i \in 1 .. N : i # 1 => f1[i - 1] = f[i - 1]
      OBVIOUS
    <3>. HIDE DEF f1
    <3>. QED
      BY <1>2, <2>0, <3>1, Zenon
  <2>2. f1 = [i \in 1 .. N |-> IF i = 1 THEN w[i] ELSE f1[i - 1] \o w[i]]
    BY <2>1, Zenon
  <2>. DEFINE g == CHOOSE h : Flattens(h, w)
  <2>3. Flattens(g, w)
    <3>. HIDE DEF f1
    <3>1. Flattens(f1, w)
      BY <1>0, <2>2, Zenon DEF Flattens
    <3>. QED
      BY <3>1, Zenon
  <2>4. FlattenSeq(w) = g[N]
    BY <1>0, <1>4, FlattenUnfolded, Zenon
  <2>. HIDE DEF g, f1
  <2>5. PICK h : h = [i \in 1 .. N |-> IF i = 1 THEN w[i] ELSE g[i - 1] \o w[i]] /\ g = h
    BY <1>0, <2>3, Zenon DEF Flattens
  <2>6. \A i \in 1 .. N : h[i] = IF i = 1 THEN w[i] ELSE g[i - 1] \o w[i]
    BY <2>5, Zenon
  <2>7. \A i \in 1 .. N : g[i] = IF i = 1 THEN w[i] ELSE g[i - 1] \o w[i]
    BY <2>5, <2>6, Zenon
  <2>. DEFINE Q == {n \in Nat : n + 1 <= N => g[n + 1] = f[n + 1]}
  <2>8. 0 \in Q
    <3>1. 1 \in 1 .. N
      BY <1>4
    <3>2. g[1] = w[1]
      BY <2>7, <3>1, Zenon
    <3>. QED
      BY <2>0, <3>2
  <2>9. \A n \in Nat : n \in Q => n + 1 \in Q
    <3>. SUFFICES ASSUME NEW n \in Nat, n + 1 <= N => g[n + 1] = f[n + 1], n + 1 + 1 <= N
                  PROVE  g[n + 1 + 1] = f[n + 1 + 1]
      OBVIOUS
    <3>1. n + 1 <= N /\ n + 1 + 1 \in 1 .. N /\ n + 1 + 1 # 1 /\ n + 1 + 1 - 1 = n + 1
      OBVIOUS
    <3>2. PICK k \in 1 .. N : k = n + 1 + 1 /\ k # 1 /\ k - 1 = n + 1
      BY <3>1
    <3>3. g[k] = g[k - 1] \o w[k] /\ f[k] = f[k - 1] \o w[k]
      BY <1>2, <2>7, <3>2, Zenon
    <3>. QED
      BY <3>1, <3>2, <3>3, Zenon
  <2>10. Nat \subseteq Q
    <3>. HIDE DEF Q
    <3>. QED
      BY <2>8, <2>9, InductionOnNat
  <2>11. PICK n \in Nat : n + 1 = N
    <3>1. N - 1 \in Nat /\ N - 1 + 1 = N
      BY <1>4
    <3>. QED
      BY <3>1
  <2>12. g[n + 1] = f[n + 1]
    <3>1. n \in Q /\ n + 1 <= N
      BY <2>10, <2>11
    <3>. QED
      BY <3>1
  <2>. QED
    BY <1>1, <2>4, <2>11, <2>12, Zenon
<1>. QED
  BY <1>3, <1>4

-----------------------------------------------------------------------------
(* Histories: a sequence continued, and cut again. *)

LEMMA FeedLast ==
  ASSUME NEW S, NEW p \in Seq(S), NEW o \in Seq(S), o # <<>>
  PROVE  p \o Front(o) \o <<Last(o)>> = p \o o
<1>1. /\ Front(o) \in Seq(S) /\ Last(o) \in S /\ Front(o) \o <<Last(o)>> = o
  BY FrontAndLast
<1>f. PICK f \in Seq(S) : f = Front(o)
  BY <1>1
<1>l. PICK l \in Seq(S) : l = <<Last(o)>>
  <2>1. <<Last(o)>> \in Seq(S)
    BY <1>1
  <2>. QED
    BY <2>1, Zenon
<1>2. f \o l = o
  BY <1>1, <1>f, <1>l, Zenon
<1>3. p \o f \o l = p \o (f \o l)
  BY ConcatAssociative
<1>. QED
  BY <1>f, <1>l, <1>2, <1>3, Zenon

LEMMA FeedBehindLast ==
  ASSUME NEW S, NEW p \in Seq(S), NEW o \in Seq(S), o # <<>>, NEW x \in Seq(S)
  PROVE  p \o Front(o) \o (<<Last(o)>> \o x) = p \o o \o x
<1>1. Front(o) \in Seq(S) /\ Last(o) \in S
  BY FrontAndLast
<1>f. PICK f \in Seq(S) : f = p \o Front(o)
  BY <1>1, ConcatSeq, Zenon
<1>l. PICK l \in Seq(S) : l = <<Last(o)>>
  <2>1. <<Last(o)>> \in Seq(S)
    BY <1>1
  <2>. QED
    BY <2>1, Zenon
<1>2. (f \o l) \o x = f \o (l \o x)
  BY ConcatAssociative
<1>3. f \o l = p \o o
  BY <1>f, <1>l, FeedLast, Zenon
<1>. QED
  BY <1>f, <1>l, <1>2, <1>3, Zenon

LEMMA PrefixElements ==
  ASSUME NEW S, NEW s \in Seq(S), NEW n \in 0 .. Len(s)
  PROVE  /\ SubSeq(s, 1, n) \in Seq(S) /\ Len(SubSeq(s, 1, n)) = n
         /\ \A i \in 1 .. n : SubSeq(s, 1, n)[i] = s[i]
OBVIOUS

LEMMA PrefixOfPrefix ==
  ASSUME NEW S, NEW s \in Seq(S), NEW n \in 0 .. Len(s), NEW m \in 0 .. n
  PROVE  SubSeq(SubSeq(s, 1, n), 1, m) = SubSeq(s, 1, m)
<1>1. PICK t \in Seq(S) : t = SubSeq(s, 1, n) /\ Len(t) = n /\ \A i \in 1 .. n : t[i] = s[i]
  BY PrefixElements
<1>2. m \in 0 .. Len(t) /\ m \in 0 .. Len(s) /\ m \in Nat /\ n \in Nat /\ m <= n
  BY <1>1
<1>3. /\ SubSeq(t, 1, m) \in Seq(S) /\ Len(SubSeq(t, 1, m)) = m
      /\ \A i \in 1 .. m : SubSeq(t, 1, m)[i] = t[i]
  BY <1>2, PrefixElements
<1>4. /\ SubSeq(s, 1, m) \in Seq(S) /\ Len(SubSeq(s, 1, m)) = m
      /\ \A i \in 1 .. m : SubSeq(s, 1, m)[i] = s[i]
  BY <1>2, PrefixElements
<1>5. \A i \in 1 .. m : SubSeq(t, 1, m)[i] = SubSeq(s, 1, m)[i]
  BY <1>1, <1>2, <1>3, <1>4
<1>6. SubSeq(t, 1, m) = SubSeq(s, 1, m)
  BY <1>3, <1>4, <1>5, SeqEqual
<1>. QED
  BY <1>1, <1>6

(* A prefix of s \o t ends within s, or is s continued by a prefix of t. *)
LEMMA CutConcat ==
  ASSUME NEW S, NEW s \in Seq(S), NEW t \in Seq(S)
  PROVE  /\ \A n \in 0 .. Len(s) : SubSeq(s \o t, 1, n) = SubSeq(s, 1, n)
         /\ \A n \in 0 .. Len(t) : SubSeq(s \o t, 1, Len(s) + n) = s \o SubSeq(t, 1, n)
<1>. DEFINE u == s \o t
<1>1. /\ u \in Seq(S) /\ Len(u) = Len(s) + Len(t) /\ Len(s) \in Nat /\ Len(t) \in Nat
      /\ \A i \in 1 .. Len(s) : u[i] = s[i]
      /\ \A i \in Len(s) + 1 .. Len(s) + Len(t) : u[i] = t[i - Len(s)]
  BY ConcatSeq
<1>. HIDE DEF u
<1>2. ASSUME NEW n \in 0 .. Len(s) PROVE SubSeq(u, 1, n) = SubSeq(s, 1, n)
  <2>1. n \in 0 .. Len(u)
    BY <1>1
  <2>2. /\ SubSeq(u, 1, n) \in Seq(S) /\ Len(SubSeq(u, 1, n)) = n
        /\ \A i \in 1 .. n : SubSeq(u, 1, n)[i] = u[i]
    BY <1>1, <2>1, PrefixElements
  <2>3. /\ SubSeq(s, 1, n) \in Seq(S) /\ Len(SubSeq(s, 1, n)) = n
        /\ \A i \in 1 .. n : SubSeq(s, 1, n)[i] = s[i]
    BY PrefixElements
  <2>4. \A i \in 1 .. n : i \in 1 .. Len(s)
    BY <1>1
  <2>. QED
    BY <1>1, <2>2, <2>3, <2>4, SeqEqual
<1>3. ASSUME NEW n \in 0 .. Len(t) PROVE SubSeq(u, 1, Len(s) + n) = s \o SubSeq(t, 1, n)
  <2>m. PICK m \in Nat : m = Len(s) + n
    BY <1>1
  <2>v. PICK v \in Seq(S) : v = SubSeq(t, 1, n)
    BY PrefixElements
  <2>1. m \in 0 .. Len(u) /\ n \in Nat
    BY <1>1, <2>m
  <2>2. /\ SubSeq(u, 1, m) \in Seq(S) /\ Len(SubSeq(u, 1, m)) = m
        /\ \A i \in 1 .. m : SubSeq(u, 1, m)[i] = u[i]
    BY <1>1, <2>1, PrefixElements
  <2>3. Len(v) = n /\ \A i \in 1 .. n : v[i] = t[i]
    BY <2>v, PrefixElements
  <2>4. /\ s \o v \in Seq(S) /\ Len(s \o v) = Len(s) + Len(v)
        /\ \A i \in 1 .. Len(s) : (s \o v)[i] = s[i]
        /\ \A i \in Len(s) + 1 .. Len(s) + Len(v) : (s \o v)[i] = v[i - Len(s)]
    BY ConcatSeq
  <2>5. ASSUME NEW i \in 1 .. m PROVE SubSeq(u, 1, m)[i] = (s \o v)[i]
    <3>1. CASE i <= Len(s)
      BY <1>1, <2>m, <2>1, <2>2, <2>4, <3>1
    <3>2. CASE i > Len(s)
      <4>1. /\ i \in Len(s) + 1 .. Len(s) + Len(v) /\ i \in Len(s) + 1 .. Len(s) + Len(t)
            /\ i - Len(s) \in 1 .. n
        BY <1>1, <2>m, <2>1, <2>3, <3>2
      <4>. QED
        BY <1>1, <2>2, <2>3, <2>4, <4>1
    <3>3. i <= Len(s) \/ i > Len(s)
      BY <1>1
    <3>. QED
      BY <3>1, <3>2, <3>3, Zenon
  <2>. QED
    BY <2>m, <2>v, <2>2, <2>3, <2>4, <2>5, SeqEqual
<1>. QED
  BY <1>2, <1>3 DEF u

LEMMA LastOfConcat ==
  ASSUME NEW S, NEW s \in Seq(S), NEW t \in Seq(S), t # <<>>
  PROVE  /\ s \o t # <<>> /\ Last(s \o t) = Last(t) /\ Front(s \o t) = s \o Front(t)
<1>. DEFINE u == s \o t
<1>1. /\ u \in Seq(S) /\ Len(u) = Len(s) + Len(t) /\ Len(s) \in Nat /\ Len(t) \in Nat
      /\ \A i \in Len(s) + 1 .. Len(s) + Len(t) : u[i] = t[i - Len(s)]
  BY ConcatSeq
<1>2. Len(t) > 0
  BY EmptySeq
<1>3. PICK n \in Nat : n + 1 = Len(t)
  BY <1>1, <1>2
<1>4. u # <<>> /\ Len(u) - 1 = Len(s) + n
  BY <1>1, <1>3
<1>5. u[Len(u)] = t[Len(t)]
  BY <1>1, <1>3
<1>6. SubSeq(u, 1, Len(s) + n) = s \o SubSeq(t, 1, n)
  <2>1. n \in 0 .. Len(t)
    BY <1>3
  <2>. QED
    BY <2>1, CutConcat
<1>7. Front(t) = SubSeq(t, 1, n)
  BY <1>3 DEF Front
<1>8. Front(u) = SubSeq(u, 1, Len(s) + n)
  BY <1>4 DEF Front
<1>. QED
  BY <1>4, <1>5, <1>6, <1>7, <1>8 DEF Last, u

=============================================================================
