--------------------------------- MODULE Gpu ---------------------------------
(* What the kernels have in common: strided loops and the reduction of a warp. *)
EXTENDS Integers, Sequences, FiniteSets, SequencesExt

CONSTANT Warp  \* lanes of a warp: 32
ASSUME WarpAssumption == Warp \in Nat \ {0}

CeilDiv(a, b) == (a + b - 1) \div b
At(f, x, none) == IF x \in DOMAIN f THEN f[x] ELSE none

\* for (j = first; j < bound; j += step)
Ascending(first, step, bound) ==
  [d \in 1 .. (IF first < bound THEN CeilDiv(bound - first, step) ELSE 0) |->
     first + (d - 1) * step]
Upto(first, step, bound) == ToSet(Ascending(first, step, bound))

\* for (s = n / 2; s > 0; s >>= 1), n a power of two.
Halvings(n) ==
  LET times == {i \in 1 .. n : n \div (2 ^ i) > 0}
  IN [i \in 1 .. Cardinality(times) |-> n \div (2 ^ i)]

\* Lane 0 after each lane has merged with the lane off above it, by halves.  A lane
\* whose partner is past the warp gets its own value back from __shfl_down_sync.
ShuffleReduce(Merge(_, _), lanes) ==
  FoldLeft(LAMBDA ls, off : [l \in 0 .. Warp - 1 |->
                               Merge(ls[l], ls[IF l + off < Warp THEN l + off ELSE l])],
           lanes, Halvings(Warp))[0]
=============================================================================
