----------------------------- MODULE Subsequence -----------------------------
(***************************************************************************)
(* What a loop keeps of a sequence, in the order of the sequence.  The     *)
(* result is given by what is true of it; it is unique as long as the      *)
(* sequence names nothing twice, as the block tables, queues and batches   *)
(* here do.                                                                *)
(***************************************************************************)
EXTENDS Integers, Sequences, FiniteSets, Functions

(* s lists the set B in the order in which the sequence t does. *)
InOrder(s, B, t) ==
  /\ Range(s) = B
  /\ \A i, j \in DOMAIN s : i < j =>
       \E p, q \in DOMAIN t : p < q /\ t[p] = s[i] /\ t[q] = s[j]

(* The sequence s without the elements of out. *)
Without(s, out) ==
  LET rest == Range(s) \ out
  IN  {t \in [1 .. Cardinality(rest) -> rest] : InOrder(t, rest, s)}

=============================================================================
