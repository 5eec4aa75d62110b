------------------------------- MODULE Quant -------------------------------
(***************************************************************************)
(* Weight rows in integer codes (cpp/src/quant.cpp, cpp/src/simd.hpp): the *)
(* rounding, the 4-bit packing, its two ways back, and the dot products of *)
(* the linear layers.  A row is a function from its columns 0 .. in - 1;   *)
(* its values are integers, and a code stands for code * absmax / qmax of  *)
(* its group.  Sums are exact: re-association is all a vectorized sum in   *)
(* double does to the code's.                                              *)
(***************************************************************************)
EXTENDS Integers, FiniteSets, FiniteSetsExt

CONSTANTS
  Lanes,   \* values in a step of a vectorized dot product: 8 (dot_qf32)
  Bytes    \* packed bytes in a step of unpack_q4: 16

ASSUME QuantAssumption ==
  /\ Lanes \in Nat \ {0}
  /\ Bytes \in Nat \ {0} /\ Bytes % 2 = 0

kQ8Max == 127
kQ4Max == 7

Magnitude(v) == IF v < 0 THEN -v ELSE v
SumOver(Term(_), S) == MapThenSumSet(Term, S)

(* std::nearbyint(n / d): to the nearest, a tie to the even one. *)
NearbyInt(n, d) ==
  LET q == n \div d
      r == n % d
  IN  CASE 2 * r < d -> q
        [] 2 * r > d -> q + 1
        [] OTHER -> IF q % 2 = 0 THEN q ELSE q + 1

round_clamp(v, absmax, qmax) ==
  IF absmax = 0
  THEN 0
  ELSE LET r == NearbyInt(v * qmax, absmax)
       IN  CASE r > qmax -> qmax
             [] r < -qmax -> -qmax
             [] OTHER -> r

n_blocks(in, group) == (in + group - 1) \div group
BlockColumns(b, in, group) == {j \in b * group .. (b + 1) * group - 1 : j < in}

Absmax(row, columns) == Max({0} \cup {Magnitude(row[j]) : j \in columns})

(* A scale for each group of columns; quantize_q8 and quantize_q4 have one *)
(* group, the row. *)
Scales(row, group) ==
  LET in == Cardinality(DOMAIN row)
  IN  [b \in 0 .. n_blocks(in, group) - 1 |-> Absmax(row, BlockColumns(b, in, group))]

Codes(row, group, qmax) ==
  [j \in DOMAIN row |-> round_clamp(row[j], Scales(row, group)[j \div group], qmax)]

-----------------------------------------------------------------------------
(* Two codes in a byte: pack_nibble ORs each, shifted if its column is     *)
(* odd, into bytes that start at 0. *)
Nibble(code) == (code + 8) % 256

Pack(codes) ==
  LET in == Cardinality(DOMAIN codes)
      NibbleAt(j) == IF j < in THEN Nibble(codes[j]) ELSE 0
  IN  [i \in 0 .. (in + 1) \div 2 - 1 |-> NibbleAt(2 * i) + ((NibbleAt(2 * i + 1) * 16) % 256)]

q4_code(packed, j) ==
  LET byte == packed[j \div 2]
  IN  (IF j % 2 = 1 THEN byte \div 16 ELSE byte % 16) - 8

(* _mm_srli_epi16(b, 4), byte by byte: the shift is of 16-bit lanes. *)
ShiftedByte(b, i) ==
  LET lane == b[i - (i % 2)] + 256 * b[i - (i % 2) + 1]
  IN  IF i % 2 = 0 THEN (lane \div 16) % 256 ELSE (lane \div 16) \div 256

(* The byte that column k of a step comes from. *)
SourceByte(k) == IF k < Bytes THEN k \div 2 ELSE Bytes \div 2 + (k - Bytes) \div 2

\* Mutation: the shifted lanes are not masked.
StepCode_NoMask(b, k) ==
  LET i == SourceByte(k)
  IN  (IF k % 2 = 0 THEN b[i] % 16 ELSE ShiftedByte(b, i)) - 8

(* A step of unpack_q4: the low and the high nibbles of the bytes b, their *)
(* lower halves interleaved and stored, then their upper halves. *)
StepCode(b, k) ==
  LET i == SourceByte(k)
  IN  (IF k % 2 = 0 THEN b[i] % 16 ELSE ShiftedByte(b, i) % 16) - 8

unpack_q4(packed, n) ==
  LET step == 2 * Bytes
      vectorized == n - (n % step)
  IN  [j \in 0 .. n - 1 |->
         IF j < vectorized
         THEN LET first == (j \div step) * Bytes
              IN  StepCode([i \in 0 .. Bytes - 1 |-> packed[first + i]], j % step)
         ELSE q4_code(packed, j)]

-----------------------------------------------------------------------------
(* dot_qf32 of n values of x and of q from a column on: whole steps, lane  *)
(* by lane, then the tail. *)
Dot(x, q, from, n) ==
  LET steps == n \div Lanes
      Product(i) == x[from + i] * q[from + i]
  IN  SumOver(LAMBDA l : SumOver(LAMBDA s : Product(s * Lanes + l), 0 .. steps - 1), 0 .. Lanes - 1)
        + SumOver(Product, steps * Lanes .. n - 1)

(* The partial sum of each group of a packed row, times whose scale it     *)
(* goes into the output: unpacked for many activation rows, or fused. *)
GroupSums(x, packed, in, group, unpack) ==
  LET codes == unpack_q4(packed, in)
  IN  [b \in 0 .. n_blocks(in, group) - 1 |->
         LET columns == BlockColumns(b, in, group)
         IN  IF unpack
             THEN Dot(x, codes, b * group, Cardinality(columns))
             ELSE SumOver(LAMBDA j : x[j] * q4_code(packed, j), columns)]

-----------------------------------------------------------------------------
VARIABLES
  wrow,    \* the row that was quantized
  qt,      \* [group, scale, codes, packed]
  ysums    \* the group sums of the last linear layer, none before

quantVars == <<wrow, qt, ysums>>

NoSums == [b \in {} |-> 0]

QuantInit(rows, groups) ==
  /\ wrow \in rows
  /\ \E g \in groups :
       qt = [group |-> g, scale |-> Scales(wrow, g),
             codes |-> Codes(wrow, g, kQ4Max), packed |-> Pack(Codes(wrow, g, kQ4Max))]
  /\ ysums = NoSums

(* x separates the columns: no two rows of codes have the same sums. *)
Separating == [j \in DOMAIN wrow |-> 15 ^ j]

LinearQ4G ==
  /\ ysums = NoSums
  /\ \E unpack \in BOOLEAN :
       ysums' = GroupSums(Separating, qt.packed, Cardinality(DOMAIN wrow), qt.group, unpack)
  /\ UNCHANGED <<wrow, qt>>

(* A code is as near to its value as any: within half a step of the scale. *)
RoundedToNearest ==
  \A j \in DOMAIN wrow :
    LET absmax == qt.scale[j \div qt.group]
    IN  /\ 2 * Magnitude(qt.codes[j] * absmax - wrow[j] * kQ4Max) <= absmax
        /\ qt.codes[j] \in -kQ4Max .. kQ4Max

(* ... and whichever way a linear layer reads a packed row, at any width   *)
(* of the row and of the groups, it sums each column's own code once, in   *)
(* the column's own group. *)
PackedExact ==
  /\ RoundedToNearest
  /\ ysums # NoSums =>
       ysums = [b \in DOMAIN qt.scale |->
                  SumOver(LAMBDA j : 15 ^ j * qt.codes[j],
                          BlockColumns(b, Cardinality(DOMAIN wrow), qt.group))]
=============================================================================
