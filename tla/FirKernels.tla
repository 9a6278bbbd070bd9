----------------------------- MODULE FirKernels -----------------------------
(***************************************************************************)
(* The kernels that apply the decimator's taps to a window of samples, the *)
(* scalar one and the one for AVX2, which loads eight floats at a time,    *)
(* four samples, and multiplies them by a copy of the taps in pairs.       *)
(*                                                                         *)
(* What a kernel computes is the set of the products it adds up: of which  *)
(* tap and which sample, which part of the sample (0 real, 1 imaginary),   *)
(* which part of the result it ends up in, and, to tell two equal products *)
(* apart, the loop that formed it and its round.                           *)
(***************************************************************************)
EXTENDS Integers

Product(loop, tap, sample, part, into) ==
  [loop |-> loop, tap |-> tap, sample |-> sample, part |-> part, into |-> into]

\* The steps of "for (; k + 4 <= n; k += 4)": where a loop unrolled by four
\* begins a round, and the first index it leaves to the loop after it.
Rounds(n) == {k \in 0 .. n - 1 : k % 4 = 0 /\ k + 4 <= n}
Left(n) == 4 * (n \div 4)

\* The loop over the last taps, one at a time.
Remainder(tap, sample, from, n) ==
  {Product(<<"rest", k>>, tap + k, sample + k, p, p) :
     k \in from .. n - 1, p \in 0 .. 1}

\* decim_dot of the n taps from tap on with the samples from sample on.
Dot(tap, sample, n) ==
  {Product(<<"unrolled", k>>, tap + k + a, sample + k + a, p, p) :
     k \in Rounds(n), a \in 0 .. 3, p \in 0 .. 1}
    \cup Remainder(tap, sample, Left(n), n)

\* decim_taps_pairs[i]: every tap twice, for the two parts of its sample.
PairTap(i) == 4 * (i \div 8) + (i % 8) \div 2

\* avx_hsum_pairs adds the lanes up in two halves, by their parity.
Folded(lane) == lane % 2

\* One _mm256_fmadd_ps: float i of the samples is part i % 2 of sample i \div 2.
Fmadd(loop, j, tap, sample) ==
  {LET i == 8 * j + lane
   IN Product(loop, tap + PairTap(i), sample + i \div 2, i % 2, Folded(lane)) :
     lane \in 0 .. 7}

\* Mutant: the loop over the last taps begins after the last round of four
\* vectors, not after the last vector.
DotAvx2Rest(tap, sample, n) ==
  LET n4 == n \div 4
  IN (UNION {Fmadd(<<"unrolled", g>>, g + a, tap, sample) :
              g \in Rounds(n4), a \in 0 .. 3})
       \cup (UNION {Fmadd(<<"vectors", j>>, j, tap, sample) :
                     j \in Left(n4) .. n4 - 1})
       \cup Remainder(tap, sample, 4 * Left(n4), n)

\* decim_dot_avx2, and decim_dot2_avx2 for each of its windows: rounds of
\* four vectors, the vectors left over, and the taps left over.
DotAvx2(tap, sample, n) ==
  LET n4 == n \div 4
  IN (UNION {Fmadd(<<"unrolled", g>>, g + a, tap, sample) :
              g \in Rounds(n4), a \in 0 .. 3})
       \cup (UNION {Fmadd(<<"vectors", j>>, j, tap, sample) :
                     j \in Left(n4) .. n4 - 1})
       \cup Remainder(tap, sample, Left(n), n)

\* A set of products is a convolution sum: every one of the n taps takes both
\* parts of its sample, the one at offset e from it, once.
Convolves(products, e, n) ==
  /\ \A x \in products :
       /\ x.tap \in 0 .. n - 1
       /\ x.sample = e + x.tap
       /\ x.into = x.part
  /\ \A k \in 0 .. n - 1, p \in 0 .. 1 :
       \E x \in products : /\ x.tap = k
                           /\ x.part = p
                           /\ \A y \in products : y.tap = k /\ y.part = p => y = x
=============================================================================
