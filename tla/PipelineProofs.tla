--------------------------- MODULE PipelineProofs ---------------------------
(***************************************************************************)
(* The pipeline does not see how its stream is cut into chunks, for any    *)
(* factor, step, filter length and chunk lengths.                          *)
(*                                                                         *)
(* The invariant says, at every stage of a chunk, which part of the stream *)
(* each buffer holds: with t samples before the chunk and n in it, the     *)
(* history is the last Reach * factor samples up to t (or t + n once it    *)
(* has slid), the carry is t modulo the factor, the phase is t steps.  It  *)
(* is needed at every stage: between chunks alone it would not be          *)
(* inductive, for no step leads from one chunk to the next.                *)
(***************************************************************************)
EXTENDS Pipeline, FirKernelsProofs, FiniteSetTheorems, SequenceTheorems, TLAPS

-----------------------------------------------------------------------------
(* Division.                                                               *)

LEMMA DivisionOf ==
  ASSUME NEW a \in Nat, NEW m \in Nat \ {0}
  PROVE  \E q \in Nat, r \in 0 .. m - 1 :
           a = q * m + r /\ q = a \div m /\ r = a % m
<1>1. PICK q \in Nat : q = a \div m
  OBVIOUS
<1>2. PICK r \in 0 .. m - 1 : r = a % m
  OBVIOUS
<1>3. a - q * m = a % m
  BY <1>1, SMTT(30)
<1>4. q * m \in Int
  OBVIOUS
<1>5. a = q * m + r
  BY <1>2, <1>3, <1>4
<1> QED
  BY <1>1, <1>2, <1>5

LEMMA Division ==
  ASSUME NEW a \in Nat, NEW m \in Nat \ {0}, NEW q \in Nat, NEW r \in 0 .. m - 1,
         a = q * m + r
  PROVE  a \div m = q /\ a % m = r
OBVIOUS

LEMMA Distributes ==
  ASSUME NEW p \in Int, NEW q \in Int, NEW m \in Int
  PROVE  /\ p * m \in Int /\ q * m \in Int
         /\ (p + q) * m = p * m + q * m
OBVIOUS

\* n samples after t: how the quotient grows and what is carried.
LEMMA Carrying ==
  ASSUME NEW t \in Nat, NEW n \in Nat, NEW m \in Nat \ {0}
  PROVE  /\ (n + (t % m)) \div m \in Nat
         /\ t \div m \in Nat
         /\ (t + n) \div m = t \div m + (n + (t % m)) \div m
         /\ (t + n) % m = ((t % m) + n) % m
<1>1. PICK q \in Nat, r \in 0 .. m - 1 :
        t = q * m + r /\ q = t \div m /\ r = t % m
  BY DivisionOf
<1>2. PICK p \in Nat, s \in 0 .. m - 1 :
        n + r = p * m + s /\ p = (n + r) \div m /\ s = (n + r) % m
  BY DivisionOf
<1>3. t + n = (p + q) * m + s
  <2>1. PICK x \in Int, y \in Int : x = p * m /\ y = q * m
    BY Distributes
  <2>2. t = y + r /\ n + r = x + s
    BY <1>1, <1>2, <2>1
  <2>3. t + n = x + y + s
    BY <2>2
  <2>4. (p + q) * m = x + y
    BY <2>1, Distributes
  <2> QED
    BY <2>3, <2>4
<1>4. p + q \in Nat /\ t + n \in Nat
  OBVIOUS
<1>5. (t + n) \div m = p + q /\ (t + n) % m = s
  BY <1>3, <1>4, Division
<1>6. n + r = r + n
  OBVIOUS
<1>7. q = t \div m /\ r = t % m /\ p = (n + r) \div m /\ s = (n + r) % m
  BY <1>1, <1>2
<1>8. p + q = q + p
  OBVIOUS
<1> QED
  BY <1>5, <1>6, <1>7, <1>8, Zenon

\* The accumulator after t steps and i more.
LEMMA PhaseSum ==
  ASSUME NEW m \in Nat \ {0}, NEW t \in Nat, NEW i \in Nat, NEW s \in Nat
  PROVE  (((t * s) % m) + i * s) % m = ((t + i) * s) % m
<1>1. t * s \in Nat /\ i * s \in Nat
  OBVIOUS
<1>2. (t + i) * s = t * s + i * s
  BY Distributes
<1>3. \A a \in Nat, b \in Nat : ((a % m) + b) % m = (a + b) % m
  BY Carrying
<1>4. (((t * s) % m) + i * s) % m = (t * s + i * s) % m
  BY <1>1, <1>3, Zenon
<1> QED
  BY <1>2, <1>4, Zenon

LEMMA PhaseAfter ==
  ASSUME NEW t \in Nat, Turn \in Nat \ {0}, shift_step \in Nat
  PROVE  \A d \in Nat : (((t * shift_step) % Turn) + d * shift_step) % Turn =
                        ((t + d) * shift_step) % Turn
BY PhaseSum, Zenon
-----------------------------------------------------------------------------
(* The invariant.                                                          *)

Acc(t) == IF shift_enabled THEN (t * shift_step) % Turn ELSE 0
IdealChunk(t, n) == [i \in 1 .. n |-> Ideal(t + i)]
IdealTail(t) ==
  [j \in 1 .. Reach * factor |-> Ideal(t - Reach * factor + j)]
IdealOut(t, n) ==
  [k \in 1 .. (t + n) \div factor - t \div factor |->
     IdealOutput(t \div factor + k)]
IdealPrefix(t) == [k \in 1 .. t \div factor |-> IdealOutput(k)]

\* t samples came before the chunk, and n are in it.
At(t, n) ==
  /\ t + n = given
  /\ pc = "idle" => n = 0
  /\ pc # "idle" => slot = [i \in 1 .. n |-> Sample(t + i, 0)]
  /\ shift_acc = IF pc = "shift" THEN Acc(t) ELSE Acc(t + n)
  /\ pc \in {"filter", "slide"} => Input = IdealChunk(t, n)
  /\ pc \in {"slide", "stage"} => factor > 1 /\ temp_out = IdealOut(t, n)
  /\ pc = "demodulate" => work = IdealOut(t, n)
  /\ factor > 1 =>
       IF pc \in {"stage", "demodulate"}
       THEN decimator_tail = IdealTail(t + n) /\ decim_rem = (t + n) % factor
       ELSE decimator_tail = IdealTail(t) /\ decim_rem = t % factor
  /\ decimated = IdealPrefix(t)

\* The inductive invariant: the stream stands somewhere.
IInv ==
  /\ TypeOK
  /\ \E t, n \in 0 .. given : At(t, n)

-----------------------------------------------------------------------------
(* Facts about the ideal.                                                  *)

\* The parameters in reach of a state.
LEMMA Basic ==
  ASSUME TypeOK
  PROVE  /\ factor \in Nat \ {0} /\ Reach * factor \in Nat
         /\ Turn \in Nat \ {0} /\ shift_step \in Nat /\ shift_step < Turn
<1>1. /\ Reach \in Nat \ {0} /\ Turn \in Nat \ {0} /\ factor \in Nat \ {0}
      /\ shift_step \in 0 .. Turn - 1
  BY PipelineAssumption DEF PipelineParameters, TypeOK
<1>2. Reach * factor \in Nat
  BY <1>1
<1> QED
  BY <1>1, <1>2

\* A function on 1 .. n is a sequence of n.
LEMMA SeqOf ==
  ASSUME NEW S, NEW n \in Nat, NEW f \in [1 .. n -> S]
  PROVE  f \in Seq(S) /\ Len(f) = n
<1>1. f \in Seq(S)
  BY SeqDef
<1>2. Len(f) \in Nat /\ 1 .. Len(f) = 1 .. n
  BY <1>1, LenProperties
<1> QED
  BY <1>1, <1>2

\* What is ideal depends on the configuration alone.
LEMMA Frozen ==
  ASSUME UNCHANGED config
  PROVE  \A t, n \in Nat :
           /\ Acc(t)' = Acc(t)
           /\ IdealChunk(t, n)' = IdealChunk(t, n)
           /\ IdealTail(t)' = IdealTail(t)
           /\ IdealOut(t, n)' = IdealOut(t, n)
           /\ IdealPrefix(t)' = IdealPrefix(t)
BY DEF config, Acc, IdealChunk, IdealTail, IdealOut, IdealPrefix, IdealOutput,
       Ideal

\* A history is full.
LEMMA TailLength ==
  ASSUME TypeOK, NEW u \in Nat
  PROVE  Len(IdealTail(u)) = Reach * factor
<1> DEFINE h == Reach * factor
           S == {Ideal(i) : i \in Int}
<1>1. h \in Nat
  BY Basic
<1>2. IdealTail(u) \in [1 .. h -> S]
  BY <1>1 DEF IdealTail
<1> HIDE DEF h
<1>3. Len(IdealTail(u)) = h
  BY <1>1, <1>2, SeqOf
<1> QED
  BY <1>3 DEF h

\* A slid history is the history of the stream so far.
LEMMA SlidIdeal ==
  ASSUME TypeOK, NEW t \in Nat, NEW n \in Nat,
         decimator_tail = IdealTail(t), Input = IdealChunk(t, n)
  PROVE  Slid = IdealTail(t + n)
<1> DEFINE h == Reach * factor
           S == {Ideal(i) : i \in Int}
<1>0. h \in Nat
  BY Basic
<1>1. /\ decimator_tail \in Seq(S) /\ Len(decimator_tail) = h
      /\ \A j \in 1 .. h : decimator_tail[j] = Ideal(t - h + j)
  <2>1. decimator_tail \in [1 .. h -> S]
    BY <1>0 DEF IdealTail
  <2> QED
    BY <1>0, <2>1, SeqOf DEF IdealTail
<1>2. /\ Input \in Seq(S) /\ Len(Input) = n
      /\ \A i \in 1 .. n : Input[i] = Ideal(t + i)
  <2>1. Input \in [1 .. n -> S]
    BY DEF IdealChunk
  <2> QED
    BY <2>1, SeqOf DEF IdealChunk
<1>3. IdealTail(t + n) \in [1 .. h -> S]
  BY <1>0 DEF IdealTail
<1>4. IdealTail(t + n) \in Seq(S) /\ Len(IdealTail(t + n)) = h
  BY <1>0, <1>3, SeqOf
<1>5. \A j \in 1 .. h : IdealTail(t + n)[j] = Ideal(t + n - h + j)
  BY <1>0 DEF IdealTail
<1> HIDE DEF h, S
<1>6. CASE n >= h
  <2> DEFINE w == SubSeq(Input, n - h + 1, n)
  <2>1. \A i \in n - h + 1 .. n : Input[i] \in S
    BY <1>0, <1>2, <1>6, ElementOfSeq
  <2>2. n - h + 1 \in Int /\ n \in Int
    BY <1>0
  <2>3. /\ w \in Seq(S)
        /\ Len(w) = IF n - h + 1 <= n THEN n - (n - h + 1) + 1 ELSE 0
        /\ \A i \in 1 .. n - (n - h + 1) + 1 : w[i] = Input[n - h + 1 + i - 1]
    BY <2>1, <2>2, SubSeqProperties
  <2>4. w \in Seq(S) /\ Len(w) = h
    BY <1>0, <2>3
  <2>5. \A j \in 1 .. h : w[j] = Ideal(t + n - h + j)
    <3> TAKE j \in 1 .. h
    <3>1. w[j] = Input[n - h + j] /\ n - h + j \in 1 .. n
      BY <1>0, <1>6, <2>3
    <3>2. w[j] = Ideal(t + (n - h + j))
      BY <1>2, <3>1
    <3>3. t + (n - h + j) = t + n - h + j
      BY <1>0
    <3> QED
      BY <3>2, <3>3
  <2>6. w = IdealTail(t + n)
    BY <1>4, <1>5, <2>4, <2>5, SeqEqual
  <2>7. Slid = w
    BY <1>1, <1>2, <1>6 DEF Slid
  <2> QED
    BY <2>6, <2>7
<1>7. CASE n < h
  <2> DEFINE u == SubSeq(decimator_tail, n + 1, h)
             w == u \o Input
  <2>1. \A i \in n + 1 .. h : decimator_tail[i] \in S
    BY <1>0, <1>1, ElementOfSeq
  <2>2. n + 1 \in Int /\ h \in Int
    BY <1>0
  <2>3. /\ u \in Seq(S)
        /\ Len(u) = IF n + 1 <= h THEN h - (n + 1) + 1 ELSE 0
        /\ \A i \in 1 .. h - (n + 1) + 1 : u[i] = decimator_tail[n + 1 + i - 1]
    BY <2>1, <2>2, SubSeqProperties
  <2>4. u \in Seq(S) /\ Len(u) = h - n
    BY <1>0, <1>7, <2>3
  <2>5. /\ w \in Seq(S)
        /\ Len(w) = Len(u) + Len(Input)
        /\ \A i \in 1 .. Len(u) + Len(Input) :
             w[i] = IF i <= Len(u) THEN u[i] ELSE Input[i - Len(u)]
    BY <1>2, <2>4, ConcatProperties
  <2> HIDE DEF u, w
  <2>6. Len(w) = h
    BY <1>0, <1>2, <2>4, <2>5
  <2>7. \A j \in 1 .. h : w[j] = Ideal(t + n - h + j)
    <3> TAKE j \in 1 .. h
    <3>1. w[j] = IF j <= h - n THEN u[j] ELSE Input[j - (h - n)]
      BY <1>0, <1>2, <2>4, <2>5, <2>6
    <3>2. CASE j <= h - n
      <4>1. w[j] = decimator_tail[n + j] /\ n + j \in 1 .. h
        BY <1>0, <2>3, <3>1, <3>2
      <4>2. w[j] = Ideal(t - h + (n + j))
        BY <1>1, <4>1
      <4>3. t - h + (n + j) = t + n - h + j
        BY <1>0
      <4> QED
        BY <4>2, <4>3
    <3>3. CASE j > h - n
      <4>1. w[j] = Input[j - (h - n)] /\ j - (h - n) \in 1 .. n
        BY <1>0, <3>1, <3>3
      <4>2. w[j] = Ideal(t + (j - (h - n)))
        BY <1>2, <4>1
      <4>3. t + (j - (h - n)) = t + n - h + j
        BY <1>0
      <4> QED
        BY <4>2, <4>3
    <3> QED
      BY <1>0, <3>2, <3>3
  <2>8. w = IdealTail(t + n)
    BY <1>4, <1>5, <2>5, <2>6, <2>7, SeqEqual
  <2>9. Slid = w
    BY <1>0, <1>1, <1>2, <1>7 DEF Slid, u, w
  <2> QED
    BY <2>8, <2>9
<1> QED
  BY <1>0, <1>6, <1>7

\* The first window ends with the sample that completes a factor.
LEMMA FirstWindowIs ==
  ASSUME TypeOK
  PROVE  FirstWindow = factor - 1 - decim_rem
<1>1. factor \in Nat \ {0} /\ decim_rem \in 0 .. factor - 1
  BY Basic DEF TypeOK
<1>2. CASE decim_rem = 0
  <2>1. factor = 1 * factor + 0 /\ 0 \in 0 .. factor - 1
    BY <1>1
  <2>2. factor % factor = 0
    BY <1>1, <2>1, Division
  <2>3. factor - decim_rem = factor
    BY <1>1, <1>2
  <2> QED
    BY <1>1, <1>2, <2>2, <2>3 DEF FirstWindow
<1>3. CASE decim_rem # 0
  <2> DEFINE g == factor - decim_rem
  <2>1. g \in Nat /\ g \in 0 .. factor - 1 /\ g # 0 /\ g = 0 * factor + g
    BY <1>1, <1>3
  <2>2. g % factor = g
    BY <1>1, <2>1, Division
  <2> QED
    BY <1>1, <2>1, <2>2 DEF FirstWindow
<1> QED
  BY <1>2, <1>3

\* Every window ends where it should, inside the chunk.
LEMMA WindowIdeal ==
  ASSUME TypeOK, NEW t \in Nat, NEW n \in Nat, factor > 1,
         decimator_tail = IdealTail(t), decim_rem = t % factor,
         Input = IdealChunk(t, n), NEW k \in 1 .. (n + decim_rem) \div factor
  PROVE  /\ FirstWindow + (k - 1) * factor \in Nat
         /\ FirstWindow + (k - 1) * factor + 1 <= n
         /\ Window(FirstWindow + (k - 1) * factor) =
              IdealOutput(t \div factor + k)
<1> DEFINE h == Reach * factor
           S == {Ideal(i) : i \in Int}
           e == FirstWindow + (k - 1) * factor
           r == decim_rem
<1>0. h \in Nat /\ factor \in Nat \ {0} /\ r \in 0 .. factor - 1
  BY Basic DEF TypeOK
<1>1. PICK q \in Nat, x \in Int : x = q * factor /\ t = x + r /\ q = t \div factor
  <2>1. PICK q \in Nat, y \in 0 .. factor - 1 :
          t = q * factor + y /\ q = t \div factor /\ y = t % factor
    BY <1>0, DivisionOf
  <2>2. r = y
    BY <2>1
  <2>3. PICK x \in Int : x = q * factor
    BY <1>0
  <2>4. t = x + r
    BY <2>1, <2>2, <2>3
  <2> QED
    BY <2>1, <2>3, <2>4
<1>2. PICK p \in Nat, z \in Int :
        /\ z = p * factor /\ p = (n + r) \div factor
        /\ z <= n + r
  BY <1>0, DivisionOf
<1>3. k \in 1 .. p
  BY <1>2
<1>4. PICK y \in Int : y = k * factor /\ y <= z /\ y >= factor
  <2>1. k * factor \in Int /\ k * factor <= p * factor /\ k * factor >= factor
    BY <1>0, <1>3
  <2> QED
    BY <1>2, <2>1
<1>5. (k - 1) * factor = y - factor
  BY <1>0, <1>3, <1>4
<1>6. e = y - 1 - r
  BY <1>0, <1>4, <1>5, FirstWindowIs
<1>7. e \in Nat /\ e + 1 <= n
  BY <1>0, <1>2, <1>4, <1>6
<1>8. Len(decimator_tail) = h /\ \A j \in 1 .. h : decimator_tail[j] = Ideal(t - h + j)
  <2>1. decimator_tail \in [1 .. h -> S]
    BY <1>0 DEF IdealTail
  <2> QED
    BY <1>0, <2>1, SeqOf DEF IdealTail
<1>9. \A i \in 1 .. n : Input[i] = Ideal(t + i)
  BY DEF IdealChunk
<1>10. (q + k) * factor = x + y
  BY <1>0, <1>1, <1>3, <1>4, Distributes
<1>11. IdealOutput(q + k) = [j \in 1 .. h + 1 |-> Ideal(x + y - h + j - 1)]
  <2>1. factor # 1
    BY <1>0
  <2>2. IdealOutput(q + k) =
          [j \in 1 .. h + 1 |-> Ideal((q + k) * factor - h + j - 1)]
    BY <2>1, Zenon DEF IdealOutput
  <2>3. \A j \in 1 .. h + 1 : Ideal((q + k) * factor - h + j - 1) =
                              Ideal(x + y - h + j - 1)
    <3> HIDE DEF h
    <3> TAKE j \in 1 .. h + 1
    <3>1. (q + k) * factor - h + j - 1 = x + y - h + j - 1
      BY <1>0, <1>10
    <3> QED
      BY <3>1
  <2> HIDE DEF h
  <2> QED
    BY <2>2, <2>3
<1> HIDE DEF h, S, e, r
<1>12. \A j \in 1 .. h + 1 :
         (IF e + j <= h THEN decimator_tail[e + j] ELSE Input[e + j - h])
           = Ideal(x + y - h + j - 1)
  <2> TAKE j \in 1 .. h + 1
  <2>1. CASE e + j <= h
    <3>1. e + j \in 1 .. h
      BY <1>0, <1>7, <2>1
    <3>2. decimator_tail[e + j] = Ideal(t - h + (e + j))
      BY <1>8, <3>1
    <3>3. t - h + (e + j) = x + y - h + j - 1
      BY <1>0, <1>1, <1>4, <1>6
    <3> QED
      BY <2>1, <3>2, <3>3
  <2>2. CASE ~(e + j <= h)
    <3>1. e + j - h \in 1 .. n
      BY <1>0, <1>7, <2>2
    <3>2. Input[e + j - h] = Ideal(t + (e + j - h))
      BY <1>9, <3>1
    <3>3. t + (e + j - h) = x + y - h + j - 1
      BY <1>0, <1>1, <1>4, <1>6
    <3> QED
      BY <2>2, <3>2, <3>3
  <2> QED
    BY <2>1, <2>2
<1>13. Window(e) = IdealOutput(q + k)
  BY <1>8, <1>11, <1>12 DEF Window
<1>14. Window(e) = IdealOutput(t \div factor + k)
  BY <1>1, <1>13
<1> QED
  BY <1>7, <1>14 DEF e

-----------------------------------------------------------------------------
(* Each stage.                                                             *)

LEMMA InitIInv ==
  ASSUME Init
  PROVE  IInv
<1>1. /\ factor \in Nat \ {0} /\ Reach \in Nat \ {0} /\ Turn \in Nat \ {0}
      /\ MaxSamples \in Nat
  BY PipelineAssumption DEF PipelineParameters, Init
<1>2. Reach * factor \in Nat
  BY <1>1
<1>3. Len(decimator_tail) = Reach * factor
  <2>1. decimator_tail \in [1 .. Reach * factor -> {Zero}]
    BY DEF Init
  <2> QED
    BY <1>2, <2>1, SeqOf
<1>4. TypeOK
  BY <1>1, <1>3 DEF Init, TypeOK
<1>5. /\ 0 \div factor = 0 /\ 0 % factor = 0
      /\ \A s \in Nat : (0 * s) % Turn = 0
  <2>1. 0 = 0 * factor + 0 /\ 0 \in 0 .. factor - 1
    BY <1>1
  <2>2. 0 \div factor = 0 /\ 0 % factor = 0
    BY <1>1, <2>1, Division
  <2>3. \A s \in Nat : 0 * s = 0
    OBVIOUS
  <2>4. 0 = 0 * Turn + 0 /\ 0 \in 0 .. Turn - 1
    BY <1>1
  <2>5. 0 % Turn = 0
    BY <1>1, <2>4, Division
  <2> QED
    BY <2>2, <2>3, <2>5
<1>6. Acc(0) = 0
  BY <1>4, <1>5, Basic DEF Acc
<1>7. decimator_tail = IdealTail(0)
  <2> DEFINE h == Reach * factor
  <2>1. h \in Nat
    BY <1>2
  <2> HIDE DEF h
  <2>2. \A j \in 1 .. h : Ideal(0 - h + j) = Zero
    BY <2>1 DEF Ideal
  <2>3. decimator_tail = [j \in 1 .. h |-> Zero]
    BY DEF Init, h
  <2>4. IdealTail(0) = [j \in 1 .. h |-> Ideal(0 - h + j)]
    BY DEF IdealTail, h
  <2> QED
    BY <2>2, <2>3, <2>4
<1>8. decimated = IdealPrefix(0)
  BY <1>5 DEF Init, IdealPrefix
<1>9. At(0, 0)
  <2>1. 0 + 0 = 0
    OBVIOUS
  <2> QED
    BY <1>5, <1>6, <1>7, <1>8, <2>1 DEF Init, At
<1> QED
  BY <1>4, <1>9 DEF Init, IInv

LEMMA ProcessKeeps ==
  ASSUME TypeOK, NEW t \in Nat, NEW m \in Nat, At(t, m),
         NEW n \in Lengths, Process(n)
  PROVE  TypeOK' /\ n \in Nat /\ At(t, n)'
<1>1. n \in Nat /\ MaxSamples \in Nat
  BY PipelineAssumption DEF PipelineParameters
<1>2. t = given /\ t + m = t
  BY DEF At, Process, TypeOK
<1>3. UNCHANGED config
  BY DEF Process
<1>4. TypeOK'
  BY <1>1 DEF TypeOK, filters, Process, config, carried
<1>5. /\ Acc(t)' = Acc(t) /\ IdealTail(t)' = IdealTail(t)
      /\ IdealPrefix(t)' = IdealPrefix(t)
  BY <1>3, Frozen
<1>6. slot' = [i \in 1 .. n |-> Sample(t + i, 0)]
  BY <1>2 DEF Process
<1>7. At(t, n)'
  BY <1>2, <1>3, <1>5, <1>6 DEF At, Process, config, carried
<1> QED
  BY <1>1, <1>4, <1>7

LEMMA ShiftKeeps ==
  ASSUME TypeOK, NEW t \in Nat, NEW n \in Nat, At(t, n), Shift
  PROVE  TypeOK' /\ At(t, n)'
<1>1. /\ Turn \in Nat \ {0} /\ shift_step \in Nat
      /\ UNCHANGED config /\ shift_enabled = TRUE
  <2>1. shift_enabled = TRUE
    BY Zenon DEF Shift, TypeOK
  <2> QED
    BY <2>1, Basic DEF Shift
<1>2. /\ slot = [i \in 1 .. n |-> Sample(t + i, 0)] /\ Len(slot) = n
      /\ shift_acc = (t * shift_step) % Turn
  <2>1. slot = [i \in 1 .. n |-> Sample(t + i, 0)] /\ shift_acc = Acc(t)
    BY DEF At, Shift
  <2>2. slot \in [1 .. n -> {Sample(t + i, 0) : i \in Int}]
    BY <2>1
  <2>3. Len(slot) = n
    BY <2>2, SeqOf
  <2> QED
    BY <1>1, <2>1, <2>3 DEF Acc
<1>3. \A i \in Nat \ {0} : Phase(shift_acc, i) = ((t + i - 1) * shift_step) % Turn
  <2> TAKE i \in Nat \ {0}
  <2>1. i - 1 \in Nat /\ t + (i - 1) = t + i - 1
    OBVIOUS
  <2>2. \A d \in Nat : (((t * shift_step) % Turn) + d * shift_step) % Turn =
                       ((t + d) * shift_step) % Turn
    BY <1>1, PhaseAfter
  <2>3. (((t * shift_step) % Turn) + (i - 1) * shift_step) % Turn =
          ((t + (i - 1)) * shift_step) % Turn
    BY <2>1, <2>2, Zenon
  <2> QED
    BY <1>2, <2>1, <2>3, Zenon DEF Phase
<1>4. shift_acc' = Acc(t + n) /\ Acc(t + n) \in 0 .. Turn - 1
  <2>1. n + 1 \in Nat \ {0} /\ t + (n + 1) - 1 = t + n /\ t + n \in Nat
    OBVIOUS
  <2>2. shift_acc' = ((t + n) * shift_step) % Turn
    BY <1>2, <1>3, <2>1 DEF Shift
  <2>3. ((t + n) * shift_step) % Turn \in 0 .. Turn - 1
    <3>1. (t + n) * shift_step \in Nat
      BY <1>1, <2>1
    <3> QED
      BY <1>1, <3>1
  <2> QED
    BY <1>1, <2>2, <2>3 DEF Acc
<1>5. work' = IdealChunk(t, n)
  <2>1. \A i \in 1 .. n :
          Sample(slot[i].at, Phase(shift_acc, i) \div Bin) = Ideal(t + i)
    <3> TAKE i \in 1 .. n
    <3>1. slot[i].at = t + i
      BY <1>2 DEF Sample
    <3>2. Phase(shift_acc, i) = ((t + i - 1) * shift_step) % Turn
      BY <1>3
    <3>3. ~(t + i < 1)
      OBVIOUS
    <3>4. Ideal(t + i) = Sample(t + i, (((t + i - 1) * shift_step) % Turn) \div Bin)
      <4>1. shift_enabled
        BY <1>1
      <4> QED
        BY <3>3, <4>1 DEF Ideal
    <3> QED
      BY <3>1, <3>2, <3>4, Zenon
  <2>2. work' = [i \in 1 .. n |->
                   Sample(slot[i].at, Phase(shift_acc, i) \div Bin)]
    BY <1>2 DEF Shift
  <2> QED
    BY <2>1, <2>2 DEF IdealChunk
<1>6. TypeOK'
  BY <1>4 DEF TypeOK, filters, Shift, config, history
<1>7. /\ Acc(t + n)' = Acc(t + n) /\ IdealChunk(t, n)' = IdealChunk(t, n)
      /\ IdealTail(t)' = IdealTail(t) /\ IdealPrefix(t)' = IdealPrefix(t)
  <2>1. t + n \in Nat
    OBVIOUS
  <2> QED
    BY <1>1, <2>1, Frozen
<1>8. Input' = IdealChunk(t, n)
  BY <1>1, <1>5 DEF Input, config
<1>9. At(t, n)'
  BY <1>1, <1>4, <1>7, <1>8 DEF At, Shift, config, history
<1> QED
  BY <1>6, <1>9

LEMMA NoShiftKeeps ==
  ASSUME TypeOK, NEW t \in Nat, NEW n \in Nat, At(t, n), NoShift
  PROVE  TypeOK' /\ At(t, n)'
<1>1. UNCHANGED config /\ shift_enabled = FALSE
  <2>1. shift_enabled \in BOOLEAN
    BY PipelineAssumption DEF PipelineParameters, TypeOK
  <2> QED
    BY <2>1, Zenon DEF NoShift
<1>2. /\ Acc(t + n)' = Acc(t + n) /\ Acc(t) = Acc(t + n)
      /\ IdealChunk(t, n)' = IdealChunk(t, n)
      /\ IdealTail(t)' = IdealTail(t) /\ IdealPrefix(t)' = IdealPrefix(t)
  <2>1. t + n \in Nat
    OBVIOUS
  <2> QED
    BY <1>1, <2>1, Frozen DEF Acc
<1>3. Input' = IdealChunk(t, n)
  <2>1. Input' = [i \in 1 .. n |-> Sample(t + i, 0)]
    BY <1>1 DEF Input, At, NoShift, buffers, config
  <2>2. \A i \in 1 .. n : Ideal(t + i) = Sample(t + i, 0)
    BY <1>1 DEF Ideal
  <2> QED
    BY <2>1, <2>2 DEF IdealChunk
<1>4. TypeOK'
  BY DEF TypeOK, filters, NoShift, config, carried, history
<1>5. At(t, n)'
  BY <1>1, <1>2, <1>3 DEF At, NoShift, config, carried, buffers, history
<1> QED
  BY <1>4, <1>5

LEMMA InputLength ==
  ASSUME NEW t \in Nat, NEW n \in Nat, Input = IdealChunk(t, n)
  PROVE  Len(Input) = n
<1>1. Input \in [1 .. n -> {Ideal(i) : i \in Int}]
  BY DEF IdealChunk
<1> QED
  BY <1>1, SeqOf

LEMMA PassThroughKeeps ==
  ASSUME TypeOK, NEW t \in Nat, NEW n \in Nat, At(t, n), PassThrough
  PROVE  TypeOK' /\ At(t, n)'
<1>1. factor = 1 /\ UNCHANGED config
  BY Basic DEF PassThrough
<1>2. work' = IdealOut(t, n)
  <2>1. /\ t \div factor = t /\ (t + n) \div factor = t + n
        /\ (t + n) - t = n /\ t + n \in Nat
    BY <1>1
  <2>2. IdealOut(t, n) = [k \in 1 .. n |-> IdealOutput(t + k)]
    BY <2>1 DEF IdealOut
  <2>3. \A k \in 1 .. n : IdealOutput(t + k) = Ideal(t + k)
    BY <1>1 DEF IdealOutput
  <2>4. work' = [k \in 1 .. n |-> Ideal(t + k)]
    BY DEF PassThrough, At, IdealChunk
  <2> QED
    BY <2>2, <2>3, <2>4
<1>3. /\ Acc(t + n)' = Acc(t + n) /\ IdealOut(t, n)' = IdealOut(t, n)
      /\ IdealPrefix(t)' = IdealPrefix(t)
  <2>1. t + n \in Nat
    OBVIOUS
  <2> QED
    BY <1>1, <2>1, Frozen
<1>4. TypeOK'
  BY DEF TypeOK, filters, PassThrough, config, carried, history
<1>5. At(t, n)'
  BY <1>1, <1>2, <1>3 DEF At, PassThrough, config, carried, history
<1> QED
  BY <1>4, <1>5

LEMMA FilterKeeps ==
  ASSUME TypeOK, NEW t \in Nat, NEW n \in Nat, At(t, n), Filter
  PROVE  TypeOK' /\ At(t, n)'
<1>1. factor > 1 /\ factor \in Nat \ {0} /\ UNCHANGED config
  BY Basic DEF Filter
<1>2. /\ Input = IdealChunk(t, n) /\ decimator_tail = IdealTail(t)
      /\ decim_rem = t % factor /\ Len(Input) = n
  BY <1>1, InputLength DEF At, Filter
<1>3. OutLen = (t + n) \div factor - t \div factor
  <2>1. /\ (n + (t % factor)) \div factor \in Nat /\ t \div factor \in Nat
        /\ (t + n) \div factor = t \div factor + (n + (t % factor)) \div factor
    BY <1>1, Carrying
  <2>2. OutLen = (n + (t % factor)) \div factor
    BY <1>2, Zenon DEF OutLen
  <2> QED
    BY <2>1, <2>2
<1>4. \A k \in 1 .. OutLen : Window(FirstWindow + (k - 1) * factor) =
                              IdealOutput(t \div factor + k)
  <2>1. OutLen = (n + decim_rem) \div factor
    BY <1>2 DEF OutLen
  <2> QED
    BY <1>1, <1>2, <2>1, WindowIdeal
<1>5. temp_out' = IdealOut(t, n)
  BY <1>3, <1>4 DEF Filter, IdealOut
<1>6. /\ Acc(t + n)' = Acc(t + n) /\ IdealOut(t, n)' = IdealOut(t, n)
      /\ IdealChunk(t, n)' = IdealChunk(t, n)
      /\ IdealTail(t)' = IdealTail(t) /\ IdealPrefix(t)' = IdealPrefix(t)
  <2>1. t + n \in Nat
    OBVIOUS
  <2> QED
    BY <1>1, <2>1, Frozen
<1>7. TypeOK'
  BY DEF TypeOK, filters, Filter, config, carried, history
<1>8. Input' = Input
  BY <1>1 DEF Input, Filter, config
<1>9. At(t, n)'
  BY <1>1, <1>2, <1>5, <1>6, <1>8 DEF At, Filter, config, carried, history
<1> QED
  BY <1>7, <1>9

LEMMA SlideKeeps ==
  ASSUME TypeOK, NEW t \in Nat, NEW n \in Nat, At(t, n), Slide
  PROVE  TypeOK' /\ At(t, n)'
<1>1. factor > 1 /\ factor \in Nat \ {0} /\ UNCHANGED config
  BY Basic DEF Slide, At
<1>2. /\ Input = IdealChunk(t, n) /\ decimator_tail = IdealTail(t)
      /\ decim_rem = t % factor /\ Len(Input) = n
  BY <1>1, InputLength DEF At, Slide
<1>3. decimator_tail' = IdealTail(t + n)
  BY <1>2, SlidIdeal DEF Slide
<1>4. decim_rem' = (t + n) % factor /\ decim_rem' \in 0 .. factor - 1
  <2>1. (t + n) % factor = ((t % factor) + n) % factor
    BY <1>1, Carrying
  <2>2. t + n \in Nat /\ (t + n) % factor \in 0 .. factor - 1
    BY <1>1
  <2>3. decim_rem' = ((t % factor) + n) % factor
    BY <1>2, Zenon DEF Slide
  <2> QED
    BY <2>1, <2>2, <2>3
<1>5. /\ Acc(t + n)' = Acc(t + n) /\ IdealOut(t, n)' = IdealOut(t, n)
      /\ IdealTail(t + n)' = IdealTail(t + n) /\ IdealPrefix(t)' = IdealPrefix(t)
  <2>1. t + n \in Nat
    OBVIOUS
  <2> QED
    BY <1>1, <2>1, Frozen
<1>6. Len(decimator_tail)' = Reach * factor
  <2>1. t + n \in Nat
    OBVIOUS
  <2> QED
    BY <1>3, <2>1, TailLength
<1>7. TypeOK'
  BY <1>1, <1>4, <1>6 DEF TypeOK, filters, Slide, config, history
<1>8. At(t, n)'
  BY <1>1, <1>3, <1>4, <1>5 DEF At, Slide, config, buffers, history
<1> QED
  BY <1>7, <1>8

LEMMA StageKeeps ==
  ASSUME TypeOK, NEW t \in Nat, NEW n \in Nat, At(t, n), Stage
  PROVE  TypeOK' /\ At(t, n)'
<1>1. UNCHANGED config
  BY DEF Stage
<1>2. /\ Acc(t + n)' = Acc(t + n) /\ IdealOut(t, n)' = IdealOut(t, n)
      /\ IdealTail(t + n)' = IdealTail(t + n) /\ IdealPrefix(t)' = IdealPrefix(t)
  <2>1. t + n \in Nat
    OBVIOUS
  <2> QED
    BY <1>1, <2>1, Frozen
<1>3. TypeOK'
  BY DEF TypeOK, filters, Stage, config, carried, history
<1>4. At(t, n)'
  BY <1>1, <1>2 DEF At, Stage, config, carried, history
<1> QED
  BY <1>3, <1>4

\* The outputs of a chunk continue those before it.
LEMMA PrefixGrows ==
  ASSUME TypeOK, NEW t \in Nat, NEW n \in Nat
  PROVE  /\ IdealPrefix(t + n) = IdealPrefix(t) \o IdealOut(t, n)
         /\ IdealPrefix(t) \in Seq({IdealOutput(k) : k \in Int})
         /\ IdealOut(t, n) \in Seq({IdealOutput(k) : k \in Int})
<1> DEFINE S == {IdealOutput(k) : k \in Int}
<1>1. PICK q \in Nat, p \in Nat : q = t \div factor /\ (t + n) \div factor = q + p
  <2>1. factor \in Nat \ {0}
    BY Basic
  <2>2. /\ (n + (t % factor)) \div factor \in Nat /\ t \div factor \in Nat
        /\ (t + n) \div factor = t \div factor + (n + (t % factor)) \div factor
    BY <2>1, Carrying
  <2> QED
    BY <2>2
<1>2. /\ IdealPrefix(t) \in Seq(S) /\ Len(IdealPrefix(t)) = q
      /\ \A k \in 1 .. q : IdealPrefix(t)[k] = IdealOutput(k)
  <2>1. IdealPrefix(t) = [k \in 1 .. q |-> IdealOutput(k)]
    BY <1>1 DEF IdealPrefix
  <2> QED
    BY <2>1, SeqOf
<1>3. /\ IdealOut(t, n) \in Seq(S) /\ Len(IdealOut(t, n)) = p
      /\ \A k \in 1 .. p : IdealOut(t, n)[k] = IdealOutput(q + k)
  <2>1. (q + p) - q = p
    OBVIOUS
  <2>2. IdealOut(t, n) = [k \in 1 .. p |-> IdealOutput(q + k)]
    BY <1>1, <2>1 DEF IdealOut
  <2> QED
    BY <2>2, SeqOf
<1>4. /\ IdealPrefix(t + n) \in Seq(S) /\ Len(IdealPrefix(t + n)) = q + p
      /\ \A k \in 1 .. q + p : IdealPrefix(t + n)[k] = IdealOutput(k)
  <2>1. IdealPrefix(t + n) = [k \in 1 .. q + p |-> IdealOutput(k)]
    BY <1>1 DEF IdealPrefix
  <2> QED
    BY <2>1, SeqOf
<1> HIDE DEF S
<1> DEFINE w == IdealPrefix(t) \o IdealOut(t, n)
<1>5. /\ w \in Seq(S) /\ Len(w) = q + p
      /\ \A k \in 1 .. q + p :
           w[k] = IF k <= q THEN IdealPrefix(t)[k] ELSE IdealOut(t, n)[k - q]
  BY <1>2, <1>3, ConcatProperties
<1> HIDE DEF w
<1>6. \A k \in 1 .. q + p : w[k] = IdealOutput(k)
  <2> TAKE k \in 1 .. q + p
  <2>1. CASE k <= q
    BY <1>2, <1>5, <2>1
  <2>2. CASE ~(k <= q)
    <3>1. k - q \in 1 .. p /\ q + (k - q) = k
      BY <2>2
    <3> QED
      BY <1>3, <1>5, <2>2, <3>1
  <2> QED
    BY <2>1, <2>2
<1>7. w = IdealPrefix(t + n)
  BY <1>4, <1>5, <1>6, SeqEqual
<1> QED
  BY <1>2, <1>3, <1>7 DEF w, S

LEMMA FunctionOf ==
  ASSUME NEW n \in Nat, NEW f, f = [i \in 1 .. n |-> f[i]]
  PROVE  f \in Seq({f[i] : i \in 1 .. n}) /\ Len(f) = n
<1>1. f \in [1 .. n -> {f[i] : i \in 1 .. n}]
  OBVIOUS
<1> QED
  BY <1>1, SeqOf

\* Audio samples a demodulator makes of one sample.
Per == IF Raw THEN 2 ELSE 1

\* What a demodulator makes of a chunk, sample by sample.
LEMMA DemodulatedIs ==
  ASSUME Len(work) \in Nat
  PROVE  /\ Len(Demodulated) = Per * Len(work)
         /\ Len(Demodulated) \in Nat
         /\ Demodulated = [i \in 1 .. Per * Len(work) |-> Demodulated[i]]
         /\ \A i \in 1 .. Per * Len(work) :
              /\ setup.mode = "fm" =>
                   Demodulated[i] = <<"fm", work[i], Previous(i)>>
              /\ Raw => Demodulated[i] = <<RawPart(i), work[(i + 1) \div 2]>>
              /\ setup.mode # "fm" /\ ~Raw =>
                   Demodulated[i] = <<setup.mode, work[i]>>
<1> DEFINE w == Len(work)
<1>1. CASE setup.mode = "fm"
  <2>1. Per = 1 /\ ~Raw /\ 1 * w = w
    BY <1>1 DEF Per, Raw
  <2>2. Demodulated = [i \in 1 .. w |-> <<"fm", work[i], Previous(i)>>]
    BY <1>1, <2>1 DEF Demodulated, DemodulateFm
  <2>3. Demodulated = [i \in 1 .. w |-> Demodulated[i]]
    BY <2>2
  <2>4. Len(Demodulated) = w
    BY <2>3, FunctionOf
  <2> QED
    BY <1>1, <2>1, <2>2, <2>3, <2>4
<1>2. CASE Raw
  <2>1. Per = 2 /\ setup.mode # "fm" /\ 2 * w \in Nat
    BY <1>2 DEF Per, Raw
  <2>2. Demodulated = [i \in 1 .. 2 * w |-> <<RawPart(i), work[(i + 1) \div 2]>>]
    BY <1>2, <2>1 DEF Demodulated, DemodulateRaw
  <2>3. Demodulated = [i \in 1 .. 2 * w |-> Demodulated[i]]
    BY <2>2
  <2>4. Len(Demodulated) = 2 * w
    BY <2>1, <2>3, FunctionOf
  <2> QED
    BY <1>2, <2>1, <2>2, <2>3, <2>4
<1>3. CASE setup.mode # "fm" /\ ~Raw
  <2>1. Per = 1 /\ 1 * w = w
    BY <1>3 DEF Per
  <2>2. Demodulated = [i \in 1 .. w |-> <<setup.mode, work[i]>>]
    BY <1>3 DEF Demodulated, DemodulateSample
  <2>3. Demodulated = [i \in 1 .. w |-> Demodulated[i]]
    BY <2>2
  <2>4. Len(Demodulated) = w
    BY <2>3, FunctionOf
  <2> QED
    BY <1>3, <2>1, <2>2, <2>3, <2>4
<1> QED
  BY <1>1, <1>2, <1>3

LEMMA DemodulateKeeps ==
  ASSUME TypeOK, NEW t \in Nat, NEW n \in Nat, At(t, n), Demodulate
  PROVE  TypeOK' /\ At(t + n, 0)'
<1>1. UNCHANGED config /\ t + n \in Nat /\ t + n + 0 = t + n
  BY DEF Demodulate
<1>2. decimated' = IdealPrefix(t + n)
  BY PrefixGrows DEF Demodulate, At
<1>3. /\ Acc(t + n)' = Acc(t + n) /\ IdealTail(t + n)' = IdealTail(t + n)
      /\ IdealPrefix(t + n)' = IdealPrefix(t + n)
  BY <1>1, Frozen
<1>4. TypeOK'
  <2>1. Len(Demodulated) \in Nat
    <3>1. work \in Seq({IdealOutput(k) : k \in Int})
      BY PrefixGrows DEF Demodulate, At
    <3>2. Len(work) \in Nat
      BY <3>1, LenProperties
    <3> QED
      BY <3>2, DemodulatedIs
  <2>2. Given(deemph_filter, Deemphasise) \in Nat
    BY <2>1 DEF Given, TypeOK
  <2>3. Given(dc_block_filter, BlockDc) \in Nat
    BY <2>1 DEF Given, TypeOK
  <2>4. Given(audio_resampler, Resample) \in Nat
    BY <2>1 DEF Given, TypeOK
  <2> QED
    BY <2>2, <2>3, <2>4 DEF TypeOK, Demodulate, config, buffers
<1>5. At(t + n, 0)'
  BY <1>1, <1>2, <1>3 DEF At, Demodulate, config, buffers
<1> QED
  BY <1>4, <1>5

\* Where the stream stands after a step.
LEMMA Somewhere ==
  ASSUME TypeOK', NEW t \in Nat, NEW n \in Nat, At(t, n)'
  PROVE  IInv'
<1>1. given' \in Nat /\ t + n = given'
  BY PipelineAssumption DEF PipelineParameters, TypeOK, At
<1>2. t \in 0 .. given' /\ n \in 0 .. given'
  BY <1>1
<1> QED
  BY <1>2 DEF IInv

LEMMA StepIInv ==
  ASSUME IInv, [Next]_vars
  PROVE  IInv'
<1>1. TypeOK
  BY DEF IInv
<1>2. PICK t \in Nat, n \in Nat : At(t, n)
  <2>1. given \in Nat
    BY <1>1, PipelineAssumption DEF PipelineParameters, TypeOK
  <2> QED
    BY <2>1 DEF IInv
<1>3. ASSUME NEW m \in Lengths, Process(m) PROVE IInv'
  BY <1>1, <1>2, <1>3, ProcessKeeps, Somewhere
<1>4. CASE Shift
  BY <1>1, <1>2, <1>4, ShiftKeeps, Somewhere
<1>5. CASE NoShift
  BY <1>1, <1>2, <1>5, NoShiftKeeps, Somewhere
<1>6. CASE PassThrough
  BY <1>1, <1>2, <1>6, PassThroughKeeps, Somewhere
<1>7. CASE Filter
  BY <1>1, <1>2, <1>7, FilterKeeps, Somewhere
<1>8. CASE Slide
  BY <1>1, <1>2, <1>8, SlideKeeps, Somewhere
<1>9. CASE Stage
  BY <1>1, <1>2, <1>9, StageKeeps, Somewhere
<1>10. CASE Demodulate
  <2>1. TypeOK' /\ At(t + n, 0)' /\ t + n \in Nat
    BY <1>1, <1>2, <1>10, DemodulateKeeps
  <2> QED
    BY <2>1, Somewhere
<1>11. CASE UNCHANGED vars
  <2>1. UNCHANGED config
    BY <1>11 DEF vars
  <2>2. /\ Acc(t)' = Acc(t) /\ Acc(t + n)' = Acc(t + n)
        /\ IdealChunk(t, n)' = IdealChunk(t, n) /\ IdealOut(t, n)' = IdealOut(t, n)
        /\ IdealTail(t)' = IdealTail(t) /\ IdealTail(t + n)' = IdealTail(t + n)
        /\ IdealPrefix(t)' = IdealPrefix(t)
    <3>1. t + n \in Nat
      OBVIOUS
    <3> QED
      BY <2>1, <3>1, Frozen
  <2>3. TypeOK'
    BY <1>1, <1>11 DEF TypeOK, filters, vars, config, carried, buffers, history
  <2>4. Input' = Input
    BY <1>11 DEF Input, vars, config, buffers
  <2>5. At(t, n)'
    BY <1>2, <1>11, <2>2, <2>4
       DEF At, vars, config, carried, buffers, history
  <2> QED
    BY <2>3, <2>5, Somewhere
<1>12. CASE Idle
  BY <1>11, <1>12 DEF Idle
<1> QED
  BY <1>3, <1>4, <1>5, <1>6, <1>7, <1>8, <1>9, <1>10, <1>11, <1>12 DEF Next

\* At every stage the buffers hold the parts of the stream that At says
\* (pipeline.c:34-67).
THEOREM Invariance == Spec => []IInv
<1>1. Init => IInv
  BY InitIInv
<1>2. IInv /\ [Next]_vars => IInv'
  BY StepIInv
<1> QED
  BY <1>1, <1>2, PTL DEF Spec

-----------------------------------------------------------------------------
(* What follows.                                                           *)

\* The accumulator stays below a turn, the carry below the factor and the
\* history full (dsp.c:51-62, 341-357).
THEOREM TypeCorrect == Spec => []TypeOK
<1>1. IInv => TypeOK
  BY DEF IInv
<1> QED
  BY <1>1, Invariance, PTL

\* What comes out of the decimator does not depend on how the stream was cut
\* into chunks (dsp.c:260-362).
THEOREM ChunkingIsInvisible == Spec => []ChunkingInvisible
<1>1. IInv => ChunkingInvisible
  <2> SUFFICES ASSUME IInv, pc = "idle"
               PROVE  decimated = [k \in 1 .. given \div factor |-> IdealOutput(k)]
    BY DEF ChunkingInvisible
  <2>1. PICK t \in 0 .. given, n \in 0 .. given : At(t, n)
    BY DEF IInv
  <2>2. t = given
    BY <2>1 DEF At, IInv, TypeOK
  <2> QED
    BY <2>1, <2>2 DEF At, IdealPrefix
<1> QED
  BY <1>1, Invariance, PTL

\* No window of the filter reaches beyond the end of the chunk (dsp.c:296-337).
THEOREM ReadsStayInBounds == Spec => []ReadsInBounds
<1>1. IInv => ReadsInBounds
  <2> SUFFICES ASSUME IInv, pc = "filter", factor > 1, NEW k \in 1 .. OutLen
               PROVE  FirstWindow + (k - 1) * factor + 1 <= Len(Input)
    BY DEF ReadsInBounds
  <2>1. TypeOK
    BY DEF IInv
  <2>2. PICK t \in Nat, n \in Nat : At(t, n)
    <3>1. given \in Nat
      BY <2>1, PipelineAssumption DEF PipelineParameters, TypeOK
    <3> QED
      BY <3>1 DEF IInv
  <2>3. /\ Input = IdealChunk(t, n) /\ decimator_tail = IdealTail(t)
        /\ decim_rem = t % factor
    BY <2>2 DEF At
  <2>4. Len(Input) = n
    BY <2>3, InputLength
  <2>5. k \in 1 .. (n + decim_rem) \div factor
    BY <2>4 DEF OutLen
  <2> QED
    BY <2>1, <2>3, <2>4, <2>5, WindowIdeal
<1> QED
  BY <1>1, Invariance, PTL

\* Windows in pairs: where the loop over the bulk begins window k.
LEMMA BulkIsWindow ==
  ASSUME NEW k \in Int, Cardinality(Boundary) \in Nat, FirstWindow \in Int,
         factor \in Nat
  PROVE  BulkStart(k) = WindowStart(k)
<1> DEFINE b == Cardinality(Boundary)
           n == k - 1 - b
<1>1. /\ n \in Int /\ n \div 2 \in Int /\ n % 2 \in Int
      /\ n = 2 * (n \div 2) + (n % 2)
  <2>1. n \in Int
    OBVIOUS
  <2> HIDE DEF n
  <2> QED
    BY <2>1
<1> HIDE DEF b
<1>2. b \in Nat /\ k - 1 = b + n
  BY DEF b
<1>3. 2 * factor * (n \div 2) + factor * (n % 2) = n * factor
  <2> DEFINE q == n \div 2
             r == n % 2
  <2>1. q \in Int /\ r \in Int /\ n = 2 * q + r /\ factor \in Int
    BY <1>1
  <2> HIDE DEF n, q, r
  <2>2. 2 * factor * q + factor * r = (2 * q + r) * factor
    BY <2>1
  <2> QED
    BY <2>1, <2>2 DEF q, r
<1> HIDE DEF n
<1>4. n \in Int
  BY <1>1 DEF n
<1>5. (k - 1) * factor = b * factor + n * factor
  BY <1>2, <1>4, Distributes
<1>6. b * factor \in Int /\ n * factor \in Int
  BY <1>2, <1>4
<1>7. BulkStart(k) = FirstWindow + b * factor + (2 * factor * (n \div 2) + factor * (n % 2))
  BY <1>1, <1>2, <1>6 DEF BulkStart, b, n
<1> QED
  BY <1>3, <1>5, <1>6, <1>7 DEF WindowStart

\* Whichever kernel computes an output, it sums every tap once
\* (dsp.c:104-105, 303-337).
THEOREM TapsAreComplete == Spec => []EveryTapOnce
<1>1. IInv => EveryTapOnce
  <2> SUFFICES ASSUME IInv, pc = "filter", factor > 1, NEW k \in 1 .. OutLen
               PROVE  Convolves(Products(k), WindowStart(k), Reach * factor + 1)
    BY DEF EveryTapOnce
  <2> DEFINE taps  == Reach * factor + 1
             e     == WindowStart(k)
             tail  == Len(decimator_tail)
             split == tail - e
  <2>1. TypeOK
    BY DEF IInv
  <2>2. /\ tail = Reach * factor /\ tail \in Nat /\ taps \in Nat
        /\ factor \in Nat /\ decim_rem \in 0 .. factor - 1
    BY <2>1, Basic DEF TypeOK
  <2>3. FirstWindow \in Nat
    BY <2>1, <2>2, FirstWindowIs
  <2>4. k \in Nat /\ k - 1 \in Nat
    OBVIOUS
  <2>5. (k - 1) * factor \in Nat
    BY <2>2, <2>4
  <2>6. e \in Nat
    BY <2>3, <2>5 DEF WindowStart
  <2>9. OutLen \in Int
    <3>1. PICK t \in Nat, n \in Nat : At(t, n)
      <4>1. given \in Nat
        BY <2>1, PipelineAssumption DEF PipelineParameters, TypeOK
      <4> QED
        BY <4>1 DEF IInv
    <3>2. Len(Input) = n
      BY <3>1, InputLength DEF At
    <3> QED
      BY <2>2, <3>1, <3>2 DEF OutLen
  <2>7. CASE k \in Boundary
    <3>1. e < tail
      BY <2>7 DEF Boundary
    <3> HIDE DEF e, tail
    <3>2. split \in Nat /\ split <= taps /\ e + split = tail
      BY <2>2, <2>6, <3>1
    <3> HIDE DEF split, taps
    <3>3. Convolves(Dot(0, e, split) \cup Dot(split, e + split, taps - split), e, taps)
      BY <2>2, <2>6, <3>2, DotInTwoConvolves
    <3>4. Products(k) = Dot(0, e, split) \cup Dot(split, tail, taps - split)
      BY <2>7 DEF Products, e, tail, split, taps
    <3> QED
      BY <3>2, <3>3, <3>4 DEF e, taps
  <2>8. CASE k \notin Boundary
    <3>1. IsFiniteSet(Boundary)
      <4>1. Boundary \subseteq 1 .. OutLen
        BY DEF Boundary
      <4>2. IsFiniteSet(1 .. OutLen)
        BY <2>9, FS_Interval
      <4> QED
        BY <4>1, <4>2, FS_Subset
    <3>2. Cardinality(Boundary) \in Nat
      BY <3>1, FS_CardinalityType
    <3>3. BulkStart(k) = e
      BY <2>2, <2>3, <2>4, <3>2, BulkIsWindow
    <3>4. \/ Products(k) = Dot(0, e, taps)
          \/ Products(k) = DotAvx2(0, e, taps)
      BY <2>8, <3>3 DEF Products
    <3> HIDE DEF e, taps
    <3>5. Convolves(Dot(0, e, taps), e, taps) /\ Convolves(DotAvx2(0, e, taps), e, taps)
      BY <2>2, <2>6, KernelsConvolve
    <3> QED
      BY <3>4, <3>5 DEF e, taps
  <2> QED
    BY <2>7, <2>8
<1> QED
  BY <1>1, Invariance, PTL

-----------------------------------------------------------------------------
(* Sequences given by their elements.                                      *)

Listed(f, n) == f = [i \in 1 .. n |-> f[i]]

Joins(h, f, g, m, n) ==
  \A k \in 1 .. m + n : h[k] = IF k <= m THEN f[k] ELSE g[k - m]

LEMMA Joined ==
  ASSUME NEW m \in Nat, NEW n \in Nat, NEW f, NEW g, Listed(f, m), Listed(g, n),
         NEW h, h = f \o g
  PROVE  Listed(h, m + n) /\ Joins(h, f, g, m, n)
<1> DEFINE S == {f[i] : i \in 1 .. m} \cup {g[i] : i \in 1 .. n}
<1>1. f \in Seq(S) /\ Len(f) = m /\ g \in Seq(S) /\ Len(g) = n
  <2>1. f \in [1 .. m -> S] /\ g \in [1 .. n -> S]
    BY DEF Listed
  <2> QED
    BY <2>1, SeqOf
<1> HIDE DEF S
<1>2. /\ h \in Seq(S) /\ Len(h) = m + n
      /\ \A k \in 1 .. m + n : h[k] = IF k <= m THEN f[k] ELSE g[k - m]
  <2>1. /\ h \in Seq(S) /\ Len(h) = Len(f) + Len(g)
        /\ \A k \in 1 .. Len(f) + Len(g) :
             h[k] = IF k <= Len(f) THEN f[k] ELSE g[k - Len(f)]
    BY <1>1, ConcatProperties
  <2> QED
    BY <1>1, <2>1
<1>3. h = [k \in 1 .. m + n |-> h[k]]
  BY <1>2, LenProperties
<1>4. Listed(h, m + n)
  BY <1>3 DEF Listed
<1> QED
  BY <1>2, <1>4 DEF Joins

(* The resampler's counts.                                                 *)

LEMMA OutputsGrow ==
  ASSUME NEW a \in Nat, NEW n \in Nat, NEW p \in Nat \ {0}, NEW q \in Nat \ {0}
  PROVE  /\ (a * p + q - 1) \div q \in Nat /\ ((a + n) * p + q - 1) \div q \in Nat
         /\ (a * p + q - 1) \div q <= ((a + n) * p + q - 1) \div q
<1>1. a * p \in Nat /\ n * p \in Nat /\ (a + n) * p = a * p + n * p
  BY Distributes
<1> DEFINE x == a * p + q - 1
           y == n * p
<1>2. x \in Nat /\ y \in Nat /\ (a + n) * p + q - 1 = x + y
  BY <1>1
<1> HIDE DEF x, y
<1>3. x \div q \in Nat /\ (x + y) \div q = x \div q + (y + (x % q)) \div q
      /\ (y + (x % q)) \div q \in Nat
  BY <1>2, Carrying
<1>4. x \div q <= (x + y) \div q /\ (x + y) \div q \in Nat
  BY <1>3
<1> QED
  BY <1>2, <1>3, <1>4 DEF x

LEMMA NoOutputYet ==
  ASSUME NEW p \in Nat, NEW q \in Nat \ {0}
  PROVE  0 * p = 0 /\ (0 + q - 1) \div q = 0
<1> DEFINE x == 0 + q - 1
<1>1. x \in Nat /\ q - 1 \in 0 .. q - 1 /\ x = 0 * q + (q - 1) /\ 0 * p = 0
  OBVIOUS
<1> HIDE DEF x
<1>2. x \div q = 0
  BY <1>1, Division
<1> QED
  BY <1>1, <1>2 DEF x

\* An output that comes out between the a-th and the b-th sample waited for one
\* of the samples between them.
LEMMA Waiting ==
  ASSUME NEW a \in Nat, NEW b \in Nat, NEW p \in Nat \ {0}, NEW q \in Nat \ {0},
         NEW k \in Nat, k > (a * p + q - 1) \div q, k <= (b * p + q - 1) \div q
  PROVE  ((k - 1) * q) \div p + 1 \in a + 1 .. b
<1>1. a * p \in Nat /\ b * p \in Nat
  OBVIOUS
<1>2. a * p + q - 1 \in Nat /\ b * p + q - 1 \in Nat
  BY <1>1
<1>3. PICK c \in Nat, r \in 0 .. q - 1 :
        a * p + q - 1 = c * q + r /\ c = (a * p + q - 1) \div q
  BY <1>2, DivisionOf
<1>4. PICK e \in Nat, s \in 0 .. q - 1 :
        b * p + q - 1 = e * q + s /\ e = (b * p + q - 1) \div q
  BY <1>2, DivisionOf
<1>5. PICK j \in Nat : k = j + 1 /\ k - 1 = j /\ c <= j /\ j + 1 <= e
  <2>1. k - 1 \in Nat /\ k = (k - 1) + 1 /\ c <= k - 1 /\ (k - 1) + 1 <= e
    BY <1>3, <1>4
  <2> QED
    BY <2>1
<1>6. /\ j * q \in Nat /\ c * q \in Nat /\ e * q \in Nat
      /\ c * q <= j * q /\ j * q + q <= e * q
  <2>1. PICK u \in Nat : j = c + u
    <3>1. j - c \in Nat /\ j = c + (j - c)
      BY <1>5
    <3> QED
      BY <3>1
  <2>2. PICK v \in Nat : e = (j + 1) + v
    <3>1. e - (j + 1) \in Nat /\ e = (j + 1) + (e - (j + 1))
      BY <1>5
    <3> QED
      BY <3>1
  <2>3. /\ j * q = c * q + u * q /\ e * q = (j + 1) * q + v * q
        /\ (j + 1) * q = j * q + 1 * q /\ 1 * q = q
    BY <2>1, <2>2, Distributes
  <2>4. u * q \in Nat /\ v * q \in Nat /\ j * q \in Nat /\ c * q \in Nat
        /\ e * q \in Nat
    OBVIOUS
  <2> QED
    BY <2>3, <2>4
<1>7. a * p <= j * q /\ j * q < b * p
  BY <1>1, <1>3, <1>4, <1>6
<1>8. PICK z \in Nat, t \in 0 .. p - 1 : j * q = z * p + t /\ z = (j * q) \div p
  BY <1>6, DivisionOf
<1>9. z >= a
  <2> SUFFICES ASSUME z < a PROVE FALSE
    BY <1>8
  <2>1. PICK u \in Nat : a = (z + 1) + u
    <3>1. a - (z + 1) \in Nat /\ a = (z + 1) + (a - (z + 1))
      BY <1>8
    <3> QED
      BY <3>1
  <2>2. a * p = (z + 1) * p + u * p /\ (z + 1) * p = z * p + 1 * p /\ 1 * p = p
    BY <2>1, Distributes
  <2>3. u * p \in Nat /\ z * p \in Nat
    OBVIOUS
  <2> QED
    BY <1>1, <1>6, <1>7, <1>8, <2>2, <2>3
<1>10. z < b
  <2> SUFFICES ASSUME z >= b PROVE FALSE
    BY <1>8
  <2>1. PICK u \in Nat : z = b + u
    <3>1. z - b \in Nat /\ z = b + (z - b)
      BY <1>8
    <3> QED
      BY <3>1
  <2>2. z * p = b * p + u * p
    BY <2>1, Distributes
  <2>3. u * p \in Nat /\ z * p \in Nat
    OBVIOUS
  <2> QED
    BY <1>1, <1>6, <1>7, <1>8, <2>2, <2>3
<1> QED
  BY <1>5, <1>8, <1>9, <1>10

-----------------------------------------------------------------------------
(* The audio.                                                              *)

\* What each stage has been given is what came out of the stage before.
AudioInv ==
  /\ IInv
  /\ AudioFaithful
  /\ setup.mode = "fm" =>
       prev_sample = IF decimated = <<>> THEN Zero ELSE decimated[Len(decimated)]
  /\ Deemphasise => deemph_filter = Len(decimated) * Per
  /\ BlockDc => dc_block_filter = Len(decimated) * Per
  /\ Resample => audio_resampler = Len(decimated) * Per

\* A chunk of outputs joins those before it.
LEMMA ChunkJoins ==
  ASSUME AudioInv, Demodulate
  PROVE  \E d, w \in Nat :
           /\ d = Len(decimated) /\ w = Len(work) /\ Len(decimated') = d + w
           /\ decimated = <<>> <=> d = 0
           /\ decimated' = <<>> <=> d + w = 0
           /\ work = <<>> <=> w = 0
           /\ \A k \in 1 .. d + w :
                decimated'[k] = IF k <= d THEN decimated[k] ELSE work[k - d]
<1>1. PICK t \in Nat, n \in Nat : At(t, n)
  <2>1. given \in Nat
    BY PipelineAssumption DEF PipelineParameters, TypeOK, AudioInv, IInv
  <2> QED
    BY <2>1 DEF AudioInv, IInv
<1> DEFINE S == {IdealOutput(k) : k \in Int}
<1>2. decimated \in Seq(S) /\ work \in Seq(S)
  BY <1>1, PrefixGrows DEF AudioInv, IInv, At, Demodulate
<1>3. decimated' = decimated \o work
  BY DEF Demodulate
<1> HIDE DEF S
<1>4. /\ decimated' \in Seq(S) /\ Len(decimated') = Len(decimated) + Len(work)
      /\ \A k \in 1 .. Len(decimated) + Len(work) :
           decimated'[k] = IF k <= Len(decimated) THEN decimated[k]
                           ELSE work[k - Len(decimated)]
  BY <1>2, <1>3, ConcatProperties
<1>5. Len(decimated) \in Nat /\ Len(work) \in Nat
  BY <1>2, LenProperties
<1>6. /\ decimated = <<>> <=> Len(decimated) = 0
      /\ work = <<>> <=> Len(work) = 0
      /\ decimated' = <<>> <=> Len(decimated') = 0
  BY <1>2, <1>4, EmptySeq
<1> QED
  BY <1>4, <1>5, <1>6

\* The parts of a chunk's samples, behind those of d samples before it.
LEMMA Halves ==
  ASSUME NEW d \in Nat, NEW w \in Nat, NEW i \in 1 .. 2 * w
  PROVE  /\ (2 * d + i + 1) \div 2 = d + (i + 1) \div 2
         /\ (i + 1) \div 2 \in 1 .. w
         /\ (2 * d + i) % 2 = i % 2
OBVIOUS

LEMMA AudioGoesOn ==
  ASSUME AudioInv, Demodulate,
         NEW d \in Nat, NEW w \in Nat, NEW v \in {1, 2}, v = Per,
         d = Len(decimated), w = Len(work), Len(decimated') = d + w,
         decimated = <<>> <=> d = 0,
         \A k \in 1 .. d + w :
           decimated'[k] = IF k <= d THEN decimated[k] ELSE work[k - d]
  PROVE  AudioFaithful'
<1> DEFINE m == v * d
           n == v * w
<1>1. /\ m \in Nat /\ n \in Nat /\ v * (d + w) = m + n /\ d * v = m
      /\ (d + w) * v = m + n
      /\ v = 1 => m = d /\ n = w
      /\ v = 2 => m = 2 * d /\ n = 2 * w
  OBVIOUS
<1> HIDE DEF m, n
<1>2. /\ setup' = setup /\ Raw' = Raw /\ Resample' = Resample
      /\ Deemphasise' = Deemphasise /\ BlockDc' = BlockDc
      /\ \A i \in Nat : WaitedFor(i)' = WaitedFor(i) /\ Outputs(i)' = Outputs(i)
  BY DEF Demodulate, config, Raw, Resample, Deemphasise, BlockDc, WaitedFor, Outputs
<1>3. /\ v = 1 <=> ~Raw
      /\ Raw => setup.mode # "fm"
  BY DEF Per, Raw
<1>4. \A i \in 1 .. m : IdealDemodulated(i)' = IdealDemodulated(i)
  <2> TAKE i \in 1 .. m
  <2>1. CASE setup.mode = "fm"
    <3>1. /\ i \in 1 .. d /\ i \in 1 .. d + w /\ i <= d
          /\ i # 1 => i - 1 \in 1 .. d + w /\ i - 1 <= d
      BY <1>1, <1>3, <2>1
    <3>2. decimated'[i] = decimated[i]
      BY <3>1
    <3>3. CASE i = 1
      BY <1>2, <2>1, <3>2, <3>3 DEF IdealDemodulated
    <3>4. CASE i # 1
      <4>1. decimated'[i - 1] = decimated[i - 1]
        BY <3>1, <3>4
      <4> QED
        BY <1>2, <2>1, <3>2, <3>4, <4>1 DEF IdealDemodulated
    <3> QED
      BY <3>3, <3>4
  <2>2. CASE Raw
    <3> DEFINE h == (i + 1) \div 2
    <3>1. h \in 1 .. d /\ h \in 1 .. d + w /\ h <= d
      BY <1>1, <1>3, <2>2
    <3>2. decimated'[h] = decimated[h]
      BY <3>1
    <3> QED
      BY <1>2, <1>3, <2>2, <3>2 DEF IdealDemodulated, RawPart
  <2>3. CASE setup.mode # "fm" /\ ~Raw
    <3>1. i \in 1 .. d + w /\ i <= d
      BY <1>1, <1>3, <2>3
    <3>2. decimated'[i] = decimated[i]
      BY <3>1
    <3> QED
      BY <1>2, <2>3, <3>2 DEF IdealDemodulated
  <2> QED
    BY <2>1, <2>2, <2>3
<1>5. /\ Demodulated = [i \in 1 .. n |-> Demodulated[i]]
      /\ Len(Demodulated) = n
  BY DemodulatedIs DEF n
<1>15. \A i \in 1 .. n :
         /\ setup.mode = "fm" => Demodulated[i] = <<"fm", work[i], Previous(i)>>
         /\ Raw => Demodulated[i] = <<RawPart(i), work[(i + 1) \div 2]>>
         /\ setup.mode # "fm" /\ ~Raw => Demodulated[i] = <<setup.mode, work[i]>>
  BY DemodulatedIs DEF n
<1>6. \A i \in 1 .. n : Demodulated[i] = IdealDemodulated(m + i)'
  <2> SUFFICES ASSUME NEW i \in 1 .. n, NEW k \in Nat, k = m + i
               PROVE  Demodulated[i] = IdealDemodulated(k)'
    BY <1>1
  <2>1. CASE setup.mode = "fm"
    <3>0. m = d /\ n = w
      BY <1>1, <1>3, <2>1
    <3>1. i \in 1 .. w /\ k = d + i /\ k \in 1 .. d + w /\ ~(k <= d) /\ k - d = i
      BY <3>0
    <3>2. decimated'[k] = work[i]
      BY <3>1
    <3>3. Previous(i) = IF k = 1 THEN Zero ELSE decimated'[k - 1]
      <4>1. CASE i # 1
        <5>1. k # 1 /\ k - 1 \in 1 .. d + w /\ ~(k - 1 <= d) /\ (k - 1) - d = i - 1
          BY <3>1, <4>1
        <5>2. decimated'[k - 1] = work[i - 1]
          BY <5>1
        <5> QED
          BY <4>1, <5>1, <5>2 DEF Previous
      <4>2. CASE i = 1 /\ d = 0
        <5>1. k = 1 /\ prev_sample = Zero
          BY <2>1, <3>1, <4>2 DEF AudioInv
        <5> QED
          BY <4>2, <5>1 DEF Previous
      <4>3. CASE i = 1 /\ d # 0
        <5>1. k # 1 /\ k - 1 = d /\ d \in 1 .. d + w /\ d <= d
          BY <3>1, <4>3
        <5>2. decimated'[k - 1] = decimated[d]
          BY <5>1
        <5>3. prev_sample = decimated[d]
          BY <2>1, <4>3 DEF AudioInv
        <5> QED
          BY <4>3, <5>1, <5>2, <5>3 DEF Previous
      <4> QED
        BY <4>1, <4>2, <4>3
    <3>4. Demodulated[i] = <<"fm", work[i], Previous(i)>>
      BY <1>15, <2>1
    <3>5. setup'.mode = "fm" /\ ~Raw'
      BY <1>2, <1>3, <2>1
    <3>6. IdealDemodulated(k)' =
            <<"fm", decimated'[k], IF k = 1 THEN Zero ELSE decimated'[k - 1]>>
      BY <3>5 DEF IdealDemodulated
    <3> QED
      BY <3>2, <3>3, <3>4, <3>6
  <2>2. CASE Raw
    <3> DEFINE h == (i + 1) \div 2
               j == (k + 1) \div 2
    <3>0. m = 2 * d /\ n = 2 * w
      BY <1>1, <1>3, <2>2
    <3>1. /\ j = d + h /\ h \in 1 .. w /\ j \in 1 .. d + w /\ ~(j <= d) /\ j - d = h
          /\ k % 2 = i % 2
      <4>1. i \in 1 .. 2 * w /\ k = 2 * d + i
        BY <3>0
      <4>2. /\ (2 * d + i + 1) \div 2 = d + (i + 1) \div 2
            /\ (i + 1) \div 2 \in 1 .. w
            /\ (2 * d + i) % 2 = i % 2
        BY <4>1, Halves
      <4>3. j = d + h /\ h \in 1 .. w /\ k % 2 = i % 2
        BY <4>1, <4>2
      <4> HIDE DEF h, j
      <4> QED
        BY <4>3
    <3>2. decimated'[j] = work[h] /\ RawPart(k) = RawPart(i)
      BY <3>1 DEF RawPart
    <3>3. RawPart(k)' = RawPart(k)
      BY DEF RawPart
    <3> HIDE DEF h, j
    <3>4. IdealDemodulated(k)' = <<RawPart(k), decimated'[j]>>
      BY <1>2, <1>3, <2>2, <3>3 DEF IdealDemodulated, j
    <3>5. Demodulated[i] = <<RawPart(i), work[h]>>
      BY <1>15, <2>2 DEF h
    <3> QED
      BY <3>2, <3>4, <3>5
  <2>3. CASE setup.mode # "fm" /\ ~Raw
    <3>1. k \in 1 .. d + w /\ ~(k <= d) /\ k - d = i
      BY <1>1, <1>3, <2>3
    <3>2. decimated'[k] = work[i]
      BY <3>1
    <3> QED
      BY <1>2, <1>15, <2>3, <3>2 DEF IdealDemodulated
  <2> QED
    BY <2>1, <2>2, <2>3
<1> DEFINE e == Deemphasised(Demodulated)
           f == DcBlocked(e)
<1>7. /\ e = [i \in 1 .. n |-> e[i]] /\ Len(e) = n
      /\ \A i \in 1 .. n :
           e[i] = IF Deemphasise THEN <<"deemph", m + i, Demodulated[i]>>
                  ELSE Demodulated[i]
  <2>1. CASE Deemphasise
    <3>1. deemph_filter = m
      BY <1>1, <2>1 DEF AudioInv
    <3>2. e = [i \in 1 .. n |-> <<"deemph", m + i, Demodulated[i]>>]
      BY <1>5, <2>1, <3>1 DEF Deemphasised
    <3>3. e = [i \in 1 .. n |-> e[i]]
      BY <3>2
    <3>4. Len(e) = n
      BY <1>1, <3>3, FunctionOf
    <3> QED
      BY <2>1, <3>2, <3>3, <3>4
  <2>2. CASE ~Deemphasise
    <3>1. e = Demodulated
      BY <2>2 DEF Deemphasised
    <3> QED
      BY <1>5, <2>2, <3>1
  <2> QED
    BY <2>1, <2>2
<1> HIDE DEF e
<1>8. /\ f = [i \in 1 .. n |-> f[i]] /\ Len(f) = n
      /\ \A i \in 1 .. n :
           f[i] = IF BlockDc THEN <<"dc_block", m + i, e[i]>> ELSE e[i]
  <2>1. CASE BlockDc
    <3>1. dc_block_filter = m
      BY <1>1, <2>1 DEF AudioInv
    <3>2. f = [i \in 1 .. n |-> <<"dc_block", m + i, e[i]>>]
      BY <1>7, <2>1, <3>1 DEF DcBlocked
    <3>3. f = [i \in 1 .. n |-> f[i]]
      BY <3>2
    <3>4. Len(f) = n
      BY <1>1, <3>3, FunctionOf
    <3> QED
      BY <2>1, <3>2, <3>3, <3>4
  <2>2. CASE ~BlockDc
    <3>1. f = e
      BY <2>2 DEF DcBlocked
    <3> QED
      BY <1>7, <2>2, <3>1
  <2> QED
    BY <2>1, <2>2
<1> HIDE DEF f
<1>9. \A i \in 1 .. m : IdealFiltered(i)' = IdealFiltered(i)
  BY <1>2, <1>4 DEF IdealFiltered
<1>10. \A i \in 1 .. n : f[i] = IdealFiltered(m + i)'
  <2> SUFFICES ASSUME NEW i \in 1 .. n, NEW k \in Nat, k = m + i
               PROVE  f[i] = IdealFiltered(k)'
    BY <1>1
  <2>1. Demodulated[i] = IdealDemodulated(k)'
    BY <1>6
  <2>2. e[i] = IF Deemphasise THEN <<"deemph", k, IdealDemodulated(k)'>>
               ELSE IdealDemodulated(k)'
    BY <1>7, <2>1
  <2>3. f[i] = IF BlockDc THEN <<"dc_block", k, e[i]>> ELSE e[i]
    BY <1>8
  <2> QED
    BY <1>2, <2>2, <2>3 DEF IdealFiltered
<1>11. /\ audio' = audio \o Resampled(f)
       /\ audio = [i \in 1 .. (IF Resample THEN Outputs(m) ELSE m) |-> IdealAudio(i)]
  <2>1. audio' = audio \o Resampled(f)
    BY DEF Demodulate, f, e
  <2>2. Len(decimated) * (IF Raw THEN 2 ELSE 1) = m
    BY <1>1 DEF Per
  <2> QED
    BY <2>1, <2>2 DEF AudioInv, AudioFaithful
<1>12. Len(decimated') * (IF Raw' THEN 2 ELSE 1) = m + n
  BY <1>1, <1>2 DEF Per
<1>13. CASE ~Resample
  <2>1. audio' = audio \o f
    BY <1>11, <1>13 DEF Resampled
  <2>2. audio = [i \in 1 .. m |-> audio[i]] /\ \A i \in 1 .. m : audio[i] = IdealFiltered(i)
    BY <1>11, <1>13 DEF IdealAudio
  <2>3. audio' = [k \in 1 .. m + n |-> IF k <= m THEN audio[k] ELSE f[k - m]]
    <3>1. Listed(audio, m) /\ Listed(f, n)
      BY <1>8, <2>2 DEF Listed
    <3>2. m \in Nat /\ n \in Nat
      BY <1>1
    <3>3. Listed(audio', m + n) /\ Joins(audio', audio, f, m, n)
      BY <2>1, <3>1, <3>2, Joined, Zenon
    <3> QED
      BY <3>3 DEF Listed, Joins
  <2>4. \A k \in 1 .. m + n :
          (IF k <= m THEN audio[k] ELSE f[k - m]) = IdealAudio(k)'
    <3> TAKE k \in 1 .. m + n
    <3>1. IdealAudio(k)' = IdealFiltered(k)'
      BY <1>2, <1>13 DEF IdealAudio
    <3>2. CASE k <= m
      <4>1. k \in 1 .. m
        BY <1>1, <3>2
      <4> QED
        BY <1>9, <2>2, <3>1, <3>2, <4>1
    <3>3. CASE ~(k <= m)
      <4>1. PICK i \in 1 .. n : i = k - m /\ k = m + i
        BY <1>1, <3>3
      <4>2. f[i] = IdealFiltered(k)'
        BY <1>10, <4>1
      <4> QED
        BY <3>1, <3>3, <4>1, <4>2
    <3> QED
      BY <3>2, <3>3
  <2>5. audio' = [k \in 1 .. m + n |-> IdealAudio(k)']
    BY <2>3, <2>4
  <2> QED
    BY <1>2, <1>12, <1>13, <2>5 DEF AudioFaithful
<1>14. CASE Resample
  <2>1. setup.output_rate \in Nat \ {0} /\ setup.demod_rate \in Nat \ {0}
    BY PipelineAssumption DEF PipelineParameters, AudioInv, IInv, TypeOK
  <2>2. PICK a \in Nat, b \in Nat :
          a = Outputs(m) /\ b = Outputs(m + n) - Outputs(m) /\ a + b = Outputs(m + n)
    <3>1. /\ Outputs(m) \in Nat /\ Outputs(m + n) \in Nat
          /\ Outputs(m) <= Outputs(m + n)
      BY <1>1, <2>1, OutputsGrow DEF Outputs
    <3> QED
      BY <3>1
  <2> DEFINE g == Resampled(f)
  <2>3. g = [k \in 1 .. b |-> <<"resampled", a + k, f[WaitedFor(a + k) - m]>>]
    <3>1. audio_resampler = m
      BY <1>1, <1>14 DEF AudioInv
    <3> QED
      BY <1>8, <1>14, <2>2, <3>1 DEF Resampled
  <2>4. g = [k \in 1 .. b |-> g[k]]
        /\ \A k \in 1 .. b : g[k] = <<"resampled", a + k, f[WaitedFor(a + k) - m]>>
    BY <2>3
  <2> HIDE DEF g
  <2>5. audio = [i \in 1 .. a |-> audio[i]]
        /\ \A i \in 1 .. a : audio[i] = <<"resampled", i, IdealFiltered(WaitedFor(i))>>
    BY <1>11, <1>14, <2>2 DEF IdealAudio
  <2>6. audio' = [k \in 1 .. a + b |-> IF k <= a THEN audio[k] ELSE g[k - a]]
    <3>1. Listed(audio, a) /\ Listed(g, b)
      BY <2>4, <2>5 DEF Listed
    <3>2. audio' = audio \o g
      BY <1>11 DEF g
    <3>3. Listed(audio', a + b) /\ Joins(audio', audio, g, a, b)
      BY <3>1, <3>2, Joined, Zenon
    <3> QED
      BY <3>3 DEF Listed, Joins
  <2>7. \A k \in 1 .. a + b :
          (IF k <= a THEN audio[k] ELSE g[k - a]) = IdealAudio(k)'
    <3> SUFFICES ASSUME NEW k \in 1 .. a + b, NEW x, x = WaitedFor(k)
                 PROVE  (IF k <= a THEN audio[k] ELSE g[k - a]) = IdealAudio(k)'
      OBVIOUS
    <3>1. IdealAudio(k)' = <<"resampled", k, IdealFiltered(x)'>>
      <4>1. k \in Nat
        BY <2>2
      <4>2. WaitedFor(k)' = x
        BY <1>2, <4>1
      <4> QED
        BY <1>2, <1>14, <4>2 DEF IdealAudio
    <3>2. CASE k <= a
      <4>1. x \in 1 .. m
        <5>1. 0 * setup.output_rate = 0
              /\ (0 + setup.demod_rate - 1) \div setup.demod_rate = 0
          BY <2>1, NoOutputYet
        <5>2. k > (0 * setup.output_rate + setup.demod_rate - 1) \div setup.demod_rate
          BY <5>1
        <5>3. /\ k <= (m * setup.output_rate + setup.demod_rate - 1)
                        \div setup.demod_rate
              /\ k \in Nat
          BY <2>2, <3>2 DEF Outputs
        <5>4. ((k - 1) * setup.demod_rate) \div setup.output_rate + 1
                \in 0 + 1 .. m
          BY <1>1, <2>1, <5>2, <5>3, Waiting
        <5> QED
          BY <5>4 DEF WaitedFor
      <4>2. k \in 1 .. a /\ audio[k] = <<"resampled", k, IdealFiltered(x)>>
        BY <2>5, <3>2
      <4> QED
        BY <1>9, <3>1, <3>2, <4>1, <4>2
    <3>3. CASE ~(k <= a)
      <4>1. x \in m + 1 .. m + n
        <5>1. /\ k > (m * setup.output_rate + setup.demod_rate - 1)
                       \div setup.demod_rate
              /\ k <= ((m + n) * setup.output_rate + setup.demod_rate - 1)
                        \div setup.demod_rate
              /\ k \in Nat
          BY <2>2, <3>3 DEF Outputs
        <5>2. m + n \in Nat
          BY <1>1
        <5>3. ((k - 1) * setup.demod_rate) \div setup.output_rate + 1
                \in m + 1 .. m + n
          BY <1>1, <2>1, <5>1, <5>2, Waiting
        <5> QED
          BY <5>3 DEF WaitedFor
      <4>2. PICK i \in 1 .. n : i = x - m /\ x = m + i
        <5>1. x - m \in 1 .. n /\ x = m + (x - m)
          BY <1>1, <4>1
        <5> QED
          BY <5>1
      <4>3. PICK j \in 1 .. b : j = k - a /\ k = a + j
        BY <3>3
      <4>4. g[j] = <<"resampled", k, f[i]>>
        BY <2>4, <4>2, <4>3
      <4>5. f[i] = IdealFiltered(x)'
        BY <1>10, <4>2
      <4> QED
        BY <3>1, <3>3, <4>3, <4>4, <4>5
    <3> QED
      BY <3>2, <3>3
  <2>8. audio' = [k \in 1 .. a + b |-> IdealAudio(k)']
    BY <2>6, <2>7
  <2>9. Outputs(m + n)' = a + b
    BY <1>1, <1>2, <2>2
  <2> QED
    BY <1>2, <1>12, <1>14, <2>8, <2>9 DEF AudioFaithful
<1> QED
  BY <1>13, <1>14

\* The discriminator keeps the last output, and every filter counts.
LEMMA StateGoesOn ==
  ASSUME AudioInv, Demodulate,
         NEW d \in Nat, NEW w \in Nat, NEW v \in {1, 2}, v = Per,
         d = Len(decimated), w = Len(work), Len(decimated') = d + w,
         work = <<>> <=> w = 0,
         decimated' = <<>> <=> d + w = 0,
         \A k \in 1 .. d + w :
           decimated'[k] = IF k <= d THEN decimated[k] ELSE work[k - d]
  PROVE  /\ setup'.mode = "fm" =>
              prev_sample' = IF decimated' = <<>> THEN Zero
                             ELSE decimated'[Len(decimated')]
         /\ Deemphasise' => deemph_filter' = Len(decimated') * Per'
         /\ BlockDc' => dc_block_filter' = Len(decimated') * Per'
         /\ Resample' => audio_resampler' = Len(decimated') * Per'
<1>1. /\ setup' = setup /\ Per' = v /\ (Resample' <=> Resample)
      /\ (Deemphasise' <=> Deemphasise) /\ (BlockDc' <=> BlockDc)
  BY DEF Demodulate, config, Per, Raw, Resample, Deemphasise, BlockDc
<1>2. Len(Demodulated) = v * w
  BY DemodulatedIs
<1>3. d * v + v * w = (d + w) * v
  OBVIOUS
<1>4. Deemphasise' => deemph_filter' = Len(decimated') * Per'
  BY <1>1, <1>2, <1>3 DEF Demodulate, AudioInv, Given
<1>5. BlockDc' => dc_block_filter' = Len(decimated') * Per'
  BY <1>1, <1>2, <1>3 DEF Demodulate, AudioInv, Given
<1>6. Resample' => audio_resampler' = Len(decimated') * Per'
  BY <1>1, <1>2, <1>3 DEF Demodulate, AudioInv, Given
<1>7. ASSUME setup'.mode = "fm"
      PROVE  prev_sample' = IF decimated' = <<>> THEN Zero
                            ELSE decimated'[Len(decimated')]
  <2>1. prev_sample' = Keep
    BY <1>1, <1>7 DEF Demodulate
  <2>2. CASE w = 0
    <3>1. decimated' = decimated
      <4>1. decimated' = decimated \o <<>>
        BY <2>2 DEF Demodulate
      <4>2. PICK t \in Nat : decimated = IdealPrefix(t)
        <5>1. given \in Nat
          BY PipelineAssumption DEF PipelineParameters, TypeOK, AudioInv, IInv
        <5> QED
          BY <5>1 DEF AudioInv, IInv, At
      <4>3. decimated \in Seq({IdealOutput(k) : k \in Int})
        BY <4>2, PrefixGrows DEF AudioInv, IInv
      <4> QED
        BY <4>1, <4>3
    <3> QED
      BY <1>1, <1>7, <2>1, <2>2, <3>1 DEF Keep, AudioInv
  <2>3. CASE w # 0
    <3>1. d + w \in 1 .. d + w /\ ~(d + w <= d) /\ (d + w) - d = w /\ d + w # 0
      BY <2>3
    <3>2. decimated'[Len(decimated')] = work[w]
      BY <3>1
    <3> QED
      BY <2>1, <2>3, <3>1, <3>2 DEF Keep
  <2> QED
    BY <2>2, <2>3
<1> QED
  BY <1>4, <1>5, <1>6, <1>7

\* Every stage after the decimator is given every sample of the one before it
\* once and in order, in every mode (demod.c:6-73, dsp.c:376-489,
\* pipeline.c:53-66).
THEOREM AudioIsFaithful == Spec => []AudioFaithful
<1>1. Init => AudioInv
  <2> SUFFICES ASSUME Init PROVE AudioInv
    OBVIOUS
  <2>1. Len(decimated) = 0 /\ decimated = <<>> /\ audio = <<>> /\ setup \in Setups
        /\ prev_sample = Zero
        /\ deemph_filter = 0 /\ dc_block_filter = 0 /\ audio_resampler = 0
    BY DEF Init
  <2>2. Outputs(0) = 0
    BY <2>1, PipelineAssumption DEF PipelineParameters, Outputs
  <2>3. Per \in Nat /\ 0 * Per = 0 /\ 0 * (IF Raw THEN 2 ELSE 1) = 0
    BY DEF Per
  <2>4. AudioFaithful
    <3>1. (IF Resample THEN Outputs(0) ELSE 0) = 0
      BY <2>2
    <3>2. [i \in 1 .. 0 |-> IdealAudio(i)] = <<>>
      OBVIOUS
    <3> QED
      BY <2>1, <2>3, <3>1, <3>2 DEF AudioFaithful
  <2>5. IInv
    BY InitIInv
  <2> QED
    BY <2>1, <2>3, <2>4, <2>5 DEF AudioInv
<1>2. AudioInv /\ [Next]_vars => AudioInv'
  <2> SUFFICES ASSUME AudioInv, [Next]_vars PROVE AudioInv'
    OBVIOUS
  <2>1. IInv'
    BY StepIInv DEF AudioInv
  <2>2. CASE Demodulate
    <3>1. PICK v \in {1, 2} : v = Per
      BY DEF Per
    <3>2. PICK d, w \in Nat :
            /\ d = Len(decimated) /\ w = Len(work) /\ Len(decimated') = d + w
            /\ decimated = <<>> <=> d = 0
            /\ decimated' = <<>> <=> d + w = 0
            /\ work = <<>> <=> w = 0
            /\ \A k \in 1 .. d + w :
                 decimated'[k] = IF k <= d THEN decimated[k] ELSE work[k - d]
      BY <2>2, ChunkJoins
    <3>3. AudioFaithful'
      BY <2>2, <3>1, <3>2, AudioGoesOn
    <3>4. /\ setup'.mode = "fm" =>
               prev_sample' = IF decimated' = <<>> THEN Zero
                              ELSE decimated'[Len(decimated')]
          /\ Deemphasise' => deemph_filter' = Len(decimated') * Per'
          /\ BlockDc' => dc_block_filter' = Len(decimated') * Per'
          /\ Resample' => audio_resampler' = Len(decimated') * Per'
      BY <2>2, <3>1, <3>2, StateGoesOn
    <3> QED
      BY <2>1, <3>3, <3>4 DEF AudioInv
  <2>3. CASE ~Demodulate
    <3>1. UNCHANGED <<decimated, audio, prev_sample, filters, setup>>
      BY <2>3 DEF Next, vars, carried, history, config, Process, Shift, NoShift,
                  PassThrough, Filter, Slide, Stage, Idle
    <3>2. AudioFaithful' = AudioFaithful
      BY <3>1 DEF AudioFaithful, IdealAudio, IdealFiltered, IdealDemodulated,
                  Outputs, WaitedFor, Raw, Resample, Deemphasise, BlockDc, RawPart
    <3> QED
      BY <2>1, <3>1, <3>2
         DEF AudioInv, filters, Per, Raw, Resample, Deemphasise, BlockDc
  <2> QED
    BY <2>2, <2>3
<1>3. AudioInv => AudioFaithful
  BY DEF AudioInv
<1> QED
  BY <1>1, <1>2, <1>3, PTL DEF Spec
=============================================================================
