-------------------------- MODULE FirKernelsProofs --------------------------
(***************************************************************************)
(* Either kernel adds up every tap's products once, for any number of      *)
(* taps.  The argument is the same for both: its products can be listed,   *)
(* two for every tap, each with the loop that forms it.                    *)
(***************************************************************************)
EXTENDS FirKernels, TLAPS

\* Two products for each of n taps; loop says which loop forms them.
Listing(loop, tap, sample, n) ==
  {Product(loop[k], tap + k, sample + k, p, p) : k \in 0 .. n - 1, p \in 0 .. 1}

DotLoop(n) ==
  [k \in 0 .. n - 1 |->
     IF k < Left(n) THEN <<"unrolled", k - (k % 4)>> ELSE <<"rest", k>>]

DotAvx2Loop(n) ==
  [k \in 0 .. n - 1 |->
     LET j == k \div 4
     IN IF k >= Left(n) THEN <<"rest", k>>
        ELSE IF j < Left(n \div 4) THEN <<"unrolled", j - (j % 4)>>
        ELSE <<"vectors", j>>]

-----------------------------------------------------------------------------
(* Rounds of four.                                                         *)

LEMMA Fours ==
  ASSUME NEW k \in Nat
  PROVE  /\ k \div 4 \in Nat /\ k % 4 \in 0 .. 3
         /\ k = 4 * (k \div 4) + (k % 4)
OBVIOUS

LEMMA FoursAre ==
  ASSUME NEW q \in Nat, NEW a \in 0 .. 3
  PROVE  (4 * q + a) \div 4 = q /\ (4 * q + a) % 4 = a
OBVIOUS

\* Round k takes the indices from k to k + 3, all of them below Left.
LEMMA RoundTakes ==
  ASSUME NEW n \in Nat, NEW k \in Rounds(n), NEW a \in 0 .. 3
  PROVE  /\ k + a \in 0 .. n - 1 /\ k + a < Left(n)
         /\ (k + a) - ((k + a) % 4) = k
<1>1. k \in Nat /\ k % 4 = 0 /\ k + 4 <= n
  BY DEF Rounds
<1>2. PICK q \in Nat : k = 4 * q
  BY <1>1, Fours
<1>3. PICK m \in Nat, b \in 0 .. 3 : n = 4 * m + b /\ m = n \div 4
  BY Fours
<1>4. (k + a) % 4 = a
  BY <1>2, FoursAre
<1>5. q + 1 <= m
  BY <1>1, <1>2, <1>3
<1>6. k + a < 4 * m
  BY <1>2, <1>5
<1> QED
  BY <1>1, <1>3, <1>4, <1>6 DEF Left

\* Every index below Left is taken by a round.
LEMMA RoundOf ==
  ASSUME NEW n \in Nat, NEW i \in Nat, i < Left(n)
  PROVE  /\ i - (i % 4) \in Rounds(n) /\ i % 4 \in 0 .. 3
         /\ (i - (i % 4)) + (i % 4) = i
<1>1. PICK q \in Nat, a \in 0 .. 3 : i = 4 * q + a /\ q = i \div 4 /\ a = i % 4
  BY Fours
<1>2. PICK m \in Nat, b \in 0 .. 3 : n = 4 * m + b /\ m = n \div 4
  BY Fours
<1>3. i < 4 * m
  BY <1>2 DEF Left
<1>4. q + 1 <= m
  BY <1>1, <1>3
<1>5. i - (i % 4) = 4 * q
  BY <1>1
<1>6. (4 * q + 0) % 4 = 0
  BY FoursAre
<1>7. 4 * q \in 0 .. n - 1 /\ 4 * q + 4 <= n
  BY <1>2, <1>4
<1> QED
  BY <1>1, <1>5, <1>6, <1>7 DEF Rounds

-----------------------------------------------------------------------------
(* The kernels.                                                            *)

\* The scalar kernel: its loop by fours, and the loop after it.
LEMMA DotLists ==
  ASSUME NEW tap \in Int, NEW sample \in Int, NEW n \in Nat
  PROVE  Dot(tap, sample, n) = Listing(DotLoop(n), tap, sample, n)
<1> DEFINE D == Dot(tap, sample, n)
           L == Listing(DotLoop(n), tap, sample, n)
<1>0. Left(n) \in Nat /\ Left(n) <= n
  BY Fours DEF Left
<1>1. ASSUME NEW x \in D PROVE x \in L
  <2>1. CASE \E k \in Rounds(n), a \in 0 .. 3, p \in 0 .. 1 :
               x = Product(<<"unrolled", k>>, tap + k + a, sample + k + a, p, p)
    <3>1. PICK k \in Rounds(n), a \in 0 .. 3, p \in 0 .. 1 :
            x = Product(<<"unrolled", k>>, tap + k + a, sample + k + a, p, p)
      BY <2>1
    <3> DEFINE i == k + a
    <3>2. /\ i \in 0 .. n - 1 /\ i < Left(n) /\ i - (i % 4) = k
          /\ k \in Int
      BY RoundTakes DEF Rounds
    <3>3. DotLoop(n)[i] = <<"unrolled", k>>
      BY <3>2 DEF DotLoop
    <3>4. tap + k + a = tap + i /\ sample + k + a = sample + i
      BY <3>2
    <3> HIDE DEF i
    <3>5. x = Product(DotLoop(n)[i], tap + i, sample + i, p, p)
      BY <3>1, <3>3, <3>4
    <3> QED
      BY <3>2, <3>5 DEF Listing
  <2>2. CASE x \in Remainder(tap, sample, Left(n), n)
    <3>1. PICK k \in Left(n) .. n - 1, p \in 0 .. 1 :
            x = Product(<<"rest", k>>, tap + k, sample + k, p, p)
      BY <2>2 DEF Remainder
    <3>2. k \in 0 .. n - 1 /\ ~(k < Left(n))
      BY <1>0
    <3>3. DotLoop(n)[k] = <<"rest", k>>
      BY <3>2 DEF DotLoop
    <3> QED
      BY <3>1, <3>2, <3>3 DEF Listing
  <2> QED
    BY <2>1, <2>2 DEF Dot
<1>2. ASSUME NEW x \in L PROVE x \in D
  <2>1. PICK i \in 0 .. n - 1, p \in 0 .. 1 :
          x = Product(DotLoop(n)[i], tap + i, sample + i, p, p)
    BY DEF Listing
  <2>2. CASE i < Left(n)
    <3> DEFINE k == i - (i % 4)
               a == i % 4
    <3>1. k \in Rounds(n) /\ a \in 0 .. 3 /\ k + a = i /\ k \in Int
      BY <2>2, RoundOf DEF Rounds
    <3>2. DotLoop(n)[i] = <<"unrolled", k>>
      BY <2>2 DEF DotLoop
    <3> HIDE DEF k, a
    <3>3. tap + k + a = tap + i /\ sample + k + a = sample + i
      BY <3>1
    <3>4. x = Product(<<"unrolled", k>>, tap + k + a, sample + k + a, p, p)
      BY <2>1, <3>2, <3>3
    <3> QED
      BY <3>1, <3>4 DEF Dot
  <2>3. CASE ~(i < Left(n))
    <3>1. i \in Left(n) .. n - 1
      BY <1>0, <2>3
    <3>2. DotLoop(n)[i] = <<"rest", i>>
      BY <2>3 DEF DotLoop
    <3> QED
      BY <2>1, <3>1, <3>2 DEF Dot, Remainder
  <2> QED
    BY <2>2, <2>3
<1> QED
  BY <1>1, <1>2

\* The two halves of a vector's four samples: float 2 * c + p is part p of
\* sample c, and its tap is tap c, once for each part.
LEMMA Lane ==
  ASSUME NEW j \in Nat, NEW c \in 0 .. 3, NEW p \in 0 .. 1
  PROVE  LET lane == 2 * c + p
             i    == 8 * j + lane
         IN /\ lane \in 0 .. 7
            /\ PairTap(i) = 4 * j + c
            /\ i \div 2 = 4 * j + c
            /\ i % 2 = p
            /\ Folded(lane) = p
<1> DEFINE lane == 2 * c + p
           i    == 8 * j + lane
<1>1. lane \in 0 .. 7 /\ lane % 2 = p /\ lane \div 2 = c
  OBVIOUS
<1>2. i \div 8 = j /\ i % 8 = lane
  BY <1>1
<1>3. i = 2 * (4 * j + c) + p
  OBVIOUS
<1>4. i \div 2 = 4 * j + c /\ i % 2 = p
  BY <1>3
<1> QED
  BY <1>1, <1>2, <1>4 DEF PairTap, Folded

\* One multiplication of vectors adds both products of four taps.
LEMMA FmaddLists ==
  ASSUME NEW loop, NEW j \in Nat, NEW tap \in Int, NEW sample \in Int
  PROVE  Fmadd(loop, j, tap, sample) =
           {Product(loop, tap + (4 * j + c), sample + (4 * j + c), p, p) :
              c \in 0 .. 3, p \in 0 .. 1}
<1> DEFINE Lanes(lane) ==
             Product(loop, tap + PairTap(8 * j + lane),
                     sample + (8 * j + lane) \div 2,
                     (8 * j + lane) % 2, Folded(lane))
           Pair(c, p) ==
             Product(loop, tap + (4 * j + c), sample + (4 * j + c), p, p)
<1>1. Fmadd(loop, j, tap, sample) = {Lanes(lane) : lane \in 0 .. 7}
  BY DEF Fmadd
<1>2. \A c \in 0 .. 3, p \in 0 .. 1 :
        2 * c + p \in 0 .. 7 /\ Lanes(2 * c + p) = Pair(c, p)
  BY Lane
<1>3. \A lane \in 0 .. 7 :
        \E c \in 0 .. 3, p \in 0 .. 1 : lane = 2 * c + p
  <2> TAKE lane \in 0 .. 7
  <2>1. lane \div 2 \in 0 .. 3 /\ lane % 2 \in 0 .. 1
        /\ lane = 2 * (lane \div 2) + (lane % 2)
    OBVIOUS
  <2> QED
    BY <2>1
<1> HIDE DEF Lanes, Pair
<1>4. {Lanes(lane) : lane \in 0 .. 7} = {Pair(c, p) : c \in 0 .. 3, p \in 0 .. 1}
  BY <1>2, <1>3
<1> QED
  BY <1>1, <1>4 DEF Pair

\* The vector kernel: rounds of four vectors, vectors, and the last taps.
LEMMA DotAvx2Lists ==
  ASSUME NEW tap \in Int, NEW sample \in Int, NEW n \in Nat
  PROVE  DotAvx2(tap, sample, n) = Listing(DotAvx2Loop(n), tap, sample, n)
<1> DEFINE D  == DotAvx2(tap, sample, n)
           L  == Listing(DotAvx2Loop(n), tap, sample, n)
           n4 == n \div 4
           InRounds(x)  == \E g \in Rounds(n4), a \in 0 .. 3 :
                             x \in Fmadd(<<"unrolled", g>>, g + a, tap, sample)
           InVectors(x) == \E j \in Left(n4) .. n4 - 1 :
                             x \in Fmadd(<<"vectors", j>>, j, tap, sample)
           InRest(x)    == x \in Remainder(tap, sample, Left(n), n)
           Pair(loop, k, p) == Product(loop, tap + k, sample + k, p, p)
<1>1. \A x : x \in D <=> InRounds(x) \/ InVectors(x) \/ InRest(x)
  <2> DEFINE F(g, a) == Fmadd(<<"unrolled", g>>, g + a, tap, sample)
             G(j)    == Fmadd(<<"vectors", j>>, j, tap, sample)
             R == {F(g, a) : g \in Rounds(n4), a \in 0 .. 3}
             V == {G(j) : j \in Left(n4) .. n4 - 1}
  <2>1. D = (UNION R) \cup (UNION V) \cup Remainder(tap, sample, Left(n), n)
    BY DEF DotAvx2
  <2>2. \A S, x : x \in UNION S <=> \E m \in S : x \in m
    OBVIOUS
  <2> HIDE DEF F, G
  <2>3. \A x : (\E m \in R : x \in m) <=> \E g \in Rounds(n4), a \in 0 .. 3 : x \in F(g, a)
    OBVIOUS
  <2>4. \A x : (\E m \in V : x \in m) <=> \E j \in Left(n4) .. n4 - 1 : x \in G(j)
    OBVIOUS
  <2> HIDE DEF D, R, V
  <2>5. \A x : \/ x \in UNION R
               \/ x \in UNION V
               \/ x \in Remainder(tap, sample, Left(n), n)
               <=> x \in D
    BY <2>1
  <2> QED
    BY <2>2, <2>3, <2>4, <2>5 DEF F, G
<1>2. /\ n4 \in Nat /\ Left(n) = 4 * n4 /\ Left(n) <= n
      /\ Left(n4) \in Nat /\ Left(n4) <= n4
  BY Fours DEF Left
<1>3. \A loop : \A j \in Nat :
        Fmadd(loop, j, tap, sample) =
          {Pair(loop, 4 * j + c, p) : c \in 0 .. 3, p \in 0 .. 1}
  BY FmaddLists
<1>4. ASSUME NEW j \in Nat, j < n4, NEW c \in 0 .. 3
      PROVE  /\ 4 * j + c \in 0 .. n - 1
             /\ DotAvx2Loop(n)[4 * j + c] = IF j < Left(n4)
                                            THEN <<"unrolled", j - (j % 4)>>
                                            ELSE <<"vectors", j>>
  <2>1. 4 * j + c \in 0 .. n - 1 /\ ~(4 * j + c >= Left(n))
    BY <1>2, <1>4
  <2>2. (4 * j + c) \div 4 = j
    BY FoursAre
  <2> QED
    BY <2>1, <2>2 DEF DotAvx2Loop
<1> HIDE DEF Pair, n4, D
<1>5. ASSUME NEW x \in D PROVE x \in L
  <2>1. CASE InRounds(x)
    <3>1. PICK g \in Rounds(n4), a \in 0 .. 3 :
            x \in Fmadd(<<"unrolled", g>>, g + a, tap, sample)
      BY <2>1
    <3> DEFINE j == g + a
    <3>2. j \in 0 .. n4 - 1 /\ j < Left(n4) /\ j - (j % 4) = g
      BY <1>2, RoundTakes
    <3>3. PICK c \in 0 .. 3, p \in 0 .. 1 : x = Pair(<<"unrolled", g>>, 4 * j + c, p)
      BY <1>3, <3>1, <3>2
    <3>4. j \in Nat /\ j < n4 /\ j < Left(n4) /\ j - (j % 4) = g
      BY <1>2, <3>2
    <3> HIDE DEF j
    <3>5. DotAvx2Loop(n)[4 * j + c] = <<"unrolled", g>> /\ 4 * j + c \in 0 .. n - 1
      BY <1>4, <3>4
    <3> QED
      BY <3>3, <3>5 DEF Listing, Pair
  <2>2. CASE InVectors(x)
    <3>1. PICK j \in Left(n4) .. n4 - 1 : x \in Fmadd(<<"vectors", j>>, j, tap, sample)
      BY <2>2
    <3>2. j \in Nat /\ j < n4 /\ ~(j < Left(n4))
      BY <1>2
    <3>3. PICK c \in 0 .. 3, p \in 0 .. 1 : x = Pair(<<"vectors", j>>, 4 * j + c, p)
      BY <1>3, <3>1, <3>2
    <3>4. DotAvx2Loop(n)[4 * j + c] = <<"vectors", j>> /\ 4 * j + c \in 0 .. n - 1
      BY <1>4, <3>2
    <3> QED
      BY <3>3, <3>4 DEF Listing, Pair
  <2>3. CASE InRest(x)
    <3>1. PICK k \in Left(n) .. n - 1, p \in 0 .. 1 : x = Pair(<<"rest", k>>, k, p)
      BY <2>3 DEF Remainder, Pair
    <3>2. k \in 0 .. n - 1 /\ k >= Left(n)
      BY <1>2
    <3>3. DotAvx2Loop(n)[k] = <<"rest", k>>
      BY <3>2 DEF DotAvx2Loop
    <3> QED
      BY <3>1, <3>2, <3>3 DEF Listing, Pair
  <2> QED
    BY <1>1, <2>1, <2>2, <2>3
<1>6. ASSUME NEW x \in L PROVE x \in D
  <2>1. PICK k \in 0 .. n - 1, p \in 0 .. 1 : x = Pair(DotAvx2Loop(n)[k], k, p)
    BY DEF Listing, Pair
  <2>2. CASE k >= Left(n)
    <3>1. DotAvx2Loop(n)[k] = <<"rest", k>> /\ k \in Left(n) .. n - 1
      BY <1>2, <2>2 DEF DotAvx2Loop
    <3> QED
      BY <1>1, <2>1, <3>1 DEF Remainder, Pair
  <2>3. CASE ~(k >= Left(n))
    <3>1. PICK j \in Nat, c \in 0 .. 3 : k = 4 * j + c
      <4>1. k \in Nat
        OBVIOUS
      <4> QED
        BY <4>1, Fours
    <3>2. j < n4
      BY <1>2, <2>3, <3>1
    <3>3. CASE j < Left(n4)
      <4> DEFINE g == j - (j % 4)
                 a == j % 4
      <4>1. g \in Rounds(n4) /\ a \in 0 .. 3 /\ g + a = j
        BY <1>2, <3>3, RoundOf
      <4>2. DotAvx2Loop(n)[k] = <<"unrolled", g>>
        BY <1>4, <3>1, <3>2, <3>3
      <4> HIDE DEF g, a
      <4>3. x \in Fmadd(<<"unrolled", g>>, g + a, tap, sample)
        BY <1>3, <2>1, <3>1, <4>1, <4>2
      <4> QED
        BY <1>1, <4>1, <4>3
    <3>4. CASE ~(j < Left(n4))
      <4>1. DotAvx2Loop(n)[k] = <<"vectors", j>>
        BY <1>4, <3>1, <3>2, <3>4
      <4>4. j \in Left(n4) .. n4 - 1
        BY <1>2, <3>2, <3>4
      <4>2. x \in Fmadd(<<"vectors", j>>, j, tap, sample)
        BY <1>3, <2>1, <3>1, <4>1
      <4> QED
        BY <1>1, <4>2, <4>4
    <3> QED
      BY <3>3, <3>4
  <2> QED
    BY <2>2, <2>3
<1> QED
  BY <1>5, <1>6 DEF D

-----------------------------------------------------------------------------
(* Convolution.                                                            *)

\* Listings of the first s taps and of the rest make one sum of all n taps.
LEMMA SplitConvolves ==
  ASSUME NEW e \in Int, NEW s \in Nat, NEW n \in Nat, s <= n, NEW f, NEW g
  PROVE  Convolves(Listing(f, 0, e, s) \cup Listing(g, s, e + s, n - s), e, n)
<1> DEFINE A == Listing(f, 0, e, s)
           B == Listing(g, s, e + s, n - s)
           Of(k, p) == Product(IF k < s THEN f[k] ELSE g[k - s], k, e + k, p, p)
<1>1. ASSUME NEW x \in A \cup B
      PROVE  \E k \in 0 .. n - 1, p \in 0 .. 1 : x = Of(k, p)
  <2>1. CASE x \in A
    <3>1. PICK k \in 0 .. s - 1, p \in 0 .. 1 :
            x = Product(f[k], 0 + k, e + k, p, p)
      BY <2>1 DEF Listing
    <3>2. k \in 0 .. n - 1 /\ k < s /\ 0 + k = k
      OBVIOUS
    <3> QED
      BY <3>1, <3>2
  <2>2. CASE x \in B
    <3>1. PICK i \in 0 .. n - s - 1, p \in 0 .. 1 :
            x = Product(g[i], s + i, e + s + i, p, p)
      BY <2>2 DEF Listing
    <3> DEFINE k == s + i
    <3>2. k \in 0 .. n - 1 /\ ~(k < s) /\ k - s = i /\ e + s + i = e + k
      OBVIOUS
    <3> HIDE DEF k
    <3>3. x = Product(g[k - s], k, e + k, p, p)
      BY <3>1, <3>2 DEF k
    <3> QED
      BY <3>2, <3>3
  <2> QED
    BY <2>1, <2>2
<1>2. ASSUME NEW k \in 0 .. n - 1, NEW p \in 0 .. 1
      PROVE  Of(k, p) \in A \cup B
  <2>1. CASE k < s
    <3>1. k \in 0 .. s - 1 /\ 0 + k = k
      BY <2>1
    <3>2. Product(f[k], 0 + k, e + k, p, p) \in A
      BY <3>1 DEF Listing
    <3> QED
      BY <2>1, <3>1, <3>2
  <2>2. CASE ~(k < s)
    <3> DEFINE i == k - s
    <3>1. i \in 0 .. n - s - 1 /\ s + i = k /\ e + s + i = e + k
      BY <2>2
    <3> HIDE DEF i
    <3>2. Product(g[i], s + i, e + s + i, p, p) \in B
      BY <3>1 DEF Listing
    <3> QED
      BY <2>2, <3>1, <3>2 DEF i
  <2> QED
    BY <2>1, <2>2
<1>3. \A k, p : /\ Of(k, p).tap = k /\ Of(k, p).sample = e + k
                /\ Of(k, p).part = p /\ Of(k, p).into = p
  BY DEF Product
<1> HIDE DEF Of, A, B
<1>4. \A x \in A \cup B : /\ x.tap \in 0 .. n - 1
                          /\ x.sample = e + x.tap
                          /\ x.into = x.part
                          /\ x = Of(x.tap, x.part)
  BY <1>1, <1>3
<1>5. \A k \in 0 .. n - 1, p \in 0 .. 1 :
        \E x \in A \cup B :
          /\ x.tap = k
          /\ x.part = p
          /\ \A y \in A \cup B : y.tap = k /\ y.part = p => y = x
  BY <1>2, <1>3, <1>4
<1> QED
  BY <1>4, <1>5 DEF Convolves, A, B

\* One listing makes a sum.
LEMMA ListingConvolves ==
  ASSUME NEW e \in Int, NEW n \in Nat, NEW f
  PROVE  Convolves(Listing(f, 0, e, n), e, n)
<1>1. Listing(f, n, e + n, n - n) = {}
  BY DEF Listing
<1>2. Convolves(Listing(f, 0, e, n) \cup Listing(f, n, e + n, n - n), e, n)
  BY SplitConvolves
<1> QED
  BY <1>1, <1>2

\* A window that straddles the history and the chunk, anywhere.
LEMMA DotInTwoConvolves ==
  ASSUME NEW e \in Int, NEW s \in Nat, NEW n \in Nat, s <= n
  PROVE  Convolves(Dot(0, e, s) \cup Dot(s, e + s, n - s), e, n)
<1>1. /\ Dot(0, e, s) = Listing(DotLoop(s), 0, e, s)
      /\ Dot(s, e + s, n - s) = Listing(DotLoop(n - s), s, e + s, n - s)
  BY DotLists
<1> QED
  BY <1>1, SplitConvolves

\* A window in the chunk, by either kernel.
LEMMA KernelsConvolve ==
  ASSUME NEW e \in Int, NEW n \in Nat
  PROVE  Convolves(Dot(0, e, n), e, n) /\ Convolves(DotAvx2(0, e, n), e, n)
<1>1. /\ Dot(0, e, n) = Listing(DotLoop(n), 0, e, n)
      /\ DotAvx2(0, e, n) = Listing(DotAvx2Loop(n), 0, e, n)
  BY DotLists, DotAvx2Lists
<1> QED
  BY <1>1, ListingConvolves
=============================================================================
