--------------------------- MODULE StartupProofs ---------------------------
(***************************************************************************)
(* Proofs about Startup: for any command line the captured band holds      *)
(* every channel, each oscillator cancels its channel's offset, decimation *)
(* keeps the channels' width, the RSP is told what agrees with the plan    *)
(* and the gains asked for, replays are faithful, and what was opened is   *)
(* given back.                                                             *)
(***************************************************************************)
EXTENDS Startup, WellFoundedInduction, TLAPS

\* The parts of optionVars are seen through everywhere.
USE DEF audioVars, baseband, rtlGain, rspGain, api, found, plan, handles, settled

\* The quotient of a division, without the division.
LEMMA Quotient ==
  ASSUME NEW a \in Nat, NEW b \in Nat \ {0}
  PROVE  \E q \in Nat : q = a \div b /\ q * b <= a /\ a < q * b + b
<1>1. PICK q \in Nat : q = a \div b
  OBVIOUS
<1>2. PICK r \in 0 .. b - 1 : r = a % b
  OBVIOUS
<1>3. a - q * b = a % b
  BY <1>1, SMTT(30)
<1>4. q * b \in Int
  OBVIOUS
<1> QED
  BY <1>1, <1>2, <1>3, <1>4

\* A decimation by at least one that keeps within the rate if it can.
LEMMA DecimationOf ==
  ASSUME NEW w \in Nat, NEW r \in Nat \ {0}
  PROVE  \E d \in Nat \ {0} :
           /\ d = Decimation(w, r)
           /\ w < d * r + r
           /\ r <= w => d * r <= w
           /\ w < r => d = 1
<1>1. PICK q \in Nat : q = w \div r /\ q * r <= w /\ w < q * r + r
  BY Quotient
<1>2. CASE q = 0
  <2>1. Decimation(w, r) = 1
    BY <1>1, <1>2 DEF Decimation, AtLeastOne
  <2>2. 0 * r = 0 /\ 1 * r = r
    OBVIOUS
  <2>3. w < r
    BY <1>1, <1>2, <2>2
  <2> QED
    BY <2>1, <2>2, <2>3
<1>3. CASE q # 0
  <2>1. Decimation(w, r) = q
    BY <1>1, <1>3 DEF Decimation, AtLeastOne
  <2>2. q * r >= r
    BY <1>3
  <2>3. r <= w
    BY <1>1, <2>2
  <2> QED
    BY <1>1, <1>3, <2>1, <2>3
<1> QED
  BY <1>2, <1>3

\* What the plan of a capture w wide makes of it: a rate that is no less than
\* what was asked for, short of a channel, and a decimation that fits.
PlanFits(p, w, r) ==
  /\ p.rate \in Nat
  /\ p.downsample \in Nat \ {0}
  /\ p.rate + r > w
  /\ p.rate >= r
  /\ p.downsample * r <= p.rate
  /\ p.rate < p.downsample * r + r

LEMMA Between ==
  ASSUME NEW a \in Int, NEW b \in Int, NEW x \in a .. b
  PROVE  a <= x /\ x <= b
  OBVIOUS

LEMMA RtlRates == /\ RTL_RATE_MAX_LOW + 1 \in Int
                  /\ RTL_RATE_MIN_HIGH \in Nat \ {0}
  BY SMT DEF RTL_RATE_MAX_LOW, RTL_RATE_MIN_HIGH

\* The lowest multiple of the channel rate above the tuner's gap.
LEMMA AboveGap ==
  ASSUME NEW r \in Nat \ {0}
  PROVE  \E q \in Nat \ {0} : /\ q = (RTL_RATE_MIN_HIGH + r - 1) \div r
                              /\ q * r >= RTL_RATE_MIN_HIGH
<1> DEFINE n == RTL_RATE_MIN_HIGH + r - 1
<1>1. n \in Nat /\ n + 1 = RTL_RATE_MIN_HIGH + r
  BY RtlRates
<1> HIDE DEF n
<1>2. PICK q \in Nat : q = n \div r /\ q * r <= n /\ n < q * r + r
  BY <1>1, Quotient
<1>3. q * r \in Nat /\ q * r >= RTL_RATE_MIN_HIGH
  BY <1>1, <1>2, RtlRates
<1>4. q # 0
  BY <1>3, RtlRates
<1>5. q = (RTL_RATE_MIN_HIGH + r - 1) \div r
  BY <1>2 DEF n
<1> QED
  BY <1>3, <1>4, <1>5

LEMMA RtlPlanFits ==
  ASSUME NEW r \in Nat \ {0}, NEW w \in Nat, r <= w,
         NEW p \in RtlPlan(r, w)
  PROVE  PlanFits(p, w, r)
<1>1. PICK d \in Nat \ {0} : /\ d = Decimation(w, r)
                             /\ w < d * r + r
                             /\ d * r <= w
  BY DecimationOf
<1> DEFINE s == RtlSnap(r, d)
<1>2. d * r \in Nat /\ d * r >= r
  BY <1>1
<1>3. s \in Nat \ {0} /\ s * r \in Nat /\ s * r >= d * r
  <2>1. CASE d * r \in RTL_RATE_MAX_LOW + 1 .. RTL_RATE_MIN_HIGH - 1
    <3>1. PICK q \in Nat \ {0} : /\ q = (RTL_RATE_MIN_HIGH + r - 1) \div r
                                 /\ q * r >= RTL_RATE_MIN_HIGH
      BY AboveGap
    <3>2. s = q
      BY <2>1, <3>1, Zenon DEF RtlSnap
    <3>3. d * r <= RTL_RATE_MIN_HIGH - 1
      BY <1>2, <2>1, RtlRates, Between
    <3>4. q * r \in Nat
      OBVIOUS
    <3>5. q * r >= d * r
      BY <1>2, <3>1, <3>3, <3>4, RtlRates
    <3> HIDE DEF s
    <3> QED
      BY <3>1, <3>2, <3>4, <3>5
  <2>2. CASE d * r \notin RTL_RATE_MAX_LOW + 1 .. RTL_RATE_MIN_HIGH - 1
    <3>1. s = d
      BY <2>2, Zenon DEF RtlSnap
    <3> HIDE DEF s
    <3> QED
      BY <1>1, <1>2, <3>1
  <2> QED
    BY <2>1, <2>2
<1>4. p = Plan(s * r, s)
  BY <1>1 DEF RtlPlan
<1>5. p.rate = s * r /\ p.downsample = s
  BY <1>4 DEF Plan
<1> HIDE DEF s
<1> QED
  BY <1>1, <1>2, <1>3, <1>5 DEF PlanFits

LEMMA RspPlanFits ==
  ASSUME NEW r \in Nat \ {0}, NEW w \in Nat, r <= w,
         NEW p \in RspPlan(r, w)
  PROVE  PlanFits(p, w, r)
<1> DEFINE rr == RspSnap(w)
<1>1. rr \in Nat /\ w <= rr
  BY DEF RspSnap, RspPlan, MIN_CAPTURE_RATE, RSP_MAX_SNAP_RATE, MAX_CAPTURE_RATE
<1>2. PICK d \in Nat \ {0} : /\ d = Decimation(rr, r)
                             /\ rr < d * r + r
                             /\ d * r <= rr
  <2>1. r <= rr
    BY <1>1
  <2> HIDE DEF rr
  <2> QED
    BY <1>1, <2>1, DecimationOf
<1>3. p = Plan(rr, d)
  BY <1>2 DEF RspPlan
<1>4. p.rate = rr /\ p.downsample = d
  BY <1>3 DEF Plan
<1> HIDE DEF rr
<1> QED
  BY <1>1, <1>2, <1>4 DEF PlanFits

\* Every width main asks for is at least a channel's.
LEMMA WidthHolds ==
  ASSUME NEW r \in Nat \ {0}, NEW n \in Nat \ {0}, NEW span \in Nat,
         n = 1 => span = 0
  PROVE  /\ Width(r, n, span) \in Nat
         /\ Width(r, n, span) >= r
         /\ n > 1 => Width(r, n, span) = span + 2 * r
<1>1. PICK q \in Nat : q = 1000000 \div r
  OBVIOUS
<1>2. (q + 1) * r \in Nat /\ (q + 1) * r >= r
  <2>1. q * r \in Nat
    OBVIOUS
  <2>2. (q + 1) * r = q * r + r
    OBVIOUS
  <2> QED
    BY <2>1, <2>2
<1> QED
  BY <1>1, <1>2 DEF Width

\* What decimation by d does to a rate, when d channels fit in it or it is a
\* file's, no wider than one channel.
LEMMA Decimated ==
  ASSUME NEW w \in Nat, NEW d \in Nat \ {0}, NEW r \in Nat \ {0},
         w < d * r + r,
         d * r <= w \/ (d = 1 /\ w + 1 >= r)
  PROVE  /\ w \div d \in Nat
         /\ (w \div d) + 1 >= r
         /\ w - d * (w \div d) \in 0 .. d - 1
         /\ (d + 1) * r > w
<1>1. PICK q \in Nat : q = w \div d /\ q * d <= w /\ w < q * d + d
  BY Quotient
<1>2. q * d \in Nat /\ d * q = q * d
  OBVIOUS
<1>3. q + 1 >= r
  <2>1. CASE d = 1
    <3>1. q * 1 = q /\ 1 * r = r
      OBVIOUS
    <3> QED
      BY <1>1, <2>1, <3>1
  <2>2. CASE d * r <= w
    <3>1. d * r < (q + 1) * d
      <4>1. (q + 1) * d = q * d + d
        OBVIOUS
      <4> QED
        BY <1>1, <1>2, <2>2, <4>1
    <3>2. r < q + 1
      <4> SUFFICES ASSUME q + 1 <= r PROVE FALSE
        OBVIOUS
      <4>1. (q + 1) * d <= r * d /\ r * d = d * r
        OBVIOUS
      <4> QED
        BY <3>1, <4>1
    <3> QED
      BY <3>2
  <2> QED
    BY <2>1, <2>2
<1>4. (d + 1) * r = d * r + r
  OBVIOUS
<1>5. w - q * d \in 0 .. d - 1
  BY <1>1, <1>2
<1> QED
  BY <1>1, <1>2, <1>3, <1>4, <1>5

\* Playback: channels that all lie inside a recording leave it wide enough.
LEMMA InsideFileHolds ==
  ASSUME NEW w \in Nat, NEW c \in Nat, NEW r \in Nat \ {0}, NEW f \in Nat,
         InsideFile(w, c, r, f)
  PROVE  /\ w + 1 >= r
         /\ 2 * (f - c) + r <= w + 1
         /\ 2 * (c - f) + r <= w + 1
<1> DEFINE a == w \div 2
           b == r \div 2
<1>1. /\ a \in Nat /\ 2 * a <= w
      /\ b \in Nat /\ r <= 2 * b + 1
  OBVIOUS
<1>2. f - c \in -(a - b) .. (a - b)
  BY DEF InsideFile
<1> HIDE DEF a, b
<1>3. -(a - b) <= f - c /\ f - c <= a - b
  BY <1>1, <1>2
<1> QED
  BY <1>1, <1>3

LEMMA FloatBounds ==
  \E h \in Nat : Significands = 2 * h /\ INT_MAX = 128 * Significands - 1
<1>1. 2048 * 4096 \in Nat /\ Significands = 2 * (2048 * 4096)
  BY SMT DEF Significands
<1>2. INT_MAX = 128 * Significands - 1
  BY <1>1 DEF INT_MAX
<1> QED
  BY <1>1, <1>2

\* The unit in the last place of an int is one of those a float has.
LEMMA UlpIsUnit ==
  ASSUME NEW n \in 0 .. INT_MAX
  PROVE  Ulp(n) \in {1, 2, 4, 8, 16, 32, 64, 128}
<1> PICK h \in Nat : Significands = 2 * h /\ INT_MAX = 128 * Significands - 1
  BY FloatBounds
<1> DEFINE Fits(u) == /\ n \div u < Significands
                      /\ u = 1 \/ 2 * (n \div u) >= Significands
<1>1. \E u \in {1, 2, 4, 8, 16, 32, 64, 128} : Fits(u)
  <2>1. CASE n < Significands
    <3>1. Fits(1)
      BY <2>1
    <3> QED
      BY <3>1, Zenon
  <2>2. CASE Significands <= n /\ n < 2 * Significands
    <3>1. Fits(2)
      BY <2>2
    <3> QED
      BY <3>1, Zenon
  <2>3. CASE 2 * Significands <= n /\ n < 4 * Significands
    <3>1. Fits(4)
      BY <2>3
    <3> QED
      BY <3>1, Zenon
  <2>4. CASE 4 * Significands <= n /\ n < 8 * Significands
    <3>1. Fits(8)
      BY <2>4
    <3> QED
      BY <3>1, Zenon
  <2>5. CASE 8 * Significands <= n /\ n < 16 * Significands
    <3>1. Fits(16)
      BY <2>5
    <3> QED
      BY <3>1, Zenon
  <2>6. CASE 16 * Significands <= n /\ n < 32 * Significands
    <3>1. Fits(32)
      BY <2>6
    <3> QED
      BY <3>1, Zenon
  <2>7. CASE 32 * Significands <= n /\ n < 64 * Significands
    <3>1. Fits(64)
      BY <2>7
    <3> QED
      BY <3>1, Zenon
  <2>8. CASE 64 * Significands <= n /\ n < 128 * Significands
    <3>1. Fits(128)
      BY <2>8
    <3> QED
      BY <3>1, Zenon
  <2> QED
    BY <2>1, <2>2, <2>3, <2>4, <2>5, <2>6, <2>7, <2>8
<1> QED
  BY <1>1, Zenon DEF Ulp

\* A float of an int is a whole number.
LEMMA FloatIsNat ==
  ASSUME NEW n \in 0 .. INT_MAX
  PROVE  Float(n) \in Nat
<1>2. Ulp(n) \in {1, 2, 4, 8, 16, 32, 64, 128}
  BY UlpIsUnit
<1>3. n \in Nat
  OBVIOUS
<1> DEFINE u == Ulp(n)
           q == n \div u
<1>4. u \in Nat \ {0}
  BY <1>2
<1> HIDE DEF u
<1>5. q \in Nat
  BY <1>3, <1>4
<1> HIDE DEF q
<1>6. q * u \in Nat /\ (q + 1) * u \in Nat
  BY <1>4, <1>5
<1>7. Float(n) \in {q * u, (q + 1) * u}
  BY Zenon DEF Float, u, q
<1> QED
  BY <1>6, <1>7

-----------------------------------------------------------------------------
\* Nothing is planned or opened before the plan, and what main demanded of
\* the options still holds after it.
Early   == phase \in {"options", "check", "plan"} => downsample = 0 /\ sinks = 0
Checked == phase \notin {"options", "check", "exit"} => Usable

IInv == TypeOK /\ Early /\ Checked /\ ChannelsInBand /\ DecimationSound

\* The channels' frequencies, and the width asked for them.
LEMMA SpanHolds ==
  ASSUME TypeOK, Usable, NEW lo \in FrequencySet, NEW hi \in FrequencySet, lo <= hi
  PROVE  /\ lo \in Nat /\ hi \in Nat
         /\ FrequencySet \subseteq Nat /\ FrequencySet \subseteq 0 .. INT_MAX
         /\ Len(channels) \in Nat \ {0}
         /\ Len(channels) = 1 => FrequencySet = {lo} /\ lo = hi
<1>1. /\ channels \in Seq(Channel)
      /\ Len(channels) \in Nat
      /\ DOMAIN channels = 1 .. Len(channels)
  BY DEF TypeOK
<1>2. ASSUME NEW i \in DOMAIN channels
      PROVE  channels[i].freq \in 0 .. INT_MAX /\ channels[i].freq \in Nat
  <2>1. channels[i] \in Channel
    BY <1>1, <1>2
  <2> QED
    BY <2>1 DEF Channel
<1>3. FrequencySet \subseteq Nat /\ FrequencySet \subseteq 0 .. INT_MAX
  BY <1>2 DEF FrequencySet, Frequency
<1>4. Len(channels) # 0
  BY <1>1, OptionAssumption DEF Usable, OptionParameters
<1>5. ASSUME Len(channels) = 1 PROVE FrequencySet = {lo} /\ lo = hi
  <2>1. FrequencySet = {channels[1].freq}
    BY <1>1, <1>5 DEF FrequencySet, Frequency
  <2> QED
    BY <2>1
<1> QED
  BY <1>1, <1>3, <1>4, <1>5

\* A hardware plan holds every channel.
LEMMA DevicePlanHolds ==
  ASSUME TypeOK, Usable, ~FileInput,
         NEW lo \in FrequencySet, NEW hi \in FrequencySet,
         \A f \in FrequencySet : lo <= f /\ f <= hi,
         NEW p \in Plans(lo, hi)
  PROVE  /\ p.rate \in Nat
         /\ p.downsample \in Nat \ {0}
         /\ p.rate < p.downsample * rate_in + rate_in
         /\ p.downsample * rate_in <= p.rate
         /\ Center(lo, hi - lo) \in Nat
         /\ \A f \in FrequencySet :
              /\ 2 * (f - Center(lo, hi - lo)) + rate_in <= p.rate + 1
              /\ 2 * (Center(lo, hi - lo) - f) + rate_in <= p.rate + 1
<1> DEFINE n == Len(channels)
           span == hi - lo
           w == Width(rate_in, n, span)
           c == Center(lo, span)
<1>1. /\ lo \in Nat /\ hi \in Nat /\ lo <= hi
      /\ FrequencySet \subseteq Nat
      /\ n \in Nat \ {0}
      /\ n = 1 => FrequencySet = {lo} /\ lo = hi
  BY SpanHolds
<1>2. rate_in \in Nat \ {0}
  BY DEF TypeOK
<1>3. p \in RtlPlan(rate_in, w) \/ p \in RspPlan(rate_in, w)
  BY Zenon DEF Plans, HardwarePlan
<1> HIDE DEF n
<1>4. span \in Nat /\ (n = 1 => span = 0)
  BY <1>1
<1>5. 2 * c >= 2 * lo + span - 1 /\ 2 * c <= 2 * lo + span /\ c \in Nat
  BY <1>1, <1>4 DEF Center
<1>6. hi = lo + span
  BY <1>1
<1> HIDE DEF span, c
<1>7. w \in Nat /\ w >= rate_in /\ (n > 1 => w = span + 2 * rate_in)
  BY <1>1, <1>2, <1>4, WidthHolds
<1> HIDE DEF w
<1>8. PlanFits(p, w, rate_in)
  BY <1>2, <1>3, <1>7, RtlPlanFits, RspPlanFits
<1>9. ASSUME NEW f \in FrequencySet
      PROVE  /\ 2 * (f - c) + rate_in <= p.rate + 1
             /\ 2 * (c - f) + rate_in <= p.rate + 1
  <2>1. f \in Nat /\ lo <= f /\ f <= hi
    BY <1>1, <1>9
  <2>2. p.rate \in Nat /\ p.rate + rate_in > w /\ p.rate >= rate_in
    BY <1>8 DEF PlanFits
  <2>3. CASE n = 1
    BY <1>1, <1>2, <1>4, <1>5, <2>1, <2>2, <2>3
  <2>4. CASE n # 1
    <3>1. w = span + 2 * rate_in
      BY <1>1, <1>7, <2>4
    <3> QED
      BY <1>1, <1>2, <1>4, <1>5, <1>6, <2>1, <2>2, <3>1
  <2> QED
    BY <2>3, <2>4
<1>10. c = Center(lo, hi - lo)
  BY DEF c, span
<1> QED
  BY <1>5, <1>8, <1>9, <1>10 DEF PlanFits

\* And so does a recording that is played back.
LEMMA FilePlanHolds ==
  ASSUME TypeOK, FileInput, FrequencySet # {}, FrequencySet \subseteq Nat,
         NEW lo, NEW hi, NEW p \in Plans(lo, hi)
  PROVE  /\ p.rate \in Nat
         /\ p.downsample \in Nat \ {0}
         /\ p.rate < p.downsample * rate_in + rate_in
         /\ \/ p.downsample * rate_in <= p.rate
            \/ p.downsample = 1 /\ p.rate + 1 >= rate_in
         /\ input.center \in Nat
         /\ \A f \in FrequencySet :
              /\ 2 * (f - input.center) + rate_in <= p.rate + 1
              /\ 2 * (input.center - f) + rate_in <= p.rate + 1
<1> DEFINE w == input.rate
           c == input.center
<1>1. w \in Nat /\ c \in Nat /\ rate_in \in Nat \ {0}
  BY DEF TypeOK
<1>2. /\ \A f \in FrequencySet : InsideFile(w, c, rate_in, f)
      /\ p \in FilePlan(rate_in, w)
  BY Zenon DEF Plans, PlansOfFile
<1>3. PICK d \in Nat \ {0} : /\ d = Decimation(w, rate_in)
                             /\ w < d * rate_in + rate_in
                             /\ rate_in <= w => d * rate_in <= w
                             /\ w < rate_in => d = 1
  BY <1>1, DecimationOf
<1>4. p.rate = w /\ p.downsample = d
  BY <1>2, <1>3 DEF FilePlan, Plan
<1> HIDE DEF w, c
<1>5. \A f \in FrequencySet : /\ w + 1 >= rate_in
                              /\ 2 * (f - c) + rate_in <= w + 1
                              /\ 2 * (c - f) + rate_in <= w + 1
  BY <1>1, <1>2, InsideFileHolds
<1>6. w + 1 >= rate_in
  BY <1>5
<1>7. d * rate_in <= w \/ (d = 1 /\ w + 1 >= rate_in)
  BY <1>1, <1>3, <1>6
<1>8. c = input.center
  BY DEF c
<1> QED
  BY <1>1, <1>3, <1>4, <1>5, <1>7, <1>8

LEMMA PlanCaptureHolds ==
  IInv /\ PlanCapture => ChannelsInBand' /\ DecimationSound'
<1> SUFFICES ASSUME IInv, PlanCapture PROVE ChannelsInBand' /\ DecimationSound'
  OBVIOUS
<1>1. TypeOK /\ Early /\ Usable /\ phase = "plan"
  BY DEF IInv, Checked, PlanCapture
<1>2. PICK lo \in FrequencySet, hi \in FrequencySet :
        /\ \A f \in FrequencySet : lo <= f /\ f <= hi
        /\ \/ Plans(lo, hi) = {} /\ UNCHANGED downsample
           \/ \E p \in Plans(lo, hi) :
                /\ freq' = IF FileInput THEN input.center
                           ELSE Center(lo, hi - lo)
                /\ rate' = p.rate
                /\ downsample' = p.downsample
                /\ rate_channel' = p.rate \div p.downsample
  BY DEF PlanCapture
<1>3. UNCHANGED <<channels, rate_in>>
  BY DEF PlanCapture, optionVars
<1>4. FrequencySet' = FrequencySet
  BY <1>3 DEF FrequencySet, Frequency
<1>5. CASE UNCHANGED downsample
  BY <1>1, <1>5 DEF Early, ChannelsInBand, DecimationSound, Planned
<1>6. ASSUME NEW p \in Plans(lo, hi),
             freq' = IF FileInput THEN input.center ELSE Center(lo, hi - lo),
             rate' = p.rate,
             downsample' = p.downsample,
             rate_channel' = p.rate \div p.downsample
      PROVE  ChannelsInBand' /\ DecimationSound'
  <2>1. /\ lo <= hi /\ FrequencySet \subseteq Nat /\ FrequencySet # {}
    BY <1>1, <1>2, SpanHolds
  <2>2. /\ rate' \in Nat
        /\ downsample' \in Nat \ {0}
        /\ rate' < downsample' * rate_in + rate_in
        /\ \/ downsample' * rate_in <= rate'
           \/ downsample' = 1 /\ rate' + 1 >= rate_in
        /\ freq' \in Nat
        /\ \A f \in FrequencySet : /\ 2 * (f - freq') + rate_in <= rate' + 1
                                   /\ 2 * (freq' - f) + rate_in <= rate' + 1
    <3>1. CASE FileInput
      BY <1>1, <1>6, <2>1, <3>1, FilePlanHolds
    <3>2. CASE ~FileInput
      BY <1>1, <1>2, <1>6, <3>2, DevicePlanHolds
    <3> QED
      BY <3>1, <3>2
  <2>3. rate_in \in Nat \ {0} /\ rate_channel' = rate' \div downsample'
    BY <1>1, <1>6 DEF TypeOK
  <2>4. DecimationSound'
    <3>1. /\ rate_channel' \in Nat
          /\ rate_channel' + 1 >= rate_in
          /\ rate' - downsample' * rate_channel' \in 0 .. downsample' - 1
          /\ (downsample' + 1) * rate_in > rate'
      BY <2>2, <2>3, Decimated
    <3> QED
      BY <1>3, <3>1 DEF DecimationSound
  <2>5. ChannelsInBand'
    <3>1. ASSUME NEW f \in FrequencySet
          PROVE  2 * Offset(f)' + rate_in <= rate' + 1
      <4>1. f \in Nat
        BY <2>1
      <4> QED
        BY <2>2, <2>3, <4>1 DEF Offset
    <3> QED
      BY <1>3, <1>4, <3>1 DEF ChannelsInBand
  <2> QED
    BY <2>4, <2>5
<1> QED
  BY <1>2, <1>5, <1>6

\* The variables the plan is made of.
planVars == <<channels, rate_in, input, record, freq, rate, downsample,
              rate_channel>>

LEMMA PlanKept ==
  ASSUME IInv, UNCHANGED planVars
  PROVE  /\ ChannelsInBand' /\ DecimationSound'
         /\ Usable' <=> Usable
<1>1. ChannelsInBand /\ DecimationSound
  BY DEF IInv
<1>2. /\ ChannelsInBand' <=> ChannelsInBand
      /\ DecimationSound' <=> DecimationSound
      /\ Usable' <=> Usable
  BY DEF planVars, ChannelsInBand, DecimationSound, Planned, Usable, FileInput,
     FrequencySet, Frequency, Offset
<1> QED
  BY <1>1, <1>2

\* What opening an output, of whatever kind, may do.
OpenOutput ==
  /\ phase = "outputs" /\ phase' \in {"outputs", "exit"}
  /\ \/ UNCHANGED sinks
     \/ sinks < Len(channels) /\ sinks' = sinks + 1
  /\ UNCHANGED <<optionVars, agc, asked, plan, handles, record_file, decim>>

LEMMA OutputEffect == TcpInit \/ UdpInit \/ OpenFile => OpenOutput
<1> USE DEF OpenOutput, OpeningNext, Opened, OpenFailed, Fail
<1>1. CASE TcpInit
  BY <1>1 DEF TcpInit
<1>2. CASE UdpInit
  BY <1>2 DEF UdpInit
<1>3. CASE OpenFile
  BY <1>3 DEF OpenFile
<1> QED
  BY <1>1, <1>2, <1>3

ApplySettings == ApplyRspSettings \/ ApplyRtlSettings

\* What the steps of the bring-up and the teardown may do, settings apart.
DeviceStep ==
  /\ phase \in {"open", "params", "tune", "sample", "record", "run"}
  /\ phase' \in {"params", "tune", "sample", "record", "settings", "failed",
                 "ended"}
  /\ phase' = "record" => record
  /\ \/ UNCHANGED <<handles, api>>
     \/ held' = TRUE /\ selected' = TRUE /\ UNCHANGED api
     \/ DeviceClose
  /\ \/ UNCHANGED record_file
     \/ record_file' = TRUE /\ phase = "record"
     \/ record_file' = FALSE
  /\ phase' \in {"failed", "ended"} => FileInput \/ DeviceClose
  /\ UNCHANGED <<settled, gain, rspGain, decim>>

LEMMA DeviceEffect ==
  ASSUME \/ OpenRtl \/ SelectDevice \/ GetParams \/ Tune \/ SetSampleRate
         \/ OpenRecording \/ Teardown
  PROVE  DeviceStep
<1> USE DEF DeviceStep, Proceed
<1>1. CASE OpenRtl
  BY <1>1 DEF OpenRtl
<1>2. CASE SelectDevice
  BY <1>2 DEF SelectDevice
<1>3. CASE GetParams
  BY <1>3 DEF GetParams
<1>4. CASE Tune
  BY <1>4 DEF Tune
<1>5. CASE SetSampleRate
  BY <1>5 DEF SetSampleRate
<1>6. CASE OpenRecording
  BY <1>6 DEF OpenRecording
<1>7. CASE Teardown
  BY <1>7 DEF Teardown
<1> QED
  BY <1>1, <1>2, <1>3, <1>4, <1>5, <1>6, <1>7

LEMMA NextActions ==
  Next => \/ ParseOptions \/ Check \/ PlanCapture \/ OpenOutput \/ BuildFilters
          \/ SearchDevice \/ DeviceStep \/ ApplySettings \/ Ended
  BY OutputEffect, DeviceEffect DEF Next, ApplySettings

LEMMA PlanStep ==
  IInv /\ [Next]_vars => Early' /\ Checked' /\ ChannelsInBand' /\ DecimationSound'
<1> DEFINE Good == Early /\ Checked /\ ChannelsInBand /\ DecimationSound
<1> SUFFICES ASSUME IInv, [Next]_vars PROVE Good'
  OBVIOUS
<1>0. TypeOK /\ Early /\ Checked
  BY DEF IInv
<1>1. CASE ParseOptions
  <2>1. /\ phase = "options" /\ phase' \in {"options", "check", "exit"}
        /\ UNCHANGED <<downsample, sinks>>
    BY <1>1 DEF ParseOptions, deviceVars
  <2> QED
    BY <1>0, <2>1 DEF Early, Checked, ChannelsInBand, DecimationSound, Planned
<1>2. CASE Check
  <2>1. /\ phase = "check"
        /\ (Usable /\ phase' = "plan") \/ phase' = "exit"
        /\ UNCHANGED planVars /\ UNCHANGED sinks
    BY <1>2 DEF Check, Proceed, Fail, planVars
  <2> QED
    BY <1>0, <2>1, PlanKept DEF Early, Checked, planVars
<1>3. CASE PlanCapture
  <2>1. /\ phase = "plan" /\ phase' \in {"outputs", "exit"}
        /\ UNCHANGED <<channels, record, input>>
    BY <1>3 DEF PlanCapture, Proceed, Fail, optionVars
  <2>2. Usable' <=> Usable
    BY <2>1 DEF Usable, FileInput
  <2> QED
    BY <1>0, <1>3, <2>1, <2>2, PlanCaptureHolds DEF Early, Checked
<1>4. ASSUME /\ phase \notin {"options", "check", "plan"}
             /\ phase' \notin {"options", "check", "plan"}
             /\ phase = "exit" => phase' = "exit"
             /\ UNCHANGED planVars
      PROVE  Good'
  BY <1>0, <1>4, PlanKept DEF Early, Checked
<1>5. CASE OpenOutput
  BY <1>4, <1>5 DEF OpenOutput, Fail, planVars, optionVars
<1>6. CASE BuildFilters
  BY <1>4, <1>6 DEF BuildFilters, Fail, Proceed, planVars, optionVars, deviceVars
<1>7. CASE SearchDevice
  BY <1>4, <1>7 DEF SearchDevice, Fail, Proceed, planVars, deviceVars
<1>8. CASE DeviceStep
  BY <1>4, <1>8 DEF DeviceStep, planVars
<1>12. CASE ApplySettings
  BY <1>4, <1>12 DEF ApplySettings, ApplyRspSettings, ApplyRtlSettings, Proceed,
     planVars
<1>13. CASE Ended \/ UNCHANGED vars
  <2>1. UNCHANGED <<phase, sinks>> /\ UNCHANGED planVars
    BY <1>13 DEF Ended, vars, optionVars, deviceVars, planVars
  <2> QED
    BY <1>0, <2>1, PlanKept DEF Early, Checked, planVars
<1> QED
  BY <1>1, <1>2, <1>3, <1>5, <1>6, <1>7, <1>8, <1>12, <1>13, NextActions

-----------------------------------------------------------------------------
\* What one option may change, and to what.
OptionEffect ==
  /\ UNCHANGED binary
  /\ given' = given \/ (given < MaxOptions /\ given' = given + 1)
  /\ parse' \in {parse, "done", "error", "usage"}
  /\ UNCHANGED channels \/ Frequencies \/ Modulation \/ Output
  /\ rate_in' \in {rate_in, WBFM_SAMPLE_RATE} \cup Rates
  /\ UNCHANGED deemph \/ deemph' \in BOOLEAN
  /\ dc_block' \in {dc_block, TRUE}
  /\ rate_audio' \in {rate_audio} \cup AudioRates
  /\ UNCHANGED input \/ InputFile
  /\ record' \in {record, TRUE}
  /\ UNCHANGED found \/ Search
  /\ direct_sampling' \in {direct_sampling, 1, 2}
  /\ gain' \in {gain} \cup Gains
  /\ gain_rdb' \in {gain_rdb} \cup 0 .. 59
  /\ lna_state' \in {lna_state} \cup 0 .. 2

LEMMA ReadOptionEffect == ReadOption => OptionEffect
<1> SUFFICES ASSUME ReadOption PROVE OptionEffect
  OBVIOUS
<1> USE DEF OptionEffect, Read, Refuse, Ignore, Unaffected
<1>1. CASE Frequencies
  BY <1>1 DEF Frequencies
<1>2. CASE Modulation
  BY <1>2 DEF Modulation
<1>3. CASE Output
  BY <1>3 DEF Output
<1>4. CASE SampleRate
  BY <1>4 DEF SampleRate
<1>5. CASE AudioRate
  BY <1>5 DEF AudioRate
<1>6. CASE RunTimeout
  BY <1>6 DEF RunTimeout
<1>7. CASE EnableDcBlock
  BY <1>7 DEF EnableDcBlock
<1>8. CASE EnableDeemphasis
  BY <1>8 DEF EnableDeemphasis
<1>9. CASE InputFile
  BY <1>9 DEF InputFile
<1>10. CASE RecordFile
  BY <1>10 DEF RecordFile
<1>11. CASE Device
  BY <1>11 DEF Device
<1>12. CASE RtlGain
  BY <1>12 DEF RtlGain
<1>13. CASE RspGain
  BY <1>13 DEF RspGain
<1>14. CASE Lna
  BY <1>14 DEF Lna
<1>15. CASE EnableDirect
  BY <1>15 DEF EnableDirect
<1>16. CASE Usage
  BY <1>16 DEF Usage
<1>17. CASE EndOfOptions
  BY <1>17 DEF EndOfOptions
<1>18. CASE CorrectionOrBias
  BY <1>18 DEF CorrectionOrBias
<1> QED
  BY <1>1, <1>2, <1>3, <1>4, <1>5, <1>6, <1>7, <1>8, <1>9, <1>10, <1>11, <1>12,
     <1>13, <1>14, <1>15, <1>16, <1>17, <1>18 DEF ReadOption

\* The parser keeps the channels a bounded table of channels.
LEMMA ParsedChannels ==
  ASSUME TypeOK, ReadOption
  PROVE  /\ channels' \in Seq(Channel)
         /\ Len(channels') <= FREQUENCIES_LIMIT
<1> DEFINE n == Len(channels)
<1>1. /\ channels \in Seq(Channel) /\ n \in Nat /\ n <= FREQUENCIES_LIMIT
      /\ DOMAIN channels = 1 .. n
      /\ FREQUENCIES_LIMIT \in Nat
      /\ \A i \in 1 .. n : channels[i] \in Channel
  BY OptionAssumption DEF TypeOK, OptionParameters
<1>2. CASE Frequencies
  <2>1. PICK fs \in FreqLists : channels' = AddChannels(fs)
    BY <1>2 DEF Frequencies
  <2>2. /\ fs \in Seq(0 .. INT_MAX) /\ Len(fs) \in Nat
        /\ \A j \in 1 .. Len(fs) : fs[j] \in 0 .. INT_MAX
    <3> DEFINE Hertz == 0 .. INT_MAX
    <3>1. fs \in Seq(Hertz)
      BY OptionAssumption, Zenon DEF OptionParameters
    <3> HIDE DEF Hertz
    <3>2. /\ Len(fs) \in Nat
          /\ \A j \in 1 .. Len(fs) : fs[j] \in Hertz
      BY <3>1
    <3> QED
      BY <3>1, <3>2, Zenon DEF Hertz
  <2> DEFINE wanted == n + Len(fs)
             count == IF wanted <= FREQUENCIES_LIMIT THEN wanted
                      ELSE FREQUENCIES_LIMIT
  <2>3. count \in Nat /\ count <= wanted /\ count <= FREQUENCIES_LIMIT
    BY <1>1, <2>2
  <2>4. channels' = [i \in 1 .. count |->
                       IF i <= n THEN channels[i] ELSE NewChannel(fs[i - n])]
    BY <2>1, Zenon DEF AddChannels
  <2> HIDE DEF count
  <2>5. ASSUME NEW i \in 1 .. count
        PROVE  (IF i <= n THEN channels[i] ELSE NewChannel(fs[i - n])) \in Channel
    <3>1. CASE i <= n
      BY <1>1, <2>3, <2>5, <3>1
    <3>2. CASE ~(i <= n)
      <4>1. fs[i - n] \in 0 .. INT_MAX
        BY <1>1, <2>2, <2>3, <2>5, <3>2
      <4>2. NewChannel(fs[i - n]) \in Channel
        BY <4>1, OptionAssumption DEF OptionParameters, NewChannel, Channel, Modes,
           Stdout, File, OutputValue
      <4> QED
        BY <3>2, <4>2, Zenon
    <3> QED
      BY <3>1, <3>2
  <2> HIDE DEF n
  <2>6. channels' \in [1 .. count -> Channel]
    BY <2>4, <2>5
  <2>7. channels' \in Seq(Channel) /\ Len(channels') = count
    BY <2>3, <2>6
  <2> QED
    BY <2>3, <2>7
<1>3. ASSUME NEW m, channels' = [i \in DOMAIN channels |-> m[i]],
             \A i \in DOMAIN channels : m[i] \in Channel
      PROVE  channels' \in Seq(Channel) /\ Len(channels') <= FREQUENCIES_LIMIT
  <2>1. channels' \in [1 .. n -> Channel]
    BY <1>1, <1>3
  <2>2. channels' \in Seq(Channel) /\ Len(channels') = n
    BY <1>1, <2>1
  <2> QED
    BY <1>1, <2>2
<1>4. CASE Modulation
  <2>1. CASE UNCHANGED channels
    BY <1>1, <2>1
  <2>2. CASE ~UNCHANGED channels
    <3>1. PICK ms \in ModeLists :
            /\ Len(ms) \in {1, n}
            /\ \A i \in DOMAIN channels : ValueFor(ms, i) # BadMode
            /\ channels' = [i \in DOMAIN channels |->
                              [channels[i] EXCEPT !.mode = Mode(ValueFor(ms, i))]]
      BY <1>4, <2>2 DEF Modulation, Refuse, Ignore, Unaffected
    <3> DEFINE m == [i \in DOMAIN channels |->
                       [channels[i] EXCEPT !.mode = Mode(ValueFor(ms, i))]]
    <3>2. ASSUME NEW i \in DOMAIN channels PROVE m[i] \in Channel
      <4>1. ms \in Seq(Modes \cup {"wbfm", BadMode})
        BY OptionAssumption DEF OptionParameters
      <4>2. ValueFor(ms, i) \in Modes \cup {"wbfm", BadMode}
        BY <1>1, <3>1, <4>1 DEF ValueFor
      <4>3. Mode(ValueFor(ms, i)) \in Modes
        BY <3>1, <4>2 DEF Mode, Modes
      <4>4. channels[i] \in Channel
        BY <1>1
      <4>5. [channels[i] EXCEPT !.mode = Mode(ValueFor(ms, i))] \in Channel
        BY <4>3, <4>4 DEF Channel
      <4> QED
        BY <3>2, <4>5, Zenon
    <3>3. channels' = [i \in DOMAIN channels |-> m[i]]
      BY <3>1
    <3> HIDE DEF m
    <3> QED
      BY <1>3, <3>2, <3>3
  <2> QED
    BY <2>1, <2>2
<1>5. CASE Output
  <2>1. CASE UNCHANGED channels
    BY <1>1, <2>1
  <2>2. CASE ~UNCHANGED channels
    <3>1. PICK os \in OutputLists :
            /\ Len(os) = n
            /\ \A i \in DOMAIN os : Accepted(os[i])
            /\ channels' = [i \in DOMAIN channels |->
                              [channels[i] EXCEPT !.sink = os[i]]]
      BY <1>5, <2>2 DEF Output, Refuse, Ignore, Unaffected
    <3> DEFINE m == [i \in DOMAIN channels |-> [channels[i] EXCEPT !.sink = os[i]]]
    <3>2. ASSUME NEW i \in DOMAIN channels PROVE m[i] \in Channel
      <4>1. os \in Seq(OutputValue)
        BY OptionAssumption DEF OptionParameters
      <4>2. os[i] \in OutputValue
        BY <1>1, <3>1, <4>1
      <4>3. channels[i] \in Channel
        BY <1>1
      <4>4. [channels[i] EXCEPT !.sink = os[i]] \in Channel
        BY <4>2, <4>3 DEF Channel
      <4> QED
        BY <3>2, <4>4, Zenon
    <3>3. channels' = [i \in DOMAIN channels |-> m[i]]
      BY <3>1
    <3> HIDE DEF m
    <3> QED
      BY <1>3, <3>2, <3>3
  <2> QED
    BY <2>1, <2>2
<1>6. CASE UNCHANGED channels
  BY <1>1, <1>6
<1> QED
  BY <1>2, <1>4, <1>5, <1>6, ReadOptionEffect DEF OptionEffect

-----------------------------------------------------------------------------
(* The scan of nearest_gain.                                               *)

\* A set of naturals has a least element: what takes the place of induction.
LEMMA Least ==
  ASSUME NEW T, T \subseteq Nat, T # {}
  PROVE  \E n \in T : \A m \in T : n <= m
<1> DEFINE below == OpToRel(<, Nat)
<1>1. PICK n \in T : \A m \in T : ~(<<m, n>> \in below)
  BY NatLessThanWellFounded, WFMin
<1>2. ASSUME NEW m \in T, ~(n <= m) PROVE FALSE
  <2>1. m \in Nat /\ n \in Nat /\ m < n
    BY <1>2
  <2>2. <<m, n>> \in Nat \X Nat
    BY <2>1
  <2>3. <<m, n>>[1] = m /\ <<m, n>>[2] = n
    OBVIOUS
  <2>4. <<m, n>> \in below
    BY <2>1, <2>2, <2>3, Zenon DEF OpToRel
  <2> QED
    BY <1>1, <2>4
<1> QED
  BY <1>2

\* What the scan holds after gain i, if g is what it held before.
Scan(t, g, i) ==
  IF i > 1 /\ Distance(t, g[i - 1]) <= Distance(t, TunerGains[i])
  THEN g[i - 1] ELSE TunerGains[i]

Scanned(t, g, n) == g = [i \in 1 .. n |-> Scan(t, g, i)]

LEMMA NearestDef ==
  ASSUME NEW t
  PROVE  NearestOf(t) =
           (CHOOSE g : Scanned(t, g, Len(TunerGains)))[Len(TunerGains)]
  BY DEF NearestOf, Scan, Scanned

\* A scan of any length exists: a shortest that did not could be had from
\* the one before it.
LEMMA ScanExists ==
  ASSUME NEW t, NEW n \in Nat
  PROVE  \E g : Scanned(t, g, n)
<1> DEFINE T == {k \in Nat : ~\E g : Scanned(t, g, k)}
<1>1. ASSUME T # {} PROVE FALSE
  <2>1. PICK k \in T : \A m \in T : k <= m
    BY <1>1, Least
  <2>2. CASE k = 0
    <3>1. Scanned(t, [i \in 1 .. 0 |-> 0], 0)
      BY DEF Scanned
    <3> QED
      BY <2>1, <2>2, <3>1
  <2>3. CASE k # 0
    <3>1. k - 1 \in Nat /\ k - 1 \notin T
      BY <2>1, <2>3
    <3>2. PICK h : Scanned(t, h, k - 1)
      BY <3>1
    <3> DEFINE g == [i \in 1 .. k |-> IF i < k THEN h[i] ELSE Scan(t, h, k)]
    <3>3. ASSUME NEW i \in 1 .. k PROVE g[i] = Scan(t, g, i)
      <4>1. k \in Nat /\ i \in Int /\ 1 <= i /\ i <= k
        BY <2>1
      <4>2. i > 1 => g[i - 1] = h[i - 1]
        BY <4>1
      <4>3. Scan(t, g, i) = Scan(t, h, i)
        BY <4>1, <4>2 DEF Scan
      <4>4. i < k => h[i] = Scan(t, h, i)
        BY <3>2, <4>1 DEF Scanned
      <4> QED
        BY <4>1, <4>3, <4>4
    <3>4. g = [i \in 1 .. k |-> g[i]]
      OBVIOUS
    <3>5. Scanned(t, g, k)
      <4> HIDE DEF g
      <4> QED
        BY <3>3, <3>4 DEF Scanned
    <3> QED
      BY <2>1, <3>5
  <2> QED
    BY <2>2, <2>3
<1> QED
  BY <1>1

\* j is the first of the gains up to n that are nearest to t.
FirstNearest(t, j, n) ==
  /\ j \in 1 .. n
  /\ \A i \in 1 .. n :
       \/ Distance(t, TunerGains[j]) < Distance(t, TunerGains[i])
       \/ /\ Distance(t, TunerGains[j]) = Distance(t, TunerGains[i])
          /\ j <= i

LEMMA ScanFinds ==
  ASSUME NEW t \in Int, NEW g, Scanned(t, g, Len(TunerGains)),
         NEW n \in 1 .. Len(TunerGains)
  PROVE  \E j \in 1 .. n : g[n] = TunerGains[j] /\ FirstNearest(t, j, n)
<1> DEFINE Found(k) == \E j \in 1 .. k : g[k] = TunerGains[j] /\ FirstNearest(t, j, k)
           T == {k \in 1 .. Len(TunerGains) : ~Found(k)}
<1>0. /\ TunerGains \in Seq(Int) /\ Len(TunerGains) \in Nat
      /\ \A i \in 1 .. Len(TunerGains) : TunerGains[i] \in Int
      /\ \A i \in 1 .. Len(TunerGains) : Distance(t, TunerGains[i]) \in Int
  BY StartupAssumption DEF StartupParameters, Distance
<1>1. ASSUME T # {} PROVE FALSE
  <2>1. PICK k \in 1 .. Len(TunerGains) :
          ~Found(k) /\ \A m \in 1 .. Len(TunerGains) : m < k => Found(m)
    <3> HIDE DEF Found
    <3>1. T \subseteq Nat
      OBVIOUS
    <3>2. PICK k \in T : \A m \in T : k <= m
      <4> HIDE DEF T
      <4> QED
        BY <1>1, <3>1, Least
    <3>3. ASSUME NEW m \in 1 .. Len(TunerGains), m < k PROVE Found(m)
      BY <3>2, <3>3
    <3> QED
      BY <3>2, <3>3
  <2> HIDE DEF T
  <2>2. k \in Nat /\ k >= 1
    BY <1>0
  <2>5. g[k] = Scan(t, g, k)
    <3> HIDE DEF Found
    <3> QED
      BY Zenon DEF Scanned
  <2>3. CASE k = 1
    <3>1. g[k] = TunerGains[1]
      BY <2>2, <2>3, <2>5 DEF Scan
    <3>2. FirstNearest(t, 1, 1)
      BY DEF FirstNearest
    <3> QED
      BY <2>1, <2>3, <3>1, <3>2
  <2>4. CASE k # 1
    <3>1. k - 1 \in 1 .. Len(TunerGains) /\ k - 1 < k
      BY <1>0, <2>2, <2>4
    <3>2. PICK j \in 1 .. k - 1 : g[k - 1] = TunerGains[j] /\ FirstNearest(t, j, k - 1)
      BY <2>1, <3>1
    <3>3. /\ j \in 1 .. k /\ j \in Int /\ j < k
          /\ Distance(t, TunerGains[j]) \in Int /\ Distance(t, TunerGains[k]) \in Int
      BY <1>0, <2>2
    <3>4. CASE Distance(t, TunerGains[j]) <= Distance(t, TunerGains[k])
      <4>1. g[k] = TunerGains[j]
        BY <2>2, <2>4, <2>5, <3>2, <3>4 DEF Scan
      <4>2. FirstNearest(t, j, k)
        <5>1. \A i \in 1 .. k : i \in 1 .. k - 1 \/ i = k
          BY <2>2
        <5>2. ASSUME NEW i \in 1 .. k - 1
              PROVE  \/ Distance(t, TunerGains[j]) < Distance(t, TunerGains[i])
                     \/ /\ Distance(t, TunerGains[j]) = Distance(t, TunerGains[i])
                        /\ j <= i
          BY <3>2 DEF FirstNearest
        <5>3. \/ Distance(t, TunerGains[j]) < Distance(t, TunerGains[k])
              \/ /\ Distance(t, TunerGains[j]) = Distance(t, TunerGains[k])
                 /\ j <= k
          BY <2>2, <3>3, <3>4
        <5> QED
          BY <3>3, <5>1, <5>2, <5>3 DEF FirstNearest
      <4> QED
        BY <2>1, <3>3, <4>1, <4>2
    <3>5. CASE ~(Distance(t, TunerGains[j]) <= Distance(t, TunerGains[k]))
      <4>1. g[k] = TunerGains[k]
        BY <2>2, <2>5, <3>2, <3>5 DEF Scan
      <4>2. FirstNearest(t, k, k)
        <5>1. ASSUME NEW i \in 1 .. k - 1
              PROVE  Distance(t, TunerGains[k]) < Distance(t, TunerGains[i])
          <6>1. Distance(t, TunerGains[i]) \in Int
            BY <1>0, <2>2
          <6>2. Distance(t, TunerGains[j]) <= Distance(t, TunerGains[i])
            BY <3>2, <3>3, <6>1 DEF FirstNearest
          <6> QED
            BY <3>3, <3>5, <6>1, <6>2
        <5>2. \A i \in 1 .. k : i \in 1 .. k - 1 \/ i = k
          BY <2>2
        <5> QED
          BY <2>2, <5>1, <5>2 DEF FirstNearest
      <4> QED
        BY <2>1, <2>2, <4>1, <4>2
    <3> QED
      BY <3>4, <3>5
  <2> QED
    BY <2>3, <2>4
<1> QED
  BY <1>1

\* The scan ends at the first of the gains nearest to the target, for every
\* tuner and every target.
THEOREM NearestGainIsNearest ==
  ASSUME NEW t \in Int, TunerGains # <<>>
  PROVE  \E j \in DOMAIN TunerGains :
           NearestOf(t) = TunerGains[j] /\ FirstNearest(t, j, Len(TunerGains))
<1> DEFINE n == Len(TunerGains)
           g == CHOOSE g : Scanned(t, g, n)
<1>1. n \in Nat /\ n # 0 /\ DOMAIN TunerGains = 1 .. n
  BY StartupAssumption DEF StartupParameters
<1>2. Scanned(t, g, n)
  BY <1>1, ScanExists
<1>3. NearestOf(t) = g[n]
  BY NearestDef
<1>4. n \in 1 .. n
  BY <1>1
<1> HIDE DEF g
<1> QED
  BY <1>1, <1>2, <1>3, <1>4, ScanFinds

-----------------------------------------------------------------------------
\* The variables TypeOK asks no more of than membership in a small set.
SmallTypes ==
  /\ phase \in Phases
  /\ binary \in {"rtl", "rsp"}
  /\ parse \in {"reading", "done", "error", "usage"}
  /\ dev_index \in {"unset", "found", "none"}
  /\ decim \in {0, 1, 2, 4}
  /\ held \in BOOLEAN /\ selected \in BOOLEAN /\ record_file \in BOOLEAN
  /\ api_open \in BOOLEAN /\ connected \in BOOLEAN

Flags ==
  /\ deemph \in BOOLEAN /\ dc_block \in BOOLEAN
  /\ record \in BOOLEAN /\ agc \in BOOLEAN

Numbers ==
  /\ given \in 0 .. MaxOptions
  /\ rate_in \in Nat \ {0}
  /\ input \in [rate : Nat, center : Nat]
  /\ gain_rdb \in {Unset} \cup 0 .. 59
  /\ lna_state \in {Unset} \cup 0 .. 2
  /\ asked \in [rdb : {Unset} \cup 0 .. 59, lna : {Unset} \cup 0 .. 2]
  /\ rate_audio \in Nat /\ direct_sampling \in {0, 1, 2}
  /\ freq \in Nat /\ rate \in Nat /\ downsample \in Nat /\ rate_channel \in Nat

Table ==
  /\ channels \in Seq(Channel) /\ Len(channels) <= FREQUENCIES_LIMIT
  /\ sinks \in 0 .. Len(channels)

GainType == gain \in Int

LEMMA TypeParts == TypeOK <=> SmallTypes /\ Flags /\ Numbers /\ Table /\ GainType
  BY DEF TypeOK, SmallTypes, Flags, Numbers, Table, GainType

LEMMA InitIInv == Init => IInv
<1> SUFFICES ASSUME Init PROVE IInv
  OBVIOUS
<1>1. SmallTypes /\ Flags
  BY DEF Init, OptionsInit, SmallTypes, Flags, Phases
<1>2. Numbers
  BY OptionAssumption, RtlRates
     DEF Init, OptionsInit, Numbers, OptionParameters, NoInput, DEFAULT_SAMPLE_RATE,
         DEFAULT_OUTPUT_RATE
<1>3. Table
  BY OptionAssumption DEF Init, OptionsInit, Table, OptionParameters
<1>5. GainType
  BY DEF Init, OptionsInit, GainType, AUTO_GAIN
<1>4. Early /\ Checked /\ ChannelsInBand /\ DecimationSound
  BY DEF Init, Early, Checked, ChannelsInBand, DecimationSound, Planned
<1> QED
  BY <1>1, <1>2, <1>3, <1>4, <1>5, TypeParts DEF IInv

LEMMA DecimationIsOne == DecimationFor(rate) \in {1, 2, 4}
  BY SMT DEF DecimationFor

LEMMA SmallTypesStep ==
  SmallTypes /\ [Next]_vars => SmallTypes'
<1> SUFFICES ASSUME SmallTypes, [Next]_vars PROVE SmallTypes'
  OBVIOUS
<1> USE DEF SmallTypes, Phases, Proceed, Fail, DeviceClose, optionVars, deviceVars
<1>0. ASSUME UNCHANGED found \/ Search
      PROVE  /\ dev_index' \in {"unset", "found", "none"}
             /\ api_open' \in BOOLEAN /\ connected' \in BOOLEAN
  <2>1. CASE UNCHANGED found
    BY <2>1
  <2>2. CASE Search
    <3>1. /\ dev_index' \in {"found", "none"}
          /\ UNCHANGED api \/ (api_open' = TRUE /\ connected' = TRUE)
      BY <2>2 DEF Search, ApiOpened, ApiFails
    <3> QED
      BY <3>1
  <2> QED
    BY <1>0, <2>1, <2>2
<1>1. CASE ParseOptions
  <2>1. ReadOption /\ UNCHANGED deviceVars /\ phase' \in Phases
    BY <1>1 DEF ParseOptions
  <2>2. /\ UNCHANGED found \/ Search
        /\ UNCHANGED binary /\ parse' \in {parse, "done", "error", "usage"}
    BY <2>1, ReadOptionEffect DEF OptionEffect
  <2> QED
    BY <1>0, <2>1, <2>2
<1>2. CASE Check
  BY <1>2 DEF Check, ApplyGains
<1>3. CASE PlanCapture
  BY <1>3 DEF PlanCapture
<1>4. CASE OpenOutput
  BY <1>4 DEF OpenOutput
<1>5. CASE BuildFilters
  BY <1>5 DEF BuildFilters
<1>6. CASE SearchDevice
  <2>1. /\ UNCHANGED found \/ Search
        /\ phase' \in {"open", "exit"}
        /\ UNCHANGED <<binary, parse, deviceVars>>
    BY <1>6 DEF SearchDevice
  <2> QED
    BY <1>0, <2>1
<1>7. CASE DeviceStep
  <2>1. /\ phase' \in Phases
        /\ UNCHANGED <<binary, parse, dev_index, decim>>
        /\ record_file' \in BOOLEAN
    BY <1>7 DEF DeviceStep
  <2>2. /\ held' \in BOOLEAN /\ selected' \in BOOLEAN
        /\ api_open' \in BOOLEAN /\ connected' \in BOOLEAN
    <3>1. CASE UNCHANGED <<handles, api>>
      BY <3>1
    <3>2. CASE held' = TRUE /\ selected' = TRUE /\ UNCHANGED api
      BY <3>2
    <3>3. CASE DeviceClose
      <4>1. /\ held' = (held /\ ~selected)
            /\ connected' = (connected /\ ~api_open)
            /\ selected' = FALSE /\ api_open' = FALSE
        BY <3>3, Zenon
      <4>2. held' \in BOOLEAN /\ connected' \in BOOLEAN
        BY <4>1, Zenon
      <4> QED
        BY <4>1, <4>2
    <3> QED
      BY <1>7, <3>1, <3>2, <3>3, Zenon DEF DeviceStep
  <2> QED
    BY <2>1, <2>2
<1>11. CASE ApplySettings
  <2>1. decim' \in {0, 1, 2, 4}
    BY <1>11, DecimationIsOne DEF ApplySettings, ApplyRspSettings, ApplyRtlSettings
  <2> QED
    BY <1>11, <2>1 DEF ApplySettings, ApplyRspSettings, ApplyRtlSettings
<1>12. CASE Ended \/ UNCHANGED vars
  BY <1>12 DEF Ended, vars
<1> QED
  BY <1>1, <1>2, <1>3, <1>4, <1>5, <1>6, <1>7, <1>11, <1>12, NextActions

LEMMA FlagsStep == Flags /\ [Next]_vars => Flags'
<1> SUFFICES ASSUME Flags, [Next]_vars PROVE Flags'
  OBVIOUS
<1> USE DEF Flags
<1>1. CASE ParseOptions
  <2>1. OptionEffect /\ UNCHANGED agc
    BY <1>1, ReadOptionEffect DEF ParseOptions, deviceVars
  <2> QED
    BY <2>1 DEF OptionEffect
<1>2. CASE Check
  BY <1>2 DEF Check, ApplyGains
<1>3. ASSUME UNCHANGED <<deemph, dc_block, record, agc>> PROVE Flags'
  BY <1>3
<1>4. CASE PlanCapture \/ OpenOutput \/ BuildFilters
  BY <1>3, <1>4 DEF PlanCapture, OpenOutput, BuildFilters, optionVars, deviceVars
<1>5. CASE SearchDevice \/ DeviceStep
  BY <1>3, <1>5 DEF SearchDevice, DeviceStep, deviceVars
<1>6. CASE ApplySettings
  BY <1>3, <1>6 DEF ApplySettings, ApplyRspSettings, ApplyRtlSettings
<1>7. CASE Ended \/ UNCHANGED vars
  BY <1>3, <1>7 DEF Ended, vars, optionVars, deviceVars
<1> QED
  BY <1>1, <1>2, <1>4, <1>5, <1>6, <1>7, NextActions

LEMMA ParsedNumbers ==
  ASSUME TypeOK, ReadOption
  PROVE  /\ given' \in 0 .. MaxOptions
         /\ rate_in' \in Nat \ {0}
         /\ input' \in [rate : Nat, center : Nat]
         /\ gain_rdb' \in {Unset} \cup 0 .. 59
         /\ lna_state' \in {Unset} \cup 0 .. 2
         /\ rate_audio' \in Nat /\ direct_sampling' \in {0, 1, 2}
<1>0. Numbers
  BY TypeParts
<1>1. OptionEffect
  BY ReadOptionEffect
<1>2. given' \in 0 .. MaxOptions
  BY <1>0, <1>1, OptionAssumption DEF OptionEffect, Numbers, OptionParameters
<1>3. rate_in' \in Nat \ {0} /\ rate_audio' \in Nat
  <2>1. WBFM_SAMPLE_RATE \in Nat \ {0}
    BY SMT DEF WBFM_SAMPLE_RATE
  <2> QED
    BY <1>0, <1>1, <2>1, OptionAssumption
       DEF OptionEffect, Numbers, OptionParameters
<1>4. input' \in [rate : Nat, center : Nat]
  <2>1. CASE UNCHANGED input
    BY <1>0, <2>1 DEF Numbers
  <2>2. CASE ~UNCHANGED input
    <3>1. InputFile
      BY <1>1, <2>2 DEF OptionEffect
    <3>2. PICK i \in Recordings, name \in Names :
            input' = [rate |-> Float(i.rate), center |-> Float(i.center)]
      BY <2>2, <3>1 DEF InputFile, Refuse, Ignore, Unaffected
    <3>3. i \in [rate : 0 .. Significands - 1, center : 0 .. INT_MAX]
      BY OptionAssumption DEF OptionParameters
    <3>4. i.rate \in 0 .. INT_MAX /\ i.center \in 0 .. INT_MAX
      BY <3>3, FloatBounds
    <3>5. Float(i.rate) \in Nat /\ Float(i.center) \in Nat
      BY <3>4, FloatIsNat
    <3> QED
      BY <3>2, <3>5
  <2> QED
    BY <2>1, <2>2
<1> QED
  BY <1>0, <1>1, <1>2, <1>3, <1>4 DEF Numbers, OptionEffect

LEMMA PlannedNumbers ==
  ASSUME IInv, PlanCapture
  PROVE  freq' \in Nat /\ rate' \in Nat /\ downsample' \in Nat /\ rate_channel' \in Nat
<1>1. TypeOK /\ Usable
  BY DEF IInv, Checked, PlanCapture
<1>2. CASE UNCHANGED <<freq, rate, downsample, rate_channel>>
  BY <1>1, <1>2 DEF TypeOK
<1>3. CASE ~UNCHANGED <<freq, rate, downsample, rate_channel>>
  <2>0. PICK lo \in FrequencySet, hi \in FrequencySet :
          /\ \A f \in FrequencySet : lo <= f /\ f <= hi
          /\ \E p \in Plans(lo, hi) :
               /\ freq' = IF FileInput THEN input.center ELSE Center(lo, hi - lo)
               /\ rate' = p.rate
               /\ downsample' = p.downsample
               /\ rate_channel' = p.rate \div p.downsample
    BY <1>3 DEF PlanCapture
  <2>1. PICK p \in Plans(lo, hi) :
          /\ freq' = IF FileInput THEN input.center ELSE Center(lo, hi - lo)
          /\ rate' = p.rate
          /\ downsample' = p.downsample
          /\ rate_channel' = p.rate \div p.downsample
    BY <2>0
  <2>2. p.rate \in Nat /\ p.downsample \in Nat \ {0} /\ freq' \in Nat
    <3>1. CASE FileInput
      <4>1. FrequencySet # {} /\ FrequencySet \subseteq Nat
        BY <1>1, <2>0, SpanHolds
      <4> QED
        BY <1>1, <2>1, <3>1, <4>1, FilePlanHolds
    <3>2. CASE ~FileInput
      BY <1>1, <2>0, <2>1, <3>2, DevicePlanHolds
    <3> QED
      BY <3>1, <3>2
  <2>3. p.rate \div p.downsample \in Nat
    BY <2>2, Quotient
  <2> QED
    BY <2>1, <2>2, <2>3
<1> QED
  BY <1>2, <1>3

LEMMA NumbersStep == IInv /\ [Next]_vars => Numbers'
<1> SUFFICES ASSUME IInv, [Next]_vars PROVE Numbers'
  OBVIOUS
<1>0. TypeOK /\ Numbers
  BY TypeParts DEF IInv
<1> USE <1>0 DEF Numbers
<1>1. CASE ParseOptions
  <2>1. ReadOption /\ UNCHANGED <<asked, freq, rate, downsample, rate_channel>>
    BY <1>1 DEF ParseOptions, deviceVars
  <2> QED
    BY <2>1, ParsedNumbers
<1>2. CASE Check
  <2>1. /\ gain_rdb' \in {gain_rdb, DEFAULT_GRDB}
        /\ lna_state' \in {lna_state, DEFAULT_LNA_STATE}
        /\ asked' = [rdb |-> gain_rdb, lna |-> lna_state]
        /\ UNCHANGED <<given, rate_in, rate_audio, direct_sampling, input,
                       freq, rate, downsample, rate_channel>>
    BY <1>2 DEF Check, ApplyGains
  <2> QED
    BY <2>1 DEF DEFAULT_GRDB, DEFAULT_LNA_STATE
<1>3. CASE PlanCapture
  <2>1. UNCHANGED <<given, rate_in, rate_audio, direct_sampling, input,
                    gain_rdb, lna_state, asked>>
    BY <1>3 DEF PlanCapture, optionVars
  <2> QED
    BY <1>3, <2>1, PlannedNumbers DEF IInv
<1>4. ASSUME UNCHANGED <<given, rate_in, rate_audio, direct_sampling, input,
                         gain_rdb, lna_state, asked, freq, rate, downsample,
                         rate_channel>>
      PROVE  Numbers'
  BY <1>4
<1>5. CASE OpenOutput
  BY <1>4, <1>5, Zenon DEF OpenOutput, optionVars
<1>6. CASE BuildFilters
  BY <1>4, <1>6, Zenon DEF BuildFilters, optionVars, deviceVars
<1>7. CASE SearchDevice
  BY <1>4, <1>7, Zenon DEF SearchDevice, deviceVars
<1>8. CASE DeviceStep
  BY <1>4, <1>8, Zenon DEF DeviceStep
<1>12. CASE ApplySettings
  <2>1. /\ gain_rdb' \in {gain_rdb, DEFAULT_GRDB}
        /\ lna_state' \in {lna_state, DEFAULT_LNA_STATE}
        /\ UNCHANGED <<given, rate_in, rate_audio, direct_sampling, input,
                       asked, freq, rate, downsample, rate_channel>>
    BY <1>12 DEF ApplySettings, ApplyRspSettings, ApplyRtlSettings
  <2> QED
    BY <2>1 DEF DEFAULT_GRDB, DEFAULT_LNA_STATE
<1>13. CASE Ended \/ UNCHANGED vars
  BY <1>4, <1>13, Zenon DEF Ended, vars, optionVars, deviceVars
<1> QED
  BY <1>1, <1>2, <1>3, <1>5, <1>6, <1>7, <1>8, <1>12, <1>13, NextActions

LEMMA TableStep == IInv /\ [Next]_vars => Table'
<1> SUFFICES ASSUME IInv, [Next]_vars PROVE Table'
  OBVIOUS
<1>0. TypeOK /\ Early /\ Table
  BY TypeParts DEF IInv
<1>1. CASE ParseOptions
  <2>1. ReadOption /\ sinks' = 0
    BY <1>0, <1>1 DEF ParseOptions, deviceVars, Early
  <2>2. channels' \in Seq(Channel) /\ Len(channels') <= FREQUENCIES_LIMIT
    BY <1>0, <2>1, ParsedChannels
  <2> QED
    BY <2>1, <2>2 DEF Table
<1>2. ASSUME UNCHANGED channels, UNCHANGED sinks PROVE Table'
  BY <1>0, <1>2 DEF Table
<1>3. CASE Check
  BY <1>2, <1>3 DEF Check
<1>4. CASE PlanCapture
  BY <1>2, <1>4 DEF PlanCapture, optionVars
<1>5. CASE OpenOutput
  <2>1. /\ UNCHANGED channels
        /\ UNCHANGED sinks \/ (sinks < Len(channels) /\ sinks' = sinks + 1)
    BY <1>5 DEF OpenOutput, optionVars
  <2> QED
    BY <1>0, <2>1 DEF Table
<1>6. CASE BuildFilters
  BY <1>2, <1>6 DEF BuildFilters, optionVars, deviceVars
<1>7. CASE SearchDevice
  BY <1>2, <1>7 DEF SearchDevice, deviceVars
<1>8. CASE DeviceStep
  BY <1>2, <1>8 DEF DeviceStep
<1>12. CASE ApplySettings
  BY <1>2, <1>12 DEF ApplySettings, ApplyRspSettings, ApplyRtlSettings
<1>13. CASE Ended \/ UNCHANGED vars
  BY <1>2, <1>13 DEF Ended, vars, optionVars, deviceVars
<1> QED
  BY <1>1, <1>3, <1>4, <1>5, <1>6, <1>7, <1>8, <1>12, <1>13, NextActions

\* What the settings may make of the gain.
LEMMA NearestGainType ==
  ASSUME NEW t \in Int, NEW g \in nearest_gain(t)
  PROVE  g \in Int
<1>1. CASE g \in Errors
  BY <1>1, StartupAssumption DEF StartupParameters
<1>2. CASE g \notin Errors /\ TunerGains = <<>>
  BY <1>2 DEF nearest_gain
<1>3. CASE g \notin Errors /\ TunerGains # <<>>
  <2>1. g = NearestOf(t)
    BY <1>3, Zenon DEF nearest_gain
  <2>2. TunerGains \in Seq(Int)
    BY StartupAssumption DEF StartupParameters
  <2> QED
    BY <1>3, <2>1, <2>2, NearestGainIsNearest
<1> QED
  BY <1>1, <1>2, <1>3

LEMMA GainTypeStep == GainType /\ [Next]_vars => GainType'
<1> SUFFICES ASSUME GainType, [Next]_vars PROVE GainType'
  OBVIOUS
<1> USE DEF GainType
<1>1. CASE ParseOptions
  <2>1. OptionEffect
    BY <1>1, ReadOptionEffect DEF ParseOptions
  <2> QED
    BY <2>1, OptionAssumption DEF OptionEffect, OptionParameters
<1>2. CASE ApplyRtlSettings
  <2>1. gain' = gain \/ gain' \in nearest_gain(gain)
    BY <1>2 DEF ApplyRtlSettings
  <2> QED
    BY <2>1, NearestGainType
<1>3. ASSUME UNCHANGED gain PROVE GainType'
  BY <1>3
<1>4. CASE Check \/ PlanCapture \/ OpenOutput \/ BuildFilters
  BY <1>3, <1>4 DEF Check, PlanCapture, OpenOutput, BuildFilters, optionVars, deviceVars
<1>5. CASE SearchDevice \/ DeviceStep
  BY <1>3, <1>5 DEF SearchDevice, DeviceStep, deviceVars
<1>6. CASE ApplyRspSettings
  BY <1>3, <1>6 DEF ApplyRspSettings
<1>7. CASE Ended \/ UNCHANGED vars
  BY <1>3, <1>7 DEF Ended, vars, optionVars, deviceVars
<1> QED
  BY <1>1, <1>2, <1>4, <1>5, <1>6, <1>7, NextActions DEF ApplySettings

LEMMA IInvStep == IInv /\ [Next]_vars => IInv'
<1> SUFFICES ASSUME IInv, [Next]_vars PROVE IInv'
  OBVIOUS
<1>1. SmallTypes' /\ Flags' /\ Numbers' /\ Table' /\ GainType'
  BY TypeParts, SmallTypesStep, FlagsStep, NumbersStep, TableStep, GainTypeStep
     DEF IInv
<1>2. TypeOK'
  BY <1>1 DEF TypeOK, SmallTypes, Flags, Numbers, Table, GainType
<1> QED
  BY <1>2, PlanStep DEF IInv

-----------------------------------------------------------------------------
(* What the hardware is told, and what its recordings can be played back to. *)

LEMMA Magnitudes == /\ RTL_RATE_MAX_HIGH < Significands
                    /\ RTL_RATE_MIN_HIGH + RTL_RATE_MIN_HIGH < Significands
                    /\ MIN_CAPTURE_RATE \in Nat \ {0}
                    /\ RSP_MAX_SNAP_RATE = 2 * MIN_CAPTURE_RATE
                    /\ MAX_CAPTURE_RATE = 4 * MIN_CAPTURE_RATE
                    /\ MAX_CAPTURE_RATE < Significands
                    /\ RTL_RATE_MAX_HIGH \in Nat /\ Significands \in Nat
  BY SMT DEF RTL_RATE_MAX_HIGH, RTL_RATE_MIN_HIGH, MIN_CAPTURE_RATE,
     RSP_MAX_SNAP_RATE, MAX_CAPTURE_RATE, Significands

RspRates == {MIN_CAPTURE_RATE, RSP_MAX_SNAP_RATE, MAX_CAPTURE_RATE}

\* The tuner's rates are exact as floats.
LEMMA RtlRateExact ==
  ASSUME NEW r \in Nat \ {0}, NEW w \in Nat, r <= w, NEW p \in RtlPlan(r, w)
  PROVE  p.rate < Significands
<1>1. PICK d \in Nat \ {0} : d = Decimation(w, r) /\ d * r <= w
  BY DecimationOf
<1> DEFINE s == RtlSnap(r, d)
<1>2. p = Plan(s * r, s) /\ d * r <= RTL_RATE_MAX_HIGH
  BY <1>1 DEF RtlPlan
<1>3. p.rate = s * r
  BY <1>2 DEF Plan
<1>4. d * r \in Nat /\ r <= d * r
  BY <1>1
<1>5. CASE d * r \in RTL_RATE_MAX_LOW + 1 .. RTL_RATE_MIN_HIGH - 1
  <2>1. s = (RTL_RATE_MIN_HIGH + r - 1) \div r
    BY <1>5, Zenon DEF RtlSnap
  <2>2. d * r <= RTL_RATE_MIN_HIGH - 1
    BY <1>4, <1>5, RtlRates, Between
  <2> DEFINE n == RTL_RATE_MIN_HIGH + r - 1
  <2>3. n \in Nat /\ n < RTL_RATE_MIN_HIGH + r
    BY RtlRates
  <2>4. s = n \div r
    BY <2>1
  <2> HIDE DEF n, s
  <2>5. s * r <= n /\ s * r \in Nat
    <3>1. PICK q \in Nat : q = n \div r /\ q * r <= n
      BY <2>3, Quotient
    <3>2. q * r \in Nat
      OBVIOUS
    <3> QED
      BY <2>4, <3>1, <3>2
  <2> QED
    BY <1>3, <1>4, <2>2, <2>3, <2>5, RtlRates, Magnitudes
<1>6. CASE d * r \notin RTL_RATE_MAX_LOW + 1 .. RTL_RATE_MIN_HIGH - 1
  <2>1. s = d
    BY <1>6, Zenon DEF RtlSnap
  <2> HIDE DEF s
  <2> QED
    BY <1>2, <1>3, <1>4, <2>1, Magnitudes
<1> QED
  BY <1>5, <1>6

\* A multiple of an even number is even.
LEMMA MultipleEven ==
  ASSUME NEW s \in Nat, NEW r \in Nat
  PROVE  (s * r) % 2 <= r % 2
<1>1. PICK n \in Nat : n = s * r
  OBVIOUS
<1>2. CASE r % 2 = 1
  BY <1>1, <1>2
<1>3. CASE r % 2 = 0
  <2>1. PICK k \in Nat : r = 2 * k
    BY <1>3
  <2>2. PICK m \in Nat : m = s * k
    BY <2>1
  <2>3. n = 2 * m
    BY <1>1, <2>1, <2>2
  <2> QED
    BY <1>1, <1>3, <2>3
<1> QED
  BY <1>2, <1>3

LEMMA RtlRateParity ==
  ASSUME NEW r \in Nat \ {0}, NEW w \in Nat, r <= w, NEW p \in RtlPlan(r, w)
  PROVE  p.rate % 2 <= r % 2
<1>1. PICK d \in Nat \ {0} : d = Decimation(w, r)
  BY DecimationOf
<1> DEFINE s == RtlSnap(r, d)
<1>2. p = Plan(s * r, s)
  BY <1>1 DEF RtlPlan
<1>3. p.rate = s * r
  BY <1>2 DEF Plan
<1>4. s \in Nat
  <2>1. PICK q \in Nat : q = (RTL_RATE_MIN_HIGH + r - 1) \div r
    BY AboveGap
  <2> QED
    BY <2>1, Zenon DEF RtlSnap
<1> HIDE DEF s
<1> QED
  BY <1>3, <1>4, MultipleEven

LEMMA RspRateSnapped ==
  ASSUME NEW r, NEW w, NEW p \in RspPlan(r, w)
  PROVE  p.rate \in RspRates
<1>1. p.rate = RspSnap(w)
  BY DEF RspPlan, Plan
<1> QED
  BY <1>1, Zenon DEF RspSnap, RspRates

\* An int below 2^24 is exact as a float.
LEMMA FloatExact ==
  ASSUME NEW n \in 0 .. Significands - 1
  PROVE  Float(n) = n
<1>1. PICK h \in Nat : Significands = 2 * h
  BY FloatBounds
<1>2. n \in Nat /\ n < Significands
  BY <1>1
<1> DEFINE Fits(u) == /\ n \div u < Significands
                      /\ u = 1 \/ 2 * (n \div u) >= Significands
<1>3. Fits(1)
  BY <1>2
<1>4. ASSUME NEW u \in {2, 4, 8, 16, 32, 64, 128} PROVE ~Fits(u)
  BY <1>1, <1>2, <1>4
<1>5. Ulp(n) = 1
  <2>0. \A u \in {2, 4, 8, 16, 32, 64, 128} : ~Fits(u)
    BY <1>4
  <2> HIDE DEF Fits
  <2>1. \E u \in {1, 2, 4, 8, 16, 32, 64, 128} : Fits(u)
    BY <1>3, Zenon
  <2>2. Ulp(n) = CHOOSE u \in {1, 2, 4, 8, 16, 32, 64, 128} : Fits(u)
    BY Zenon DEF Ulp, Fits
  <2>3. Ulp(n) \in {1, 2, 4, 8, 16, 32, 64, 128} /\ Fits(Ulp(n))
    BY <2>1, <2>2, Zenon
  <2> QED
    <3>1. PICK u : u = Ulp(n)
      OBVIOUS
    <3>2. u \in {1, 2, 4, 8, 16, 32, 64, 128} /\ Fits(u)
      BY <2>3, <3>1, Zenon
    <3>3. u \notin {2, 4, 8, 16, 32, 64, 128}
      BY <2>0, <3>2, Zenon
    <3> QED
      BY <3>1, <3>2, <3>3
<1>6. n \div 1 = n /\ n % 1 = 0
  BY <1>2
<1> QED
  BY <1>2, <1>5, <1>6 DEF Float

\* Rounding to a float moves an int by no more than half of the largest unit.
LEMMA FloatError ==
  ASSUME NEW n \in 0 .. INT_MAX
  PROVE  Float(n) - n \in -64 .. 64
<1>1. Ulp(n) \in {1, 2, 4, 8, 16, 32, 64, 128}
  BY UlpIsUnit
<1> DEFINE u == Ulp(n)
           q == n \div u
           r == n % u
<1>2. n \in Nat
  BY FloatBounds
<1>3. u \in 1 .. 128 /\ u \in Nat \ {0}
  BY <1>1
<1>4. Float(n) = IF 2 * r < u \/ (2 * r = u /\ q % 2 = 0) THEN q * u ELSE (q + 1) * u
  BY Zenon DEF Float, u, q, r
<1>8. Float(n) \in {q * u, (q + 1) * u}
  BY Zenon DEF Float, u, q
<1> HIDE DEF u
<1>5. q \in Nat /\ r \in 0 .. u - 1 /\ n - q * u = r
  BY <1>2, <1>3, SMTT(30)
<1>6. q * u \in Nat /\ (q + 1) * u = q * u + u
  BY <1>3, <1>5
<1> HIDE DEF q, r
<1>7. \/ Float(n) = q * u /\ 2 * r <= u
      \/ Float(n) = (q + 1) * u /\ 2 * r >= u
  <2>1. CASE 2 * r < u
    <3>1. Float(n) = q * u
      BY <1>4, <2>1, Zenon
    <3> QED
      BY <1>3, <1>5, <2>1, <3>1
  <2>2. CASE 2 * r = u
    BY <1>3, <1>5, <1>8, <2>2
  <2>3. CASE 2 * r > u
    <3>1. ~(2 * r < u \/ (2 * r = u /\ q % 2 = 0))
      BY <1>3, <1>5, <2>3
    <3>2. Float(n) = (q + 1) * u
      BY <1>4, <3>1, Zenon
    <3> QED
      BY <1>3, <1>5, <2>3, <3>2
  <2> QED
    BY <1>3, <1>5, <2>1, <2>2, <2>3
<1> QED
  BY <1>2, <1>3, <1>5, <1>6, <1>7

-----------------------------------------------------------------------------
(* What the bring-up finds planned and set.                                *)

\* A recording has a rate; the hardware's is one of its own and leaves each
\* channel its width.
Recorded == FileInput => input.rate # 0

RatePlanned ==
  Planned =>
    /\ rate # 0
    /\ ~FileInput =>
         /\ downsample * rate_in <= rate
         /\ rate < downsample * rate_in + rate_in
         /\ rate < Significands
         /\ rate % 2 <= rate_in % 2
         /\ freq \in 0 .. INT_MAX
         /\ binary = "rsp" => rate \in RspRates

Ahead == phase \notin {"options", "check", "plan", "exit"} => Planned

Filtered ==
  phase \notin {"options", "check", "plan", "outputs", "exit"} =>
    downsample <= MaxDownsample

\* The AGC is on exactly if no gain was asked for; without it both gains are
\* the ones asked for, or their defaults.
WithDefault(g, default) == IF g = Unset THEN default ELSE g

GainsGiven ==
  binary = "rsp" /\ phase \notin {"options", "check", "exit"} /\ ~FileInput =>
    /\ agc <=> asked.rdb = Unset /\ asked.lna = Unset
    /\ ~agc => /\ gain_rdb  = WithDefault(asked.rdb, DEFAULT_GRDB)
               /\ lna_state = WithDefault(asked.lna, DEFAULT_LNA_STATE)
    /\ agc => /\ gain_rdb  \in {Unset, DEFAULT_GRDB}
              /\ lna_state \in {Unset, DEFAULT_LNA_STATE}

\* What is being recorded was asked for.
Recording == record_file \/ phase = "record" => record

Brought == /\ Recorded /\ RatePlanned /\ Ahead /\ Filtered /\ GainsGiven
           /\ RspConsistent /\ Recording

BInv == IInv /\ Brought

LEMMA InitBInv == Init => BInv
  BY InitIInv DEF BInv, Brought, Init, OptionsInit, Recorded, FileInput, RatePlanned,
     Planned, Ahead, Filtered, GainsGiven, RspConsistent, Recording

\* The options keep a recording's rate above zero.
LEMMA ParsedRecording ==
  ASSUME ReadOption, Recorded
  PROVE  Recorded'
<1>1. CASE UNCHANGED input
  BY <1>1 DEF Recorded, FileInput
<1>2. CASE ~UNCHANGED input
  <2>1. InputFile
    BY <1>2, ReadOptionEffect DEF OptionEffect
  <2>2. PICK i \in Recordings, name \in Names :
          i.rate > 0 /\ input' = [rate |-> Float(i.rate), center |-> Float(i.center)]
    BY <1>2, <2>1 DEF InputFile, Refuse, Ignore, Unaffected
  <2>3. i.rate \in 0 .. Significands - 1
    BY OptionAssumption DEF OptionParameters
  <2>4. input'.rate = i.rate
    BY <2>2, <2>3, FloatExact
  <2> QED
    BY <2>2, <2>3, <2>4, Magnitudes DEF Recorded
<1> QED
  BY <1>1, <1>2

LEMMA DeviceRate ==
  ASSUME TypeOK, Usable, ~FileInput,
         NEW lo \in FrequencySet, NEW hi \in FrequencySet,
         \A f \in FrequencySet : lo <= f /\ f <= hi,
         NEW p \in Plans(lo, hi)
  PROVE  /\ p.rate < Significands
         /\ p.rate % 2 <= rate_in % 2
         /\ binary = "rsp" => p.rate \in RspRates
<1> DEFINE n == Len(channels)
           w == Width(rate_in, n, hi - lo)
<1>1. /\ lo \in Nat /\ hi \in Nat /\ lo <= hi
      /\ n \in Nat \ {0}
      /\ n = 1 => lo = hi
  BY SpanHolds
<1>2. rate_in \in Nat \ {0}
  BY DEF TypeOK
<1>3. p \in HardwarePlan(binary, rate_in, w)
  BY Zenon DEF Plans
<1> HIDE DEF n
<1>4. hi - lo \in Nat /\ (n = 1 => hi - lo = 0)
  BY <1>1
<1>5. w \in Nat /\ w >= rate_in
  BY <1>1, <1>2, <1>4, WidthHolds
<1> HIDE DEF w
<1>6. CASE binary = "rtl"
  <2>1. p \in RtlPlan(rate_in, w)
    BY <1>3, <1>6, Zenon DEF HardwarePlan
  <2> QED
    BY <1>2, <1>5, <1>6, <2>1, RtlRateExact, RtlRateParity
<1>7. CASE binary # "rtl"
  <2>1. p \in RspPlan(rate_in, w)
    BY <1>3, <1>7, Zenon DEF HardwarePlan
  <2>2. p.rate \in RspRates
    BY <2>1, RspRateSnapped
  <2>3. p.rate < Significands /\ p.rate \in Nat
    BY <2>2, Magnitudes DEF RspRates
  <2>4. p.rate % 2 = 0
    BY <2>2, SMT DEF RspRates, MIN_CAPTURE_RATE, RSP_MAX_SNAP_RATE,
       MAX_CAPTURE_RATE
  <2> QED
    BY <1>2, <1>7, <2>2, <2>3, <2>4
<1> QED
  BY <1>6, <1>7

\* The rate and the centre that plan_capture leaves.
LEMMA PlannedRate ==
  ASSUME IInv, Recorded, PlanCapture
  PROVE  RatePlanned' /\ (phase' # "exit" => Planned')
<1>1. TypeOK /\ Early /\ Usable /\ phase = "plan" /\ downsample = 0
  BY DEF IInv, Checked, Early, PlanCapture
<1>2. UNCHANGED <<channels, rate_in, input, binary>>
  BY DEF PlanCapture, optionVars
<1>3. PICK lo \in FrequencySet, hi \in FrequencySet :
        /\ \A f \in FrequencySet : lo <= f /\ f <= hi
        /\ \/ phase' = "exit" /\ UNCHANGED downsample
           \/ \E p \in Plans(lo, hi) :
                /\ freq' = IF FileInput THEN input.center
                           ELSE Center(lo, hi - lo)
                /\ rate' = p.rate
                /\ downsample' = p.downsample
  BY DEF PlanCapture, Fail
<1>4. CASE phase' = "exit" /\ UNCHANGED downsample
  BY <1>1, <1>4 DEF RatePlanned, Planned
<1>5. ASSUME NEW p \in Plans(lo, hi),
             freq' = IF FileInput THEN input.center ELSE Center(lo, hi - lo),
             rate' = p.rate,
             downsample' = p.downsample
      PROVE  RatePlanned' /\ Planned'
  <2>1. lo <= hi /\ FrequencySet \subseteq 0 .. INT_MAX
    BY <1>1, <1>3, SpanHolds
  <2>2. CASE FileInput
    <3>1. p.rate = input.rate /\ p.downsample \in 1 .. MaxDownsample
      BY <2>2 DEF Plans, PlansOfFile, FilePlan, Plan
    <3> QED
      BY <1>2, <1>5, <2>2, <3>1 DEF Recorded, RatePlanned, Planned, FileInput
  <2>3. CASE ~FileInput
    <3>1. /\ p.downsample \in Nat \ {0}
          /\ p.rate < p.downsample * rate_in + rate_in
          /\ p.downsample * rate_in <= p.rate
      BY <1>1, <1>3, <2>3, DevicePlanHolds
    <3>2. rate_in \in Nat \ {0} /\ p.downsample * rate_in >= rate_in
      <4>1. PICK d \in Nat \ {0}, r \in Nat \ {0} : d = p.downsample /\ r = rate_in
        BY <1>1, <3>1 DEF TypeOK
      <4>2. d * r >= r
        OBVIOUS
      <4> QED
        BY <4>1, <4>2
    <3>3. Center(lo, hi - lo) \in 0 .. INT_MAX
      <4>1. lo \in 0 .. INT_MAX /\ hi \in 0 .. INT_MAX
        BY <2>1
      <4> QED
        BY <2>1, <4>1, FloatBounds DEF Center
    <3>4. /\ p.rate < Significands
          /\ p.rate % 2 <= rate_in % 2
          /\ binary = "rsp" => p.rate \in RspRates
      BY <1>1, <1>3, <2>3, DeviceRate
    <3>5. p.rate # 0
      BY <1>1, <1>3, <2>3, <3>1, <3>2, DevicePlanHolds
    <3> QED
      BY <1>2, <1>5, <2>3, <3>1, <3>3, <3>4, <3>5
         DEF RatePlanned, Planned, FileInput
  <2> QED
    BY <2>2, <2>3
<1> QED
  BY <1>3, <1>4, <1>5

LEMMA Decimated8MHz ==
  ASSUME NEW r \in RspRates
  PROVE  DecimationFor(r) * r = MAX_CAPTURE_RATE
  BY SMT DEF RspRates, DecimationFor, MIN_CAPTURE_RATE, RSP_MAX_SNAP_RATE,
     MAX_CAPTURE_RATE

LEMMA QuotientIs ==
  ASSUME NEW a \in Nat, NEW b \in Nat \ {0}, NEW d \in Nat,
         d * b <= a, a < d * b + b
  PROVE  a \div b = d
<1>1. PICK q \in Nat : q = a \div b /\ q * b <= a /\ a < q * b + b
  BY Quotient
<1>2. ASSUME q < d PROVE FALSE
  <2>1. (q + 1) * b <= d * b /\ (q + 1) * b = q * b + b
    BY <1>2
  <2>2. q * b \in Nat /\ d * b \in Nat
    OBVIOUS
  <2> QED
    BY <1>1, <2>1, <2>2
<1>3. ASSUME d < q PROVE FALSE
  <2>1. (d + 1) * b <= q * b /\ (d + 1) * b = d * b + b
    BY <1>3
  <2>2. q * b \in Nat /\ d * b \in Nat
    OBVIOUS
  <2> QED
    BY <1>1, <2>1, <2>2
<1> QED
  BY <1>1, <1>2, <1>3

\* The variables Brought is about, besides the phase.
broughtVars == <<planVars, binary, agc, asked, rspGain, decim>>

LEMMA RecordingStep == Recording /\ [Next]_vars => Recording'
<1> SUFFICES ASSUME Recording, [Next]_vars PROVE Recording'
  OBVIOUS
<1> USE DEF Recording
<1>1. CASE ParseOptions
  <2>1. /\ OptionEffect /\ UNCHANGED record_file
        /\ phase' # "record"
    BY <1>1, ReadOptionEffect DEF ParseOptions, deviceVars
  <2>2. record' = record \/ record' = TRUE
    BY <2>1 DEF OptionEffect
  <2>3. CASE record'
    BY <2>3
  <2>4. CASE ~record'
    BY <2>1, <2>2, <2>4
  <2> QED
    BY <2>3, <2>4
<1>2. CASE Check \/ PlanCapture \/ BuildFilters
  BY <1>2 DEF Check, PlanCapture, BuildFilters, Proceed, Fail, optionVars, deviceVars
<1>3. CASE OpenOutput \/ SearchDevice
  BY <1>3 DEF OpenOutput, SearchDevice, Proceed, Fail, optionVars, deviceVars
<1>4. CASE DeviceStep
  BY <1>4 DEF DeviceStep
<1>5. CASE ApplySettings
  BY <1>5 DEF ApplySettings, ApplyRspSettings, ApplyRtlSettings, Proceed
<1>6. CASE Ended \/ UNCHANGED vars
  BY <1>6 DEF Ended, vars, optionVars, deviceVars
<1> QED
  BY <1>1, <1>2, <1>3, <1>4, <1>5, <1>6, NextActions

LEMMA BroughtStep == BInv /\ [Next]_vars => Brought'
<1> SUFFICES ASSUME BInv, [Next]_vars PROVE Brought'
  OBVIOUS
<1>0. /\ IInv /\ Early /\ Checked
      /\ Recorded /\ RatePlanned /\ Ahead /\ Filtered /\ GainsGiven /\ RspConsistent
  BY DEF BInv, Brought, IInv
<1>r. Recording'
  BY RecordingStep DEF BInv, Brought
<1> USE <1>r
<1>1. CASE ParseOptions
  <2>1. /\ phase = "options" /\ phase' \in {"options", "check", "exit"}
        /\ ReadOption /\ UNCHANGED downsample
    BY <1>1 DEF ParseOptions, deviceVars
  <2>2. Recorded'
    BY <1>0, <2>1, ParsedRecording
  <2> QED
    BY <1>0, <2>1, <2>2 DEF Early, Brought, RatePlanned, Planned, Ahead, Filtered,
       GainsGiven, RspConsistent
<1>2. CASE Check
  <2>1. /\ phase = "check" /\ phase' \in {"plan", "exit"}
        /\ UNCHANGED <<binary, input, downsample>>
        /\ asked' = [rdb |-> gain_rdb, lna |-> lna_state]
        /\ phase' # "exit" /\ binary = "rsp" => ApplyGains
    BY <1>2 DEF Check, Proceed, Fail, baseband
  <2>2. GainsGiven'
    BY <2>1 DEF GainsGiven, ApplyGains, FileInput, WithDefault
  <2> QED
    BY <1>0, <2>1, <2>2 DEF Early, Brought, Recorded, RatePlanned, Planned, Ahead,
       Filtered, RspConsistent, FileInput
<1>3. CASE PlanCapture
  <2>1. /\ phase = "plan" /\ phase' \in {"outputs", "exit"}
        /\ UNCHANGED <<binary, input, agc, asked, gain_rdb, lna_state>>
    BY <1>3 DEF PlanCapture, Proceed, Fail, optionVars
  <2>2. RatePlanned' /\ (phase' # "exit" => Planned')
    BY <1>0, <1>3, PlannedRate
  <2> QED
    BY <1>0, <2>1, <2>2 DEF Brought, Recorded, Ahead, Filtered, GainsGiven,
       RspConsistent, FileInput
<1>4. ASSUME UNCHANGED broughtVars
      PROVE  /\ Recorded' /\ RatePlanned'
             /\ Planned' <=> Planned
             /\ UNCHANGED <<downsample, binary, agc, asked, gain_rdb, lna_state,
                            decim, rate>>
             /\ FileInput' <=> FileInput
  <2>1. /\ UNCHANGED <<input, freq, rate, downsample, rate_in, binary, agc, asked,
                       gain_rdb, lna_state, decim>>
    BY <1>4 DEF broughtVars, planVars
  <2>2. /\ Recorded' <=> Recorded
        /\ RatePlanned' <=> RatePlanned
        /\ Planned' <=> Planned
        /\ FileInput' <=> FileInput
    BY <2>1 DEF Recorded, RatePlanned, Planned, FileInput
  <2> QED
    BY <1>0, <2>1, <2>2
<1>5. ASSUME UNCHANGED broughtVars,
             phase' # "run" \/ phase = "run",
             phase \notin {"options", "check", "plan", "exit"} \/ UNCHANGED phase,
             phase # "outputs" \/ phase' \in {"outputs", "exit"}
                \/ downsample <= MaxDownsample
      PROVE  Brought'
  BY <1>0, <1>4, <1>5 DEF Brought, Ahead, Filtered, GainsGiven, RspConsistent
<1>6. CASE OpenOutput
  BY <1>5, <1>6 DEF OpenOutput, broughtVars, planVars, optionVars
<1>7. CASE BuildFilters
  <2>1. /\ UNCHANGED broughtVars /\ phase = "outputs"
        /\ phase' = "exit" \/ downsample <= MaxDownsample
        /\ phase' \in {"search", "exit"} \/ (phase' = "run" /\ FileInput)
    BY <1>7 DEF BuildFilters, FiltersFit, Proceed, Fail, broughtVars, planVars,
       optionVars, deviceVars
  <2> QED
    BY <1>0, <1>4, <2>1 DEF Brought, Ahead, Filtered, GainsGiven, RspConsistent
<1>8. CASE SearchDevice
  BY <1>5, <1>8 DEF SearchDevice, Proceed, Fail, broughtVars, planVars, deviceVars
<1>9. CASE DeviceStep
  BY <1>5, <1>9 DEF DeviceStep, broughtVars, planVars
<1>13. CASE ApplyRspSettings
  <2>1. /\ UNCHANGED <<planVars, binary, agc, asked>>
        /\ phase = "settings" /\ phase' = "run"
        /\ binary = "rsp"
        /\ decim' = DecimationFor(rate)
        /\ gain_rdb'  = IF agc /\ gain_rdb = Unset THEN DEFAULT_GRDB ELSE gain_rdb
        /\ lna_state' = IF agc /\ lna_state = Unset THEN DEFAULT_LNA_STATE
                        ELSE lna_state
    BY <1>13 DEF ApplyRspSettings, Proceed, planVars
  <2>2. Recorded' /\ RatePlanned' /\ Ahead' /\ Filtered'
    BY <1>0, <2>1 DEF planVars, Recorded, RatePlanned, Planned, FileInput, Ahead,
       Filtered
  <2>3. ASSUME ~FileInput PROVE decim' * rate = MAX_CAPTURE_RATE
    <3>1. rate \in RspRates
      BY <1>0, <2>1, <2>3 DEF Ahead, RatePlanned
    <3>2. DecimationFor(rate) * rate = MAX_CAPTURE_RATE
      BY <3>1, Decimated8MHz
    <3> QED
      BY <2>1, <3>2
  <2>4. ASSUME ~FileInput
        PROVE  /\ agc <=> asked.rdb = Unset /\ asked.lna = Unset
               /\ gain_rdb'  = WithDefault(asked.rdb, DEFAULT_GRDB)
               /\ lna_state' = WithDefault(asked.lna, DEFAULT_LNA_STATE)
    BY <1>0, <2>1, <2>4 DEF GainsGiven, WithDefault
  <2>5. FileInput' <=> FileInput
    BY <2>1 DEF planVars, FileInput
  <2>6. GainsGiven'
    BY <2>1, <2>4, <2>5 DEF GainsGiven, WithDefault
  <2>7. RspConsistent'
    BY <2>1, <2>3, <2>4, <2>5
       DEF RspConsistent, WithDefault, planVars, DEFAULT_GRDB, DEFAULT_LNA_STATE
  <2> QED
    BY <2>2, <2>6, <2>7 DEF Brought
<1>14. CASE ApplyRtlSettings
  <2>1. /\ UNCHANGED broughtVars
        /\ phase = "settings" /\ phase' \in {"run", "failed"} /\ binary = "rtl"
    BY <1>14 DEF ApplyRtlSettings, Proceed, broughtVars, planVars
  <2> QED
    BY <1>0, <1>4, <2>1 DEF Brought, Ahead, Filtered, GainsGiven, RspConsistent
<1>15. CASE Ended \/ UNCHANGED vars
  <2>1. UNCHANGED broughtVars /\ UNCHANGED phase
    BY <1>15 DEF Ended, vars, optionVars, deviceVars, broughtVars, planVars
  <2> QED
    BY <1>0, <1>4, <2>1 DEF Brought, Ahead, Filtered, GainsGiven, RspConsistent
<1> QED
  BY <1>1, <1>2, <1>3, <1>6, <1>7, <1>8, <1>9, <1>13, <1>14, <1>15,
     NextActions DEF ApplySettings

LEMMA BInvStep == BInv /\ [Next]_vars => BInv'
  BY IInvStep, BroughtStep DEF BInv

\* A live recording is decimated alike when it is played back, unless the
\* rounding of its centre puts a channel outside of it.
LEMMA RecordingReplays == BInv => ReplayFaithful
<1> DEFINE off  == Distance(Float(freq), freq)
           edge == (rate \div 2) - (rate_in \div 2)
<1> SUFFICES ASSUME BInv, phase = "run", record_file
             PROVE  /\ off <= 64
                    /\ \A f \in FrequencySet : Offset(f) <= edge
                    /\ \/ Replay = {Plan(rate, downsample)}
                       \/ Replay = {} /\ \E f \in FrequencySet : Offset(f) + off > edge
  BY DEF ReplayFaithful
<1>1. /\ TypeOK /\ Usable /\ ChannelsInBand
      /\ Planned /\ downsample <= MaxDownsample
      /\ RatePlanned /\ record
  BY DEF BInv, Brought, IInv, Checked, Ahead, Filtered, Recording
<1>2. ~FileInput
  BY <1>1 DEF Usable
<1>3. /\ downsample * rate_in <= rate
      /\ rate < downsample * rate_in + rate_in
      /\ rate < Significands
      /\ rate % 2 <= rate_in % 2
      /\ freq \in 0 .. INT_MAX
  BY <1>1, <1>2 DEF RatePlanned
<1>4. rate \in Nat /\ rate_in \in Nat \ {0} /\ downsample \in Nat \ {0} /\ freq \in Nat
  BY <1>1 DEF TypeOK, Planned
<1>5. Float(rate) = rate
  BY <1>3, <1>4, FloatExact, Magnitudes
<1>6. rate \div rate_in = downsample
  BY <1>3, <1>4, QuotientIs
<1>7. Decimation(rate, rate_in) = downsample
  BY <1>4, <1>6 DEF Decimation, AtLeastOne
<1>8. downsample \in 1 .. MaxDownsample
  BY <1>1, <1>4 DEF MaxDownsample
<1>9. FilePlan(rate_in, rate) = {Plan(rate, downsample)}
  BY <1>7, <1>8, Zenon DEF FilePlan
<1>10. PICK c \in Int : c = Float(freq) /\ c - freq \in -64 .. 64
  BY <1>3, FloatIsNat, FloatError
<1>11. /\ off \in Nat /\ off <= 64
       /\ c - freq <= off /\ freq - c <= off
  BY <1>4, <1>10 DEF Distance
<1>12. edge \in Int /\ 2 * edge + rate_in + 1 >= rate
       /\ \A n \in Nat : 2 * n + rate_in <= rate + 1 => n <= edge
  BY <1>3, <1>4
<1>13. FrequencySet \subseteq Nat
  <2>1. ASSUME NEW i \in DOMAIN channels PROVE channels[i].freq \in Nat
    <3>1. channels[i] \in Channel
      BY <1>1 DEF TypeOK
    <3> QED
      BY <3>1, FloatBounds DEF Channel
  <2> QED
    BY <2>1 DEF FrequencySet, Frequency
<1>14. ASSUME NEW f \in FrequencySet
       PROVE  /\ Offset(f) \in Nat /\ Offset(f) <= edge
              /\ f - freq <= Offset(f) /\ freq - f <= Offset(f)
  <2>1. f \in Nat
    BY <1>13
  <2>2. /\ Offset(f) \in Nat /\ f - freq <= Offset(f) /\ freq - f <= Offset(f)
    BY <1>4, <2>1 DEF Offset
  <2>3. 2 * Offset(f) + rate_in <= rate + 1
    BY <1>1 DEF ChannelsInBand
  <2> HIDE DEF edge
  <2> QED
    BY <1>12, <2>2, <2>3
<1>15. Replay = IF \A f \in FrequencySet : f - c \in -edge .. edge
                THEN {Plan(rate, downsample)} ELSE {}
  BY <1>5, <1>9, <1>10, Zenon DEF Replay, PlansOfFile, InsideFile
<1> HIDE DEF off, edge
<1>16. ASSUME NEW f \in FrequencySet, f - c \notin -edge .. edge
       PROVE  Offset(f) + off > edge
  <2>1. f \in Nat
    BY <1>13
  <2>2. f - c \in Int /\ (f - c < -edge \/ f - c > edge)
    BY <1>10, <1>12, <1>16, <2>1
  <2> QED
    BY <1>4, <1>10, <1>11, <1>12, <1>14, <2>1, <2>2
<1> QED
  BY <1>11, <1>14, <1>15, <1>16, Zenon

-----------------------------------------------------------------------------
(* The channels' oscillators.                                              *)

LEMMA TruncatedNear ==
  ASSUME NEW n \in Int, NEW r \in Nat \ {0}
  PROVE  \E t \in Int : /\ t = Truncated(n, r)
                        /\ t * r - n < r
                        /\ n - t * r < r
<1>1. CASE n < 0
  <2>1. -n \in Nat
    BY <1>1
  <2>2. PICK q \in Nat : q = (-n) \div r /\ q * r <= -n /\ -n < q * r + r
    BY <2>1, Quotient
  <2>3. Truncated(n, r) = -q
    BY <1>1, <2>2 DEF Truncated
  <2>4. (-q) * r = -(q * r) /\ q * r \in Nat
    OBVIOUS
  <2>5. -q \in Int
    OBVIOUS
  <2> QED
    BY <2>2, <2>3, <2>4, <2>5
<1>2. CASE n >= 0
  <2>1. n \in Nat
    BY <1>2
  <2>2. PICK q \in Nat : q = n \div r /\ q * r <= n /\ n < q * r + r
    BY <2>1, Quotient
  <2>3. Truncated(n, r) = q
    BY <1>2, <2>2 DEF Truncated
  <2>4. q * r \in Nat
    OBVIOUS
  <2> QED
    BY <2>2, <2>3, <2>4
<1> QED
  BY <1>1, <1>2

\* Division with remainder, without the remainder.
LEMMA Remainder ==
  ASSUME NEW a \in Int, NEW b \in Nat \ {0}
  PROVE  \E q \in Int : a % b = a - q * b /\ a % b \in 0 .. b - 1
<1>1. PICK q \in Int : q = a \div b
  OBVIOUS
<1>2. a % b \in 0 .. b - 1
  OBVIOUS
<1>3. a - q * b = a % b
  BY <1>1, SMTT(30)
<1> QED
  BY <1>2, <1>3

LEMMA RemainderIs ==
  ASSUME NEW m \in Nat \ {0}, NEW k \in Int, NEW e \in 0 .. m - 1
  PROVE  (k * m + e) % m = e
<1> DEFINE a == k * m + e
<1>1. a \in Int /\ k * m \in Int
  OBVIOUS
<1>2. PICK q \in Int : a % m = a - q * m /\ a % m \in 0 .. m - 1
  BY <1>1, Remainder
<1>3. a = k * m + e
  OBVIOUS
<1> HIDE DEF a
<1>4. q * m \in Int /\ k * m - q * m = (k - q) * m
  OBVIOUS
<1>5. (k - q) * m < m /\ -m < (k - q) * m
  BY <1>1, <1>2, <1>3, <1>4
<1>6. ASSUME k - q >= 1 PROVE FALSE
  <2>1. (k - q) * m >= m
    BY <1>6
  <2> QED
    BY <1>5, <2>1
<1>7. ASSUME k - q <= -1 PROVE FALSE
  <2>1. (k - q) * m <= -m
    BY <1>7
  <2> QED
    BY <1>5, <2>1
<1>8. k = q
  BY <1>6, <1>7
<1>9. a % m = e
  BY <1>1, <1>2, <1>3, <1>8
<1> QED
  BY <1>9 DEF a

\* What ChannelsShifted says of one channel whose offset times a turn is n.
LEMMA OscillatorCancels ==
  ASSUME NEW n \in Int, NEW r \in Nat \ {0}, NEW turn \in Nat \ {0},
         NEW step, step = Truncated(-n, r) % turn,
         NEW off, off = (step * r + n) % (turn * r)
  PROVE  off < r \/ turn * r - off < r
<1>1. PICK t \in Int : /\ t = Truncated(-n, r)
                       /\ t * r - (-n) < r
                       /\ (-n) - t * r < r
  BY TruncatedNear
<1>2. PICK k \in Int : t % turn = t - k * turn
  BY Remainder
<1>3. step = t - k * turn
  BY <1>1, <1>2
<1> DEFINE m == turn * r
           e == t * r + n
<1>4. m \in Nat \ {0} /\ r <= m
  OBVIOUS
<1>5. t * r \in Int /\ k * turn \in Int
  OBVIOUS
<1>6. e \in Int /\ e < r /\ -e < r
  BY <1>1, <1>5
<1>7. step * r = t * r - k * m
  <2>1. (t - k * turn) * r = t * r - k * turn * r
    BY <1>5
  <2>2. k * turn * r = k * (turn * r)
    OBVIOUS
  <2> QED
    BY <1>3, <2>1, <2>2
<1>8. k * m \in Int /\ (-k) * m = -(k * m)
  BY <1>4
<1>9. step * r + n = (-k) * m + e
  BY <1>5, <1>7, <1>8
<1>10. m = turn * r
  OBVIOUS
<1> HIDE DEF m, e
<1>11. CASE e >= 0
  <2>1. e \in 0 .. m - 1 /\ -k \in Int
    BY <1>4, <1>6, <1>11
  <2>2. off = e
    BY <1>4, <1>9, <1>10, <2>1, RemainderIs
  <2> QED
    BY <1>6, <2>2
<1>12. CASE e < 0
  <2>1. m + e \in 0 .. m - 1 /\ -k - 1 \in Int
    BY <1>4, <1>6, <1>12
  <2>2. (-k) * m + e = (-k - 1) * m + (m + e)
    BY <1>4, <1>6
  <2>3. ((-k - 1) * m + (m + e)) % m = m + e
    BY <1>4, <2>1, RemainderIs
  <2>4. off = m + e
    BY <1>9, <1>10, <2>2, <2>3
  <2> QED
    BY <1>4, <1>6, <1>10, <2>4
<1> QED
  BY <1>6, <1>11, <1>12

LEMMA OscillatorsCancel == BInv => ChannelsShifted
<1> SUFFICES ASSUME BInv, Planned, NEW i \in DOMAIN channels
             PROVE  LET setup == ChannelSetup(i)
                        shift == IF setup.frequency_shift_enabled
                                 THEN setup.shift_step ELSE 0
                        off   == (shift * rate + (Frequency(i) - freq) * Turn)
                                   % (Turn * rate)
                    IN off < rate \/ Turn * rate - off < rate
  BY DEF ChannelsShifted
<1> DEFINE f == Frequency(i)
           shift == IF f # freq THEN ShiftStep(f) ELSE 0
           off == (shift * rate + (f - freq) * Turn) % (Turn * rate)
<1>1. /\ ChannelSetup(i).frequency_shift_enabled = (f # freq)
      /\ ChannelSetup(i).shift_step = ShiftStep(f)
  BY DEF ChannelSetup
<1>2. rate \in Nat \ {0} /\ freq \in Nat
  BY DEF BInv, IInv, TypeOK, Brought, RatePlanned
<1>3. f \in Nat
  <2>1. channels[i] \in Channel
    BY DEF BInv, IInv, TypeOK
  <2>2. channels[i].freq \in 0 .. INT_MAX
    BY <2>1 DEF Channel
  <2> QED
    BY <2>2 DEF Frequency
<1>4. Turn \in Nat \ {0}
  BY StartupAssumption DEF StartupParameters
<1>5. off < rate \/ Turn * rate - off < rate
  <2>1. CASE f = freq
    <3>1. shift = 0
      BY <2>1
    <3>2. PICK m \in Nat \ {0} : m = Turn * rate
      BY <1>2, <1>4
    <3>3. (0 * m + 0) % m = 0
      BY <3>2, RemainderIs
    <3>4. shift * rate + (f - freq) * Turn = 0
      BY <1>2, <1>3, <1>4, <2>1, <3>1
    <3>5. off = 0
      BY <3>2, <3>3, <3>4
    <3> QED
      BY <1>2, <3>5
  <2>2. CASE f # freq
    <3>1. PICK d \in Int : d = f - freq
      BY <1>2, <1>3
    <3>2. PICK n \in Int : n = d * Turn
      BY <1>4, <3>1
    <3>3. -(f - freq) * Turn = -n
      BY <1>4, <3>1, <3>2
    <3>4. shift = Truncated(-n, rate) % Turn
      BY <1>2, <2>2, <3>3 DEF ShiftStep
    <3>5. off = (shift * rate + n) % (Turn * rate)
      BY <3>1, <3>2
    <3> HIDE DEF shift, off
    <3> QED
      BY <1>2, <1>4, <3>4, <3>5, OscillatorCancels
  <2> QED
    BY <2>1, <2>2
<1> QED
  BY <1>1, <1>5, Zenon

-----------------------------------------------------------------------------
(* Which planned rates the hardware does not have.                         *)

LEMMA RtlNumbers ==
  /\ RTL_RATE_MIN_LOW \in Nat /\ RTL_RATE_MAX_LOW \in Nat
  /\ RTL_RATE_MIN_HIGH \in Nat /\ RTL_RATE_MAX_HIGH \in Nat
  /\ 2 * RTL_RATE_MIN_HIGH < RTL_RATE_MAX_HIGH
  BY SMT DEF RTL_RATE_MIN_LOW, RTL_RATE_MAX_LOW, RTL_RATE_MIN_HIGH, RTL_RATE_MAX_HIGH

\* What a multiple of r just above the gap is.
LEMMA JustAboveGap ==
  ASSUME NEW r \in Nat \ {0}, r < RTL_RATE_MIN_HIGH
  PROVE  \E q \in Nat : /\ q = (RTL_RATE_MIN_HIGH + r - 1) \div r
                        /\ q * r \in RTL_RATE_MIN_HIGH .. RTL_RATE_MAX_HIGH
<1> DEFINE n == RTL_RATE_MIN_HIGH + r - 1
<1>1. n \in Nat /\ n + 1 = RTL_RATE_MIN_HIGH + r
  BY RtlRates, RtlNumbers
<1> HIDE DEF n
<1>2. PICK q \in Nat : q = n \div r /\ q * r <= n /\ n < q * r + r
  BY <1>1, Quotient
<1>3. q * r \in RTL_RATE_MIN_HIGH .. RTL_RATE_MAX_HIGH
  <2>1. q * r \in Nat
    OBVIOUS
  <2> QED
    BY <1>1, <1>2, <2>1, RtlNumbers
<1> QED
  BY <1>2, <1>3 DEF n

\* The RTL's plan misses the tuner's two ranges only from below, and then
\* not by a channel more than the width that was asked for.
LEMMA RtlMisses ==
  ASSUME NEW r \in Nat \ {0}, NEW w \in Nat, r <= w, NEW p \in RtlPlan(r, w)
  PROVE  \/ p.rate \in RTL_RATE_MIN_LOW .. RTL_RATE_MAX_LOW
         \/ p.rate \in RTL_RATE_MIN_HIGH .. RTL_RATE_MAX_HIGH
         \/ /\ p.rate < RTL_RATE_MIN_LOW
            /\ r < RTL_RATE_MIN_LOW
            /\ w < RTL_RATE_MIN_LOW + r
<1>1. PICK d \in Nat \ {0} : d = Decimation(w, r) /\ w < d * r + r /\ d * r <= w
  BY DecimationOf
<1> DEFINE s == RtlSnap(r, d)
<1>2. p = Plan(s * r, s) /\ d * r <= RTL_RATE_MAX_HIGH
  BY <1>1 DEF RtlPlan
<1>3. p.rate = s * r
  BY <1>2 DEF Plan
<1>4. d * r \in Nat /\ r <= d * r
  BY <1>1
<1>5. CASE d * r \in RTL_RATE_MAX_LOW + 1 .. RTL_RATE_MIN_HIGH - 1
  <2>1. s = (RTL_RATE_MIN_HIGH + r - 1) \div r
    BY <1>5, Zenon DEF RtlSnap
  <2>2. r < RTL_RATE_MIN_HIGH
    BY <1>4, <1>5, RtlRates, Between
  <2> HIDE DEF s
  <2> QED
    BY <1>3, <2>1, <2>2, JustAboveGap
<1>6. CASE d * r \notin RTL_RATE_MAX_LOW + 1 .. RTL_RATE_MIN_HIGH - 1
  <2>1. s = d
    BY <1>6, Zenon DEF RtlSnap
  <2> HIDE DEF s
  <2>2. p.rate = d * r
    BY <1>3, <2>1
  <2> QED
    BY <1>1, <1>2, <1>4, <1>6, <2>2, RtlNumbers
<1> QED
  BY <1>5, <1>6

\* A single channel asks for more than 1 MHz.
LEMMA SingleWidth ==
  ASSUME NEW r \in Nat \ {0}, NEW n, NEW span, n = 1
  PROVE  Width(r, n, span) > 2 * RTL_RATE_MIN_LOW
<1> DEFINE M == 1000000
<1>1. M \in Nat /\ 2 * RTL_RATE_MIN_LOW < M
  BY SMT DEF RTL_RATE_MIN_LOW
<1>2. Width(r, n, span) = ((M \div r) + 1) * r
  BY SMT DEF Width
<1> HIDE DEF M
<1>3. PICK q \in Nat : q = M \div r /\ M < q * r + r
  BY <1>1, Quotient
<1>4. q * r \in Nat /\ (q + 1) * r = q * r + r
  OBVIOUS
<1> QED
  BY <1>1, <1>2, <1>3, <1>4, RtlNumbers

LEMMA RspHits ==
  ASSUME NEW r \in RspRates
  PROVE  r \in MIN_CAPTURE_RATE .. MAX_CAPTURE_RATE
<1>1. /\ MIN_CAPTURE_RATE \in Int /\ RSP_MAX_SNAP_RATE \in Int
      /\ MAX_CAPTURE_RATE \in Int
      /\ MIN_CAPTURE_RATE <= RSP_MAX_SNAP_RATE
      /\ RSP_MAX_SNAP_RATE <= MAX_CAPTURE_RATE
  BY SMT DEF MIN_CAPTURE_RATE, RSP_MAX_SNAP_RATE, MAX_CAPTURE_RATE
<1>2. r = MIN_CAPTURE_RATE \/ r = RSP_MAX_SNAP_RATE \/ r = MAX_CAPTURE_RATE
  BY DEF RspRates
<1> QED
  BY <1>1, <1>2

LEMMA DeviceMisses ==
  ASSUME TypeOK, Usable, ~FileInput,
         NEW lo \in FrequencySet, NEW hi \in FrequencySet,
         \A f \in FrequencySet : lo <= f /\ f <= hi,
         NEW p \in Plans(lo, hi), ~Supported(p.rate)
  PROVE  /\ binary = "rtl" /\ p.rate < RTL_RATE_MIN_LOW
         /\ Len(channels) > 1
         /\ \A f, g \in FrequencySet : f - g + rate_in < RTL_RATE_MIN_LOW
<1> DEFINE n == Len(channels)
           w == Width(rate_in, n, hi - lo)
<1>1. /\ lo \in Nat /\ hi \in Nat /\ lo <= hi
      /\ FrequencySet \subseteq Nat
      /\ n \in Nat \ {0}
      /\ n = 1 => lo = hi
  BY SpanHolds
<1>2. rate_in \in Nat \ {0}
  BY DEF TypeOK
<1>3. p \in HardwarePlan(binary, rate_in, w)
  BY Zenon DEF Plans
<1> HIDE DEF n
<1>4. hi - lo \in Nat /\ (n = 1 => hi - lo = 0)
  BY <1>1
<1>5. /\ w \in Nat /\ w >= rate_in
      /\ n > 1 => w = hi - lo + 2 * rate_in
  BY <1>1, <1>2, <1>4, WidthHolds
<1>6. n = 1 => w > 2 * RTL_RATE_MIN_LOW
  BY <1>2, SingleWidth
<1> HIDE DEF w
<1>7. binary = "rtl"
  <2>1. ASSUME binary # "rtl" PROVE FALSE
    <3>1. p \in RspPlan(rate_in, w)
      BY <1>3, <2>1, Zenon DEF HardwarePlan
    <3>2. p.rate \in RspRates
      BY <3>1, RspRateSnapped
    <3> QED
      BY <2>1, <3>2, RspHits, Zenon DEF Supported
  <2> QED
    BY <2>1
<1>8. p \in RtlPlan(rate_in, w)
  BY <1>3, <1>7, Zenon DEF HardwarePlan
<1>9. /\ p.rate < RTL_RATE_MIN_LOW
      /\ rate_in < RTL_RATE_MIN_LOW
      /\ w < RTL_RATE_MIN_LOW + rate_in
  BY <1>2, <1>5, <1>7, <1>8, RtlMisses, Zenon DEF Supported
<1>10. n > 1
  BY <1>1, <1>2, <1>5, <1>6, <1>9, RtlNumbers
<1>11. ASSUME NEW f \in FrequencySet, NEW g \in FrequencySet
       PROVE  f - g + rate_in < RTL_RATE_MIN_LOW
  <2>1. f \in Nat /\ g \in Nat /\ lo <= g /\ f <= hi
    BY <1>1, <1>11
  <2> QED
    BY <1>1, <1>2, <1>5, <1>9, <1>10, <2>1, RtlNumbers
<1> QED
  BY <1>7, <1>9, <1>10, <1>11 DEF n

LEMMA UnsupportedStep ==
  ASSUME IInv, [Next]_vars, UnsupportedOnlyLow
  PROVE  UnsupportedOnlyLow'
<1>0. TypeOK /\ Early /\ Checked
  BY DEF IInv
<1>1. ASSUME downsample' = 0 PROVE UnsupportedOnlyLow'
  BY <1>1 DEF UnsupportedOnlyLow, Planned
<1>2. ASSUME UNCHANGED <<planVars, binary>> PROVE UnsupportedOnlyLow'
  BY <1>2 DEF UnsupportedOnlyLow, Planned, planVars, FileInput, Supported,
     FrequencySet, Frequency
<1>3. CASE ParseOptions \/ Check
  BY <1>0, <1>1, <1>3 DEF ParseOptions, Check, Early, deviceVars
<1>4. CASE PlanCapture
  <2>1. UNCHANGED <<channels, rate_in, input, binary>> /\ downsample = 0 /\ Usable
    BY <1>0, <1>4 DEF PlanCapture, optionVars, Early, Checked
  <2>2. PICK lo \in FrequencySet, hi \in FrequencySet :
          /\ \A f \in FrequencySet : lo <= f /\ f <= hi
          /\ \/ UNCHANGED downsample
             \/ \E p \in Plans(lo, hi) : rate' = p.rate
    BY <1>4 DEF PlanCapture
  <2>3. ASSUME NEW p \in Plans(lo, hi), rate' = p.rate, ~FileInput,
               ~Supported(rate')
        PROVE  /\ binary = "rtl" /\ rate' < RTL_RATE_MIN_LOW
               /\ Len(channels) > 1
               /\ \A f, g \in FrequencySet : f - g + rate_in < RTL_RATE_MIN_LOW
    BY <1>0, <2>1, <2>2, <2>3, DeviceMisses
  <2>4. /\ FileInput' <=> FileInput
        /\ FrequencySet' = FrequencySet
        /\ Supported(rate)' <=> Supported(rate')
    BY <2>1 DEF FileInput, FrequencySet, Frequency, Supported
  <2> QED
    BY <1>1, <2>1, <2>2, <2>3, <2>4 DEF UnsupportedOnlyLow
<1>5. CASE OpenOutput \/ BuildFilters
  BY <1>2, <1>5 DEF OpenOutput, BuildFilters, planVars, optionVars, deviceVars
<1>6. CASE SearchDevice \/ DeviceStep
  BY <1>2, <1>6 DEF SearchDevice, DeviceStep, planVars, deviceVars
<1>7. CASE ApplySettings
  BY <1>2, <1>7 DEF ApplySettings, ApplyRspSettings, ApplyRtlSettings, planVars
<1>8. CASE Ended \/ UNCHANGED vars
  BY <1>2, <1>8 DEF Ended, vars, optionVars, deviceVars, planVars
<1> QED
  BY <1>3, <1>4, <1>5, <1>6, <1>7, <1>8, NextActions

-----------------------------------------------------------------------------
\* What the program noted as open is what is open: device_close has nothing
\* else to go by.
Noted == held = selected /\ connected = api_open

RInv == SmallTypes /\ Noted /\ DeviceReleased

LEMMA InitRInv == Init => RInv
  BY DEF Init, OptionsInit, RInv, SmallTypes, Phases, Noted, DeviceReleased

\* Opening the API and closing the device keep the notes.
LEMMA NotesKept ==
  ASSUME SmallTypes, Noted
  PROVE  /\ ApiOpened \/ ApiFails => connected' = api_open'
         /\ DeviceClose => ~held' /\ ~selected' /\ ~connected' /\ ~api_open'
                           /\ held' = selected' /\ connected' = api_open'
  BY DEF SmallTypes, Noted, ApiOpened, ApiFails, DeviceClose

LEMMA RInvStep == RInv /\ [Next]_vars => RInv'
<1> SUFFICES ASSUME RInv, [Next]_vars PROVE RInv'
  OBVIOUS
<1>0. SmallTypes /\ Noted /\ DeviceReleased /\ SmallTypes'
  BY SmallTypesStep DEF RInv
<1>1. ASSUME connected' = api_open', UNCHANGED handles,
             phase' \notin {"failed", "ended"}
      PROVE  RInv'
  BY <1>0, <1>1 DEF RInv, Noted, DeviceReleased
<1>2. ASSUME UNCHANGED found \/ Search
      PROVE  connected' = api_open'
  BY <1>0, <1>2, NotesKept DEF Search, Noted
<1>3. CASE ParseOptions
  <2>1. /\ UNCHANGED handles /\ phase' \in {"options", "check", "exit"}
        /\ UNCHANGED found \/ Search
    BY <1>3, ReadOptionEffect DEF ParseOptions, OptionEffect, deviceVars
  <2> QED
    BY <1>1, <1>2, <2>1
<1>4. CASE Check \/ PlanCapture \/ OpenOutput \/ BuildFilters
  <2>1. /\ UNCHANGED <<handles, api>>
        /\ phase' \in {"plan", "outputs", "search", "run", "exit"}
    BY <1>4 DEF Check, PlanCapture, OpenOutput, BuildFilters, Proceed, Fail,
       optionVars, deviceVars
  <2> QED
    BY <1>0, <1>1, <2>1 DEF Noted
<1>5. CASE SearchDevice
  <2>1. /\ UNCHANGED handles /\ phase' \in {"open", "exit"}
        /\ UNCHANGED found \/ Search
    BY <1>5 DEF SearchDevice, Proceed, Fail, deviceVars
  <2> QED
    BY <1>1, <1>2, <2>1
<1>6. ASSUME /\ \/ UNCHANGED <<handles, api>>
                \/ held' = TRUE /\ selected' = TRUE /\ UNCHANGED api
                \/ DeviceClose,
             phase' \in {"failed", "ended"} => FileInput \/ DeviceClose,
             UNCHANGED input
      PROVE  RInv'
  <2>1. Noted'
    BY <1>0, <1>6, NotesKept DEF Noted
  <2>2. DeviceReleased'
    BY <1>0, <1>6, NotesKept DEF DeviceReleased, FileInput
  <2> QED
    BY <1>0, <2>1, <2>2 DEF RInv
<1>7. CASE DeviceStep
  BY <1>6, <1>7 DEF DeviceStep
<1>8. CASE ApplySettings
  <2>1. /\ UNCHANGED <<handles, api>> \/ DeviceClose
        /\ phase' \in {"failed", "ended"} => DeviceClose
        /\ UNCHANGED input
    BY <1>8 DEF ApplySettings, ApplyRspSettings, ApplyRtlSettings, Proceed
  <2> QED
    BY <1>6, <2>1
<1>9. CASE Ended \/ UNCHANGED vars
  <2>1. UNCHANGED <<phase, input, handles, api>>
    BY <1>9 DEF Ended, vars, optionVars, deviceVars
  <2> QED
    BY <1>0, <2>1 DEF RInv, Noted, DeviceReleased, FileInput
<1> QED
  BY <1>3, <1>4, <1>5, <1>7, <1>8, <1>9, NextActions

-----------------------------------------------------------------------------
\* Every variable keeps to its type, whatever the command line: the channel
\* table stays within its limit and rates stay positive.
THEOREM TypeCorrect == Spec => []TypeOK
  BY InitIInv, IInvStep, PTL DEF Spec, IInv

\* The band the device captures holds every channel with its whole width,
\* for any frequencies and channel rate, live or played back.
THEOREM BandHoldsChannels == Spec => []ChannelsInBand
  BY InitIInv, IInvStep, PTL DEF Spec, IInv

\* Every channel's oscillator cancels its offset from the centre.
THEOREM ShiftsCancelOffsets == Spec => []ChannelsShifted
  BY InitBInv, BInvStep, OscillatorsCancel, PTL DEF Spec

\* The decimation planned is the largest that leaves a channel its width.
THEOREM DecimationKeepsWidth == Spec => []DecimationSound
  BY InitIInv, IInvStep, PTL DEF Spec, IInv

\* The finding about the RTL's rates is the only one of its kind: a planned
\* rate the hardware does not have is below the tuner's lower range, and
\* several channels no wider apart than that asked for it.
THEOREM OnlyLowRatesUnsupported == Spec => []UnsupportedOnlyLow
<1>1. Init => UnsupportedOnlyLow
  BY DEF Init, UnsupportedOnlyLow, Planned
<1> QED
  BY InitIInv, IInvStep, UnsupportedStep, <1>1, PTL DEF Spec

\* The RSP's decimation gives the planned rate, and its gains are the ones
\* asked for, or their defaults.
THEOREM RspAgrees == Spec => []RspConsistent
  BY InitBInv, BInvStep, PTL DEF Spec, BInv, Brought

\* What was recorded live is decimated alike in a replay, or refused for a
\* channel that the rounding of the centre puts over its edge.
THEOREM ReplaysFaithfully == Spec => []ReplayFaithful
  BY InitBInv, BInvStep, RecordingReplays, PTL DEF Spec

\* The tuner is set to the nearest of its gains, whatever gain was asked for.
THEOREM SetsNearestGain == Spec => GainNearest
<1> DEFINE Nearest ==
      \/ gain' \in Errors
      \/ TunerGains = <<>> /\ gain' = 0
      \/ /\ \E i \in DOMAIN TunerGains : gain' = TunerGains[i]
         /\ \A i \in DOMAIN TunerGains :
              Distance(gain, gain') <= Distance(gain, TunerGains[i])
<1>1. ASSUME IInv, Next, phase = "settings", gain' # gain PROVE Nearest
  <2>1. CASE ApplyRtlSettings
    <3>1. gain \in Int /\ gain' \in nearest_gain(gain)
      BY <1>1, <2>1 DEF IInv, TypeOK, ApplyRtlSettings
    <3>2. CASE gain' \in Errors \/ TunerGains = <<>>
      BY <3>1, <3>2 DEF nearest_gain
    <3>3. CASE gain' \notin Errors /\ TunerGains # <<>>
      <4>1. gain' = NearestOf(gain)
        BY <3>1, <3>3, Zenon DEF nearest_gain
      <4>2. PICK j \in DOMAIN TunerGains :
              gain' = TunerGains[j] /\ FirstNearest(gain, j, Len(TunerGains))
        BY <3>1, <3>3, <4>1, NearestGainIsNearest
      <4>3. ASSUME NEW i \in DOMAIN TunerGains
            PROVE  Distance(gain, TunerGains[j]) <= Distance(gain, TunerGains[i])
        <5>1. /\ TunerGains \in Seq(Int)
              /\ DOMAIN TunerGains = 1 .. Len(TunerGains)
          BY StartupAssumption DEF StartupParameters
        <5>2. TunerGains[i] \in Int /\ TunerGains[j] \in Int
          BY <5>1
        <5>3. /\ Distance(gain, TunerGains[i]) \in Int
              /\ Distance(gain, TunerGains[j]) \in Int
          BY <3>1, <5>2 DEF Distance
        <5> QED
          BY <4>2, <5>1, <5>3 DEF FirstNearest
      <4> QED
        BY <4>2, <4>3
    <3> QED
      BY <3>2, <3>3
  <2>2. CASE ApplyRspSettings
    BY <1>1, <2>2 DEF ApplyRspSettings
  <2>3. CASE \/ ParseOptions \/ Check \/ PlanCapture \/ OpenOutput
             \/ BuildFilters \/ SearchDevice \/ DeviceStep
    BY <1>1, <2>3 DEF ParseOptions, Check, PlanCapture, OpenOutput, BuildFilters,
       SearchDevice, DeviceStep
  <2>4. CASE Ended
    BY <1>1, <2>4 DEF Ended
  <2> QED
    BY <1>1, <2>1, <2>2, <2>3, <2>4, NextActions DEF ApplySettings
<1>2. IInv /\ [Next]_vars => [phase = "settings" /\ gain' # gain => Nearest]_vars
  BY <1>1
<1> QED
  BY InitIInv, IInvStep, <1>2, PTL DEF Spec, GainNearest

\* Whichever step of the bring-up fails after device_open was called, and when
\* a session is torn down, the device and the API are given back.
THEOREM ReleasesDevice == Spec => []DeviceReleased
  BY InitRInv, RInvStep, PTL DEF Spec, RInv
=============================================================================
