---------------------------- MODULE CapturePlan ----------------------------
(***************************************************************************)
(* The arithmetic of the capture plan: where the device is tuned, how wide *)
(* a capture the channels need, the hardware rate each backend makes of    *)
(* it, and the integer decimation down to a channel.  All rates and        *)
(* frequencies are in Hz.                                                  *)
(*                                                                         *)
(* A plan is a set: {} when the request is refused, else one record.       *)
(* Widths here stay far below 2^31 (they are refused above 8 MHz), so the  *)
(* 64-bit arithmetic of the code is that of the integers.                  *)
(***************************************************************************)
EXTENDS Integers

WBFM_SAMPLE_RATE    == 170000
DEFAULT_SAMPLE_RATE == 12000

\* What the RTL2832U can sample at, and the ceiling on a request.
RTL_RATE_MIN_LOW  == 225001
RTL_RATE_MAX_LOW  == 300000
RTL_RATE_MIN_HIGH == 900001
RTL_RATE_MAX_HIGH == 3200000
RTL_MAX_CAPTURE   == 2400000

\* What the RSP's API delivers: 8 MHz decimated by 1, 2 or 4.
MIN_CAPTURE_RATE  == 2000000
RSP_MAX_SNAP_RATE == 4000000
MAX_CAPTURE_RATE  == 8000000

\* The decimation both backends allow.
MaxDownsample == 256

\* What fits in the significand of a float; and the bound on a recording's
\* centre, 2.1 GHz.
Significands == 4096 * 4096
INT_MAX      == 127 * Significands + (Significands - 1)

\* n as the 24-bit significand of a float holds it: the nearest multiple of
\* its unit in the last place, to even when there are two.
Ulp(n) ==
  CHOOSE u \in {1, 2, 4, 8, 16, 32, 64, 128} :
    /\ n \div u < Significands
    /\ u = 1 \/ 2 * (n \div u) >= Significands

Float(n) ==
  LET u == Ulp(n)
      q == n \div u
      r == n % u
  IN IF 2 * r < u \/ (2 * r = u /\ q % 2 = 0) THEN q * u ELSE (q + 1) * u

-----------------------------------------------------------------------------
(* plan_capture.                                                           *)

\* The midpoint of a span of frequencies.
Center(lowest, span) == lowest + span \div 2

\* Mutant: one guard band for the two edges of the span.
WidthHalfGuard(rate_in, n, span) ==
  IF n > 1 THEN span + rate_in ELSE ((1000000 \div rate_in) + 1) * rate_in

\* The width to ask for: the span with a channel's width of guard at each
\* end, or at least 1 MHz for a single channel.
Width(rate_in, n, span) ==
  IF n > 1 THEN span + 2 * rate_in ELSE ((1000000 \div rate_in) + 1) * rate_in

\* A channel of a recording lies inside the recorded span.
InsideFile(rate, center, rate_in, f) ==
  LET limit == (rate \div 2) - (rate_in \div 2)
  IN f - center \in -limit .. limit

-----------------------------------------------------------------------------
(* device_plan_capture of the two backends.                                *)

AtLeastOne(n) == IF n < 1 THEN 1 ELSE n

\* Mutant: rounded up, so that channels come out narrower than asked for.
DecimationUp(width, rate_in) == AtLeastOne((width + rate_in - 1) \div rate_in)

Decimation(width, rate_in) == AtLeastOne(width \div rate_in)

Plan(rate, downsample) == [rate |-> rate, downsample |-> downsample]

\* A file is not sampled: only its decimation is planned.
FilePlan(rate_in, width) ==
  {Plan(width, d) : d \in {Decimation(width, rate_in)} \cap 1 .. MaxDownsample}

\* Rates in the gap between the tuner's two ranges are raised to the lowest
\* multiple of the channel rate above it.
RtlSnap(rate_in, downsample) ==
  IF downsample * rate_in \in RTL_RATE_MAX_LOW + 1 .. RTL_RATE_MIN_HIGH - 1
  THEN (RTL_RATE_MIN_HIGH + rate_in - 1) \div rate_in
  ELSE downsample

RtlPlan(rate_in, width) ==
  LET d == Decimation(width, rate_in)
      s == RtlSnap(rate_in, d)
  IN IF /\ d <= MaxDownsample
        /\ d * rate_in <= RTL_RATE_MAX_HIGH
        /\ width <= RTL_MAX_CAPTURE
     THEN {Plan(s * rate_in, s)}
     ELSE {}

RspSnap(width) ==
  IF width <= MIN_CAPTURE_RATE THEN MIN_CAPTURE_RATE
  ELSE IF width <= RSP_MAX_SNAP_RATE THEN RSP_MAX_SNAP_RATE
  ELSE MAX_CAPTURE_RATE

\* Mutant: the decimation is computed from the width, before it was raised.
RspPlanFromWidth(rate_in, width) ==
  IF width > MAX_CAPTURE_RATE THEN {}
  ELSE {Plan(RspSnap(width), d) :
          d \in {Decimation(width, rate_in)} \cap 1 .. MaxDownsample}

RspPlan(rate_in, width) ==
  IF width > MAX_CAPTURE_RATE THEN {}
  ELSE LET rate == RspSnap(width)
       IN {Plan(rate, d) :
             d \in {Decimation(rate, rate_in)} \cap 1 .. MaxDownsample}

HardwarePlan(binary, rate_in, width) ==
  IF binary = "rtl" THEN RtlPlan(rate_in, width) ELSE RspPlan(rate_in, width)
=============================================================================
