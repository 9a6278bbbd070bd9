------------------------------ MODULE Pipeline ------------------------------
(***************************************************************************)
(* One channel's chain from the shared chunk to audio: the oscillator that *)
(* shifts the channel to baseband, the FIR decimator, the demodulator of   *)
(* the channel's mode, the audio filters and the resampler.  Chunks have   *)
(* any length, and each stage carries state from one chunk to the next:    *)
(* the oscillator its phase, the decimator its history and its position in *)
(* the stream, the FM discriminator a sample, and the filters, which are   *)
(* objects of liquid-dsp, all they have been given so far.                 *)
(*                                                                         *)
(* The samples a pipeline is given are numbered from 1 (a TCP channel is   *)
(* not given the chunks it skips).  A sample stands for its number and the *)
(* bin of the phasor it was multiplied with; an output of the decimator    *)
(* stands for the window of samples its taps were applied to.  An audio    *)
(* sample stands for what it was computed from, and an output of a filter  *)
(* or of the resampler also for its number among all the filter's outputs: *)
(* what the filter had been given before.                                  *)
(***************************************************************************)
EXTENDS FirKernels, FiniteSets, Sequences

CONSTANTS
  Setups,      \* what setup_pipelines may configure a channel with
  Reach,       \* 2 * m: the history is Reach * factor samples
  Turn,        \* 2^32: the phases of the accumulator
  Bin,         \* 2^16: the phases of one entry of shift_lut
  Lengths,     \* chunk lengths
  MaxSamples   \* bound: samples given to the pipeline

PipelineParameters ==
  /\ Reach \in Nat \ {0}
  /\ Turn \in Nat \ {0}
  /\ Bin \in Nat \ {0}
  /\ Setups \subseteq [downsample_factor       : Nat \ {0},
                       frequency_shift_enabled : BOOLEAN,
                       shift_step              : 0 .. Turn - 1,
                       decim_taps_pairs        : BOOLEAN,
                       mode                    : {"fm", "am", "usb", "lsb", "raw"},
                       deemph_enabled          : BOOLEAN,
                       dc_block_enabled        : BOOLEAN,
                       demod_rate              : Nat \ {0},
                       output_rate             : Nat \ {0}]
  /\ Lengths \subseteq Nat \ {0}
  /\ MaxSamples \in Nat

ASSUME PipelineAssumption == PipelineParameters

VARIABLES
  factor,          \* downsample_factor
  shift_enabled,   \* frequency_shift_enabled
  shift_step,
  setup,           \* the rest of the channel's configuration
  shift_acc,
  decimator_tail,
  decim_rem,
  prev_sample,
  deemph_filter,   \* samples the filter object has been given
  dc_block_filter, \* the same
  audio_resampler, \* the same
  slot,            \* the shared chunk
  work,            \* the private buffer, written in place by every stage
  temp_out,        \* the decimator's scratch buffer
  pc,
  given,           \* history: samples given to the pipeline
  decimated,       \* history: what the demodulator was given
  audio            \* history: the audio that came out

config  == <<factor, shift_enabled, shift_step, setup>>
filters == <<deemph_filter, dc_block_filter, audio_resampler>>
carried == <<shift_acc, decimator_tail, decim_rem, prev_sample, filters>>
buffers == <<slot, work, temp_out>>
history == <<given, decimated, audio>>
vars    == <<config, carried, buffers, pc, history>>

Sample(i, t) == [at |-> i, turn |-> t]
Zero == Sample(0, 0)

\* The shared slot, or the work buffer if the shift has staged the chunk there.
Input == IF shift_enabled THEN work ELSE slot

-----------------------------------------------------------------------------
\* pipeline_init, setup_pipelines and decimator_create.
Init ==
  /\ setup \in Setups
  /\ factor = setup.downsample_factor
  /\ shift_enabled = setup.frequency_shift_enabled
  /\ shift_step = setup.shift_step
  /\ shift_acc = 0
  /\ decimator_tail = [j \in 1 .. Reach * factor |-> Zero]
  /\ decim_rem = 0
  /\ prev_sample = Zero
  /\ deemph_filter = 0
  /\ dc_block_filter = 0
  /\ audio_resampler = 0
  /\ slot = <<>>
  /\ work = <<>>
  /\ temp_out = <<>>
  /\ pc = "idle"
  /\ given = 0
  /\ decimated = <<>>
  /\ audio = <<>>

\* The demod thread has the next chunk.
Process(n) ==
  /\ pc = "idle"
  /\ given + n <= MaxSamples
  /\ slot' = [i \in 1 .. n |-> Sample(given + i, 0)]
  /\ given' = given + n
  /\ pc' = "shift"
  /\ UNCHANGED <<config, carried, work, temp_out, decimated, audio>>

\* The i-th phase from acc on: the accumulator wraps at a full turn.
Phase(acc, i) == (acc + (i - 1) * shift_step) % Turn

\* dsp_shift_frequency
Shift ==
  /\ pc = "shift"
  /\ shift_enabled
  /\ work' = [i \in 1 .. Len(slot) |->
                Sample(slot[i].at, Phase(shift_acc, i) \div Bin)]
  /\ shift_acc' = Phase(shift_acc, Len(slot) + 1)
  /\ pc' = "filter"
  /\ UNCHANGED <<config, decimator_tail, decim_rem, prev_sample, filters,
                 slot, temp_out, history>>

NoShift ==
  /\ pc = "shift"
  /\ ~shift_enabled
  /\ pc' = "filter"
  /\ UNCHANGED <<config, carried, buffers, history>>

-----------------------------------------------------------------------------
(* dsp_decimate_channel.  Offsets count from the oldest sample of the      *)
(* history on into the chunk.                                              *)

\* Without decimation the chunk goes through, copied unless it is there.
PassThrough ==
  /\ pc = "filter"
  /\ factor <= 1
  /\ work' = Input
  /\ pc' = "demodulate"
  /\ UNCHANGED <<config, carried, slot, temp_out, history>>

OutLen == (Len(Input) + decim_rem) \div factor

\* Mutant: the window begins one sample late.
FirstWindowLate ==
  LET gap == (factor - decim_rem) % factor
  IN IF gap = 0 THEN factor ELSE gap

\* Where the first window begins: e, before the loops.
FirstWindow ==
  LET gap == (factor - decim_rem) % factor
  IN (IF gap = 0 THEN factor ELSE gap) - 1

\* The samples under the taps at offset e: from the history while it lasts,
\* then from the chunk.
Window(e) ==
  [j \in 1 .. Len(decimator_tail) + 1 |->
     IF e + j <= Len(decimator_tail)
     THEN decimator_tail[e + j]
     ELSE Input[e + j - Len(decimator_tail)]]

Filter ==
  /\ pc = "filter"
  /\ factor > 1
  /\ temp_out' = [k \in 1 .. OutLen |-> Window(FirstWindow + (k - 1) * factor)]
  /\ pc' = "slide"
  /\ UNCHANGED <<config, carried, slot, work, history>>

\* The history, moved on by the whole chunk, used or not.
Slid ==
  IF Len(Input) >= Len(decimator_tail)
  THEN SubSeq(Input, Len(Input) - Len(decimator_tail) + 1, Len(Input))
  ELSE SubSeq(decimator_tail, Len(Input) + 1, Len(decimator_tail)) \o Input

\* Mutant: the remainder forgets what was left of the chunks before.
SlideForgets ==
  /\ pc = "slide"
  /\ decimator_tail' = Slid
  /\ decim_rem' = Len(Input) % factor
  /\ pc' = "stage"
  /\ UNCHANGED <<config, shift_acc, prev_sample, filters, buffers, history>>

\* Mutant: the position in the stream is not reduced.
SlideUnreduced ==
  /\ pc = "slide"
  /\ decimator_tail' = Slid
  /\ decim_rem' = decim_rem + Len(Input)
  /\ pc' = "stage"
  /\ UNCHANGED <<config, shift_acc, prev_sample, filters, buffers, history>>

\* The history and the position in the stream, modulo the factor, carry over.
Slide ==
  /\ pc = "slide"
  /\ decimator_tail' = Slid
  /\ decim_rem' = (decim_rem + Len(Input)) % factor
  /\ pc' = "stage"
  /\ UNCHANGED <<config, shift_acc, prev_sample, filters, buffers, history>>

\* Only now may the output cover the input.
Stage ==
  /\ pc = "stage"
  /\ work' = temp_out
  /\ pc' = "demodulate"
  /\ UNCHANGED <<config, carried, slot, temp_out, history>>

-----------------------------------------------------------------------------
(* The demodulators.                                                       *)

Previous(i) == IF i = 1 THEN prev_sample ELSE work[i - 1]

\* Each sample against the one before it.
DemodulateFm == [i \in 1 .. Len(work) |-> <<"fm", work[i], Previous(i)>>]

\* demodulate_am, demodulate_usb and demodulate_lsb: each sample by itself.
DemodulateSample == [i \in 1 .. Len(work) |-> <<setup.mode, work[i]>>]

\* The real and the imaginary part of each sample, in turn.
RawPart(i) == IF i % 2 = 1 THEN "re" ELSE "im"

DemodulateRaw ==
  [i \in 1 .. 2 * Len(work) |-> <<RawPart(i), work[(i + 1) \div 2]>>]

Raw == setup.mode = "raw"

Demodulated ==
  CASE setup.mode = "fm" -> DemodulateFm
    [] Raw               -> DemodulateRaw
    [] OTHER             -> DemodulateSample

(* The audio filters, run by pipeline_process unless the mode is raw.      *)

Deemphasise == setup.deemph_enabled /\ ~Raw
BlockDc     == setup.dc_block_enabled /\ ~Raw
Resample    == setup.demod_rate # setup.output_rate /\ ~Raw

Deemphasised(in) ==
  IF Deemphasise
  THEN [i \in 1 .. Len(in) |-> <<"deemph", deemph_filter + i, in[i]>>]
  ELSE in

DcBlocked(in) ==
  IF BlockDc
  THEN [i \in 1 .. Len(in) |-> <<"dc_block", dc_block_filter + i, in[i]>>]
  ELSE in

\* liquid's resampler, once it was given n samples in all, has put out so
\* many, the first at once; and the sample that its k-th output waited for.
\* What exceeds MAXIMUM_BUF_LENGTH (dsp.c:392-406) is out of this model's sizes.
Outputs(n) ==
  (n * setup.output_rate + setup.demod_rate - 1) \div setup.demod_rate
WaitedFor(k) == ((k - 1) * setup.demod_rate) \div setup.output_rate + 1

Resampled(in) ==
  IF Resample
  THEN LET before == Outputs(audio_resampler)
       IN [k \in 1 .. Outputs(audio_resampler + Len(in)) - before |->
             <<"resampled", before + k,
               in[WaitedFor(before + k) - audio_resampler]>>]
  ELSE in

Given(filter, runs) == filter + (IF runs THEN Len(Demodulated) ELSE 0)

\* Mutant: the first sample of a chunk is kept, not the last.
KeepFirst == IF work = <<>> THEN prev_sample ELSE work[1]

\* The discriminator keeps the last sample; a chunk may have been too short to
\* give any.
Keep == IF work = <<>> THEN prev_sample ELSE work[Len(work)]

\* The rest of pipeline_process, on the thread's own buffers.
Demodulate ==
  /\ pc = "demodulate"
  /\ decimated' = decimated \o work
  /\ audio' = audio \o Resampled(DcBlocked(Deemphasised(Demodulated)))
  /\ prev_sample' = IF setup.mode = "fm" THEN Keep ELSE prev_sample
  /\ deemph_filter' = Given(deemph_filter, Deemphasise)
  /\ dc_block_filter' = Given(dc_block_filter, BlockDc)
  /\ audio_resampler' = Given(audio_resampler, Resample)
  /\ pc' = "idle"
  /\ UNCHANGED <<config, shift_acc, decimator_tail, decim_rem, buffers, given>>

\* The stream is over.
Idle ==
  /\ pc = "idle"
  /\ given = MaxSamples
  /\ UNCHANGED vars

Next ==
  \/ \E n \in Lengths : Process(n)
  \/ Shift \/ NoShift
  \/ PassThrough \/ Filter \/ Slide \/ Stage
  \/ Demodulate
  \/ Idle

Spec == Init /\ [][Next]_vars

-----------------------------------------------------------------------------
(* Properties.                                                             *)

\* The buffers hold samples, or windows once decimated; the accumulator stays
\* below a turn, the carry below the factor, and the history full.
TypeOK ==
  /\ setup \in Setups
  /\ factor = setup.downsample_factor
  /\ shift_enabled = setup.frequency_shift_enabled
  /\ shift_step = setup.shift_step
  /\ shift_acc \in 0 .. Turn - 1
  /\ decim_rem \in 0 .. factor - 1
  /\ Len(decimator_tail) = Reach * factor
  /\ pc \in {"idle", "shift", "filter", "slide", "stage", "demodulate"}
  /\ given \in 0 .. MaxSamples
  /\ {deemph_filter, dc_block_filter, audio_resampler} \subseteq Nat

\* Sample i of the stream as the decimator should see it: zeros came before
\* the first, and the oscillator never jumps.
Ideal(i) ==
  IF i < 1 THEN Zero
  ELSE Sample(i, IF shift_enabled THEN (((i - 1) * shift_step) % Turn) \div Bin
                 ELSE 0)

\* Output k of the decimator as it should be: the window that ends at sample
\* k * factor.
IdealOutput(k) ==
  IF factor = 1 THEN Ideal(k)
  ELSE [j \in 1 .. Reach * factor + 1 |->
          Ideal(k * factor - Reach * factor + j - 1)]

\* Between chunks, what has come out depends on the stream alone and not on
\* how it was cut into chunks: "History and phase carry across chunks, so
\* outputs land at global multiples of the decimation factor" (dsp.h:39-40).
ChunkingInvisible ==
  pc = "idle" =>
    decimated = [k \in 1 .. given \div factor |-> IdealOutput(k)]

\* Audio sample i as it should be: demodulated from the whole stream of
\* outputs, then passed through the filters the channel has, as their i-th.
IdealDemodulated(i) ==
  CASE setup.mode = "fm" ->
         <<"fm", decimated[i], IF i = 1 THEN Zero ELSE decimated[i - 1]>>
    [] Raw -> <<RawPart(i), decimated[(i + 1) \div 2]>>
    [] OTHER -> <<setup.mode, decimated[i]>>

IdealFiltered(i) ==
  LET d == IdealDemodulated(i)
      e == IF Deemphasise THEN <<"deemph", i, d>> ELSE d
  IN IF BlockDc THEN <<"dc_block", i, e>> ELSE e

IdealAudio(i) ==
  IF Resample THEN <<"resampled", i, IdealFiltered(WaitedFor(i))>>
  ELSE IdealFiltered(i)

\* The audio of the whole stream: in every mode, at any two rates whose ratio
\* keeps a chunk's audio below MAXIMUM_BUF_LENGTH, and however the stream was
\* cut into chunks, each stage is given every sample of the one before it once
\* and in order, across chunks too short to give an output ("Stages run in
\* pipeline_process() order", dsp.h:8-9).
AudioFaithful ==
  LET n == Len(decimated) * (IF Raw THEN 2 ELSE 1)
  IN audio = [i \in 1 .. (IF Resample THEN Outputs(n) ELSE n) |-> IdealAudio(i)]

\* No window reaches beyond the end of the chunk (dsp.c:297-341).
ReadsInBounds ==
  pc = "filter" /\ factor > 1 =>
    \A k \in 1 .. OutLen : FirstWindow + (k - 1) * factor + 1 <= Len(Input)

\* The products that output k of a chunk sums up.  Its first outputs straddle
\* the history; the others are computed two at a time where the taps were
\* copied in pairs, the odd last one alone (dsp.c:303-337).
WindowStart(k) == FirstWindow + (k - 1) * factor
Boundary == {k \in 1 .. OutLen : WindowStart(k) < Len(decimator_tail)}

BulkStart(k) ==
  LET n == k - 1 - Cardinality(Boundary)
  IN FirstWindow + Cardinality(Boundary) * factor
       + 2 * factor * (n \div 2) + factor * (n % 2)

Products(k) ==
  LET taps  == Reach * factor + 1
      split == Len(decimator_tail) - WindowStart(k)
  IN IF k \in Boundary
     THEN Dot(0, WindowStart(k), split)
            \cup Dot(split, Len(decimator_tail), taps - split)
     ELSE IF setup.decim_taps_pairs
          THEN DotAvx2(0, BulkStart(k), taps)
          ELSE Dot(0, BulkStart(k), taps)

\* Whichever kernel computes it, and however its window is split, an output is
\* the sum of every tap times its sample, none left out or added twice
\* ("outputs differ only by float summation order", dsp.c:104-105).
EveryTapOnce ==
  pc = "filter" /\ factor > 1 =>
    \A k \in 1 .. OutLen :
      Convolves(Products(k), WindowStart(k), Reach * factor + 1)
=============================================================================
