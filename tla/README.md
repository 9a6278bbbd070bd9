# rxx_multi in TLA+

`rxx_multi` receives a band of radio spectrum from an RTL-SDR or an SDRplay RSP
(or replays a recording), splits it into channels, demodulates every channel and
sends the audio to files, TCP clients or a UDP peer. It is a C program of a few
threads that hand buffers to one another under condition variables, with
lock-free counters read by several threads and a plain `do_exit` flag for
shutdown. This directory models that program, checks the model with TLC and
proves its main theorems with TLAPS.

All source paths below are relative to the repository.

## Inventory

| component | state it keeps | operations | who it talks to |
|---|---|---|---|
| producer (`src/backend/*/thread_device.c`) | `device.slots[2]`, `chunk_seq`, `record_file` | acquire a slot, fill it, record it, publish it; drain at end of file | demods (condition `ready`), main (`do_exit`) |
| demod thread (`src/core/thread_demod.c`), one per channel | `seq_processed`, pipeline, audio block | wait for a chunk, skip or demodulate it, announce it, hand the audio over | producer (`slots_drained`), output (`ready`, `written`, `rw`) |
| output thread (`src/core/thread_output.c`), one per channel | `result`, `data_ready`, `seq_packed`, `seq_written` | wait for audio, write it, announce it | demod, sink |
| TCP server (`src/core/output_tcp.c`), one per TCP channel | listening socket, client table, `client_count` | accept, broadcast, drop a client, close | demod thread and output thread, clients |
| UDP output (`src/core/output_udp.c`) | a socket | open, send | main, output thread |
| pipeline and DSP (`src/core/pipeline.c`, `dsp.c`, `demod.c`) | oscillator phase, decimator history and carry, previous sample, filter objects | one chunk in, one audio block out | demod thread |
| capture plan (`src/core/main.c:66-134`, `device_plan_capture` of each backend) | none | from channels and rates to centre, capture rate and decimation | main |
| options (`src/core/options.c`) | the channel list and the options so far | one step per flag | main, backend |
| stream callbacks (`rtlsdr_callback`, `sdrplay_stream_cb` of `src/backend/*/thread_device.c`) | dropped samples, pending samples, slot being filled | turn the library's calls into chunks | producer side of the ring |
| devices (`src/backend/*/device.c`) | vendor handle, lifecycle flags, gains | search, open, configure, start, cancel, stop, close | vendor library, main |
| main (`src/core/main.c`) | `do_exit`, threads | parse, plan, set up, supervise, tear down | everything |

What is hard about it: the producer, the demods and the outputs wait on one
another in a chain; every wait is on counters that other threads bump without
the waiter's mutex; shutdown is a flag that anybody may set between any two
steps; and teardown must stop the stages in order without losing what they hold.

Per component, what makes it correct:

- *ring*: no slot is read while it is being overwritten; every channel sees
  every chunk once and in order; nobody sleeps through its signal; a saved
  recording is complete; shutdown costs at most the chunk being delivered.
- *audio handoff*: until shutdown no block is lost, repeated or reordered; no
  lost wakeup; a posted block reaches its sink.
- *composition*: what a sink receives is what its demod heard; no cycle of
  waiting; shutdown ends (it does not always: see Findings).
- *TCP server*: no closed or doubled descriptor in the table; a connected client
  is never overlooked; a connecting client is accepted.
- *pipeline*: how the stream is cut into chunks cannot be heard, at any stage and in
  any mode; every output sums every tap once, whichever kernel computes it.
- *options*: their order cannot make the channel table overflow, nor two channels
  share the standard output.
- *capture plan*: every channel lies in the captured band with its whole width, and
  its oscillator cancels its offset; decimation keeps that width; what is planned
  the hardware can do (it cannot always: see Findings); a replay is decimated as
  the recording was (or refused: see Findings).
- *bring-up*: whatever step fails, and at the end of a session, what was opened is
  given back; what an RSP is told agrees with the plan and with the gains asked for.
- *streaming*: no sample is lost or repeated between callbacks and chunks, few are
  held back; nothing is closed under a callback; stopping the library ends (it
  does not always: see Findings).

## Modules

| module | models | extends / instantiates |
|---|---|---|
| `ChunkStream` | abstract: what the ring promises, a stream of chunks fanned out to every channel with two places | |
| `SlotRing` | producer (playback or hardware), slots, demod loop, recording, teardown of both | refines `ChunkStream` |
| `BlockQueue` | abstract: what the handoff promises, a queue that loses nothing until shutdown and reorders nothing after it | |
| `AudioHandoff` | demod to output: `result`, `data_ready`, `seq_packed`, `seq_written`, teardown of the outputs | refines `BlockQueue` |
| `Receiver` | the two above with one `do_exit`, one demod thread and one teardown | instances of `SlotRing` and `AudioHandoff` |
| `TcpServer` | the TCP output of one channel under its two threads, with clients and the kernel's queue | |
| `Streaming` | how the vendor's library is started, calls back and is stopped: start-up drop, assembly of chunks, cancel, uninit, teardown | refines an instance of `SlotRing` |
| `FirKernels` | the scalar and vector kernels that apply the decimator's taps | |
| `Pipeline` | one channel's chain from chunk to audio: oscillator, decimator, five demodulators, audio filters, resampler | extends `FirKernels` |
| `CapturePlan` | pure functions: centre, width, and each backend's rate and decimation | |
| `Options` | `options_parse` of both programs, one action per option | extends `CapturePlan` |
| `Startup` | main from the parsed options to the start of the threads: checks, plan, outputs, filters, device; and what the end of the program leaves open | extends `Options` |
| `MC*` | instances for TLC, one `.cfg` per run | the module of that name |
| `*Proofs` | invariants, lemmas, theorems | the module of that name |

`PROJECT.json` maps every definition to its source lines. The main
correspondences:

**`SlotRing`.** `ppc` is the program counter of the producer, `dpc` of each demod.
`acquire_fill_slot` and the drain at end of file are the same wait
(`wait_demods_drained`) with a different bound: `AwaitCheck`, `AwaitSleep`, then
`ClaimSlot` or `InputExhausted`. A slot is `Torn` from `ClaimSlot` to `FillSlot`.
`deliver_buf` is `Deliver` (with `RecordChunk`), `Publish` (the bump of
`chunk_seq`) and one `SignalDemod` per channel, in any order. The demod's loop is
`DemodCheck`, `DemodSleep`, `Consume` (pipeline and bump of `seq_processed`),
`Announce`, and then `DemodFail`, the next iteration, or the audio stage.
`RequestExit` stands for signals, the `-x` timeout and a device that goes away.
`pthread_cond_wait` gives up the mutex and sleeps in one step; the window that
matters, between the failed test and the sleep, is the state `enter_wait`, in
which the mutex is held and a signaller that takes it has to wait. Where the code
signals without having changed the predicate under that mutex (all counters are
bumped outside it), the model does so too.

**`AudioHandoff`.** `apc` is the demod from the end of its pipeline to
`data_ready`, `opc` the output thread. `Pack` takes the write lock of `rw`,
`Write` happens under its read lock. `OutputCheck` and `OutputTest` are two tests
because the code has two: the wait loop and the `if` behind it, and
`seq_packed` may move between them.

**`Receiver`.** A step of the program is a step of one of the two modules, except
where the code passes from one to the other: `Announce` of a demodulated chunk
enters the handoff, `Raise` returns to the loop, and the end of the demod thread
is the end in both.

**`TcpServer`.** Both threads run `tcp_accept_clients`: `Scan` and `Select` without
the lock, `Accept`, `Store` under it. `tcp_broadcast` is `TestCount`, `Lock`, and one of
`SkipEmpty`, `SendAll`, `SendFails` per slot. A blocked `send` or `accept` is a
step that is not enabled. The handoff is reduced to `flag`, which keeps what
`AudioHandoff` shows to matter here: a block is or is not flagged, and two may
hide behind one flag once `do_exit` is set. `tcp_remove_client` has no caller and
is left out.

**`Streaming`.** `main` is where the supervisor is from the end of the bring-up to
the last join, `thread` is the device thread, `stream` what the library is doing, and `left`
the samples of the call it is making. A sample is its number in the library's
stream. `RtlCopy` and `RspCopy` are the two ways to fill a slot; what happens in
`acquire_fill_slot` and `deliver_buf` is the step of `SlotRing`. librtlsdr calls back on the
device thread (`ReadReturns` ends it), the SDRplay API on a thread of its own
until `StreamStopped`, the return of Uninit. `Cancel` is `device_signal_exit`, called by the
signal handler and by teardown: it acts on a running stream only, as
librtlsdr's does. The library itself is external; that Uninit waits for a
callback in progress is what main.c:354 relies on.

**`Pipeline`.** A sample is its number in the stream and the entry of
`shift_lut` it was multiplied with; an output of the decimator is the window of samples
that was under the taps; an audio sample is the expression it was computed
from. An object of liquid-dsp is a count of what it has been given, and its output carries
that count: an output depends on all inputs so far, so a stage given a sample too many,
too few or out of turn gives another value. This keeps all that chunking could
disturb (order, alignment, history, phase) and drops the arithmetic. `work` and `temp_out` are
separate variables because the decimator reads its input from the buffer its output goes
to. `FirKernels` spells out which product of which tap each kernel adds up, for
the unrolled loops and what they leave over. Chunks have at least
one sample: the producers publish no empty ones.

**`CapturePlan`.** A function of the code that may refuse returns a set of plans,
empty if it does. `Float` is what `(float)` makes of a whole number: 24
significant bits, ties to even; that is what `-I` does to a centre frequency.
Divisions are those of the code, in its order.

**`Options`.** An action is an option with its argument, in any order and number
up to `MaxOptions`; every option of both programs is one. An argument is the list of
values its text denotes, among them those that the parser refuses (`BadMode`, a port beyond
16 bits, an unnamed host or file). `binary` says which backend the program was linked
with; it is chosen at the start, as are the options. Splitting and converting strings
is left out, but what conversion loses is not: `-I` keeps its numbers as floats,
and `-g -10` is the value that means automatic gain. An `-I` without a name but with a good
rate and centre passes the parser and leaves no input file, so the program then runs live; an
empty `-R` is refused.

**`Startup`.** `phase` is where main is; any step that calls the system or the
vendor may fail and end the program, before `device_open` at `exit`, after it at
`failed`. What is open and what the program has noted of it are kept apart: `held` is the open RTL
or the selected RSP and `selected` the note (`device.dev`, `device_selected`), `connected` the
client of the RSP's API and `api_open` its note. `DeviceClose` gives back only what is noted,
as `device_close` does, and each failing branch of `device_open` and `bringup_device` has its own
call of it: `OpenRtl`, `SelectDevice`, `GetParams`, `Tune`, `SetSampleRate`, `OpenRecording`,
`ApplyRtlSettings`. `DeviceReleased` therefore rests on every step noting what it opened, and
every branch closing. Two things the code leaves open are in the model and outside the property: a
recording, when direct sampling cannot be set behind it, and the RSP's API, opened by a search, when main
ends before `device_open` (a search that finds nothing, or `-d` followed by refused options, a
refused plan or an output that cannot be opened) or plays a file after `-d`. `asked` keeps the RSP's gains
as the options left them, against which `RspConsistent` compares what the device is told. `Replay` is
what `plan_capture` makes of the printed `-I` line: the test of the file's span first, with the rounded centre,
then the plan. The outputs are opened one by one (`TcpInit`, `UdpInit`,
`OpenFile`), and `PortTaken` is what a second server on one port meets. `BuildFilters` refuses a
decimation whose history does not fit its array. The gain the RTL's tuner ends up with is
the outcome of `nearest_gain`, which TLC compares with its definition for every
target (`NearestIsNearest` in `MCStartup`) and TLAPS for every table (`NearestGainIsNearest`); it may also be an error code. `Turn` is
2^32; any other turn does as well, and TLC's integers ask for a small one.

## Runs

| run | instance | what it shows |
|---|---|---|
| `ring` | 2 channels, both may skip, 3 chunks from a file or from hardware with recording, failures, interrupts, spurious wakeups | `SlotIntact`, `NoLostWakeup`, `RecordingComplete`, `ShutdownLosesOne`; the ring refines `ChunkStream` |
| `audio` | 1 channel, 4 blocks, spurious wakeups, shutdown at any point | `NoLostWakeup`; the handoff refines `BlockQueue`; a posted block reaches the sink |
| `receiver` | 1 channel, 3 chunks from a file or from hardware with recording, failures, interrupts, spurious wakeups | the handoff is used as `AudioHandoff` has it; `EndToEnd`; `NoStandstill`: no deadlock; playback ends, every chunk published is taken, producer and demod stop after `do_exit` |
| `receiver_clean_shutdown` | 1 channel, a file, nothing skipped, nothing fails | violated: an output thread may never end |
| `tcp_server` | 3 clients, 2 slots, clients that stall, resume and leave | `TableSound`, `CountAccounts`, `BroadcastExclusive`; a client is accepted unless the table is full or shutdown begins; a broadcast ends |
| `tcp_count` | 3 clients, 2 slots | violated: the counter exceeds the table |
| `tcp_accept` | 2 clients, 2 slots | violated: `accept` blocks |
| `streaming` | both libraries, 1 channel, calls of 1, 2 and 4 samples, slots of 3, chunks from 2, a drop of 2, 8 samples, signals, time-outs and errors at any point | `ChunksContiguous`, `LittleHeldBack`, `SamplesIntact`, `QuietAfterStop`; the ring is implemented; teardown ends once the stream runs |
| `stream_cancel` | the same, librtlsdr only | violated: a cancel that comes before the stream is lost |
| `pipeline` | 8 set-ups (five modes, factors 1 to 3, rates up, down and equal), chunks of 1 to 33 of 60 samples | `ChunkingInvisible`, `AudioFaithful`, `ReadsInBounds`, `EveryTapOnce` |
| `startup` | up to 5 options, both programs, a table of 4 channels (3 may be used), 7 channel lists, 9 output lists, 5 recordings | `ChannelsInBand`, `ChannelsShifted`, `RspConsistent`, `ReplayFaithful`, `DeviceReleased` |
| `capture_rate` | the same, up to 2 options | violated: a rate the tuner cannot sample at is planned |

**Why the bounds are enough.** The ring has two slots: with three chunks each slot
is filled, one is overwritten, and the producer, at most two ahead, waits for a
slow channel while a second channel is done. Two channels are what it takes for
one to be signalled and the other not, and for one to drain while the other
lags. Four blocks take the handoff through "nothing
packed yet", a wait for the output, and two packs behind one flag. The receiver
runs one channel: channels share only the ring, which is checked with two. With
two slots and three clients the TCP table is full with one client waiting, and
two threads with two connections race for a slot. `ClientAccepted` watches one
client, for the model treats all alike. In `streaming` a call may be shorter than
a chunk, fill it exactly, or spill over into the next slot, and the drop ends inside a
call or between two; 8 samples, 6 behind the drop, make
three chunks or more, so that a slot is filled again. The pipeline keeps the filter length of the code (`m = 4`):
histories are of 16 and 24 samples, so that chunks of 1, 2 and 5 are shorter than a history
or than the factor, 17 is one more than a history, and 26 and 33 longer than both. A
turn of 16 phases in bins of 4 wraps within a few samples, and step 13 is a
negative offset. The bound on clients (each connects once) stands for distinct
descriptors; MaxChunks, MaxBlocks and MaxSamples bound histories only, and the
theorems below hold for every value of them.

Five options are enough to give channels, outputs, a mode that changes the rate, a recording
to play or to make and either gain, in any order; three channels overflow nothing and a
fourth, or twice two, does. Rates and frequencies are chosen at the edges: channels closer than a
channel's width, a width in the tuner's gap, one beyond every limit, odd frequencies,
a channel as wide as the capture at a frequency that is no float,
recordings with a channel on their very edge, narrower than a channel by 1 Hz, too
wide to decimate, or of no rate at all. Outputs share a port, share the standard output, lack
a name or exceed the ports. What they leave open the theorems below cover.

Deadlock is checked in every run but those of `Receiver`, in which the
program can really stop: see the first finding. `NoStandstill` stands in for it there: as
long as a demod has not ended, some thread that does not sleep, or main, has a step to
take; and when all have ended, only an output whose counters a double pack has parted
sleeps for good. That is sharper than TLC's deadlock check, which a signal from outside
(always possible) would satisfy. The end of a run is an
explicit self-loop elsewhere (`Finished`, `Stopped`, `Idle`, `Ended`).

**Fairness.** One weak fairness condition per thread in `Receiver` and
`Streaming`: the scheduler runs every thread that can run, and main performs its
teardown. In `Receiver` the arrival of a chunk is part of it only so that playback reaches the
end of its file, and `CalmSpec` adds that spurious wakeups do not go on for ever:
a thread that keeps waking up without a signal holds its mutex again and again, and weak
fairness would let it keep another thread out. In `Streaming` neither samples nor signals have to come;
a callback in progress runs on, and a cancelled read returns, which librtlsdr promises. For
`AudioHandoff` alone the same question has another answer: a mutex that is free infinitely
often is obtained, hence strong fairness for its two threads, and spurious wakeups may then
be without end. In `TcpServer` the output thread is strongly fair for a similar
reason (a client that stalls and resumes makes `send` possible again and again), chunks keep
coming (weak fairness of the demod), and `ReadingSpec` adds that no client stops reading for
good. That is an assumption about clients, not about the code, which has no time-out:
`BroadcastEnds` says no more than that nothing but such a client holds a broadcast up. No fairness is
assumed of signals from outside.

## Proofs

TLAPS proves, for any number of channels, chunks, blocks, clients, slots, and for
any decimation factor, phase step, filter length and chunk lengths, sizes of calls and slots, for any
command line, frequencies and rates, every safety property of the passing runs: their invariants,
action properties and refinements. The assumptions are those named in the modules
(`RingAssumption`, `AudioAssumption`, `ReceiverAssumption`, `TcpAssumption`, `StreamingAssumption`,
`PipelineAssumption`, `OptionAssumption`, `StartupAssumption`): constants have their types, the sets of
channels are not empty, a chunk stream is not both played back and recorded, the set
of clients is finite; a slot holds a chunk; a channel rate is positive, and rates are exact as floats.

- `SlotRingProofs`. `SlotIntact` is not inductive: that the chunk in a
  slot is the reader's says nothing of the next refill. `IInv` adds `Lookahead` (every
  counter is within two of `chunk_seq`, and within one while a slot is being
  refilled: `seq_processed` only grows, so what the producer saw stays true) and
  `Contents` (every chunk some channel still has to take is in its slot).
  `NoLostWakeup` has an invariant of its own, `WakeInv`, over it: teardown signals
  after the producer is done, so nothing published comes after. `ShutdownLosesOne` says that
  `do_exit` stops the producer from publishing more than the chunk it was delivering when a demod ended. From `IInv`
  each step maps to a step or stutter of `ChunkStream`.
- `AudioHandoffProofs`. `Phase` says where the one packed block is until shutdown
  (to be flagged, flagged, being written, or written) and `Counted` ties the
  counters to the blocks. Without it `Lossless` is not inductive: a second
  `Pack` must be shown to find the first block written. After `do_exit` only
  `Counted` and `Fresh` remain, which is where the first finding begins. What then still holds is
  `LateInv`: what was written are packed blocks at positions that never decrease (`Ordered`), the
  writes made, begun and flagged exceed the packs by at most one (`Budget`), and a demod waits
  only for an output that has a write to make or to announce (`Served`). From `IInv` and `LateInv` each step maps to a step or stutter of `BlockQueue`
  (`HandoffImplementsQueue`): before shutdown `Emit`, afterwards `EmitLate`, for which a
  choice of positions that do not decrease has to be carried along.
- `ReceiverProofs`. Every step of the composition is a step or stutter of each
  component (of `SlotRing` by the way `Receiver` is written, of `AudioHandoff` by `LinkInv`, which says that
  only the next chunk is ever handed over), so their theorems hold of it. `LinkInv` adds that what entered the handoff is
  what was heard; with the invariants of both components (`WholeInv` collects them) `EndToEnd` follows, during
  shutdown from `LateInv`. `ShutdownLosesLittle` puts a number on what shutdown may cost: two chunks in the
  ring and two in the handoff when `do_exit` is set (`UpToDate`, `Lookahead`), after which nothing is taken
  in (`IntakeEnds`, `DueFalls`) and what was written stays written. `NeverStandsStill` proves `NoStandstill` for any number of channels by
  following the chain of waiting: a demod asleep in the handoff has an output that is awake
  (`Served`), so if all sleep the demods sleep for a chunk; then the producer is not waiting
  (`ProducerIsHeld`) and has ended, teardown has signalled the demods, and by
  `NoLostWakeup` none of them sleeps any more. `ReceiverKeepsPromises` carries the two abstract
  specifications, `ChunkStream` and `BlockQueue`, to the whole program.
- `StreamingProofs`. Every step is a step or stutter of `SlotRing`, once `Control` has said where the
  library can be while the producer is at each of its steps; so the invariant of the ring, taken
  from `SlotRingProofs` by INSTANCE, is a conjunct of `IInv`. `Progress` accounts for every
  sample that arrived (dropped, published, in the slot, or still in the call), which is why the
  chunks join; `Held` carries the contents of the slots to the demods that read them, by the
  ring's `Lookahead`. `StreamingKeepsPromises` then takes three of the ring's theorems over: with a real library for
  a producer too the ring is a `ChunkStream`, loses no wakeup and drains all but one chunk.
- `TcpServerProofs`. A connection is in the kernel's queue, in the hand of one
  thread, in the table or orphaned, and in one of them only (`QueueSound`,
  `HandSound`, `SlotsSound`); the counter is the number of open connections that
  are in no hand. A store over another connection keeps both open, which is how
  `CountAccounts` can hold while `CountExact` does not. Two theorems measure the findings about this
  server: `LossPersists` (what such a store costs, and that nothing else costs it) follows each
  connection through every step (`LossStep`), `OneWaitsInAccept` has an invariant of its own
  (`Attended`: a thread goes to `accept` only while a connection waits, and an accept takes the
  thread away with it).
- `PipelineProofs`. The properties speak of the time between chunks; `IInv` says
  for every stage which part of the stream each buffer holds. The lemmas are
  about division: the carry after `t` samples is `t` modulo the factor, hence the first
  window ends where the next multiple of the factor lies. `AudioInv` adds that
  `prev_sample` is the last output and that each filter has been given all that came out of
  the stage before it; the number of samples the resampler owes after `n` is a
  quotient, and grows by what it gives for each chunk.
- `FirKernelsProofs`. The products of a kernel can be listed, two for every tap, each with the
  loop that forms it; two lists that meet make a sum of all taps, which is the window that
  straddles the history. `TapsAreComplete` in `PipelineProofs` adds that the loop that computes
  windows in pairs begins each where the loop one by one would.
- `StartupProofs`. `ChannelsInBand` and `DecimationSound` are facts about
  quotients. `PlanFits` is what both backends make of a request, snapping included: a
  rate that falls short of the width by less than a channel, and a decimation that fits it; `Width`
  has a channel's width of guard at each end, so one half of the guard pays for the
  rounding of the rate and the rest for that of the centre. A recording needs its own
  argument, from `InsideFile`. `IInv` carries the facts through the bring-up: nothing
  is planned before the plan, and what main demanded of the options (`Usable`) holds
  after it. `BInv` adds what the end of the bring-up needs to know of its beginning: the rate is
  one the plan of that backend can give (`RatePlanned`), the gains were completed from those
  asked for (`GainsGiven`), the filters were built for the factor (`Filtered`), and a recording is only open
  where one was asked for and nothing is played (`Recording`). From it follow `RspConsistent`, and, with
  the bound of `Float`'s error, `ReplayFaithful`: the centre moves by at most 64 Hz, the rate not at all, and a
  channel that fitted fits again unless it is closer to the edge than that. `DeviceReleased` rests on
  `Noted`, that the notes of what is open agree with what is: a step that opened something
  without a note would leave `device_close` nothing to give back. `NearestGainIsNearest` says that the scan finds the first
  of the nearest gains in any tuner's table: a recursive function equals its unfolding at each
  index, so if it failed at some index it would fail at a least one (`Least`), and there it cannot;
  `SetsNearestGain` carries it to the step that sets the tuner. `OnlyLowRatesUnsupported` shows
  that the rates of the fourth finding are the only ones a device can be asked for and not have.

Some theorems are about properties that no run checks. `DecimationSound` follows
too closely from single lines of the code for a run of its own, and `Lossless` from `QueueSpec`, which a
run does check. The bound of `LosesAtMostFour` is reached only with more chunks than the `receiver` run
has; TLC found no violation with one channel, six chunks of a file and a signal at any point, and a
violation of the next smaller bound. `UnsupportedOnlyLow`, `GainNearest`
and `NearestGainIsNearest` speak of rates and tables far larger than TLC can list. `LossIsPermanent`
and `OneAcceptWaits` say how far the findings about the TCP server reach; TLC finds them true on
the instance of `tcp_server`.

Only model-checked: all liveness, since ENABLED and fairness are out of the prover's reach; and the violations. `DivisionOf` and its
kin are proved from the solver's arithmetic, and the ideal stream is written in closed form, so
that induction over data is not needed: where the code does scan (`nearest_gain`) a least
counterexample takes its place.

## Findings

1. **An output thread may never end** (`receiver_clean_shutdown`,
   `thread_demod.c:110`). Once `do_exit` is set the demod no longer waits for
   the output, so it may pack twice behind one `data_ready`. The output writes once,
   `seq_written` stays behind `seq_packed`, its exit test never holds, and
   main's join does not return. End of file suffices.
2. **`client_count` runs ahead** (`tcp_count`, `output_tcp.c:126`). The slot is
   chosen before the lock and not looked at again; two racing accepts store over
   one another. The lost client stays open and counted, so the channel is never
   again considered without clients (`LossPersists`: not until the process ends, and no other step
   loses a connection).
3. **`tcp_accept_clients` may block** (`tcp_accept`, `output_tcp.c:111`). `select`
   and `accept` are two calls on a blocking socket shared by two threads. Only one of the two
   threads can be caught in this way at a time (`OneWaitsInAccept`).
4. **A rate the tuner cannot sample at** (`capture_rate`, `rtl/device.c:258`). Rates are
   raised out of the gap between the tuner's two ranges but not up to the lower one:
   two 12 kHz channels 25 kHz apart ask for 48000 Hz, and the program ends in the bring-up.
   `OnlyLowRatesUnsupported` shows that rates below the lower range are the only ones of this kind.
5. **A stop that comes too early is lost** (`stream_cancel`, `rtl/device.c:330`).
   `rtlsdr_cancel_async` refuses while the read is not running yet. A signal during the
   bring-up, or before the new thread has reached the library, cancels in vain, teardown
   cancels in vain, and the read then begins: nobody cancels again until the next signal.
   `StopsOnceRunning` shows that this window is the only one, and that the RSP has none.

Smaller disagreements met on the way, without a run:

- The drain at end of file looks at `seq_processed`, which is bumped before the handoff
  (`thread_demod.c:95`), so shutdown begins with the audio of the last chunks in the demods' hands,
  where `rtl/thread_device.c:190-191` has it "flagged to the output" first. The trace of
  `receiver_clean_shutdown` passes through this; `LosesAtMostFour` bounds what is lost.
- The centre given to `-I` is a float (`options.c:165`), so a replay is up to 64 Hz off, and a channel that
  filled the recording to its edge is refused (`-s 1200k -f 145512500 -R x` prints a centre that is read as
  145512496), against README.md:162, "1:1 replay". `ReplayFaithful` reaches this case and shows that it is
  the only one: otherwise a replay is decimated as the recording was.
- An LNA state left open next to `-g` is 0 (`DEFAULT_LNA_STATE`, `rsp/device.c:14`, by its comment the highest
  gain), where README.md:142-143 says 2 and the comment at `rsp/device.c:369-370` "max LNA att.".
  `RspConsistent` holds of 0.
- A client that stops reading for good stops its channel (`output_tcp.c:183`): sockets are
  blocking and `send` has no `MSG_DONTWAIT`, where output.h says the client is dropped.
- `-O` before `-f` is dropped silently where the comment at `options.c:511` expects an error.
- `-g -10` is the value of `AUTO_GAIN` (`rtl/device.c:196`).
- `-I :rate:centre`, without a file name, is accepted and then ignored (`options.c:172`, `main.c:411`).
- A recording stays open when direct sampling cannot be set after it was created (`main.c:302-306`).
- main refuses exactly `FREQUENCIES_LIMIT` channels, which its message calls the maximum.
- README.md:151-152 says an RSP rejects `-T`; `rsp/device.c:351` warns and goes on.
- A capture of 2 MHz on the RSP gets an analog filter of 1.536 MHz, though the comment at
  `rsp/device.c:248` asks that it cover the capture.

One more behaviour no comment denies outright: a block posted after `do_exit` may be lost or
written twice. `BlockEmitted` ends there; `QueueSpec` says what remains: order, and no more writes
than blocks plus one.

## Not modelled

- Values: filter coefficients, floating point, what a demodulator or a filter of
  liquid-dsp computes. The models keep which samples go into which result and in
  which order; the numbers are out of TLC's reach.
- The capacity of the buffers behind the resampler (the cap of `dsp.c:392-406`), and the size of a
  datagram: blocks have no size in `AudioHandoff`, and sequences no capacity in `Pipeline`, so
  `AudioFaithful` speaks of rates whose audio fits.
- The buffer of stdio behind the recording: a short write is noticed (`RecordChunk`), a failure at
  the last flush is not, since `main.c:361` ignores what `fclose` returns and prints that the
  recording was saved. `RecordingComplete` speaks of the writes.
- `udp_write`: one `sendto` per block, without state, whose loss the code accepts.
- The splitting and converting of strings in arguments, and the text of messages.
- Which of several receivers `-d` finds, and whether the list is the same when the
  device is opened: it belongs to the vendor's library or daemon.
- What the vendor's libraries do outside their documented order, for instance a cancel from a
  signal handler between `rtlsdr_close` and the clearing of the handle, or a read that ends by itself
  with success.
- The benchmarks and simulations under `src/tools`, which are programs of their own.

Failures of set-up calls are steps of `Startup`; the modules of the threads begin after them.

## Plan

Done, in this order: ring, handoff, composition, TCP server, pipeline, options,
capture plan, bring-up, streaming; a theorem for every safety property. What is left:

1. Composition of `TcpServer` with `AudioHandoff`, in place of `flag`.
2. Composition of `Streaming` with the whole of `Receiver`, so that the teardown of the outputs
   follows that of a real library.
3. Sizes of blocks, for the room behind the resampler and the limit of a datagram.
