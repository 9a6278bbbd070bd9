------------------------------ MODULE Streaming ------------------------------
(***************************************************************************)
(* The hardware side of the slot ring: how the vendor's library is started *)
(* and stopped, and what the callbacks it makes do with their samples.     *)
(*                                                                         *)
(* librtlsdr calls back from within rtlsdr_read_async, on the device       *)
(* thread, and every call is a chunk.  The SDRplay API calls back on a     *)
(* thread of its own from Init to Uninit; its calls are small, so that     *)
(* sdrplay_stream_cb gathers several in a slot before it publishes one.    *)
(* main stops either library in the same teardown.                         *)
(*                                                                         *)
(* A sample is its number in the stream the library delivers, from 1 on.   *)
(* The ring's steps inside acquire_fill_slot and deliver_buf are those of  *)
(* SlotRing; sdrplay_stream_cb's static pointer fill is set when ppc is    *)
(* "fill" or later, and a callback is in progress while it has samples     *)
(* left or is inside one of the two functions.                             *)
(***************************************************************************)
EXTENDS Integers, Sequences

CONSTANTS
  Channels, TcpChannels, MaxChunks, Sources, MayFail, Spurious,
  Libraries,             \* the libraries considered: "rtl", "rsp"
  CallSizes,             \* samples one call of the library may bring
  CHUNK_SAMPLES,         \* samples worth waking the demods for
  MAXIMUM_IQ_LENGTH,     \* samples a slot holds
  STARTUP_DROP_SAMPLES,  \* samples dropped after Init
  MaxSamples             \* bound: samples the library delivers

VARIABLES
  source, do_exit, chunk_seq, slots, ppc, pgoal, tosignal, dpc, status,
  seq_processed, heard, rec, taped, woken,
  lib,          \* the library the program is linked with
  main,         \* where main is, from supervise to the end of teardown
  thread,       \* the device thread: "none", "begin", "in", "done"
  stream,       \* the library: "off", "running", "cancelling", "stopping"
  left,         \* n: samples of the current call not yet used
  arrived,      \* history: samples delivered so far
  dropped,      \* sdrplay_stream_cb's count of dropped samples
  buf_pending,  \* sdrplay_stream_cb's count of samples in the slot
  samples,      \* slots[i].samples
  len,          \* slots[i].len
  chunks        \* history: the samples of each chunk published

Ring == INSTANCE SlotRing WITH Interrupts <- TRUE

StreamingParameters ==
  /\ Ring!RingParameters
  /\ Sources \subseteq {"hardware", "recorded"}
  /\ Libraries \subseteq {"rtl", "rsp"}
  /\ CallSizes \subseteq Nat \ {0}
  /\ CHUNK_SAMPLES \in Nat \ {0}
  /\ MAXIMUM_IQ_LENGTH \in Nat
  /\ CHUNK_SAMPLES <= MAXIMUM_IQ_LENGTH
  /\ STARTUP_DROP_SAMPLES \in Nat
  /\ MaxSamples \in 0 .. MaxChunks

ASSUME StreamingAssumption == StreamingParameters

ringVars   == <<source, do_exit, chunk_seq, slots, ppc, pgoal, tosignal, dpc,
                status, seq_processed, heard, rec, taped, woken>>
callVars   == <<left, arrived, dropped, buf_pending>>
dataVars   == <<samples, len, chunks>>
threadVars == <<lib, main, thread, stream>>
vars       == <<ringVars, callVars, dataVars, threadVars>>

Positions == 1 .. MAXIMUM_IQ_LENGTH
Lesser(a, b) == IF a < b THEN a ELSE b

InCallback == left > 0 \/ ppc \notin {"top", "fill", "done"}

Init ==
  /\ Ring!Init
  /\ lib \in Libraries
  /\ main = "starting"
  /\ thread = "none"
  /\ stream = "off"
  /\ left = 0
  /\ arrived = 0
  /\ dropped = 0
  /\ buf_pending = 0
  /\ samples = [s \in 0 .. 1 |-> [j \in Positions |-> 0]]
  /\ len = [s \in 0 .. 1 |-> 0]
  /\ chunks = <<>>

-----------------------------------------------------------------------------
(* The device thread.                                                      *)

\* rtlsdr_read_async or sdrplay_api_Init, whatever do_exit says.
StreamStarts ==
  /\ thread = "begin"
  /\ thread' = "in"
  /\ stream' = "running"
  /\ UNCHANGED <<ringVars, callVars, dataVars, lib, main>>

StartFails ==
  /\ thread = "begin"
  /\ thread' = "done"
  /\ do_exit' = TRUE
  /\ ppc' = IF lib = "rtl" THEN "done" ELSE ppc
  /\ UNCHANGED <<source, chunk_seq, slots, pgoal, tosignal, dpc, status,
                 seq_processed, heard, rec, taped, woken, callVars, dataVars,
                 lib, main, stream>>

\* rtlsdr_read_async returns between two calls: cancelled, or with an error.
ReadReturns ==
  /\ thread = "in"
  /\ lib = "rtl"
  /\ ~InCallback
  /\ \/ stream = "cancelling" /\ UNCHANGED do_exit
     \/ stream = "running" /\ do_exit' = TRUE
  /\ thread' = "done"
  /\ stream' = "off"
  /\ ppc' = "done"
  /\ UNCHANGED <<source, chunk_seq, slots, pgoal, tosignal, dpc, status,
                 seq_processed, heard, rec, taped, woken, callVars, dataVars,
                 lib, main>>

\* The RSP's device thread is parked while the API's thread streams.
Unpark ==
  /\ thread = "in"
  /\ lib = "rsp"
  /\ do_exit
  /\ thread' = "done"
  /\ UNCHANGED <<ringVars, callVars, dataVars, lib, main, stream>>

-----------------------------------------------------------------------------
(* A callback.                                                             *)

\* The library delivers n samples.  A callback that finds do_exit set
\* returns, and its samples are gone.
Delivered(n) ==
  /\ stream = "running"
  /\ ~InCallback
  /\ ~do_exit
  /\ arrived + n <= MaxSamples
  /\ arrived' = arrived + n
  /\ UNCHANGED <<ringVars, dataVars, threadVars, buf_pending>>

\* rtlsdr_read_async was given buf_len, which is a chunk.
RtlCallback(n) ==
  /\ lib = "rtl"
  /\ n <= CHUNK_SAMPLES
  /\ Delivered(n)
  /\ left' = n
  /\ UNCHANGED dropped

\* Mutant: the count of dropped samples is of calls.
RspCallbackDropsCall(n) ==
  /\ lib = "rsp"
  /\ Delivered(n)
  /\ IF dropped < STARTUP_DROP_SAMPLES
     THEN left' = 0 /\ dropped' = dropped + n
     ELSE left' = n /\ UNCHANGED dropped

\* The first samples after Init, a calibration transient, are dropped.
RspCallback(n) ==
  /\ lib = "rsp"
  /\ Delivered(n)
  /\ LET skip == Lesser(n, STARTUP_DROP_SAMPLES - dropped)
     IN left' = n - skip /\ dropped' = dropped + skip

\* acquire_fill_slot for a new chunk; on do_exit the callback returns.
BeginChunk ==
  /\ ppc = "top"
  /\ left > 0
  /\ IF do_exit
     THEN left' = 0 /\ UNCHANGED ringVars
     ELSE Ring!NextChunk /\ UNCHANGED left
  /\ UNCHANGED <<arrived, dropped, buf_pending, dataVars, threadVars>>

AwaitSlot ==
  /\ Ring!AwaitCheck \/ Ring!AwaitSleep
  /\ UNCHANGED <<callVars, dataVars, threadVars>>

ClaimSlot ==
  /\ Ring!ClaimSlot
  /\ left' = IF do_exit THEN 0 ELSE left
  /\ UNCHANGED <<arrived, dropped, buf_pending, dataVars, threadVars>>

\* Mutant: fill still points to the slot of the chunk before.
StoreStale(p, n) ==
  samples' = [samples EXCEPT ![Ring!Slot(chunk_seq + 1)] =
                [j \in Positions |->
                   IF j \in p + 1 .. p + n THEN arrived - left + j - p
                                           ELSE @[j]]]

\* The next n samples of the call go to the slot, from position p + 1 on.
Store(p, n) ==
  samples' = [samples EXCEPT ![Ring!Slot(chunk_seq)] =
                [j \in Positions |->
                   IF j \in p + 1 .. p + n THEN arrived - left + j - p
                                           ELSE @[j]]]

SetLength(n) == len' = [len EXCEPT ![Ring!Slot(chunk_seq)] = n]

\* rtlsdr_callback converts one call into one chunk, cut to what a slot holds.
RtlCopy ==
  /\ lib = "rtl"
  /\ ppc = "fill"
  /\ LET n == Lesser(left, MAXIMUM_IQ_LENGTH) IN Store(0, n) /\ SetLength(n)
  /\ left' = 0
  /\ Ring!FillSlot
  /\ UNCHANGED <<arrived, dropped, buf_pending, chunks, threadVars>>

\* Mutant: a slot is taken to have room for the whole call.
TakeAll == left

\* What still fits in the slot.
Take == Lesser(left, MAXIMUM_IQ_LENGTH - buf_pending)

\* Mutant: a slot is published only when it is full.
EnoughWhenFull == buf_pending + Take >= MAXIMUM_IQ_LENGTH

Enough == buf_pending + Take >= CHUNK_SAMPLES

\* sdrplay_stream_cb adds to the slot, and publishes it when it holds enough.
RspCopy ==
  /\ lib = "rsp"
  /\ ppc = "fill"
  /\ left > 0
  /\ Store(buf_pending, Take)
  /\ buf_pending' = buf_pending + Take
  /\ left' = left - Take
  /\ IF Enough
     THEN SetLength(buf_pending + Take) /\ Ring!FillSlot
     ELSE UNCHANGED <<len, ringVars>>
  /\ UNCHANGED <<arrived, dropped, chunks, threadVars>>

\* Mutant: the count of samples in the slot goes on after deliver_buf.
NotReset == UNCHANGED buf_pending

\* When deliver_buf has returned the next chunk starts in an empty slot.
Reset == buf_pending' = IF ppc' = "top" THEN 0 ELSE buf_pending

Deliver ==
  /\ Ring!Deliver
  /\ Reset
  /\ UNCHANGED <<left, arrived, dropped, dataVars, threadVars>>

Publish ==
  /\ Ring!Publish
  /\ LET s == Ring!Slot(chunk_seq)
     IN chunks' = Append(chunks, SubSeq(samples[s], 1, len[s]))
  /\ UNCHANGED <<callVars, samples, len, threadVars>>

SignalDemod(d) ==
  /\ Ring!SignalDemod(d)
  /\ Reset
  /\ UNCHANGED <<left, arrived, dropped, dataVars, threadVars>>

Callback ==
  \/ BeginChunk \/ AwaitSlot \/ ClaimSlot \/ RtlCopy \/ RspCopy
  \/ Deliver \/ Publish
  \/ \E d \in Channels : SignalDemod(d)

-----------------------------------------------------------------------------
(* main.                                                                   *)

\* Threads are created once the bring-up is over, also when a signal has
\* already set do_exit.
StartThreads ==
  /\ main = "starting"
  /\ main' = "supervising"
  /\ thread' = "begin"
  /\ UNCHANGED <<ringVars, callVars, dataVars, lib, stream>>

\* device_signal_exit: rtlsdr_cancel_async acts on a running stream only.
Cancel == stream' = IF lib = "rtl" /\ stream = "running" THEN "cancelling"
                    ELSE stream

\* Mutant: teardown leaves the cancelling to the signal handler.
BeginTeardownQuietly ==
  /\ main = "supervising"
  /\ do_exit
  /\ main' = "joining"
  /\ UNCHANGED <<ringVars, callVars, dataVars, lib, thread, stream>>

\* The loop of supervise is over; teardown asks the device to stop.
BeginTeardown ==
  /\ main = "supervising"
  /\ do_exit
  /\ main' = "joining"
  /\ Cancel
  /\ UNCHANGED <<ringVars, callVars, dataVars, lib, thread>>

\* Mutant: the recording is closed as soon as the device thread has ended.
JoinSkipsStop ==
  /\ main = "joining"
  /\ thread = "done"
  /\ main' = "closing"
  /\ UNCHANGED <<ringVars, callVars, dataVars, lib, thread, stream>>

\* The device thread is joined; device_stream_stop begins the Uninit.
JoinDevice ==
  /\ main = "joining"
  /\ thread = "done"
  /\ main' = "stopping"
  /\ stream' = IF lib = "rsp" /\ stream = "running" THEN "stopping" ELSE stream
  /\ UNCHANGED <<ringVars, callVars, dataVars, lib, thread>>

\* The slot that calls before do_exit had begun to fill stays behind.
AbandonFill ==
  /\ main = "stopping"
  /\ ~InCallback
  /\ Ring!AbandonFill
  /\ UNCHANGED <<callVars, dataVars, threadVars>>

\* Uninit returns once no callback is in progress.
StreamStopped ==
  /\ main = "stopping"
  /\ ~InCallback
  /\ ppc # "fill"
  /\ main' = "closing"
  /\ stream' = "off"
  /\ ppc' = "done"
  /\ UNCHANGED <<source, do_exit, chunk_seq, slots, pgoal, tosignal, dpc,
                 status, seq_processed, heard, rec, taped, woken, callVars,
                 dataVars, lib, thread>>

CloseRecording ==
  /\ main = "closing"
  /\ main' = "waking"
  /\ rec' = IF rec = "on" THEN "saved" ELSE rec
  /\ UNCHANGED <<source, do_exit, chunk_seq, slots, ppc, pgoal, tosignal, dpc,
                 status, seq_processed, heard, taped, woken, callVars,
                 dataVars, lib, thread, stream>>

WakeDemod(d) ==
  /\ main = "waking"
  /\ d \notin woken
  /\ dpc[d] # "enter_wait"
  /\ dpc' = [dpc EXCEPT ![d] = IF @ = "wait" THEN "top" ELSE @]
  /\ woken' = woken \cup {d}
  /\ UNCHANGED <<source, do_exit, chunk_seq, slots, ppc, pgoal, tosignal,
                 status, seq_processed, heard, rec, taped, callVars, dataVars,
                 threadVars>>

JoinDemods ==
  /\ main = "waking"
  /\ woken = Channels
  /\ \A d \in Channels : dpc[d] = "done"
  /\ main' = "ended"
  /\ UNCHANGED <<ringVars, callVars, dataVars, lib, thread, stream>>

Main ==
  \/ StartThreads \/ BeginTeardown \/ JoinDevice \/ AbandonFill
  \/ StreamStopped \/ CloseRecording \/ JoinDemods
  \/ \E d \in Channels : WakeDemod(d)

-----------------------------------------------------------------------------
(* The rest of the program, and the environment.                           *)

DemodStep(d) ==
  /\ Ring!DemodLoop(d) \/ Ring!AudioReturn(d)
  /\ UNCHANGED <<callVars, dataVars, threadVars>>

\* sighandler, at any moment and as often as the user likes.
Signal ==
  /\ main # "ended"
  /\ do_exit' = TRUE
  /\ Cancel
  /\ UNCHANGED <<source, chunk_seq, slots, ppc, pgoal, tosignal, dpc, status,
                 seq_processed, heard, rec, taped, woken, callVars, dataVars,
                 lib, main, thread>>

\* The -x timeout, or an RSP removal or failure event: nothing is cancelled.
RequestExit ==
  /\ ~do_exit
  /\ main = "supervising"
  /\ do_exit' = TRUE
  /\ UNCHANGED <<source, chunk_seq, slots, ppc, pgoal, tosignal, dpc, status,
                 seq_processed, heard, rec, taped, woken, callVars, dataVars,
                 threadVars>>

SpuriousWakeup ==
  /\ Ring!SpuriousWakeup
  /\ UNCHANGED <<callVars, dataVars, threadVars>>

Ended == main = "ended" /\ UNCHANGED vars

Next ==
  \/ StreamStarts \/ StartFails \/ ReadReturns \/ Unpark
  \/ \E n \in CallSizes : RtlCallback(n) \/ RspCallback(n)
  \/ Callback
  \/ Main
  \/ \E d \in Channels : DemodStep(d)
  \/ Signal \/ RequestExit \/ SpuriousWakeup
  \/ Ended

\* Threads are scheduled, a callback in progress runs on, and a cancelled
\* read returns.  Neither samples nor signals have to come.
Fairness ==
  /\ WF_vars(StreamStarts \/ Unpark)
  /\ WF_vars(stream = "cancelling" /\ ReadReturns)
  /\ WF_vars(Callback)
  /\ WF_vars(Main)
  /\ \A d \in Channels : WF_vars(DemodStep(d))

Spec == Init /\ [][Next]_vars
FairSpec == Spec /\ Fairness

-----------------------------------------------------------------------------
(* Properties.                                                             *)

Phases == {"starting", "supervising", "joining", "stopping", "closing",
           "waking", "ended"}

TypeOK ==
  /\ Ring!TypeOK
  /\ lib \in Libraries
  /\ main \in Phases
  /\ thread \in {"none", "begin", "in", "done"}
  /\ stream \in {"off", "running", "cancelling", "stopping"}
  /\ left \in 0 .. MaxSamples
  /\ arrived \in 0 .. MaxSamples
  /\ dropped \in 0 .. STARTUP_DROP_SAMPLES
  /\ buf_pending \in 0 .. MAXIMUM_IQ_LENGTH
  /\ samples \in [0 .. 1 -> [Positions -> Nat]]
  /\ len \in [0 .. 1 -> 0 .. MAXIMUM_IQ_LENGTH]
  /\ chunks \in Seq(Seq(Nat))

\* The first sample that is not dropped is the one after this.
Start == IF lib = "rsp" THEN STARTUP_DROP_SAMPLES ELSE 0

\* The last sample published, or dropped.
LastPublished ==
  IF chunks = <<>> THEN Start
  ELSE LET c == chunks[Len(chunks)] IN c[Len(c)]

\* The chunks are the stream, cut into pieces: however the library cuts its
\* calls and however they straddle chunks, no sample after the dropped ones
\* is lost, repeated or out of place ("Accumulate into the current ping-pong
\* slot and hand off", rsp/thread_device.c:28).
ChunksContiguous ==
  \A k \in 1 .. Len(chunks) :
    LET before == IF k = 1 THEN Start ELSE chunks[k - 1][Len(chunks[k - 1])]
    IN /\ chunks[k] # <<>>
       /\ \A i \in 1 .. Len(chunks[k]) : chunks[k][i] = before + i

\* A callback that has returned holds back less than a chunk, so that the
\* demods are paced as the pipeline expects and no sample waits for long.
LittleHeldBack ==
  ~InCallback /\ ~do_exit /\ arrived > Start =>
    arrived - LastPublished < CHUNK_SAMPLES

\* While a demod reads a slot it holds the samples of the chunk the demod is
\* due, though the library's thread is filling the other one call by call.
SamplesIntact ==
  \A d \in Channels :
    dpc[d] = "read" =>
      LET s == Ring!Slot(seq_processed[d])
      IN SubSeq(samples[s], 1, len[s]) = chunks[seq_processed[d] + 1]

\* "no recording/output file may be closed or demod joined while a callback
\* can still be mid-delivery" (main.c:354-355).
QuietAfterStop ==
  main \in {"closing", "waking", "ended"} => ~InCallback /\ stream = "off"

\* Seen from the demods and the recording the library is the ring's producer.
RingSpec == Ring!Spec

\* Shutdown reaches its end from any state in which the stream runs and
\* teardown is still to cancel it, and for the RSP from any state at all.
StopsOnceRunning ==
  (do_exit /\ (lib = "rsp" \/ (stream = "running" /\ main = "supervising")))
    ~> main = "ended"

\* Ask the device thread to stop promptly (device.h:132): whenever do_exit
\* is set, the device thread is joined.
StopsPromptly == do_exit ~> thread = "done"
=============================================================================
