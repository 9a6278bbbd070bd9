-------------------------- MODULE StreamingProofs --------------------------
(***************************************************************************)
(* The streaming side is a producer of the slot ring, and cuts the         *)
(* library's stream into chunks without a gap, for any sizes of calls,     *)
(* chunks and slots and any number of channels.                            *)
(*                                                                         *)
(* Control says what each phase of main and of the device thread implies   *)
(* for the callback; with it every step is a step or a stutter of          *)
(* SlotRing, so that its IInv holds here.  Progress says how far a         *)
(* callback has come: the samples used so far are those published, those   *)
(* in the slot, and the ones dropped at the start.                         *)
(***************************************************************************)
EXTENDS Streaming, SequenceTheorems, TLAPS

RP == INSTANCE SlotRingProofs WITH Interrupts <- TRUE

LEMMA Parameters == RP!RingAssumption
  BY StreamingAssumption DEF StreamingParameters, Ring!RingParameters, RP!RingParameters

\* The module of the proofs speaks of the same specification.
LEMMA SameRing == /\ Ring!Init <=> RP!Init
                  /\ [Ring!Next]_(Ring!ringVars) <=> [RP!Next]_(RP!ringVars)
  BY DEF
         Ring!OpenInput, RP!OpenInput, Ring!NextChunk, RP!NextChunk,
         Ring!EndOfInput, RP!EndOfInput, Ring!StreamEnds, RP!StreamEnds,
         Ring!AbandonFill, RP!AbandonFill, Ring!AwaitCheck, RP!AwaitCheck,
         Ring!AwaitSleep, RP!AwaitSleep, Ring!ClaimSlot, RP!ClaimSlot,
         Ring!FillSlot, RP!FillSlot, Ring!Deliver, RP!Deliver, Ring!RecordChunk,
         RP!RecordChunk, Ring!Publish,
         RP!Publish, Ring!InputExhausted, RP!InputExhausted, Ring!SignalDemod,
         RP!SignalDemod, Ring!SaveRecording, RP!SaveRecording, Ring!RequestExit,
         RP!RequestExit, Ring!SpuriousWakeup, RP!SpuriousWakeup, Ring!Finished,
         RP!Finished, Ring!DemodCheck, RP!DemodCheck, Ring!DemodSleep,
         RP!DemodSleep, Ring!Consume, RP!Consume, Ring!Announce, RP!Announce,
         Ring!DemodFail, RP!DemodFail, Ring!AudioReturn, RP!AudioReturn,
         Ring!WakeDemod, RP!WakeDemod, Ring!ringVars, RP!ringVars, Ring!prodVars,
         RP!prodVars, Ring!demodVars, RP!demodVars, Ring!mainVars, RP!mainVars,
         Ring!Drained, RP!Drained, Ring!Outcomes, RP!Outcomes, Ring!Slot, RP!Slot,
         Ring!Torn, RP!Torn, Ring!Producer, RP!Producer, Ring!DemodLoop,
         RP!DemodLoop, Ring!Teardown, RP!Teardown, Ring!Next, RP!Next, Ring!Init,
         RP!Init, Ring!Empty, RP!Empty, Ring!FileInput, RP!FileInput

-----------------------------------------------------------------------------
\* In the middle of acquire_fill_slot.
Acquiring == {"await", "enter_wait", "wait", "claim"}

\* Before the device thread has begun, and after the producer has ended,
\* nothing calls back; main's phases follow one another.
Control ==
  /\ source # "file"
  /\ pgoal = "slot"
  /\ do_exit \in BOOLEAN
  /\ lib \in Libraries /\ lib \in {"rtl", "rsp"}
  /\ main \in Phases
  /\ thread \in {"none", "begin", "in", "done"}
  /\ stream \in {"off", "running", "cancelling", "stopping"}
  /\ ppc \in {"top", "fill", "deliver", "publish", "signal", "done"} \cup Acquiring
  /\ thread \in {"none", "begin"} => ppc = "top" /\ stream = "off" /\ left = 0
  /\ ppc = "done" => /\ do_exit
                     /\ thread = "done"
                     /\ stream = "off"
                     /\ left = 0
  /\ thread = "done" /\ lib = "rtl" => ppc = "done"
  /\ stream \in {"cancelling", "stopping"} => do_exit
  /\ main = "starting" => thread = "none"
  /\ main = "supervising" => thread # "none"
  /\ main \notin {"starting", "supervising"} => do_exit /\ thread # "none"
  /\ main \in {"stopping", "closing", "waking", "ended"} => thread = "done"
  /\ main \in {"closing", "waking", "ended"} => ppc = "done"
  /\ main \in {"waking", "ended"} => rec # "on"
  /\ ppc \in Acquiring => left > 0
  /\ lib = "rtl" /\ ppc = "fill" => left > 0

Counts ==
  /\ left \in Nat
  /\ arrived \in Nat
  /\ left <= arrived
  /\ arrived <= MaxSamples
  /\ dropped \in 0 .. STARTUP_DROP_SAMPLES
  /\ buf_pending \in 0 .. MAXIMUM_IQ_LENGTH

\* The demods' steps, and spurious wakeups, as the producer sees them.
LEMMA DemodFrame ==
  ASSUME NEW d \in Channels,
         Ring!DemodLoop(d) \/ Ring!AudioReturn(d) \/ Ring!SpuriousWakeup
  PROVE  /\ UNCHANGED <<source, chunk_seq, slots, pgoal, tosignal, rec, taped, woken>>
         /\ ppc' = ppc \/ (ppc = "wait" /\ ppc' = "await")
         /\ do_exit' = do_exit \/ do_exit' = TRUE
         /\ seq_processed' = seq_processed
            \/ seq_processed' = [seq_processed EXCEPT ![d] = @ + 1]
<1>1. CASE Ring!SpuriousWakeup
  BY <1>1 DEF Ring!SpuriousWakeup, Ring!mainVars
<1>2. CASE Ring!Announce(d)
  BY <1>2 DEF Ring!Announce, Ring!mainVars
<1>3. CASE Ring!DemodCheck(d) \/ Ring!DemodSleep(d) \/ Ring!Consume(d)
           \/ Ring!DemodFail(d) \/ Ring!AudioReturn(d)
  BY <1>3 DEF Ring!DemodCheck, Ring!DemodSleep, Ring!Consume, Ring!DemodFail,
     Ring!AudioReturn, Ring!mainVars, Ring!prodVars
<1> QED
  BY <1>1, <1>2, <1>3 DEF Ring!DemodLoop

LEMMA ControlStep == Control /\ Counts /\ [Next]_vars => Control'
<1> SUFFICES ASSUME Control, Counts, [Next]_vars PROVE Control'
  OBVIOUS
<1> USE DEF Control, Acquiring, Phases, ringVars, callVars, dataVars, threadVars,
        Ring!prodVars, Ring!demodVars, Ring!mainVars
<1>1. CASE StreamStarts
  BY <1>1 DEF StreamStarts
<1>2. CASE StartFails
  BY <1>2 DEF StartFails
<1>3. CASE ReadReturns
  <2>1. left = 0
    BY <1>3 DEF ReadReturns, InCallback, Counts
  <2>2. /\ thread = "in" /\ thread' = "done"
        /\ ppc' = "done" /\ stream' = "off"
        /\ UNCHANGED <<source, pgoal, rec, lib, main, left>>
        /\ do_exit'
    BY <1>3 DEF ReadReturns
  <2>3. do_exit' \in BOOLEAN
    BY <1>3 DEF ReadReturns
  <2> QED
    BY <2>1, <2>2, <2>3
<1>4. CASE Unpark
  BY <1>4 DEF Unpark
<1>5. ASSUME NEW n \in CallSizes, RtlCallback(n) \/ RspCallback(n) PROVE Control'
  <2>1. /\ UNCHANGED <<ringVars, dataVars, threadVars, buf_pending>>
        /\ stream = "running"
        /\ ppc \in {"top", "fill", "done"}
        /\ lib = "rtl" => left' = n /\ n \in Nat \ {0}
    BY <1>5, StreamingAssumption
       DEF RtlCallback, RspCallback, Delivered, InCallback, StreamingParameters
  <2> QED
    BY <2>1
<1>6. CASE BeginChunk
  BY <1>6 DEF BeginChunk, Ring!NextChunk, Counts
<1>7. CASE AwaitSlot
  BY <1>7 DEF AwaitSlot, Ring!AwaitCheck, Ring!AwaitSleep
<1>8. CASE ClaimSlot
  BY <1>8 DEF ClaimSlot, Ring!ClaimSlot
<1>9. CASE RtlCopy
  BY <1>9 DEF RtlCopy, Ring!FillSlot
<1>10. CASE RspCopy
  BY <1>10 DEF RspCopy, Ring!FillSlot
<1>11. CASE Deliver
  BY <1>11 DEF Deliver, Ring!Deliver, Ring!RecordChunk
<1>12. CASE Publish
  BY <1>12 DEF Publish, Ring!Publish
<1>13. ASSUME NEW d \in Channels, SignalDemod(d) PROVE Control'
  BY <1>13 DEF SignalDemod, Ring!SignalDemod
<1>14. CASE StartThreads
  BY <1>14 DEF StartThreads
<1>15. CASE BeginTeardown
  BY <1>15 DEF BeginTeardown, Cancel
<1>16. CASE JoinDevice
  BY <1>16 DEF JoinDevice
<1>17. CASE AbandonFill
  BY <1>17 DEF AbandonFill, Ring!AbandonFill, InCallback
<1>18. CASE StreamStopped
  BY <1>18 DEF StreamStopped, InCallback, Counts
<1>19. CASE CloseRecording
  BY <1>19 DEF CloseRecording
<1>20. ASSUME NEW d \in Channels, WakeDemod(d) PROVE Control'
  BY <1>20 DEF WakeDemod
<1>21. CASE JoinDemods
  BY <1>21 DEF JoinDemods
<1>22. ASSUME NEW d \in Channels, DemodStep(d) \/ SpuriousWakeup PROVE Control'
  <2>1. /\ Ring!DemodLoop(d) \/ Ring!AudioReturn(d) \/ Ring!SpuriousWakeup
        /\ UNCHANGED <<callVars, dataVars, threadVars>>
    BY <1>22 DEF DemodStep, SpuriousWakeup
  <2> QED
    BY <2>1, DemodFrame
<1>23. CASE Signal
  BY <1>23 DEF Signal, Cancel
<1>24. CASE RequestExit
  BY <1>24 DEF RequestExit
<1>25. CASE Ended \/ UNCHANGED vars
  BY <1>25 DEF Ended, vars
<1>26. \E d \in Channels : TRUE
  BY StreamingAssumption DEF StreamingParameters, Ring!RingParameters
<1> QED
  BY <1>1, <1>2, <1>3, <1>4, <1>5, <1>6, <1>7, <1>8, <1>9, <1>10, <1>11, <1>12,
     <1>13, <1>14, <1>15, <1>16, <1>17, <1>18, <1>19, <1>20, <1>21, <1>22, <1>23,
     <1>24, <1>25, <1>26 DEF Next, Callback, Main

\* Every step is a step of the ring, or leaves the ring alone.
LEMMA RingStep == Control /\ Counts /\ [Next]_vars => [Ring!Next]_(Ring!ringVars)
<1> SUFFICES ASSUME Control, Counts, [Next]_vars
             PROVE  Ring!Next \/ UNCHANGED Ring!ringVars
  OBVIOUS
<1> USE DEF ringVars, Ring!ringVars, Ring!prodVars, Ring!demodVars, Ring!mainVars
<1>1. CASE StreamStarts \/ Unpark \/ StartThreads \/ BeginTeardown \/ JoinDevice
           \/ JoinDemods
  BY <1>1 DEF StreamStarts, Unpark, StartThreads, BeginTeardown, JoinDevice, JoinDemods
<1>2. CASE StartFails
  <2>1. CASE lib = "rtl"
    <3>1. Ring!StreamEnds
      BY <1>2, <2>1 DEF StartFails, Control, Ring!StreamEnds, Ring!FileInput
    <3> QED
      BY <3>1 DEF Ring!Next, Ring!Producer
  <2>2. CASE lib = "rsp" /\ ~do_exit
    <3>1. Ring!RequestExit
      BY <1>2, <2>2 DEF StartFails, Ring!RequestExit
    <3> QED
      BY <3>1 DEF Ring!Next
  <2>3. CASE lib = "rsp" /\ do_exit
    BY <1>2, <2>3 DEF StartFails, Control
  <2> QED
    BY <2>1, <2>2, <2>3 DEF Control

<1>3. CASE ReadReturns
  <2>1. Ring!StreamEnds
    BY <1>3 DEF ReadReturns, InCallback, Control, Counts, Acquiring,
       Ring!StreamEnds, Ring!FileInput
  <2> QED
    BY <2>1 DEF Ring!Next, Ring!Producer
<1>4. ASSUME NEW n \in CallSizes, RtlCallback(n) \/ RspCallback(n)
      PROVE  UNCHANGED Ring!ringVars
  BY <1>4 DEF RtlCallback, RspCallback, Delivered
<1>5. CASE BeginChunk \/ AwaitSlot \/ ClaimSlot \/ RtlCopy \/ RspCopy \/ Deliver
           \/ Publish \/ AbandonFill
  BY <1>5 DEF BeginChunk, AwaitSlot, ClaimSlot, RtlCopy, RspCopy, Deliver, Publish,
     AbandonFill, Ring!Next, Ring!Producer
<1>6. ASSUME NEW d \in Channels, SignalDemod(d) PROVE Ring!Next
  BY <1>6 DEF SignalDemod, Ring!Next, Ring!Producer
<1>7. CASE StreamStopped
  <2>1. ppc \in {"top", "done"} /\ do_exit
    BY <1>7 DEF StreamStopped, InCallback, Control, Acquiring
  <2>2. CASE ppc = "top"
    <3>1. Ring!StreamEnds
      BY <1>7, <2>1, <2>2 DEF StreamStopped, Control, Ring!StreamEnds, Ring!FileInput
    <3> QED
      BY <3>1 DEF Ring!Next, Ring!Producer
  <2>3. CASE ppc = "done"
    BY <1>7, <2>3 DEF StreamStopped
  <2> QED
    BY <2>1, <2>2, <2>3
<1>8. CASE CloseRecording
  <2>1. CASE rec = "on"
    <3>1. Ring!SaveRecording
      BY <1>8, <2>1 DEF CloseRecording, Control, Ring!SaveRecording
    <3> QED
      BY <3>1 DEF Ring!Next, Ring!Teardown
  <2>2. CASE rec # "on"
    BY <1>8, <2>2 DEF CloseRecording
  <2> QED
    BY <2>1, <2>2
<1>9. ASSUME NEW d \in Channels, WakeDemod(d) PROVE Ring!Next
  <2>1. Ring!WakeDemod(d)
    BY <1>9 DEF WakeDemod, Control, Ring!WakeDemod
  <2> QED
    BY <2>1 DEF Ring!Next, Ring!Teardown
<1>10. ASSUME NEW d \in Channels, DemodStep(d) PROVE Ring!Next
  BY <1>10 DEF DemodStep, Ring!Next
<1>11. CASE Signal \/ RequestExit
  <2>1. CASE do_exit
    BY <1>11, <2>1 DEF Signal, RequestExit, Control
  <2>2. CASE ~do_exit
    <3>1. Ring!RequestExit
      BY <1>11, <2>2 DEF Signal, RequestExit, Ring!RequestExit
    <3> QED
      BY <3>1 DEF Ring!Next
  <2> QED
    BY <2>1, <2>2
<1>12. CASE SpuriousWakeup
  BY <1>12 DEF SpuriousWakeup, Ring!Next
<1>13. CASE Ended \/ UNCHANGED vars
  BY <1>13 DEF Ended, vars
<1> QED
  BY <1>1, <1>2, <1>3, <1>4, <1>5, <1>6, <1>7, <1>8, <1>9, <1>10, <1>11, <1>12,
     <1>13 DEF Next, Callback, Main

-----------------------------------------------------------------------------
(* The samples.                                                            *)

Data ==
  /\ samples \in [0 .. 1 -> [Positions -> Nat]]
  /\ len \in [0 .. 1 -> 0 .. MAXIMUM_IQ_LENGTH]
  /\ chunks \in Seq(Seq(Nat))
  /\ Len(chunks) = chunk_seq

\* The slot being filled holds the n samples after the last one published.
Filled(n) ==
  \A j \in 1 .. n : samples[Ring!Slot(chunk_seq)][j] = LastPublished + j

\* Every sample used so far is published, in the slot, or was dropped.
Progress ==
  /\ lib = "rtl" => left <= CHUNK_SAMPLES /\ dropped = 0 /\ buf_pending = 0
  /\ lib = "rsp" /\ dropped < STARTUP_DROP_SAMPLES =>
       /\ ppc \in {"top", "done"}
       /\ left = 0
       /\ arrived = dropped
       /\ buf_pending = 0
       /\ chunks = <<>>
  /\ lib = "rtl" \/ dropped = STARTUP_DROP_SAMPLES =>
       /\ ppc \in {"top"} \cup Acquiring /\ ~do_exit =>
            arrived - left = LastPublished /\ buf_pending = 0
       /\ ppc = "fill" => /\ arrived - left = LastPublished + buf_pending
                          /\ buf_pending < CHUNK_SAMPLES
                          /\ Filled(buf_pending)
       /\ ppc \in {"deliver", "publish"} =>
            LET n == len[Ring!Slot(chunk_seq)]
            IN n > 0 /\ arrived - left = LastPublished + n /\ Filled(n)
       /\ ppc = "signal" => arrived - left = LastPublished

\* What a demod has still to take is in its slot as it was published.
Held ==
  \A d \in Channels : \A k \in Nat :
    seq_processed[d] <= k /\ k < chunk_seq =>
      LET s == Ring!Slot(k) IN SubSeq(samples[s], 1, len[s]) = chunks[k + 1]

IInv == RP!IInv /\ Control /\ Counts /\ Data /\ ChunksContiguous /\ Progress /\ Held

LEMMA LastPublishedNat ==
  ASSUME chunks \in Seq(Seq(Nat)), ChunksContiguous
  PROVE  LastPublished \in Nat
<1>1. CASE chunks = <<>>
  BY <1>1, StreamingAssumption DEF LastPublished, Start, StreamingParameters
<1>2. CASE chunks # <<>>
  <2>1. Len(chunks) \in 1 .. Len(chunks) /\ chunks[Len(chunks)] \in Seq(Nat)
    BY <1>2
  <2>2. chunks[Len(chunks)] # <<>>
    BY <2>1 DEF ChunksContiguous
  <2> QED
    BY <1>2, <2>1, <2>2 DEF LastPublished
<1> QED
  BY <1>1, <1>2

\* Appending the samples that come next keeps the chunks contiguous.
LEMMA Appending ==
  ASSUME chunks \in Seq(Seq(Nat)), ChunksContiguous, lib' = lib,
         NEW c \in Seq(Nat), c # <<>>,
         \A i \in 1 .. Len(c) : c[i] = LastPublished + i,
         chunks' = Append(chunks, c)
  PROVE  /\ ChunksContiguous'
         /\ LastPublished' = LastPublished + Len(c)
<1>1. /\ chunks' \in Seq(Seq(Nat))
      /\ Len(chunks') = Len(chunks) + 1
      /\ chunks'[Len(chunks) + 1] = c
      /\ \A k \in 1 .. Len(chunks) : chunks'[k] = chunks[k]
      /\ Len(chunks) \in Nat
      /\ Len(c) \in Nat \ {0}
  OBVIOUS
<1>2. LastPublished' = LastPublished + Len(c)
  <2>0. chunks'[Len(chunks')] = c
    BY <1>1
  <2>1. chunks' # <<>>
    <3>1. Len(chunks') # 0
      BY <1>1
    <3> QED
      BY <3>1, EmptySeq
  <2>2. LastPublished' = c[Len(c)]
    BY <2>0, <2>1 DEF LastPublished
  <2> QED
    BY <1>1, <2>2
<1>3. ASSUME NEW k \in 1 .. Len(chunks')
      PROVE LET before == IF k = 1 THEN Start' ELSE chunks'[k - 1][Len(chunks'[k - 1])]
            IN /\ chunks'[k] # <<>>
               /\ \A i \in 1 .. Len(chunks'[k]) : chunks'[k][i] = before + i
  <2>1. Start' = Start
    BY DEF Start
  <2>2. CASE k \in 1 .. Len(chunks)
    <3>1. k # 1 => k - 1 \in 1 .. Len(chunks)
      BY <2>2, <1>1
    <3>2. chunks'[k] = chunks[k] /\ (k # 1 => chunks'[k - 1] = chunks[k - 1])
      BY <1>1, <2>2, <3>1
    <3>3. LET before == IF k = 1 THEN Start ELSE chunks[k - 1][Len(chunks[k - 1])]
          IN /\ chunks[k] # <<>>
             /\ \A i \in 1 .. Len(chunks[k]) : chunks[k][i] = before + i
      BY <2>2 DEF ChunksContiguous
    <3> QED
      BY <2>1, <3>2, <3>3
  <2>3. CASE k = Len(chunks) + 1
    <3>1. CASE k = 1
      <4>1. LastPublished = Start
        BY <1>1, <2>3, <3>1 DEF LastPublished
      <4> QED
        BY <1>1, <2>1, <2>3, <3>1, <4>1
    <3>2. CASE k # 1
      <4>1. k - 1 = Len(chunks) /\ Len(chunks) \in 1 .. Len(chunks) /\ chunks # <<>>
        BY <1>1, <2>3, <3>2
      <4>2. LastPublished = chunks'[k - 1][Len(chunks'[k - 1])]
        BY <1>1, <4>1 DEF LastPublished
      <4> QED
        BY <1>1, <2>3, <3>2, <4>2
    <3> QED
      BY <3>1, <3>2
  <2> QED
    BY <1>1, <2>2, <2>3
<1> QED
  BY <1>2, <1>3 DEF ChunksContiguous
LEMMA Parity ==
  ASSUME NEW k \in Int
  PROVE  Ring!Slot(k) \in 0 .. 1 /\ Ring!Slot(k - 1) # Ring!Slot(k)
  BY DEF Ring!Slot

\* The part of IInv that is about the samples.
Good == Counts /\ Data /\ ChunksContiguous /\ Progress /\ Held

\* Steps that move no sample: the demods take chunks, do_exit is set, the
\* producer waits, ends, or gives up what it has begun.
LEMMA Frame ==
  ASSUME Control, Control', Good,
         chunk_seq \in Nat,
         seq_processed \in [Channels -> Nat],
         seq_processed' \in [Channels -> Nat],
         \A d \in Channels : seq_processed[d] <= seq_processed'[d],
         UNCHANGED <<callVars, dataVars, chunk_seq, lib>>,
         do_exit => do_exit',
         \/ ppc' \in {ppc, "done"}
         \/ ppc' = "top" /\ do_exit'
         \/ ppc \in {"top"} \cup Acquiring /\ ppc' \in Acquiring
  PROVE  Good'
<1>1. /\ UNCHANGED <<left, arrived, dropped, buf_pending, samples, len, chunks,
                     lib, chunk_seq>>
      /\ Start' = Start
      /\ LastPublished' = LastPublished
  BY DEF callVars, dataVars, Start, LastPublished
<1>2. Counts' /\ Data'
  BY <1>1 DEF Good, Counts, Data
<1>3. ChunksContiguous'
  BY <1>1 DEF Good, ChunksContiguous
<1>4. \A n : Filled(n)' = Filled(n)
  BY <1>1 DEF Filled
<1>5. Progress'
  <2>1. Progress /\ left \in Nat
    BY DEF Good, Counts
  <2>2. CASE lib = "rsp" /\ dropped < STARTUP_DROP_SAMPLES
    <3>1. ppc' \in {"top", "done"} /\ left = 0 /\ arrived = dropped
          /\ buf_pending = 0 /\ chunks = <<>>
      BY <2>1, <2>2, <1>1 DEF Progress, Control, Acquiring
    <3>2. dropped # STARTUP_DROP_SAMPLES
      BY <2>2, <1>1, StreamingAssumption DEF StreamingParameters, Good, Counts
    <3> QED
      BY <1>1, <2>1, <2>2, <3>1, <3>2 DEF Progress
  <2>3. CASE ~(lib = "rsp" /\ dropped < STARTUP_DROP_SAMPLES)
    BY <1>1, <1>4, <2>1, <2>3 DEF Progress, Acquiring, Filled
  <2> QED
    BY <2>2, <2>3
<1>6. Held'
  <2> SUFFICES ASSUME NEW d \in Channels, NEW k \in Nat,
                      seq_processed'[d] <= k, k < chunk_seq
               PROVE  SubSeq(samples[Ring!Slot(k)], 1, len[Ring!Slot(k)])
                        = chunks[k + 1]
    BY <1>1 DEF Held, Ring!Slot
  <2>1. seq_processed[d] <= k
    OBVIOUS
  <2> QED
    BY <2>1 DEF Good, Held
<1> QED
  BY <1>2, <1>3, <1>5, <1>6 DEF Good
\* A call arrives: its samples are counted, and the first ones dropped.
LEMMA CallbackStep ==
  ASSUME Control, Good, chunk_seq \in Nat, NEW n \in CallSizes,
         RtlCallback(n) \/ RspCallback(n)
  PROVE  Good'
<1>0. /\ n \in Nat \ {0}
      /\ STARTUP_DROP_SAMPLES \in Nat /\ CHUNK_SAMPLES \in Nat /\ MaxSamples \in Nat
  BY StreamingAssumption DEF StreamingParameters, Ring!RingParameters
<1>1. /\ left = 0 /\ ~do_exit /\ ppc \in {"top", "fill"}
      /\ arrived' = arrived + n /\ arrived' <= MaxSamples
      /\ UNCHANGED <<ringVars, dataVars, threadVars, buf_pending>>
  BY DEF RtlCallback, RspCallback, Delivered, InCallback, Good, Counts, Control
<1>2. /\ UNCHANGED <<ppc, do_exit, chunk_seq, seq_processed, samples, len, chunks, lib>>
      /\ Start' = Start
      /\ LastPublished' = LastPublished
  BY <1>1 DEF ringVars, dataVars, threadVars, Start, LastPublished
<1>3. Data' /\ ChunksContiguous' /\ Held'
  BY <1>2 DEF Good, Data, ChunksContiguous, Held, Ring!Slot
<1>4. \A m : Filled(m)' = Filled(m)
  BY <1>2 DEF Filled
<1>5. CASE RtlCallback(n)
  <2>1. lib = "rtl" /\ left' = n /\ n <= CHUNK_SAMPLES /\ dropped' = dropped
    BY <1>5 DEF RtlCallback
  <2>2. Counts'
    BY <1>0, <1>1, <2>1 DEF Good, Counts
  <2>3. Progress'
    BY <1>0, <1>1, <1>2, <1>4, <2>1 DEF Good, Counts, Progress
  <2> QED
    BY <1>3, <2>2, <2>3 DEF Good
<1>6. CASE RspCallback(n)
  <2>1. PICK skip \in Nat : /\ skip = Lesser(n, STARTUP_DROP_SAMPLES - dropped)
                            /\ left' = n - skip
                            /\ dropped' = dropped + skip
    BY <1>0, <1>6 DEF RspCallback, Lesser, Good, Counts
  <2>2. /\ lib = "rsp"
        /\ skip <= n /\ skip <= STARTUP_DROP_SAMPLES - dropped
        /\ skip = n \/ dropped' = STARTUP_DROP_SAMPLES
        /\ dropped \in 0 .. STARTUP_DROP_SAMPLES
        /\ arrived \in Nat
    BY <1>0, <1>6, <2>1 DEF RspCallback, Lesser, Good, Counts
  <2>3. Counts'
    BY <1>0, <1>1, <2>1, <2>2 DEF Good, Counts
  <2>4. Progress'
    <3>1. CASE dropped = STARTUP_DROP_SAMPLES
      <4>1. skip = 0 /\ left' = n /\ dropped' = dropped
        BY <1>0, <2>1, <2>2, <3>1
      <4> QED
        BY <1>0, <1>1, <1>2, <1>4, <2>2, <3>1, <4>1 DEF Good, Counts, Progress
    <3>2. CASE dropped < STARTUP_DROP_SAMPLES
      <4>1. /\ arrived = dropped /\ buf_pending = 0 /\ chunks = <<>> /\ ppc = "top"
            /\ buf_pending' = 0
        BY <1>1, <2>2, <3>2 DEF Good, Progress
      <4>2. arrived' - left' = dropped'
        BY <1>0, <1>1, <2>1, <2>2, <4>1
      <4>3. LastPublished = STARTUP_DROP_SAMPLES
        BY <2>2, <4>1 DEF LastPublished, Start
      <4>4. dropped' < STARTUP_DROP_SAMPLES => left' = 0 /\ arrived' = dropped'
        BY <1>0, <1>1, <2>1, <2>2, <4>2
      <4> QED
        BY <1>0, <1>2, <2>2, <4>1, <4>2, <4>3, <4>4 DEF Progress
    <3> QED
      BY <1>0, <2>2, <3>1, <3>2
  <2> QED
    BY <1>3, <2>3, <2>4 DEF Good
<1> QED
  BY <1>5, <1>6

\* Samples go to the slot being filled, behind the p that are in it; the
\* demods have no claim on what that slot held.
LEMMA StoreStep ==
  ASSUME Data, Counts, Held, RP!Lookahead, ppc = "fill", chunk_seq \in Nat,
         seq_processed \in [Channels -> Nat],
         NEW p \in Nat, NEW n \in Nat, n <= left, p + n <= MAXIMUM_IQ_LENGTH,
         arrived - left = LastPublished + p, LastPublished \in Nat, Filled(p),
         Store(p, n),
         len' = len \/ len' = [len EXCEPT ![Ring!Slot(chunk_seq)] = p + n],
         UNCHANGED <<chunks, chunk_seq, seq_processed, lib>>
  PROVE  /\ Data' /\ Held' /\ Filled(p + n)'
         /\ LastPublished' = LastPublished
<1> DEFINE s == Ring!Slot(chunk_seq)
<1>0. /\ MAXIMUM_IQ_LENGTH \in Nat
      /\ samples \in [0 .. 1 -> [Positions -> Nat]]
      /\ len \in [0 .. 1 -> 0 .. MAXIMUM_IQ_LENGTH]
      /\ arrived \in Nat /\ left \in Nat /\ left <= arrived
      /\ s \in 0 .. 1
  <2>1. s \in 0 .. 1
    BY Parity
  <2> QED
    BY <2>1, StreamingAssumption DEF StreamingParameters, Data, Counts
<1>1. /\ Start' = Start
      /\ LastPublished' = LastPublished
      /\ Ring!Slot(chunk_seq)' = s
  BY DEF Start, LastPublished, Ring!Slot
<1>2. /\ \A t \in 0 .. 1 : t # s => samples'[t] = samples[t] /\ len'[t] = len[t]
      /\ samples'[s] = [j \in Positions |->
                          IF j \in p + 1 .. p + n THEN arrived - left + j - p
                                                  ELSE samples[s][j]]
      /\ samples' = [samples EXCEPT ![s] =
                       [j \in Positions |->
                          IF j \in p + 1 .. p + n THEN arrived - left + j - p
                                                  ELSE samples[s][j]]]
  BY <1>0 DEF Store
<1>3. samples'[s] \in [Positions -> Nat]
  <2>1. ASSUME NEW j \in p + 1 .. p + n PROVE arrived - left + j - p \in Nat
    BY <1>0
  <2>2. ASSUME NEW j \in Positions PROVE samples[s][j] \in Nat
    BY <1>0
  <2> QED
    BY <1>2, <2>1, <2>2
<1>4. Data'
  <2>1. samples' \in [0 .. 1 -> [Positions -> Nat]]
    BY <1>0, <1>2, <1>3
  <2>2. len' \in [0 .. 1 -> 0 .. MAXIMUM_IQ_LENGTH]
    BY <1>0
  <2> QED
    BY <2>1, <2>2 DEF Data
<1>5. ASSUME NEW j \in 1 .. p + n PROVE samples'[s][j] = LastPublished + j
  <2>1. j \in Positions
    BY <1>0 DEF Positions
  <2>2. CASE j <= p
    BY <1>0, <1>2, <2>1, <2>2 DEF Filled
  <2>3. CASE j > p
    BY <1>0, <1>2, <2>1, <2>3
  <2> QED
    BY <2>2, <2>3
<1>6. Filled(p + n)'
  BY <1>1, <1>5 DEF Filled
<1>7. Held'
  <2> SUFFICES ASSUME NEW d \in Channels, NEW k \in Nat,
                      seq_processed[d] <= k, k < chunk_seq
               PROVE  SubSeq(samples'[Ring!Slot(k)], 1, len'[Ring!Slot(k)])
                        = chunks[k + 1]
    BY DEF Held, Ring!Slot
  <2>1. k = chunk_seq - 1
    BY DEF RP!Lookahead, RP!Filling
  <2>2. Ring!Slot(k) \in 0 .. 1 /\ Ring!Slot(k) # s
    BY <2>1, Parity
  <2>3. samples'[Ring!Slot(k)] = samples[Ring!Slot(k)] /\ len'[Ring!Slot(k)] = len[Ring!Slot(k)]
    BY <1>2, <2>2
  <2> QED
    BY <2>3 DEF Held
<1> QED
  BY <1>1, <1>4, <1>6, <1>7
LEMMA CopyStep ==
  ASSUME Control, Good, RP!Lookahead, chunk_seq \in Nat,
         seq_processed \in [Channels -> Nat],
         RtlCopy \/ RspCopy
  PROVE  Good'
<1> DEFINE s == Ring!Slot(chunk_seq)
<1>0. /\ CHUNK_SAMPLES \in Nat \ {0} /\ MAXIMUM_IQ_LENGTH \in Nat
      /\ CHUNK_SAMPLES <= MAXIMUM_IQ_LENGTH
      /\ STARTUP_DROP_SAMPLES \in Nat
      /\ left \in Nat /\ arrived \in Nat /\ left <= arrived
      /\ buf_pending \in 0 .. MAXIMUM_IQ_LENGTH
      /\ dropped \in 0 .. STARTUP_DROP_SAMPLES
      /\ LastPublished \in Nat
  BY StreamingAssumption, LastPublishedNat DEF StreamingParameters, Good, Counts, Data
<1>1. /\ ppc = "fill"
      /\ left > 0
      /\ lib = "rtl" \/ dropped = STARTUP_DROP_SAMPLES
      /\ arrived - left = LastPublished + buf_pending
      /\ buf_pending < CHUNK_SAMPLES
      /\ Filled(buf_pending)
      /\ lib = "rtl" => buf_pending = 0 /\ left <= CHUNK_SAMPLES
  BY <1>0 DEF RtlCopy, RspCopy, Control, Good, Progress
<1>10. PICK p \in Nat : p = buf_pending
  BY <1>0
<1> DEFINE Copied(n) ==
             /\ n <= left /\ p + n <= MAXIMUM_IQ_LENGTH
             /\ Store(p, n)
             /\ left' = left - n
             /\ UNCHANGED <<arrived, dropped, chunks, chunk_seq, seq_processed, lib>>
             /\ \/ len' = [len EXCEPT ![s] = p + n] /\ ppc' = "deliver"
                \/ /\ len' = len /\ ppc' = "fill" /\ lib = "rsp"
                   /\ p + n < CHUNK_SAMPLES
             /\ lib = "rtl" => buf_pending' = buf_pending
             /\ lib = "rsp" => buf_pending' = p + n
<1>2. \E n \in Nat \ {0} : Copied(n)
  <2>1. CASE RtlCopy
    <3>1. Lesser(left, MAXIMUM_IQ_LENGTH) = left /\ buf_pending = 0 /\ lib = "rtl"
      BY <1>0, <1>1, <2>1 DEF Lesser, RtlCopy
    <3>2. /\ Store(0, left) /\ SetLength(left) /\ left' = 0 /\ Ring!FillSlot
          /\ UNCHANGED <<arrived, dropped, buf_pending, chunks, threadVars>>
      BY <2>1, <3>1 DEF RtlCopy
    <3>3. /\ Store(buf_pending, left)
          /\ len' = [len EXCEPT ![s] = buf_pending + left]
          /\ ppc' = "deliver"
          /\ UNCHANGED <<chunk_seq, seq_processed, lib>>
      BY <1>0, <3>1, <3>2 DEF Ring!FillSlot, SetLength, threadVars, Ring!demodVars
    <3>4. Copied(left)
      BY <1>0, <1>1, <1>10, <3>1, <3>2, <3>3
    <3> QED
      BY <1>0, <1>1, <3>4
  <2>2. CASE RspCopy
    <3>1. /\ Take \in Nat \ {0} /\ Take <= left
          /\ buf_pending + Take <= MAXIMUM_IQ_LENGTH
      BY <1>0, <1>1 DEF Take, Lesser
    <3>2. /\ Store(buf_pending, Take)
          /\ buf_pending' = buf_pending + Take
          /\ left' = left - Take
          /\ lib = "rsp"
          /\ UNCHANGED <<arrived, dropped, chunks, chunk_seq, seq_processed, lib>>
          /\ \/ Enough /\ SetLength(buf_pending + Take) /\ ppc' = "deliver"
             \/ ~Enough /\ UNCHANGED len /\ ppc' = ppc
      BY <2>2 DEF RspCopy, Ring!FillSlot, ringVars, threadVars, Ring!demodVars
    <3>3. ~Enough => buf_pending + Take < CHUNK_SAMPLES
      BY <1>0, <3>1 DEF Enough
    <3>4. Copied(Take)
      BY <1>1, <1>10, <3>1, <3>2, <3>3 DEF SetLength
    <3> QED
      BY <3>1, <3>4
  <2> QED
    BY <2>1, <2>2
<1>20. PICK n \in Nat \ {0} : Copied(n)
  BY <1>2
<1>3. /\ Data' /\ Held' /\ Filled(p + n)'
      /\ LastPublished' = LastPublished
  <2>1. Data /\ Counts /\ Held
    BY DEF Good
  <2>2. /\ n <= left /\ p + n <= MAXIMUM_IQ_LENGTH
        /\ arrived - left = LastPublished + p /\ Filled(p)
        /\ Store(p, n)
        /\ len' = len \/ len' = [len EXCEPT ![Ring!Slot(chunk_seq)] = p + n]
        /\ UNCHANGED <<chunks, chunk_seq, seq_processed, lib>>
    BY <1>1, <1>10, <1>20
  <2> QED
    BY <1>0, <1>1, <2>1, <2>2, StoreStep
<1>4. ChunksContiguous'
  BY <1>20 DEF Good, ChunksContiguous, Start
<1>5. Counts'
  BY <1>0, <1>1, <1>10, <1>20 DEF Good, Counts, Control
<1>6. Progress'
  <2>1. /\ arrived' - left' = LastPublished' + (p + n)
        /\ dropped' = dropped /\ lib' = lib
        /\ lib = "rtl" => left' <= CHUNK_SAMPLES /\ dropped' = 0 /\ buf_pending' = 0
        /\ dropped' = STARTUP_DROP_SAMPLES \/ lib' # "rsp"
    BY <1>0, <1>1, <1>10, <1>20, <1>3 DEF Good, Progress, Control
  <2>2. Ring!Slot(chunk_seq)' = s /\ s \in 0 .. 1
    BY <1>20, Parity DEF Ring!Slot
  <2>3. CASE ppc' = "deliver"
    <3>1. len'[s] = p + n
      BY <1>0, <1>20, <2>2, <2>3 DEF Good, Data
    <3>2. Filled(len[Ring!Slot(chunk_seq)])'
      BY <1>3, <2>2, <3>1 DEF Filled
    <3> QED
      BY <1>0, <2>1, <2>2, <2>3, <3>1, <3>2 DEF Progress, Acquiring
  <2>4. CASE ppc' = "fill"
    <3>1. buf_pending' = p + n /\ p + n < CHUNK_SAMPLES
      BY <1>20, <2>4
    <3>2. Filled(buf_pending)'
      BY <1>3, <3>1 DEF Filled
    <3> QED
      BY <1>0, <2>1, <2>4, <3>1, <3>2 DEF Progress, Acquiring
  <2> QED
    BY <1>20, <2>3, <2>4
<1> QED
  BY <1>3, <1>4, <1>5, <1>6 DEF Good

LEMMA PublishStep ==
  ASSUME Control, Good, chunk_seq \in Nat, seq_processed \in [Channels -> Nat], Publish
  PROVE  Good'
<1> DEFINE s == Ring!Slot(chunk_seq)
           c == SubSeq(samples[s], 1, len[s])
<1>0. /\ s \in 0 .. 1
      /\ ppc = "publish"
      /\ ppc' = "signal"
      /\ chunk_seq' = chunk_seq + 1
      /\ chunks' = Append(chunks, c)
      /\ UNCHANGED <<callVars, samples, len, threadVars, seq_processed, do_exit>>
  <2>1. s \in 0 .. 1
    BY Parity
  <2> QED
    BY <2>1 DEF Publish, Ring!Publish, Ring!demodVars
<1>1. /\ lib = "rtl" \/ dropped = STARTUP_DROP_SAMPLES
      /\ len[s] > 0
      /\ arrived - left = LastPublished + len[s]
      /\ Filled(len[s])
      /\ len[s] \in Nat /\ len[s] <= MAXIMUM_IQ_LENGTH
      /\ samples[s] \in [Positions -> Nat]
  <2>1. /\ lib = "rtl" \/ dropped = STARTUP_DROP_SAMPLES
        /\ len[s] \in Nat /\ len[s] <= MAXIMUM_IQ_LENGTH
        /\ samples[s] \in [Positions -> Nat]
    BY <1>0, StreamingAssumption
       DEF StreamingParameters, Control, Good, Counts, Data, Progress
  <2> QED
    BY <1>0, <2>1 DEF Good, Progress
<1>2. /\ c \in Seq(Nat)
      /\ Len(c) = len[s]
      /\ \A i \in 1 .. Len(c) : c[i] = LastPublished + i
  <2>1. ASSUME NEW i \in 1 .. len[s] PROVE samples[s][i] \in Nat
    <3>1. MAXIMUM_IQ_LENGTH \in Nat
      BY StreamingAssumption DEF StreamingParameters
    <3>2. i \in Positions
      BY <1>1, <3>1 DEF Positions
    <3> QED
      BY <1>1, <3>2
  <2>2. /\ c \in Seq(Nat)
        /\ Len(c) = len[s]
        /\ \A i \in 1 .. len[s] : c[i] = samples[s][i]
    BY <1>1, <2>1, SubSeqProperties
  <2> QED
    BY <1>1, <2>2 DEF Filled
<1>3. c # <<>>
  <2>1. Len(c) # 0
    BY <1>1, <1>2
  <2> HIDE DEF c
  <2> QED
    BY <2>1, EmptySeq
<1>4. ChunksContiguous' /\ LastPublished' = LastPublished + len[s]
  <2>1. chunks \in Seq(Seq(Nat)) /\ ChunksContiguous /\ lib' = lib
    BY <1>0 DEF Good, Data, threadVars
  <2> QED
    BY <1>0, <1>2, <1>3, <2>1, Appending
<1>5. Counts' /\ Data'
  BY <1>0, <1>2 DEF Good, Counts, Data, callVars
<1>6. Progress'
  BY <1>0, <1>1, <1>4 DEF Progress, Good, callVars, threadVars, Acquiring
<1>7. Held'
  <2> SUFFICES ASSUME NEW d \in Channels, NEW k \in Nat,
                      seq_processed[d] <= k, k < chunk_seq + 1
               PROVE  SubSeq(samples[Ring!Slot(k)], 1, len[Ring!Slot(k)])
                        = chunks'[k + 1]
    BY <1>0 DEF Held, Ring!Slot
  <2>1. Len(chunks) = chunk_seq /\ chunks \in Seq(Seq(Nat))
    BY DEF Good, Data
  <2>2. CASE k < chunk_seq
    <3>1. chunks'[k + 1] = chunks[k + 1]
      BY <1>0, <1>2, <2>1, <2>2
    <3> QED
      BY <2>2, <3>1 DEF Good, Held
  <2>3. CASE k = chunk_seq
    <3>1. chunks'[k + 1] = c
      BY <1>0, <1>2, <2>1, <2>3
    <3> QED
      BY <2>3, <3>1
  <2> QED
    BY <2>2, <2>3
<1> QED
  BY <1>4, <1>5, <1>6, <1>7 DEF Good
LEMMA GoodStep == IInv /\ Control' /\ RP!IInv' /\ [Next]_vars => Good'
<1> SUFFICES ASSUME IInv, Control', RP!IInv', [Next]_vars PROVE Good'
  OBVIOUS
<1>0. /\ Control /\ Good /\ RP!Lookahead
      /\ chunk_seq \in Nat
      /\ seq_processed \in [Channels -> Nat]
      /\ seq_processed' \in [Channels -> Nat]
      /\ Counts
  <2>1. RP!TypeOK /\ RP!TypeOK' /\ RP!Lookahead
    BY DEF IInv, RP!IInv
  <2> QED
    BY <2>1 DEF IInv, Good, RP!TypeOK
\* What Frame asks of a step that moves no sample.
<1> DEFINE Still ==
             /\ \A d \in Channels : seq_processed[d] <= seq_processed'[d]
             /\ UNCHANGED <<callVars, dataVars, chunk_seq, lib>>
             /\ do_exit => do_exit'
             /\ \/ ppc' \in {ppc, "done"}
                \/ ppc' = "top" /\ do_exit'
                \/ ppc \in {"top"} \cup Acquiring /\ ppc' \in Acquiring
<1>1. Still => Good'
  BY <1>0, Frame
<1>2. ASSUME UNCHANGED <<chunk_seq, seq_processed, callVars, dataVars, lib>>,
             do_exit => do_exit',
             \/ ppc' \in {ppc, "done"}
             \/ ppc' = "top" /\ do_exit'
             \/ ppc \in {"top"} \cup Acquiring /\ ppc' \in Acquiring
      PROVE  Good'
  <2>1. \A d \in Channels : seq_processed[d] <= seq_processed'[d]
    BY <1>0, <1>2
  <2> QED
    BY <1>1, <1>2, <2>1
<1> HIDE DEF Still
<1>3. CASE StreamStarts \/ Unpark \/ StartThreads \/ BeginTeardown \/ JoinDevice
           \/ JoinDemods \/ Ended \/ UNCHANGED vars
  BY <1>2, <1>3 DEF StreamStarts, Unpark, StartThreads, BeginTeardown, JoinDevice,
     JoinDemods, Ended, vars, ringVars, threadVars
<1>4. CASE StartFails \/ ReadReturns \/ StreamStopped \/ CloseRecording \/ Signal
           \/ RequestExit
  BY <1>0, <1>2, <1>4 DEF StartFails, ReadReturns, StreamStopped, CloseRecording, Signal,
     RequestExit, threadVars, Control
<1>5. ASSUME NEW d \in Channels, WakeDemod(d) PROVE Good'
  BY <1>2, <1>5 DEF WakeDemod, threadVars
<1>6. CASE AwaitSlot
  BY <1>0, <1>2, <1>6 DEF AwaitSlot, Ring!AwaitCheck, Ring!AwaitSleep, Ring!demodVars,
     threadVars, Acquiring, Control
<1>7. CASE AbandonFill
  BY <1>2, <1>7 DEF AbandonFill, Ring!AbandonFill, Ring!demodVars, threadVars
<1>8. ASSUME NEW d \in Channels, DemodStep(d) \/ SpuriousWakeup PROVE Good'
  <2>1. /\ Ring!DemodLoop(d) \/ Ring!AudioReturn(d) \/ Ring!SpuriousWakeup
        /\ UNCHANGED <<callVars, dataVars, threadVars>>
    BY <1>8 DEF DemodStep, SpuriousWakeup
  <2>2. /\ UNCHANGED chunk_seq
        /\ ppc' = ppc \/ (ppc = "wait" /\ ppc' = "await")
        /\ do_exit' = do_exit \/ do_exit' = TRUE
        /\ seq_processed' = seq_processed
           \/ seq_processed' = [seq_processed EXCEPT ![d] = @ + 1]
    BY <2>1, DemodFrame
  <2>3. \A e \in Channels : seq_processed[e] <= seq_processed'[e]
    BY <1>0, <2>2
  <2> QED
    BY <1>1, <2>1, <2>2, <2>3 DEF Still, Acquiring, threadVars
<1>9. ASSUME NEW n \in CallSizes, RtlCallback(n) \/ RspCallback(n) PROVE Good'
  BY <1>0, <1>9, CallbackStep
<1>10. CASE RtlCopy \/ RspCopy
  BY <1>0, <1>10, CopyStep
<1>11. CASE Publish
  BY <1>0, <1>11, PublishStep
\* The steps that change left or buf_pending and touch no data.
<1>12. ASSUME UNCHANGED <<chunk_seq, seq_processed, arrived, dropped, dataVars, lib>>,
              left' \in 0 .. left, buf_pending' \in {0, buf_pending}, Progress'
       PROVE  Good'
  <2>1. Counts'
    <3>1. /\ arrived' = arrived /\ dropped' = dropped
          /\ \A x \in 0 .. left : x \in Nat /\ x <= left
          /\ left' \in 0 .. left
          /\ buf_pending' = 0 \/ buf_pending' = buf_pending
          /\ MaxSamples \in Nat /\ MAXIMUM_IQ_LENGTH \in Nat
      BY <1>12, StreamingAssumption DEF StreamingParameters, Ring!RingParameters, Counts
    <3> QED
      BY <1>0, <3>1 DEF Counts
  <2>2. Data' /\ ChunksContiguous' /\ Held'
    BY <1>0, <1>12 DEF Good, Data, ChunksContiguous, Held, Start, dataVars, Ring!Slot
  <2> QED
    BY <1>12, <2>1, <2>2 DEF Good
<1>13. ASSUME UNCHANGED <<chunk_seq, chunks, samples, lib>>
       PROVE  LastPublished' = LastPublished /\ \A m : Filled(m)' = Filled(m)
  BY <1>13 DEF LastPublished, Start, Filled
<1>14. CASE BeginChunk
  <2>1. CASE do_exit
    <3>1. /\ UNCHANGED <<ringVars, arrived, dropped, buf_pending, dataVars, threadVars>>
          /\ left' = 0 /\ left > 0 /\ ppc = "top"
      BY <1>14, <2>1 DEF BeginChunk
    <3>2. Progress'
      BY <1>0, <2>1, <3>1, StreamingAssumption
         DEF Good, Counts, Progress, ringVars, dataVars, threadVars, Acquiring,
             StreamingParameters
    <3> QED
      BY <1>0, <1>12, <3>1, <3>2 DEF ringVars, dataVars, threadVars, Counts
  <2>2. CASE ~do_exit
    BY <1>2, <1>14, <2>2 DEF BeginChunk, Ring!NextChunk, Ring!demodVars, callVars,
       threadVars, Acquiring
  <2> QED
    BY <2>1, <2>2
<1>15. CASE ClaimSlot
  <2>1. /\ UNCHANGED <<arrived, dropped, buf_pending, dataVars, threadVars, do_exit,
                       chunk_seq, seq_processed>>
        /\ left' = IF do_exit THEN 0 ELSE left
        /\ ppc = "claim" /\ ppc' = IF do_exit THEN "top" ELSE "fill"
    BY <1>15 DEF ClaimSlot, Ring!ClaimSlot, Ring!demodVars
  <2>2. Progress'
    <3>1. /\ lib' = lib /\ chunks' = chunks /\ dropped' = dropped
          /\ LastPublished' = LastPublished
          /\ lib = "rtl" \/ dropped = STARTUP_DROP_SAMPLES
          /\ Filled(0)'
          /\ CHUNK_SAMPLES \in Nat \ {0}
      BY <1>0, <1>13, <2>1, StreamingAssumption
         DEF Good, Counts, Progress, Control, dataVars, threadVars, Filled,
             StreamingParameters
    <3>2. CASE do_exit
      BY <1>0, <2>1, <3>1, <3>2, StreamingAssumption
         DEF Good, Counts, Progress, Control, StreamingParameters
    <3>3. CASE ~do_exit
      <4>1. /\ arrived - left = LastPublished /\ buf_pending = 0
        BY <1>0, <2>1, <3>1, <3>3 DEF Good, Progress, Acquiring
      <4>2. Filled(buf_pending)'
        BY <2>1, <3>1, <4>1 DEF Filled
      <4> QED
        BY <1>0, <2>1, <3>1, <3>3, <4>1, <4>2, StreamingAssumption
           DEF Good, Counts, Progress, Control, StreamingParameters, Acquiring
    <3> QED
      BY <3>2, <3>3
  <2> QED
    BY <1>0, <1>12, <2>1, <2>2 DEF threadVars, Counts
<1>16. CASE Deliver
  <2>1. /\ UNCHANGED <<left, arrived, dropped, dataVars, threadVars, do_exit, chunk_seq,
                       seq_processed>>
        /\ ppc = "deliver" /\ ppc' = IF do_exit THEN "top" ELSE "publish"
        /\ buf_pending' = IF ppc' = "top" THEN 0 ELSE buf_pending
    BY <1>16 DEF Deliver, Ring!Deliver, Reset, Ring!demodVars
  <2>2. /\ UNCHANGED <<chunks, samples, len, lib>>
        /\ LastPublished' = LastPublished /\ \A m : Filled(m)' = Filled(m)
        /\ Ring!Slot(chunk_seq)' = Ring!Slot(chunk_seq)
    BY <1>13, <2>1 DEF dataVars, threadVars, Ring!Slot
  <2>3. Filled(len[Ring!Slot(chunk_seq)])' <=> Filled(len[Ring!Slot(chunk_seq)])
    BY <2>1, <2>2 DEF Filled
  <2>4. Progress'
    BY <1>0, <2>1, <2>2, <2>3, StreamingAssumption
       DEF Good, Counts, Progress, Acquiring, StreamingParameters
  <2> QED
    BY <1>0, <1>12, <2>1, <2>2, <2>4 DEF Counts
<1>17. ASSUME NEW d \in Channels, SignalDemod(d) PROVE Good'
  <2>1. /\ UNCHANGED <<left, arrived, dropped, dataVars, threadVars, do_exit, chunk_seq,
                       seq_processed>>
        /\ ppc = "signal" /\ ppc' \in {"top", "signal"}
        /\ buf_pending' = IF ppc' = "top" THEN 0 ELSE buf_pending
    BY <1>17 DEF SignalDemod, Ring!SignalDemod, Reset
  <2>2. /\ UNCHANGED <<chunks, samples, len, lib>>
        /\ LastPublished' = LastPublished
    BY <1>13, <2>1 DEF dataVars, threadVars
  <2>3. Progress'
    BY <1>0, <2>1, <2>2, StreamingAssumption
       DEF Good, Counts, Progress, Acquiring, StreamingParameters
  <2> QED
    BY <1>0, <1>12, <2>1, <2>2, <2>3 DEF Counts
<1>18. \E d \in Channels : TRUE
  BY StreamingAssumption DEF StreamingParameters, Ring!RingParameters
<1> QED
  BY <1>3, <1>4, <1>5, <1>6, <1>7, <1>8, <1>9, <1>10, <1>11, <1>14, <1>15, <1>16,
     <1>17, <1>18 DEF Next, Callback, Main

LEMMA InitIInv == Init => IInv
<1> SUFFICES ASSUME Init PROVE IInv
  OBVIOUS
<1>0. STARTUP_DROP_SAMPLES \in Nat /\ MAXIMUM_IQ_LENGTH \in Nat /\ MaxSamples \in Nat
      /\ CHUNK_SAMPLES \in Nat
      /\ Sources \subseteq {"hardware", "recorded"} /\ Libraries \subseteq {"rtl", "rsp"}
  BY StreamingAssumption DEF StreamingParameters, Ring!RingParameters
<1>1. RP!IInv
  BY SameRing, Parameters, RP!InitIInv DEF Init
<1>2. Control
  BY <1>0 DEF Init, Ring!Init, Control, Ring!FileInput, Phases, Acquiring
<1>3. Counts
  BY <1>0 DEF Init, Counts
<1>4. Data
  <2>1. chunks = <<>> /\ chunk_seq = 0
    BY DEF Init, Ring!Init
  <2> QED
    BY <1>0, <2>1, EmptySeq DEF Init, Data
<1>5. ChunksContiguous
  BY EmptySeq DEF Init, ChunksContiguous
<1>6. Progress
  BY <1>0, <1>2 DEF Init, Ring!Init, Progress, LastPublished, Start, Acquiring, Control,
     Ring!FileInput
<1>7. Held
  BY DEF Init, Ring!Init, Held
<1> QED
  BY <1>1, <1>2, <1>3, <1>4, <1>5, <1>6, <1>7 DEF IInv

LEMMA IInvStep == IInv /\ [Next]_vars => IInv'
<1> SUFFICES ASSUME IInv, [Next]_vars PROVE IInv'
  OBVIOUS
<1>1. Control'
  BY ControlStep DEF IInv
<1>2. RP!IInv'
  <2>1. [Ring!Next]_(Ring!ringVars)
    BY RingStep DEF IInv
  <2> QED
    BY <2>1, SameRing, Parameters, RP!IInvStep DEF IInv
<1>3. Good'
  BY <1>1, <1>2, GoodStep
<1> QED
  BY <1>1, <1>2, <1>3 DEF IInv, Good

-----------------------------------------------------------------------------
\* Whichever library streams, the ring sees a producer that keeps its rules.
THEOREM StreamingImplementsRing == Spec => RingSpec
<1>1. Init => Ring!Init
  BY DEF Init
<1>2. IInv /\ [Next]_vars => [Ring!Next]_(Ring!ringVars)
  BY RingStep DEF IInv
<1> QED
  BY InitIInv, IInvStep, <1>1, <1>2, PTL DEF Spec, RingSpec, Ring!Spec

\* Type correctness: in particular no call ever overruns a slot.
THEOREM TypeCorrect == Spec => []TypeOK
<1>1. IInv => TypeOK
  <2> SUFFICES ASSUME IInv PROVE TypeOK
    OBVIOUS
  <2>1. Ring!TypeOK
    BY DEF IInv, RP!IInv, RP!TypeOK, Ring!TypeOK, RP!PStates, Ring!PStates,
       RP!DStates, Ring!DStates
  <2>2. left \in 0 .. MaxSamples /\ arrived \in 0 .. MaxSamples
    BY StreamingAssumption DEF IInv, Counts, StreamingParameters, Ring!RingParameters
  <2>3. lib \in Libraries
    BY DEF IInv, Control
  <2> QED
    BY <2>1, <2>2, <2>3 DEF IInv, Control, Counts, Data, TypeOK
<1> QED
  BY InitIInv, IInvStep, <1>1, PTL DEF Spec

\* The chunks are the library's stream, without a gap.
THEOREM StreamIsContiguous == Spec => []ChunksContiguous
<1>1. IInv => ChunksContiguous
  BY DEF IInv
<1> QED
  BY InitIInv, IInvStep, <1>1, PTL DEF Spec

\* A callback that has returned holds back less than a chunk.
THEOREM HeldBackIsLittle == Spec => []LittleHeldBack
<1>1. IInv => LittleHeldBack
  <2> SUFFICES ASSUME IInv, ~InCallback, ~do_exit, arrived > Start
               PROVE  arrived - LastPublished < CHUNK_SAMPLES
    BY DEF LittleHeldBack
  <2>1. /\ left = 0 /\ ppc \in {"top", "fill"}
        /\ arrived \in Nat /\ dropped \in Nat /\ dropped <= STARTUP_DROP_SAMPLES
    BY DEF IInv, InCallback, Counts, Control
  <2>2. /\ CHUNK_SAMPLES \in Nat \ {0} /\ STARTUP_DROP_SAMPLES \in Nat
        /\ LastPublished \in Nat /\ buf_pending \in Nat
    BY StreamingAssumption, LastPublishedNat
       DEF StreamingParameters, IInv, Counts, Data
  <2>3. lib = "rtl" \/ dropped = STARTUP_DROP_SAMPLES
    BY <2>1, <2>2 DEF IInv, Progress, Control, Start
  <2> QED
    BY <2>1, <2>2, <2>3 DEF IInv, Progress
<1> QED
  BY InitIInv, IInvStep, <1>1, PTL DEF Spec

\* A demod reads the samples of its own chunk, whoever fills the other slot.
THEOREM SamplesAreIntact == Spec => []SamplesIntact
<1>1. IInv => SamplesIntact
  <2> SUFFICES ASSUME IInv, NEW d \in Channels, dpc[d] = "read"
               PROVE  LET s == Ring!Slot(seq_processed[d])
                      IN SubSeq(samples[s], 1, len[s]) = chunks[seq_processed[d] + 1]
    BY DEF SamplesIntact
  <2>1. seq_processed[d] \in Nat /\ seq_processed[d] < chunk_seq
    BY DEF IInv, RP!IInv, RP!TypeOK, RP!Lookahead
  <2> QED
    BY <2>1 DEF IInv, Held
<1> QED
  BY InitIInv, IInvStep, <1>1, PTL DEF Spec

\* Nothing is closed or joined under a callback.
THEOREM StopIsQuiet == Spec => []QuietAfterStop
<1>1. IInv => QuietAfterStop
  BY DEF IInv, Control, Counts, QuietAfterStop, InCallback
<1> QED
  BY InitIInv, IInvStep, <1>1, PTL DEF Spec

\* What the ring promises it keeps with a library for a producer: a stream of
\* chunks fanned out in order, no signal lost, and a demod that has ended has
\* taken every chunk published but at most one.
THEOREM StreamingKeepsPromises ==
  Spec => RP!StreamSpec /\ []RP!ShutdownLosesOne /\ []RP!NoLostWakeup
<1>1. Spec => RP!Spec
  <2>1. Init => RP!Init
    BY SameRing DEF Init
  <2>2. IInv /\ [Next]_vars => [RP!Next]_(RP!ringVars)
    BY RingStep, SameRing DEF IInv
  <2> QED
    BY InitIInv, IInvStep, <2>1, <2>2, PTL DEF Spec, RP!Spec
<1> QED
  BY <1>1, RP!RingImplementsStream, RP!ShutdownDrains, RP!NoWakeupLost, Parameters
=============================================================================
