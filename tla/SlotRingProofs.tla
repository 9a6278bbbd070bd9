--------------------------- MODULE SlotRingProofs ---------------------------
(***************************************************************************)
(* Safety of the slot ring, for any number of channels and chunks.         *)
(*                                                                         *)
(* The counters alone make the slots safe: a demod's seq_processed only    *)
(* grows, so once the producer has seen every counter reach chunk_seq - 1  *)
(* the chunk about to be overwritten is behind every reader.  IInv says    *)
(* that, and what each slot holds meanwhile.                               *)
(***************************************************************************)
EXTENDS SlotRing, TLAPS

\* The producer is between taking a chunk in and counting it.
Refilling == {"await", "enter_wait", "wait", "claim", "fill", "deliver", "publish"}
Filling   == {"fill", "deliver", "publish"}

\* A chunk taken in from the input has a number below the bound; a refill
\* happens on the way to a chunk, and never after the recording was saved.
Bounded ==
  /\ rec = "saved" => ppc = "done"
  /\ ppc \in Refilling /\ pgoal = "slot" => chunk_seq < MaxChunks
  /\ ppc \in Filling \cup {"claim"} => pgoal = "slot"

\* Every channel is at most two chunks behind, and at most one while a slot
\* is refilled; a refill that was not waited for is given up.
Lookahead ==
  /\ \A d \in Channels :
       /\ seq_processed[d] <= chunk_seq
       /\ chunk_seq <= seq_processed[d] + 2
       /\ dpc[d] = "read" => seq_processed[d] < chunk_seq
  /\ ppc \in Filling => \A d \in Channels : seq_processed[d] >= chunk_seq - 1
  /\ ppc = "claim" =>
       do_exit \/ \A d \in Channels : seq_processed[d] >= chunk_seq - 1

\* What the slots hold: every chunk some channel still has to take, and the
\* next chunk once it is filled in.
Contents ==
  /\ \A d \in Channels : \A k \in Int :
       seq_processed[d] <= k /\ k < chunk_seq => slots[Slot(k)] = k
  /\ ppc \in {"deliver", "publish"} => slots[Slot(chunk_seq)] = chunk_seq

\* Who teardown has signalled, and when.
Joined == woken # {} => do_exit /\ ppc = "done"

IInv == TypeOK /\ Bounded /\ RecordingComplete /\ Lookahead /\ Contents

LEMMA SlotParity ==
  ASSUME NEW j \in Int, NEW k \in Int
  PROVE  /\ Slot(k) \in 0 .. 1
         /\ Slot(k) = Slot(k + 2)
         /\ Slot(k) # Slot(k + 1)
         /\ Slot(k - 1) # Slot(k)
  BY DEF Slot

THEOREM InitIInv == Init => IInv
<1> SUFFICES ASSUME Init PROVE IInv
  OBVIOUS
<1>1. TypeOK
  <2>1. slots \in [0 .. 1 -> Int]
    BY DEF Init, Empty
  <2>2. heard \in [Channels -> Seq(Int)]
    BY DEF Init
  <2>3. ppc \in PStates /\ rec \in {"off", "on", "closed", "saved"}
    BY DEF Init, PStates
  <2>4. /\ chunk_seq \in 0 .. MaxChunks
        /\ taped \in 0 .. MaxChunks
        /\ seq_processed \in [Channels -> 0 .. MaxChunks]
    BY RingAssumption DEF RingParameters, Init
  <2> QED
    BY <2>1, <2>2, <2>3, <2>4 DEF Init, TypeOK, DStates
<1>2. Bounded /\ RecordingComplete
  BY DEF Init, Bounded, RecordingComplete, Refilling, Filling
<1>3. Lookahead /\ Contents
  BY DEF Init, Lookahead, Contents, Filling
<1> QED
  BY <1>1, <1>2, <1>3 DEF IInv

LEMMA BookkeepingStep ==
  IInv /\ [Next]_ringVars => TypeOK' /\ Bounded' /\ RecordingComplete'
<1> DEFINE Good == TypeOK /\ Bounded /\ RecordingComplete
<1> SUFFICES ASSUME Good, Lookahead, [Next]_ringVars PROVE Good'
  BY DEF IInv
<1> USE RingAssumption DEF RingParameters, TypeOK, Bounded, RecordingComplete,
        PStates, DStates, Refilling, Filling, prodVars, demodVars, mainVars
<1>1. CASE OpenInput
  BY <1>1 DEF OpenInput
<1>2. CASE NextChunk
  BY <1>2 DEF NextChunk
<1>3. CASE EndOfInput
  BY <1>3 DEF EndOfInput
<1>4. CASE StreamEnds
  BY <1>4 DEF StreamEnds
<1>5. CASE AbandonFill
  BY <1>5 DEF AbandonFill
<1>6. CASE AwaitCheck
  BY <1>6 DEF AwaitCheck
<1>7. CASE AwaitSleep
  BY <1>7 DEF AwaitSleep
<1>8. CASE ClaimSlot
  BY <1>8 DEF ClaimSlot, Torn, Slot
<1>9. CASE FillSlot
  BY <1>9 DEF FillSlot, Slot
<1>10. CASE Deliver
  <2>1. taped <= chunk_seq \/ rec # "on"
    BY <1>10 DEF Deliver, RecordChunk
  <2>2. taped' \in 0 .. MaxChunks
    BY <1>10, <2>1 DEF Deliver, RecordChunk
  <2>3. rec' \in {"off", "on", "closed", "saved"}
    BY <1>10 DEF Deliver, RecordChunk
  <2>4. RecordingComplete'
    <3>1. CASE do_exit
      BY <1>10, <3>1 DEF Deliver, RecordChunk
    <3>2. CASE ~do_exit
      BY <1>10, <3>2 DEF Deliver, RecordChunk
    <3> QED
      BY <3>1, <3>2
  <2>5. UNCHANGED <<source, do_exit, chunk_seq, slots, pgoal, tosignal, demodVars, woken>>
        /\ ppc' \in {"top", "publish"} /\ ppc = "deliver" /\ rec' # "saved"
    BY <1>10 DEF Deliver, RecordChunk
  <2> QED
    BY <2>2, <2>3, <2>4, <2>5
<1>11. CASE Publish
  BY <1>11 DEF Publish
<1>12. CASE InputExhausted
  BY <1>12 DEF InputExhausted
<1>13. CASE SaveRecording
  BY <1>13 DEF SaveRecording
<1>14. CASE RequestExit
  BY <1>14 DEF RequestExit
<1>15. CASE SpuriousWakeup
  BY <1>15 DEF SpuriousWakeup
<1>16. CASE Finished
  BY <1>16 DEF Finished, ringVars
<1>17. ASSUME NEW d \in Channels, SignalDemod(d) PROVE Good'
  BY <1>17 DEF SignalDemod
<1>18. ASSUME NEW d \in Channels, DemodCheck(d) PROVE Good'
  BY <1>18 DEF DemodCheck
<1>19. ASSUME NEW d \in Channels, DemodSleep(d) PROVE Good'
  BY <1>19 DEF DemodSleep
<1>20. ASSUME NEW d \in Channels, Consume(d) PROVE Good'
  <2>1. seq_processed[d] < chunk_seq
    BY <1>20 DEF Lookahead, Consume
  <2>2. PICK s \in {"ok", "fail", "skip"} :
          /\ status' = [status EXCEPT ![d] = s]
          /\ heard' = IF s = "ok"
                      THEN [heard EXCEPT ![d] =
                              Append(@, slots[Slot(seq_processed[d])])]
                      ELSE heard
    BY <1>20 DEF Consume, Outcomes
  <2>3. slots[Slot(seq_processed[d])] \in Int
    <3>1. seq_processed[d] \in Int /\ slots \in [0 .. 1 -> Int]
      OBVIOUS
    <3> HIDE DEF TypeOK, Bounded, RecordingComplete, Good
    <3> QED
      BY <3>1, SlotParity
  <2>4. heard' \in [Channels -> Seq(Int)]
    BY <2>2, <2>3
  <2> QED
    BY <1>20, <2>1, <2>2, <2>4 DEF Consume
<1>21. ASSUME NEW d \in Channels, Announce(d) PROVE Good'
  BY <1>21 DEF Announce
<1>22. ASSUME NEW d \in Channels, DemodFail(d) PROVE Good'
  BY <1>22 DEF DemodFail
<1>23. ASSUME NEW d \in Channels, AudioReturn(d) PROVE Good'
  BY <1>23 DEF AudioReturn
<1>24. ASSUME NEW d \in Channels, WakeDemod(d) PROVE Good'
  BY <1>24 DEF WakeDemod
<1>25. CASE UNCHANGED ringVars
  BY <1>25 DEF ringVars
<1> QED
  BY <1>1, <1>2, <1>3, <1>4, <1>5, <1>6, <1>7, <1>8, <1>9, <1>10, <1>11, <1>12, <1>13,
     <1>14, <1>15, <1>16, <1>17, <1>18, <1>19, <1>20, <1>21, <1>22, <1>23, <1>24, <1>25
     DEF Next, Producer, DemodLoop, Teardown

LEMMA SlotsStep == IInv /\ [Next]_ringVars => Lookahead' /\ Contents'
<1> DEFINE Good == Lookahead /\ Contents
<1> SUFFICES ASSUME IInv, [Next]_ringVars PROVE Good'
  OBVIOUS
<1>0. /\ chunk_seq \in Nat
      /\ seq_processed \in [Channels -> Nat]
      /\ dpc \in [Channels -> DStates]
      /\ status \in [Channels -> {"ok", "skip", "fail"}]
      /\ slots \in [0 .. 1 -> Int]
      /\ do_exit \in BOOLEAN
      /\ Lookahead /\ Contents /\ Bounded
  BY DEF IInv, TypeOK
<1> USE <1>0 DEF Lookahead, Contents, Filling, prodVars, demodVars, mainVars
<1> HIDE DEF IInv
<1>1. CASE OpenInput
  BY <1>1 DEF OpenInput
<1>2. CASE NextChunk
  BY <1>2 DEF NextChunk
<1>3. CASE EndOfInput
  BY <1>3 DEF EndOfInput
<1>4. CASE StreamEnds
  BY <1>4 DEF StreamEnds
<1>5. CASE AbandonFill
  BY <1>5 DEF AbandonFill
<1>6. CASE AwaitCheck
  BY <1>6 DEF AwaitCheck, Drained, Bounded, Refilling
<1>7. CASE AwaitSleep
  BY <1>7 DEF AwaitSleep
<1>8. CASE ClaimSlot
  <2>1. CASE do_exit
    BY <1>8, <2>1 DEF ClaimSlot
  <2>2. CASE ~do_exit
    <3>1. ASSUME NEW d \in Channels, NEW k \in Int,
                 seq_processed[d] <= k, k < chunk_seq
          PROVE  slots'[Slot(k)] = k
      <4>1. k = chunk_seq - 1
        BY <1>8, <2>2, <3>1 DEF ClaimSlot
      <4>2. Slot(k) \in 0 .. 1 /\ Slot(k) # Slot(chunk_seq)
        BY <4>1, SlotParity
      <4> QED
        BY <1>8, <2>2, <3>1, <4>2 DEF ClaimSlot
    <3>2. /\ ppc' = "fill" /\ chunk_seq' = chunk_seq
          /\ UNCHANGED <<seq_processed, dpc>>
      BY <1>8, <2>2 DEF ClaimSlot
    <3>3. Lookahead'
      BY <1>8, <2>2, <3>2 DEF ClaimSlot
    <3> QED
      BY <3>1, <3>2, <3>3
  <2> QED
    BY <2>1, <2>2
<1>9. CASE FillSlot
  <2>1. ASSUME NEW d \in Channels, NEW k \in Int,
               seq_processed[d] <= k, k < chunk_seq
        PROVE  slots'[Slot(k)] = k
    <3>1. k = chunk_seq - 1
      BY <1>9, <2>1 DEF FillSlot
    <3>2. Slot(k) \in 0 .. 1 /\ Slot(k) # Slot(chunk_seq)
      BY <3>1, SlotParity
    <3> QED
      BY <1>9, <2>1, <3>2 DEF FillSlot
  <2>2. slots'[Slot(chunk_seq)] = chunk_seq
    BY <1>9, SlotParity DEF FillSlot
  <2>3. /\ ppc' = "deliver" /\ chunk_seq' = chunk_seq
        /\ UNCHANGED <<seq_processed, dpc>>
    BY <1>9 DEF FillSlot
  <2>4. Lookahead'
    BY <1>9, <2>3 DEF FillSlot
  <2> QED
    BY <2>1, <2>2, <2>3, <2>4
<1>10. CASE Deliver
  BY <1>10 DEF Deliver, RecordChunk
<1>11. CASE Publish
  <2>1. Lookahead'
    BY <1>11 DEF Publish
  <2>2. Contents'
    BY <1>11 DEF Publish
  <2> QED
    BY <2>1, <2>2
<1>12. CASE InputExhausted
  BY <1>12 DEF InputExhausted
<1>13. CASE SaveRecording
  BY <1>13 DEF SaveRecording
<1>14. CASE RequestExit
  BY <1>14 DEF RequestExit
<1>15. CASE SpuriousWakeup
  BY <1>15 DEF SpuriousWakeup
<1>16. CASE Finished
  BY <1>16 DEF Finished, ringVars
<1>17. ASSUME NEW d \in Channels, SignalDemod(d) PROVE Good'
  BY <1>17 DEF SignalDemod
<1>18. ASSUME NEW d \in Channels, DemodCheck(d) PROVE Good'
  BY <1>18 DEF DemodCheck
<1>19. ASSUME NEW d \in Channels, DemodSleep(d) PROVE Good'
  BY <1>19 DEF DemodSleep
<1>20. ASSUME NEW d \in Channels, Consume(d) PROVE Good'
  <2>1. /\ seq_processed[d] < chunk_seq
        /\ seq_processed' = [seq_processed EXCEPT ![d] = @ + 1]
        /\ dpc' = [dpc EXCEPT ![d] = "announce"]
        /\ UNCHANGED <<do_exit, prodVars>>
    BY <1>20 DEF Consume
  <2>2. Lookahead'
    BY <2>1
  <2>3. Contents'
    BY <2>1
  <2> QED
    BY <2>2, <2>3
<1>21. ASSUME NEW d \in Channels, Announce(d) PROVE Good'
  <2>1. /\ UNCHANGED <<do_exit, chunk_seq, slots, seq_processed>>
        /\ ppc' # ppc => ppc' = "await"
    BY <1>21 DEF Announce
  <2>2. \A e \in Channels : dpc'[e] = "read" => dpc[e] = "read"
    BY <1>21 DEF Announce
  <2> QED
    BY <2>1, <2>2
<1>22. ASSUME NEW d \in Channels, DemodFail(d) PROVE Good'
  BY <1>22 DEF DemodFail
<1>23. ASSUME NEW d \in Channels, AudioReturn(d) PROVE Good'
  BY <1>23 DEF AudioReturn
<1>24. ASSUME NEW d \in Channels, WakeDemod(d) PROVE Good'
  BY <1>24 DEF WakeDemod
<1>25. CASE UNCHANGED ringVars
  BY <1>25 DEF ringVars
<1> QED
  BY <1>1, <1>2, <1>3, <1>4, <1>5, <1>6, <1>7, <1>8, <1>9, <1>10, <1>11, <1>12, <1>13,
     <1>14, <1>15, <1>16, <1>17, <1>18, <1>19, <1>20, <1>21, <1>22, <1>23, <1>24, <1>25
     DEF Next, Producer, DemodLoop, Teardown

LEMMA IInvStep == IInv /\ [Next]_ringVars => IInv'
  BY BookkeepingStep, SlotsStep DEF IInv

\* A demod ends only under do_exit and with nothing left to take; from then on
\* deliver_buf lets no chunk through that is not already past its test, and a
\* producer that sleeps, which it began before, is not waiting for that demod.
Drains ==
  \A d \in Channels :
    dpc[d] = "done" =>
      /\ do_exit
      /\ chunk_seq + (IF ppc = "publish" THEN 1 ELSE 0) <= seq_processed[d] + 1
      /\ ppc \in {"enter_wait", "wait"} => seq_processed[d] = chunk_seq

LEMMA DrainsStep == IInv /\ Drains /\ [Next]_ringVars => Drains'
<1> SUFFICES ASSUME IInv, Drains, [Next]_ringVars PROVE Drains'
  OBVIOUS
<1>0. /\ chunk_seq \in Nat
      /\ seq_processed \in [Channels -> Nat]
      /\ dpc \in [Channels -> DStates]
      /\ status \in [Channels -> {"ok", "skip", "fail"}]
      /\ \A d \in Channels : seq_processed[d] <= chunk_seq
  BY DEF IInv, TypeOK, Lookahead
<1> USE <1>0 DEF Drains, prodVars, demodVars, mainVars
<1> HIDE DEF IInv
<1>1. CASE OpenInput
  BY <1>1 DEF OpenInput
<1>2. CASE NextChunk
  BY <1>2 DEF NextChunk
<1>3. CASE EndOfInput
  BY <1>3 DEF EndOfInput
<1>4. CASE StreamEnds
  BY <1>4 DEF StreamEnds
<1>5. CASE AbandonFill
  BY <1>5 DEF AbandonFill
<1>6. CASE AwaitCheck
  BY <1>6 DEF AwaitCheck
<1>7. CASE AwaitSleep
  BY <1>7 DEF AwaitSleep
<1>8. CASE ClaimSlot
  BY <1>8 DEF ClaimSlot
<1>9. CASE FillSlot
  BY <1>9 DEF FillSlot
<1>10. CASE Deliver
  BY <1>10 DEF Deliver, RecordChunk
<1>11. CASE Publish
  BY <1>11 DEF Publish
<1>12. CASE InputExhausted
  BY <1>12 DEF InputExhausted
<1>13. CASE SaveRecording
  BY <1>13 DEF SaveRecording
<1>14. CASE RequestExit
  BY <1>14 DEF RequestExit
<1>15. CASE SpuriousWakeup
  BY <1>15 DEF SpuriousWakeup
<1>16. CASE Finished
  BY <1>16 DEF Finished, ringVars
<1>17. ASSUME NEW d \in Channels, SignalDemod(d) PROVE Drains'
  BY <1>17 DEF SignalDemod
<1>18. ASSUME NEW d \in Channels, DemodCheck(d) PROVE Drains'
  BY <1>18 DEF DemodCheck
<1>19. ASSUME NEW d \in Channels, DemodSleep(d) PROVE Drains'
  BY <1>19 DEF DemodSleep
<1>20. ASSUME NEW d \in Channels, Consume(d) PROVE Drains'
  BY <1>20 DEF Consume
<1>21. ASSUME NEW d \in Channels, Announce(d) PROVE Drains'
  BY <1>21 DEF Announce
<1>22. ASSUME NEW d \in Channels, DemodFail(d) PROVE Drains'
  BY <1>22 DEF DemodFail
<1>23. ASSUME NEW d \in Channels, AudioReturn(d) PROVE Drains'
  BY <1>23 DEF AudioReturn
<1>24. ASSUME NEW d \in Channels, WakeDemod(d) PROVE Drains'
  BY <1>24 DEF WakeDemod
<1>25. CASE UNCHANGED ringVars
  BY <1>25 DEF ringVars
<1> QED
  BY <1>1, <1>2, <1>3, <1>4, <1>5, <1>6, <1>7, <1>8, <1>9, <1>10, <1>11, <1>12, <1>13,
     <1>14, <1>15, <1>16, <1>17, <1>18, <1>19, <1>20, <1>21, <1>22, <1>23, <1>24, <1>25
     DEF Next, Producer, DemodLoop, Teardown

\* Wakeup safety needs one more fact: teardown signals the demods only
\* after the producer has ended.
WakeInv ==
  /\ NoLostWakeup
  /\ woken # {} => do_exit /\ ppc = "done"
  /\ ppc = "signal" \/ tosignal = {}

LEMMA WakeInvStep == IInv /\ WakeInv /\ [Next]_ringVars => WakeInv'
<1> SUFFICES ASSUME IInv, WakeInv, [Next]_ringVars PROVE WakeInv'
  OBVIOUS
<1>0. /\ chunk_seq \in Nat
      /\ seq_processed \in [Channels -> Nat]
      /\ dpc \in [Channels -> DStates]
      /\ status \in [Channels -> {"ok", "skip", "fail"}]
      /\ woken \subseteq Channels
      /\ tosignal \subseteq Channels
      /\ WakeInv
  BY DEF IInv, TypeOK
<1> USE <1>0 DEF WakeInv, NoLostWakeup, Drained, prodVars, demodVars, mainVars
<1> HIDE DEF IInv
<1>1. CASE OpenInput
  BY <1>1 DEF OpenInput
<1>2. CASE NextChunk
  BY <1>2 DEF NextChunk
<1>3. CASE EndOfInput
  BY <1>3 DEF EndOfInput
<1>4. CASE StreamEnds
  BY <1>4 DEF StreamEnds
<1>5. CASE AbandonFill
  BY <1>5 DEF AbandonFill
<1>6. CASE AwaitCheck
  BY <1>6 DEF AwaitCheck
<1>7. CASE AwaitSleep
  BY <1>7 DEF AwaitSleep
<1>8. CASE ClaimSlot
  BY <1>8 DEF ClaimSlot
<1>9. CASE FillSlot
  BY <1>9 DEF FillSlot
<1>10. CASE Deliver
  BY <1>10 DEF Deliver, RecordChunk
<1>11. CASE Publish
  BY <1>11 DEF Publish
<1>12. CASE InputExhausted
  BY <1>12 DEF InputExhausted
<1>13. CASE SaveRecording
  BY <1>13 DEF SaveRecording
<1>14. CASE RequestExit
  BY <1>14 DEF RequestExit
<1>15. CASE SpuriousWakeup
  BY <1>15 DEF SpuriousWakeup
<1>16. CASE Finished
  BY <1>16 DEF Finished, ringVars
<1>17. ASSUME NEW d \in Channels, SignalDemod(d) PROVE WakeInv'
  BY <1>17 DEF SignalDemod
<1>18. ASSUME NEW d \in Channels, DemodCheck(d) PROVE WakeInv'
  BY <1>18 DEF DemodCheck
<1>19. ASSUME NEW d \in Channels, DemodSleep(d) PROVE WakeInv'
  BY <1>19 DEF DemodSleep
<1>20. ASSUME NEW d \in Channels, Consume(d) PROVE WakeInv'
  BY <1>20 DEF Consume
<1>21. ASSUME NEW d \in Channels, Announce(d) PROVE WakeInv'
  BY <1>21 DEF Announce
<1>22. ASSUME NEW d \in Channels, DemodFail(d) PROVE WakeInv'
  BY <1>22 DEF DemodFail
<1>23. ASSUME NEW d \in Channels, AudioReturn(d) PROVE WakeInv'
  BY <1>23 DEF AudioReturn
<1>24. ASSUME NEW d \in Channels, WakeDemod(d) PROVE WakeInv'
  BY <1>24 DEF WakeDemod
<1>25. CASE UNCHANGED ringVars
  BY <1>25 DEF ringVars
<1> QED
  BY <1>1, <1>2, <1>3, <1>4, <1>5, <1>6, <1>7, <1>8, <1>9, <1>10, <1>11, <1>12, <1>13,
     <1>14, <1>15, <1>16, <1>17, <1>18, <1>19, <1>20, <1>21, <1>22, <1>23, <1>24, <1>25
     DEF Next, Producer, DemodLoop, Teardown

\* A producer that sleeps is held by a demod that does not: one that is behind,
\* or one that has the broadcast still to make.
LEMMA ProducerIsHeld ==
  ASSUME IInv, WakeInv, Drains, ppc = "wait"
  PROVE  \E d \in Channels : dpc[d] \notin {"enter_wait", "wait", "done"}
<1>1. CASE Drained
  BY <1>1 DEF WakeInv, NoLostWakeup
<1>2. CASE ~Drained
  <2>1. PICK d \in Channels : seq_processed[d] < chunk_seq
    BY <1>2 DEF Drained, IInv, TypeOK, Lookahead
  <2>2. dpc[d] \notin {"enter_wait", "wait"}
    BY <2>1 DEF IInv, TypeOK, WakeInv, NoLostWakeup
  <2>3. dpc[d] # "done"
    BY <2>1 DEF IInv, TypeOK, Drains
  <2> QED
    BY <2>2, <2>3
<1> QED
  BY <1>1, <1>2

\* Every step of the ring is a step of the abstract stream or none of it.
LEMMA StreamStep == IInv /\ [Next]_ringVars => [Stream!Next]_(Stream!vars)
<1> SUFFICES ASSUME IInv, [Next]_ringVars PROVE Stream!Next \/ UNCHANGED Stream!vars
  OBVIOUS
<1>0. /\ chunk_seq \in Nat
      /\ seq_processed \in [Channels -> Nat]
      /\ heard \in [Channels -> Seq(Int)]
      /\ Lookahead /\ Contents
  BY DEF IInv, TypeOK
<1>1. CASE Publish
  <2>1. /\ \A d \in Channels : chunk_seq - seq_processed[d] < 2
        /\ chunk_seq' = chunk_seq + 1
        /\ UNCHANGED <<seq_processed, heard>>
    BY <1>0, <1>1 DEF Publish, Lookahead, Filling, demodVars
  <2> QED
    BY <2>1 DEF Stream!Next, Stream!Publish, Stream!Capacity
<1>2. ASSUME NEW d \in Channels, Consume(d) PROVE Stream!Next
  <2>1. /\ seq_processed[d] < chunk_seq
        /\ slots[Slot(seq_processed[d])] = seq_processed[d]
    BY <1>0, <1>2 DEF Consume, Lookahead, Contents
  <2>2. /\ seq_processed' = [seq_processed EXCEPT ![d] = @ + 1]
        /\ UNCHANGED chunk_seq
        /\ heard' = [heard EXCEPT ![d] = Append(@, seq_processed[d])]
           \/ UNCHANGED heard
    BY <1>2, <2>1 DEF Consume, prodVars
  <2> QED
    BY <2>1, <2>2 DEF Stream!Next, Stream!Demodulate, Stream!Drop, Stream!Take
<1>3. ASSUME NEW d \in Channels,
             SignalDemod(d) \/ DemodCheck(d) \/ DemodSleep(d) \/ Announce(d)
             \/ DemodFail(d) \/ AudioReturn(d) \/ WakeDemod(d)
      PROVE  UNCHANGED Stream!vars
  BY <1>3 DEF SignalDemod, DemodCheck, DemodSleep, Announce, DemodFail,
     AudioReturn, WakeDemod, prodVars, mainVars, Stream!vars
<1>4. CASE \/ OpenInput \/ NextChunk \/ EndOfInput \/ StreamEnds \/ AbandonFill
           \/ AwaitCheck \/ AwaitSleep \/ ClaimSlot \/ FillSlot \/ Deliver
           \/ InputExhausted
  BY <1>4 DEF OpenInput, NextChunk, EndOfInput, StreamEnds, AbandonFill,
     AwaitCheck, AwaitSleep, ClaimSlot, FillSlot, Deliver, InputExhausted,
     demodVars, Stream!vars
<1>5. CASE \/ SaveRecording \/ RequestExit \/ SpuriousWakeup \/ Finished
           \/ UNCHANGED ringVars
  BY <1>5 DEF SaveRecording, RequestExit, SpuriousWakeup, Finished, ringVars,
     prodVars, demodVars, mainVars, Stream!vars
<1> QED
  BY <1>1, <1>2, <1>3, <1>4, <1>5 DEF Next, Producer, DemodLoop, Teardown

\* Chunks are demodulated in order, each at most once: the stream says so.
HeardInOrder ==
  \A d \in Channels :
    /\ \A i \in 1 .. Len(heard[d]) : heard[d][i] < seq_processed[d]
    /\ \A i, j \in 1 .. Len(heard[d]) : i < j => heard[d][i] < heard[d][j]

LEMMA HeardInOrderStep == IInv /\ HeardInOrder /\ [Next]_ringVars => HeardInOrder'
<1> SUFFICES ASSUME IInv, HeardInOrder, Stream!Next \/ UNCHANGED Stream!vars,
                    NEW e \in Channels
             PROVE  /\ \A i \in 1 .. Len(heard'[e]) : heard'[e][i] < seq_processed'[e]
                    /\ \A i, j \in 1 .. Len(heard'[e]) : i < j => heard'[e][i] < heard'[e][j]
  BY StreamStep DEF HeardInOrder
<1>1. /\ seq_processed \in [Channels -> Nat]
      /\ heard \in [Channels -> Seq(Int)]
      /\ \A i \in 1 .. Len(heard[e]) : heard[e][i] < seq_processed[e]
      /\ \A i, j \in 1 .. Len(heard[e]) : i < j => heard[e][i] < heard[e][j]
  BY DEF IInv, TypeOK, HeardInOrder
<1>2. CASE \/ heard'[e] = heard[e] /\ seq_processed'[e] = seq_processed[e]
           \/ heard'[e] = heard[e] /\ seq_processed'[e] = seq_processed[e] + 1
  <2>1. /\ seq_processed[e] \in Nat /\ heard[e] \in Seq(Int)
        /\ \A i \in 1 .. Len(heard[e]) : heard[e][i] \in Int
    BY <1>1
  <2> QED
    BY <1>1, <1>2, <2>1
<1>3. CASE heard'[e] = Append(heard[e], seq_processed[e])
           /\ seq_processed'[e] = seq_processed[e] + 1
  <2>1. /\ Len(heard'[e]) = Len(heard[e]) + 1 /\ Len(heard[e]) \in Nat
        /\ heard'[e][Len(heard[e]) + 1] = seq_processed[e]
        /\ \A i \in 1 .. Len(heard[e]) : heard'[e][i] = heard[e][i] /\ heard[e][i] \in Int
        /\ seq_processed[e] \in Nat
    BY <1>1, <1>3
  <2>2. \A i \in 1 .. Len(heard'[e]) : i \in 1 .. Len(heard[e]) \/ i = Len(heard[e]) + 1
    BY <2>1
  <2>3. ASSUME NEW i \in 1 .. Len(heard'[e]) PROVE heard'[e][i] < seq_processed'[e]
    BY <1>1, <1>3, <2>1, <2>2
  <2>4. ASSUME NEW i \in 1 .. Len(heard'[e]), NEW j \in 1 .. Len(heard'[e]), i < j
        PROVE  heard'[e][i] < heard'[e][j]
    <3>1. i \in 1 .. Len(heard[e])
      BY <2>1, <2>4
    <3>2. CASE j \in 1 .. Len(heard[e])
      <4>1. heard[e][i] < heard[e][j]
        BY <1>1, <2>4, <3>1, <3>2
      <4> QED
        BY <2>1, <3>1, <3>2, <4>1
    <3>3. CASE j = Len(heard[e]) + 1
      <4>1. heard[e][i] < seq_processed[e]
        BY <1>1, <3>1
      <4> QED
        BY <2>1, <3>1, <3>3, <4>1
    <3> QED
      BY <2>2, <3>2, <3>3
  <2> QED
    BY <2>3, <2>4
<1> QED
  BY <1>1, <1>2, <1>3 DEF Stream!Next, Stream!Publish, Stream!Demodulate, Stream!Drop,
     Stream!Take, Stream!vars

\* What a demod has heard it has heard.
LEMMA HeardGrows ==
  ASSUME IInv, [Next]_ringVars, NEW d \in Channels
  PROVE  /\ Len(heard[d]) <= Len(heard'[d])
         /\ \A i \in 1 .. Len(heard[d]) : heard'[d][i] = heard[d][i]
<1>0. heard \in [Channels -> Seq(Int)] /\ heard[d] \in Seq(Int)
  BY DEF IInv, TypeOK
<1>1. heard'[d] = heard[d] \/ heard'[d] = Append(heard[d], seq_processed[d])
  BY <1>0, StreamStep DEF Stream!Next, Stream!Publish, Stream!Demodulate,
     Stream!Drop, Stream!Take, Stream!vars
<1> QED
  BY <1>0, <1>1

\* Once do_exit is set nothing is taken in, and hearing a chunk is taking it:
\* what the producer has still to count and a demod still to take, with what
\* the demod has heard, never grows.
Intake == chunk_seq + (IF ppc = "publish" THEN 1 ELSE 0)

LEMMA IntakeEnds == IInv /\ [Next]_ringVars /\ do_exit' => Intake' <= Intake
<1> DEFINE Quiet == \/ chunk_seq' = chunk_seq /\ (ppc' = "publish" => ppc = "publish")
                    \/ chunk_seq' = chunk_seq + 1 /\ ppc = "publish" /\ ppc' # "publish"
<1> SUFFICES ASSUME IInv, [Next]_ringVars, do_exit' PROVE Quiet
  <2>1. ASSUME chunk_seq \in Nat, Quiet PROVE Intake' <= Intake
    BY <2>1 DEF Intake
  <2> QED
    BY <2>1 DEF IInv, TypeOK
<1> USE DEF prodVars
<1>1. CASE \/ OpenInput \/ NextChunk \/ EndOfInput \/ StreamEnds \/ AbandonFill
           \/ AwaitCheck \/ AwaitSleep \/ ClaimSlot \/ FillSlot \/ Deliver
           \/ Publish \/ InputExhausted
  BY <1>1 DEF OpenInput, NextChunk, EndOfInput, StreamEnds, AbandonFill,
     AwaitCheck, AwaitSleep, ClaimSlot, FillSlot, Deliver, Publish, InputExhausted
<1>2. ASSUME NEW d \in Channels,
             \/ SignalDemod(d) \/ DemodCheck(d) \/ DemodSleep(d) \/ Consume(d)
             \/ Announce(d) \/ DemodFail(d) \/ AudioReturn(d) \/ WakeDemod(d)
      PROVE  Quiet
  BY <1>2 DEF SignalDemod, DemodCheck, DemodSleep, Consume, Announce,
     DemodFail, AudioReturn, WakeDemod
<1>3. CASE \/ SaveRecording \/ RequestExit \/ SpuriousWakeup \/ Finished
           \/ UNCHANGED ringVars
  BY <1>3 DEF SaveRecording, RequestExit, SpuriousWakeup, Finished, ringVars
<1> QED
  BY <1>1, <1>2, <1>3 DEF Next, Producer, DemodLoop, Teardown

LEMMA DueFalls ==
  ASSUME IInv, [Next]_ringVars, do_exit', NEW d \in Channels
  PROVE  Len(heard'[d]) + (chunk_seq' + (IF ppc' = "publish" THEN 1 ELSE 0))
           - seq_processed'[d]
         <= Len(heard[d]) + (chunk_seq + (IF ppc = "publish" THEN 1 ELSE 0))
              - seq_processed[d]
<1>0. /\ seq_processed \in [Channels -> Nat] /\ heard \in [Channels -> Seq(Int)]
      /\ Len(heard[d]) \in Nat /\ seq_processed[d] \in Nat
      /\ Intake \in Int /\ Intake' \in Int
  <2>1. chunk_seq \in Nat /\ chunk_seq' \in Nat
    BY IInvStep DEF IInv, TypeOK
  <2> QED
    BY <2>1 DEF IInv, TypeOK, Intake
<1>1. Intake' <= Intake
  BY IntakeEnds
<1>2. \/ /\ seq_processed'[d] = seq_processed[d] + 1
         /\ Len(heard'[d]) \in {Len(heard[d]), Len(heard[d]) + 1}
      \/ seq_processed'[d] = seq_processed[d] /\ heard'[d] = heard[d]
  BY <1>0, StreamStep DEF Stream!Next, Stream!Publish, Stream!Demodulate,
     Stream!Drop, Stream!Take, Stream!vars
<1>3. Len(heard'[d]) + Intake' - seq_processed'[d]
        <= Len(heard[d]) + Intake - seq_processed[d]
  BY <1>0, <1>1, <1>2
<1> QED
  BY <1>3 DEF Intake

-----------------------------------------------------------------------------
\* Every variable keeps to its type, the counters within their bounds.
THEOREM TypeCorrect == Spec => []TypeOK
  BY InitIInv, IInvStep, PTL DEF Spec, IInv

\* A demod that reads a slot in place reads the chunk it is due, intact, for
\* any number of channels and chunks and with playback or hardware.
THEOREM SlotsIntact == Spec => []SlotIntact
<1>1. IInv => SlotIntact
  BY DEF IInv, TypeOK, Lookahead, Contents, SlotIntact
<1> QED
  BY InitIInv, IInvStep, <1>1, PTL DEF Spec

\* A recording that survives holds every chunk published.
THEOREM RecordingIsComplete == Spec => []RecordingComplete
  BY InitIInv, IInvStep, PTL DEF Spec, IInv

\* No thread of the ring sleeps through the signal it is due.
THEOREM NoWakeupLost == Spec => []NoLostWakeup
<1>1. Init => WakeInv
  BY DEF Init, WakeInv, NoLostWakeup
<1>2. WakeInv => NoLostWakeup
  BY DEF WakeInv
<1> QED
  BY InitIInv, IInvStep, WakeInvStep, <1>1, <1>2, PTL DEF Spec

\* The ring implements the abstract stream: every publication stays within
\* two chunks of the slowest channel, and every demodulated chunk is the
\* channel's next one.
THEOREM RingImplementsStream == Spec => StreamSpec
<1>1. Init => Stream!Init
  BY DEF Init, Stream!Init
<1> QED
  BY InitIInv, IInvStep, StreamStep, <1>1, PTL DEF Spec, StreamSpec, Stream!Spec

\* What shutdown may lose: at most the chunk that was being delivered.
THEOREM ShutdownDrains == Spec => []ShutdownLosesOne
<1>1. Init => Drains
  BY DEF Init, Drains
<1>2. IInv /\ Drains => ShutdownLosesOne
  <2> SUFFICES ASSUME IInv, Drains, NEW d \in Channels, dpc[d] = "done"
               PROVE  chunk_seq <= seq_processed[d] + 1
    BY DEF ShutdownLosesOne
  <2>1. chunk_seq \in Nat /\ seq_processed[d] \in Nat
    BY DEF IInv, TypeOK
  <2>2. chunk_seq + (IF ppc = "publish" THEN 1 ELSE 0) <= seq_processed[d] + 1
    BY DEF Drains
  <2> QED
    BY <2>1, <2>2
<1> QED
  BY InitIInv, IInvStep, DrainsStep, <1>1, <1>2, PTL DEF Spec
=============================================================================
