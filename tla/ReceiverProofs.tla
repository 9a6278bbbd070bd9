--------------------------- MODULE ReceiverProofs ---------------------------
(***************************************************************************)
(* The composition keeps what its two components promise, and carries a    *)
(* chunk from the ring to the sink.                                        *)
(*                                                                         *)
(* Every step of the program is a step, or a stutter, of SlotRing and of   *)
(* AudioHandoff, so what is proved of them holds here.  Linked adds what   *)
(* neither can say: the blocks that entered the handoff are the chunks     *)
(* that were heard.                                                        *)
(***************************************************************************)
EXTENDS Receiver, TLAPS

RP == INSTANCE SlotRingProofs
AP == INSTANCE AudioHandoffProofs WITH MaxBlocks <- MaxChunks

LEMMA Parameters == RP!RingAssumption /\ AP!AudioAssumption
  BY ReceiverAssumption DEF Ring!RingParameters, RP!RingParameters, AP!AudioParameters

\* The modules of the proofs speak of the same specifications.
LEMMA SameRing == /\ Ring!Init <=> RP!Init
                  /\ [Ring!Next]_(Ring!ringVars) <=> [RP!Next]_(RP!ringVars)
  BY DEF
         Ring!OpenInput, RP!OpenInput, Ring!NextChunk, RP!NextChunk,
         Ring!EndOfInput, RP!EndOfInput, Ring!StreamEnds, RP!StreamEnds,
         Ring!AbandonFill, RP!AbandonFill, Ring!AwaitCheck, RP!AwaitCheck,
         Ring!AwaitSleep, RP!AwaitSleep, Ring!ClaimSlot, RP!ClaimSlot,
         Ring!FillSlot, RP!FillSlot, Ring!Deliver, RP!Deliver, Ring!RecordChunk,
         RP!RecordChunk, Ring!Publish,
         RP!Publish, Ring!InputExhausted, RP!InputExhausted, Ring!SignalDemod,
         RP!SignalDemod, Ring!SaveRecording, RP!SaveRecording, Ring!RequestExit,
         RP!RequestExit, Ring!SpuriousWakeup, RP!SpuriousWakeup, Ring!Finished,
         RP!Finished, Ring!DemodCheck, RP!DemodCheck, Ring!DemodSleep,
         RP!DemodSleep, Ring!Consume, RP!Consume, Ring!Announce, RP!Announce,
         Ring!DemodFail, RP!DemodFail, Ring!AudioReturn, RP!AudioReturn,
         Ring!WakeDemod, RP!WakeDemod, Ring!ringVars, RP!ringVars, Ring!prodVars,
         RP!prodVars, Ring!demodVars, RP!demodVars, Ring!mainVars, RP!mainVars,
         Ring!Drained, RP!Drained, Ring!Outcomes, RP!Outcomes, Ring!Slot, RP!Slot,
         Ring!Torn, RP!Torn, Ring!Producer, RP!Producer, Ring!DemodLoop,
         RP!DemodLoop, Ring!Teardown, RP!Teardown, Ring!Next, RP!Next, Ring!Init,
         RP!Init, Ring!Empty, RP!Empty, Ring!FileInput, RP!FileInput

LEMMA SameAudio == /\ Audio!Init <=> AP!Init
                   /\ [Audio!Next]_(Audio!audioVars) <=> [AP!Next]_(AP!audioVars)
  BY DEF
         Audio!Begin, AP!Begin, Audio!HandoffCheck, AP!HandoffCheck,
         Audio!HandoffSleep, AP!HandoffSleep, Audio!Pack, AP!Pack, Audio!Raise,
         AP!Raise, Audio!DemodEnds, AP!DemodEnds, Audio!OutputCheck, AP!OutputCheck,
         Audio!OutputSleep, AP!OutputSleep, Audio!OutputTest, AP!OutputTest,
         Audio!OutputLock, AP!OutputLock, Audio!Write, AP!Write, Audio!CountWritten,
         AP!CountWritten, Audio!AnnounceWritten, AP!AnnounceWritten,
         Audio!RequestExit, AP!RequestExit, Audio!WakeOutput, AP!WakeOutput,
         Audio!SpuriousWakeup, AP!SpuriousWakeup, Audio!Stopped, AP!Stopped,
         Audio!demodSide, AP!demodSide, Audio!outputSide, AP!outputSide,
         Audio!audioOwn, AP!audioOwn, Audio!audioVars, AP!audioVars, Audio!None,
         AP!None, Audio!Handover, AP!Handover, Audio!OutputLoop, AP!OutputLoop,
         Audio!Next, AP!Next, Audio!Init, AP!Init

-----------------------------------------------------------------------------
LEMMA RingStep == [Next]_vars => [Ring!Next]_(Ring!ringVars)
<1> SUFFICES ASSUME [Next]_vars PROVE Ring!Next \/ UNCHANGED Ring!ringVars
  OBVIOUS
<1>1. CASE ProducerStep
  BY <1>1 DEF ProducerStep, Ring!Next
<1>2. ASSUME NEW c \in Channels, DemodStep(c) PROVE Ring!Next
  BY <1>2 DEF DemodStep, Ring!Next, Ring!DemodLoop
<1>3. ASSUME NEW c \in Channels, HandoverStep(c)
      PROVE  Ring!Next \/ UNCHANGED Ring!ringVars
  BY <1>3 DEF HandoverStep, Audio!HandoffCheck, Audio!HandoffSleep, Audio!Pack,
     ringOwn, Ring!ringVars, Ring!Next
<1>4. ASSUME NEW c \in Channels, OutputStep(c) PROVE UNCHANGED Ring!ringVars
  BY <1>4 DEF OutputStep, Audio!OutputLoop, Audio!OutputCheck, Audio!OutputSleep,
     Audio!OutputTest, Audio!OutputLock, Audio!Write, Audio!CountWritten,
     Audio!AnnounceWritten, ringOwn, Ring!ringVars
<1>5. ASSUME NEW c \in Channels, WakeDemod(c) PROVE Ring!Next
  BY <1>5 DEF WakeDemod, Ring!Teardown, Ring!Next
<1>6. ASSUME NEW c \in Channels, WakeOutput(c) PROVE UNCHANGED Ring!ringVars
  BY <1>6 DEF WakeOutput, Audio!WakeOutput, ringOwn, Ring!ringVars
<1>7. CASE SaveRecording \/ RequestExit
  BY <1>7 DEF SaveRecording, RequestExit, Ring!Teardown, Ring!Next
<1>8. CASE SpuriousWakeup
  BY <1>8 DEF SpuriousWakeup, Audio!SpuriousWakeup, ringOwn, Ring!ringVars, Ring!Next
<1>9. CASE Finished \/ UNCHANGED vars
  BY <1>9 DEF Finished, vars, ringOwn, Ring!ringVars
<1> QED
  BY <1>1, <1>2, <1>3, <1>4, <1>5, <1>6, <1>7, <1>8, <1>9 DEF Next

-----------------------------------------------------------------------------
\* The blocks that entered the handoff are the chunks that were heard, but
\* for one whose demodulation is still to be announced.
Entering(c) == dpc[c] = "announce" /\ status[c] = "ok"

Linked(c) ==
  /\ Len(heard[c]) <= seq_processed[c]
  /\ Entering(c) => /\ Len(heard[c]) > 0
                    /\ heard[c][Len(heard[c])] = seq_processed[c] - 1
  /\ Len(posted[c]) = IF Entering(c) THEN Len(heard[c]) - 1 ELSE Len(heard[c])
  /\ \A i \in 1 .. Len(posted[c]) : posted[c][i] = heard[c][i]

LinkInv ==
  /\ RP!IInv
  /\ posted \in [Channels -> Seq(Nat)]
  /\ \A c \in Channels : Linked(c)

\* Steps that neither hear a chunk nor announce one.
LEMMA ProducerQuiet ==
  ASSUME Ring!Producer
  PROVE  /\ UNCHANGED <<status, seq_processed, heard>>
         /\ \/ UNCHANGED dpc
            \/ \E d \in Channels : dpc[d] = "wait" /\ dpc' = [dpc EXCEPT ![d] = "top"]
            \/ \E d \in Channels : dpc' = [dpc EXCEPT ![d] = @]
<1>1. ASSUME NEW d \in Channels, Ring!SignalDemod(d)
      PROVE  /\ UNCHANGED <<status, seq_processed, heard>>
             /\ \/ dpc[d] = "wait" /\ dpc' = [dpc EXCEPT ![d] = "top"]
                \/ dpc' = [dpc EXCEPT ![d] = @]
  BY <1>1 DEF Ring!SignalDemod
<1> QED
  BY <1>1 DEF Ring!Producer, Ring!OpenInput, Ring!NextChunk, Ring!EndOfInput, Ring!StreamEnds,
     Ring!AbandonFill, Ring!AwaitCheck, Ring!AwaitSleep, Ring!ClaimSlot,
     Ring!FillSlot, Ring!Deliver, Ring!Publish, Ring!InputExhausted, Ring!demodVars

LEMMA AudioQuiet ==
  ASSUME NEW c \in Channels, Audio!Handover(c) \/ Audio!OutputLoop(c)
  PROVE  UNCHANGED <<do_exit, posted>>
  BY DEF Audio!Handover, Audio!HandoffCheck, Audio!HandoffSleep, Audio!Pack, Audio!Raise,
     Audio!OutputLoop, Audio!OutputCheck, Audio!OutputSleep, Audio!OutputTest,
     Audio!OutputLock, Audio!Write, Audio!CountWritten, Audio!AnnounceWritten,
     Audio!demodSide, Audio!outputSide

\* Linked(c) survives any step that leaves the counters and histories alone
\* and moves no demod to or from its announcement.
LEMMA LinkFrame ==
  ASSUME \A c \in Channels : Linked(c),
         UNCHANGED <<seq_processed, heard, posted>>,
         \A c \in Channels : Entering(c)' = Entering(c)
  PROVE  \A c \in Channels : Linked(c)'
  BY DEF Linked

LEMMA LinkStep == LinkInv /\ [Next]_vars => LinkInv'
<1> SUFFICES ASSUME LinkInv, [Next]_vars PROVE LinkInv'
  OBVIOUS
<1>0. /\ RP!IInv'
      /\ dpc \in [Channels -> RP!DStates]
      /\ status \in [Channels -> {"ok", "skip", "fail"}]
      /\ seq_processed \in [Channels -> Nat]
      /\ heard \in [Channels -> Seq(Int)]
      /\ posted \in [Channels -> Seq(Nat)]
      /\ \A c \in Channels : Linked(c)
  <2>1. RP!IInv'
    BY RingStep, SameRing, RP!IInvStep, Parameters DEF LinkInv
  <2>2. seq_processed \in [Channels -> Nat]
    BY Parameters DEF LinkInv, RP!IInv, RP!TypeOK
  <2> QED
    BY <2>1, <2>2 DEF LinkInv, RP!IInv, RP!TypeOK
<1> DEFINE Good == posted \in [Channels -> Seq(Nat)] /\ \A c \in Channels : Linked(c)
<1> SUFFICES Good'
  BY <1>0 DEF LinkInv
<1>1. CASE ProducerStep
  <2>1. UNCHANGED posted
    BY <1>1 DEF ProducerStep, audioOwn
  <2>2. \A c \in Channels : Entering(c)' = Entering(c)
    BY <1>0, <1>1, ProducerQuiet DEF ProducerStep, Entering
  <2> QED
    BY <1>0, <1>1, <2>1, <2>2, ProducerQuiet, LinkFrame DEF ProducerStep
<1>2. ASSUME NEW d \in Channels, Ring!Consume(d), UNCHANGED audioOwn PROVE Good'
  <2>1. /\ slots[RP!Slot(seq_processed[d])] = seq_processed[d]
        /\ ~Entering(d)
    <3>1. dpc[d] = "read"
      BY <1>2 DEF Ring!Consume
    <3>2. RP!Lookahead /\ RP!Contents /\ seq_processed[d] \in Int
      BY <1>0 DEF LinkInv, RP!IInv
    <3>3. seq_processed[d] < chunk_seq
      BY <3>1, <3>2 DEF RP!Lookahead
    <3> QED
      BY <3>1, <3>2, <3>3 DEF RP!Contents, Entering
  <2>2. /\ \/ /\ heard' = [heard EXCEPT ![d] = Append(@, seq_processed[d])]
              /\ status'[d] = "ok"
           \/ heard' = heard /\ status'[d] # "ok"
        /\ seq_processed' = [seq_processed EXCEPT ![d] = @ + 1]
        /\ dpc' = [dpc EXCEPT ![d] = "announce"]
        /\ \A e \in Channels : e # d => status'[e] = status[e]
        /\ UNCHANGED posted
    <3>1. PICK s \in {"ok", "fail", "skip"} :
            /\ status' = [status EXCEPT ![d] = s]
            /\ heard' = IF s = "ok"
                        THEN [heard EXCEPT ![d] = Append(@, slots[Ring!Slot(seq_processed[d])])]
                        ELSE heard
      BY <1>2 DEF Ring!Consume, Ring!Outcomes
    <3>2. slots[Ring!Slot(seq_processed[d])] = seq_processed[d]
      BY <2>1 DEF Ring!Slot, RP!Slot
    <3>3. heard' = IF s = "ok" THEN [heard EXCEPT ![d] = Append(@, seq_processed[d])]
                              ELSE heard
      BY <3>1, <3>2
    <3>4. /\ seq_processed' = [seq_processed EXCEPT ![d] = @ + 1]
          /\ dpc' = [dpc EXCEPT ![d] = "announce"]
          /\ UNCHANGED posted
      BY <1>2 DEF Ring!Consume, audioOwn
    <3>5. status'[d] = s /\ \A e \in Channels : e # d => status'[e] = status[e]
      BY <1>0, <3>1
    <3> QED
      BY <3>3, <3>4, <3>5
  <2>3. ASSUME NEW e \in Channels PROVE Linked(e)'
    <3>1. CASE e # d
      BY <1>0, <2>2, <3>1 DEF Linked, Entering
    <3>2. CASE e = d
      <4>1. CASE heard' = heard /\ status'[d] # "ok"
        BY <1>0, <2>1, <2>2, <3>2, <4>1 DEF Linked, Entering
      <4>2. CASE heard' = [heard EXCEPT ![d] = Append(@, seq_processed[d])]
                 /\ status'[d] = "ok"
        <5>1. /\ Len(heard[d]') = Len(heard[d]) + 1
              /\ heard[d]'[Len(heard[d]) + 1] = seq_processed[d]
              /\ \A i \in 1 .. Len(heard[d]) : heard[d]'[i] = heard[d][i]
          BY <1>0, <4>2
        <5> QED
          BY <1>0, <2>1, <2>2, <3>2, <5>1 DEF Linked, Entering
      <4> QED
        BY <2>2, <4>1, <4>2
    <3> QED
      BY <3>1, <3>2
  <2> QED
    BY <1>0, <2>2, <2>3
<1>3. ASSUME NEW d \in Channels, Ring!Announce(d),
             IF status[d] = "ok" THEN Audio!Begin(d, heard[d][Len(heard[d])])
                                 ELSE UNCHANGED audioOwn
      PROVE  Good'
  <2>1. /\ dpc[d] = "announce" /\ dpc'[d] # "announce"
        /\ \A e \in Channels : e # d => dpc'[e] = dpc[e]
        /\ UNCHANGED <<status, seq_processed, heard>>
    BY <1>0, <1>3 DEF Ring!Announce
  <2>2. CASE status[d] # "ok"
    BY <1>0, <1>3, <2>1, <2>2 DEF audioOwn, Linked, Entering
  <2>3. CASE status[d] = "ok"
    <3>1. /\ Len(heard[d]) > 0 /\ Len(posted[d]) = Len(heard[d]) - 1
          /\ heard[d][Len(heard[d])] \in Nat
          /\ Entering(d) /\ ~Entering(d)'
      BY <1>0, <2>1, <2>3 DEF Linked, Entering
    <3>2. posted' = [posted EXCEPT ![d] = Append(@, heard[d][Len(heard[d])])]
      BY <1>3, <2>3 DEF Audio!Begin
    <3>3. /\ Len(posted[d]') = Len(posted[d]) + 1
          /\ posted[d]'[Len(posted[d]) + 1] = heard[d][Len(heard[d])]
          /\ \A i \in 1 .. Len(posted[d]) : posted[d]'[i] = posted[d][i]
          /\ posted' \in [Channels -> Seq(Nat)]
      BY <1>0, <3>1, <3>2
    <3>4. ASSUME NEW e \in Channels PROVE Linked(e)'
      <4>1. CASE e # d
        BY <1>0, <2>1, <3>2, <4>1 DEF Linked, Entering
      <4>2. CASE e = d
        <5>1. /\ Len(posted[d]) \in Nat /\ heard[d]' = heard[d]
              /\ Len(posted[d]') = Len(heard[d])
              /\ Len(heard[d]) <= seq_processed[d]
              /\ seq_processed[d]' = seq_processed[d]
              /\ ~Entering(d)'
          BY <1>0, <2>1, <3>1, <3>3 DEF Linked
        <5>2. ASSUME NEW i \in 1 .. Len(posted[d]') PROVE posted[d]'[i] = heard[d]'[i]
          <6>1. i \in 1 .. Len(posted[d]) \/ i = Len(posted[d]) + 1
            BY <3>3, <5>1
          <6>2. CASE i \in 1 .. Len(posted[d])
            BY <1>0, <3>3, <5>1, <6>2 DEF Linked
          <6>3. CASE i = Len(posted[d]) + 1
            BY <3>1, <3>3, <5>1, <6>3
          <6> QED
            BY <6>1, <6>2, <6>3
        <5> QED
          BY <4>2, <5>1, <5>2 DEF Linked
      <4> QED
        BY <4>1, <4>2
    <3> QED
      BY <3>3, <3>4
  <2> QED
    BY <2>2, <2>3
<1>4. ASSUME NEW d \in Channels,
             Ring!DemodCheck(d),
             IF dpc'[d] = "done" THEN Audio!DemodEnds(d) ELSE UNCHANGED audioOwn
      PROVE  Good'
  <2>1. /\ UNCHANGED <<status, seq_processed, heard, posted>>
        /\ dpc[d] = "top" /\ dpc'[d] \in {"read", "done", "enter_wait"}
        /\ \A e \in Channels : e # d => dpc'[e] = dpc[e]
    BY <1>0, <1>4 DEF Ring!DemodCheck, Audio!DemodEnds, audioOwn
  <2>2. \A c \in Channels : Entering(c)' = Entering(c)
    BY <2>1 DEF Entering
  <2> QED
    BY <1>0, <2>1, <2>2, LinkFrame
<1>5. ASSUME NEW d \in Channels,
             \/ /\ Ring!DemodSleep(d) \/ Ring!DemodFail(d) \/ Ring!WakeDemod(d)
                /\ UNCHANGED audioOwn
             \/ Audio!Raise(d) /\ Ring!AudioReturn(d)
      PROVE  Good'
  <2>1. /\ UNCHANGED <<status, seq_processed, heard, posted>>
        /\ \/ dpc[d] # "announce" /\ dpc'[d] # "announce"
           \/ dpc' = dpc
        /\ \A e \in Channels : e # d => dpc'[e] = dpc[e]
    BY <1>0, <1>5 DEF Ring!DemodSleep, Ring!DemodFail, Ring!WakeDemod, Ring!AudioReturn,
       Audio!Raise, audioOwn
  <2>2. \A c \in Channels : Entering(c)' = Entering(c)
    BY <2>1 DEF Entering
  <2> QED
    BY <1>0, <2>1, <2>2, LinkFrame
<1>6. ASSUME NEW d \in Channels,
             Audio!HandoffCheck(d) \/ Audio!HandoffSleep(d) \/ Audio!Pack(d)
             \/ Audio!OutputLoop(d) \/ Audio!WakeOutput(d) \/ Audio!SpuriousWakeup(d),
             UNCHANGED ringOwn
      PROVE  Good'
  <2>1. UNCHANGED posted
    BY <1>6, AudioQuiet DEF Audio!Handover, Audio!WakeOutput, Audio!SpuriousWakeup,
       Audio!demodSide
  <2> QED
    BY <1>0, <1>6, <2>1 DEF ringOwn, Linked, Entering
<1>7. CASE SaveRecording \/ RequestExit
  BY <1>0, <1>7 DEF SaveRecording, RequestExit, Ring!SaveRecording, Ring!RequestExit,
     Ring!demodVars, audioOwn, Linked, Entering
<1>8. CASE Ring!SpuriousWakeup /\ UNCHANGED audioOwn
  <2>1. /\ UNCHANGED <<status, seq_processed, heard, posted>>
        /\ dpc' = dpc \/ \E d \in Channels : /\ dpc[d] = "wait"
                                            /\ dpc' = [dpc EXCEPT ![d] = "top"]
    BY <1>8 DEF Ring!SpuriousWakeup, audioOwn
  <2>2. \A c \in Channels : Entering(c)' = Entering(c)
    BY <1>0, <2>1 DEF Entering
  <2> QED
    BY <1>0, <2>1, <2>2, LinkFrame
<1>9. CASE Finished \/ UNCHANGED vars
  BY <1>0, <1>9 DEF Finished, vars, ringOwn, audioOwn, Linked, Entering
<1> QED
  BY <1>1, <1>2, <1>3, <1>4, <1>5, <1>6, <1>7, <1>8, <1>9
     DEF Next, DemodStep, HandoverStep, OutputStep, WakeDemod, WakeOutput, SpuriousWakeup

-----------------------------------------------------------------------------
LEMMA AudioStep == LinkInv /\ [Next]_vars => [Audio!Next]_(Audio!audioVars)
<1> SUFFICES ASSUME LinkInv, [Next]_vars PROVE Audio!Next \/ UNCHANGED Audio!audioVars
  OBVIOUS
<1> USE DEF audioOwn
<1>1. CASE ProducerStep
  <2>1. do_exit' = do_exit \/ do_exit' = TRUE
    BY <1>1 DEF ProducerStep, Ring!Producer, Ring!OpenInput, Ring!NextChunk, Ring!EndOfInput,
       Ring!StreamEnds, Ring!AbandonFill, Ring!AwaitCheck, Ring!AwaitSleep, Ring!ClaimSlot,
       Ring!FillSlot, Ring!Deliver, Ring!Publish, Ring!SignalDemod, Ring!InputExhausted
  <2> QED
    BY <1>1, <2>1 DEF ProducerStep, Audio!Next, Audio!RequestExit, Audio!audioVars,
       Audio!audioOwn, Audio!demodSide, Audio!outputSide
<1>2. ASSUME NEW c \in Channels, DemodStep(c)
      PROVE  Audio!Next \/ UNCHANGED Audio!audioVars
  <2>1. CASE Ring!Announce(c) /\ status[c] = "ok"
             /\ Audio!Begin(c, heard[c][Len(heard[c])])
    <3>1. /\ heard[c][Len(heard[c])] = seq_processed[c] - 1
          /\ Len(posted[c]) = Len(heard[c]) - 1
          /\ Len(heard[c]) <= seq_processed[c]
      BY <2>1 DEF LinkInv, Linked, Entering, Ring!Announce
    <3>2. /\ seq_processed[c] \in Nat /\ seq_processed[c] <= MaxChunks
          /\ Len(heard[c]) \in Nat /\ MaxChunks \in Nat
      BY ReceiverAssumption DEF LinkInv, RP!IInv, RP!TypeOK, Ring!RingParameters
    <3>3. heard[c][Len(heard[c])] \in Len(posted[c]) .. MaxChunks - 1
      BY <3>1, <3>2
    <3> QED
      BY <2>1, <3>3 DEF Audio!Next
  <2>2. CASE Ring!Announce(c) /\ status[c] # "ok" /\ UNCHANGED audioOwn
    BY <2>2 DEF Ring!Announce, Audio!audioVars, Audio!audioOwn, Audio!demodSide,
       Audio!outputSide
  <2>3. CASE Ring!DemodCheck(c) /\ Audio!DemodEnds(c)
    BY <2>3 DEF Audio!Next
  <2>4. CASE (Ring!DemodCheck(c) \/ Ring!DemodSleep(c) \/ Ring!Consume(c))
             /\ UNCHANGED audioOwn
    BY <2>4 DEF Ring!DemodCheck, Ring!DemodSleep, Ring!Consume, Audio!audioVars,
       Audio!audioOwn, Audio!demodSide, Audio!outputSide
  <2>5. CASE Ring!DemodFail(c) /\ UNCHANGED audioOwn
    BY <2>5 DEF Ring!DemodFail, Audio!Next, Audio!RequestExit, Audio!audioOwn,
       Audio!demodSide, Audio!outputSide
  <2> QED
    BY <1>2, <2>1, <2>2, <2>3, <2>4, <2>5 DEF DemodStep
<1>3. ASSUME NEW c \in Channels, HandoverStep(c) PROVE Audio!Next
  BY <1>3 DEF HandoverStep, Audio!Next, Audio!Handover
<1>4. ASSUME NEW c \in Channels, OutputStep(c) PROVE Audio!Next
  BY <1>4 DEF OutputStep, Audio!Next
<1>5. ASSUME NEW c \in Channels, WakeDemod(c) PROVE UNCHANGED Audio!audioVars
  BY <1>5 DEF WakeDemod, Ring!WakeDemod, Audio!audioVars, Audio!audioOwn, Audio!demodSide,
     Audio!outputSide
<1>6. ASSUME NEW c \in Channels, WakeOutput(c) PROVE Audio!Next
  BY <1>6 DEF WakeOutput, Audio!Next
<1>7. CASE SaveRecording
  BY <1>7 DEF SaveRecording, Ring!SaveRecording, Audio!audioVars, Audio!audioOwn,
     Audio!demodSide, Audio!outputSide
<1>8. CASE RequestExit
  BY <1>8 DEF RequestExit, Ring!RequestExit, Audio!Next, Audio!RequestExit, Audio!audioOwn,
     Audio!demodSide, Audio!outputSide
<1>9. CASE SpuriousWakeup
  BY <1>9 DEF SpuriousWakeup, Ring!SpuriousWakeup, Audio!Next, Audio!audioVars,
     Audio!audioOwn, Audio!demodSide, Audio!outputSide
<1>10. CASE Finished \/ UNCHANGED vars
  BY <1>10 DEF Finished, vars, Audio!audioVars, Audio!audioOwn, Audio!demodSide,
     Audio!outputSide
<1> QED
  BY <1>1, <1>2, <1>3, <1>4, <1>5, <1>6, <1>7, <1>8, <1>9, <1>10 DEF Next

LEMMA InitLinkInv == Init => LinkInv
<1> SUFFICES ASSUME Init PROVE LinkInv
  OBVIOUS
<1>1. RP!IInv
  BY SameRing, RP!InitIInv, Parameters DEF Init
<1>2. posted \in [Channels -> Seq(Nat)]
  BY DEF Init, Audio!Init
<1>3. ASSUME NEW c \in Channels PROVE Linked(c)
  BY DEF Init, Audio!Init, Ring!Init, Linked, Entering
<1> QED
  BY <1>1, <1>2, <1>3 DEF LinkInv

\* The program is an audio handoff: what AudioHandoff promises holds of it.
THEOREM ReceiverImplementsAudio == Spec => AudioSpec
<1>1. Init => Audio!Init
  BY DEF Init
<1> QED
  BY <1>1, InitLinkInv, LinkStep, AudioStep, PTL DEF Spec, AudioSpec, Audio!Spec

-----------------------------------------------------------------------------
\* Where a demod thread is in the one module says where it is in the other.
Together(c) ==
  /\ dpc[c] = "audio" <=> apc[c] \in {"top", "enter_wait", "wait", "pack", "raise"}
  /\ dpc[c] = "done" <=> apc[c] = "quit"

ThreadInv == \A c \in Channels : Together(c)

\* Nothing but its own steps moves a demod thread to or from the handoff.
LEMMA ThreadFrame ==
  ASSUME NEW c \in Channels, Together(c), apc'[c] = apc[c],
         \/ dpc'[c] = dpc[c]
         \/ {dpc[c], dpc'[c]} \cap {"audio", "done"} = {}
  PROVE  Together(c)'
  BY DEF Together

LEMMA ThreadStep ==
  ASSUME LinkInv, AP!IInv, ThreadInv, [Next]_vars
  PROVE  ThreadInv'
<1> SUFFICES ASSUME NEW e \in Channels PROVE Together(e)'
  BY DEF ThreadInv
<1>0. /\ dpc \in [Channels -> RP!DStates]
      /\ apc \in [Channels -> AP!AStates]
      /\ status \in [Channels -> {"ok", "skip", "fail"}]
      /\ Together(e)
  BY DEF LinkInv, RP!IInv, RP!TypeOK, AP!IInv, AP!TypeOK, ThreadInv
<1>1. CASE ProducerStep
  <2>1. apc'[e] = apc[e]
    BY <1>1 DEF ProducerStep, audioOwn
  <2>2. dpc'[e] = dpc[e] \/ (dpc[e] = "wait" /\ dpc'[e] = "top")
    BY <1>0, <1>1, ProducerQuiet DEF ProducerStep
  <2> QED
    BY <1>0, <2>1, <2>2, ThreadFrame
<1>2. ASSUME NEW c \in Channels, DemodStep(c) PROVE Together(e)'
  <2>1. CASE c # e
    <3>1. dpc'[e] = dpc[e]
      BY <1>0, <1>2, <2>1 DEF DemodStep, Ring!DemodCheck, Ring!DemodSleep, Ring!Consume,
         Ring!DemodFail, Ring!Announce
    <3>2. apc'[e] = apc[e]
      BY <1>0, <1>2, <2>1 DEF DemodStep, Audio!DemodEnds, Audio!Begin, audioOwn
    <3> QED
      BY <1>0, <3>1, <3>2, ThreadFrame
  <2>2. CASE c = e
    <3>1. CASE Ring!DemodCheck(e) /\ IF dpc'[e] = "done" THEN Audio!DemodEnds(e)
                                                      ELSE UNCHANGED audioOwn
      <4>1. dpc[e] = "top" /\ dpc'[e] \in {"read", "done", "enter_wait"}
        BY <1>0, <3>1 DEF Ring!DemodCheck
      <4>2. IF dpc'[e] = "done" THEN apc'[e] = "quit" ELSE apc'[e] = apc[e]
        BY <1>0, <3>1 DEF Audio!DemodEnds, audioOwn
      <4> QED
        BY <1>0, <4>1, <4>2 DEF Together
    <3>2. CASE (Ring!DemodSleep(e) \/ Ring!Consume(e) \/ Ring!DemodFail(e))
               /\ UNCHANGED audioOwn
      <4>1. {dpc[e], dpc'[e]} \cap {"audio", "done"} = {} /\ apc'[e] = apc[e]
        BY <1>0, <3>2 DEF Ring!DemodSleep, Ring!Consume, Ring!DemodFail, audioOwn
      <4> QED
        BY <1>0, <4>1, ThreadFrame
    <3>3. CASE Ring!Announce(e) /\ status[e] = "ok"
               /\ Audio!Begin(e, heard[e][Len(heard[e])])
      <4>1. dpc'[e] = "audio" /\ apc'[e] = "top"
        BY <1>0, <3>3 DEF Ring!Announce, Audio!Begin
      <4> QED
        BY <4>1 DEF Together
    <3>4. CASE Ring!Announce(e) /\ status[e] # "ok" /\ UNCHANGED audioOwn
      <4>1. /\ dpc[e] = "announce" /\ dpc'[e] \in {"fail", "top"}
            /\ apc'[e] = apc[e]
        BY <1>0, <3>4 DEF Ring!Announce, audioOwn
      <4> QED
        BY <1>0, <4>1, ThreadFrame
    <3> QED
      BY <1>2, <2>2, <3>1, <3>2, <3>3, <3>4 DEF DemodStep
  <2> QED
    BY <2>1, <2>2
<1>3. ASSUME NEW c \in Channels, HandoverStep(c) PROVE Together(e)'
  <2>1. CASE UNCHANGED ringOwn
    <3>1. \/ apc'[e] = apc[e]
          \/ {apc[e], apc'[e]} \subseteq {"top", "enter_wait", "wait", "pack", "raise"}
      BY <1>0, <1>3, <2>1 DEF HandoverStep, Audio!HandoffCheck, Audio!HandoffSleep,
         Audio!Pack, Audio!Raise, Ring!AudioReturn, ringOwn
    <3> QED
      BY <1>0, <2>1, <3>1 DEF ringOwn, Together
  <2>2. CASE Audio!Raise(c) /\ Ring!AudioReturn(c)
    <3>1. \/ c # e /\ apc'[e] = apc[e] /\ dpc'[e] = dpc[e]
          \/ apc'[e] = "idle" /\ dpc'[e] = "top"
      BY <1>0, <2>2 DEF Audio!Raise, Ring!AudioReturn
    <3> QED
      BY <1>0, <3>1 DEF Together
  <2> QED
    BY <1>3, <2>1, <2>2 DEF HandoverStep
<1>4. ASSUME NEW c \in Channels, OutputStep(c) \/ WakeOutput(c) PROVE Together(e)'
  <2>1. apc'[e] = apc[e] \/ (apc[e] = "wait" /\ apc'[e] = "top")
    BY <1>0, <1>4 DEF OutputStep, WakeOutput, Audio!OutputLoop, Audio!OutputCheck,
       Audio!OutputSleep, Audio!OutputTest, Audio!OutputLock, Audio!Write,
       Audio!CountWritten, Audio!AnnounceWritten, Audio!WakeOutput, Audio!demodSide
  <2>2. dpc'[e] = dpc[e]
    BY <1>4 DEF OutputStep, WakeOutput, ringOwn
  <2> QED
    BY <1>0, <2>1, <2>2 DEF Together
<1>5. ASSUME NEW c \in Channels, WakeDemod(c) PROVE Together(e)'
  <2>1. /\ apc'[e] = apc[e]
        /\ dpc'[e] = dpc[e] \/ (dpc[e] = "wait" /\ dpc'[e] = "top")
    BY <1>0, <1>5 DEF WakeDemod, Ring!WakeDemod, audioOwn
  <2> QED
    BY <1>0, <2>1, ThreadFrame
<1>6. CASE SaveRecording \/ RequestExit \/ Finished \/ UNCHANGED vars
  BY <1>0, <1>6 DEF SaveRecording, RequestExit, Finished, vars, ringOwn, audioOwn,
     Ring!SaveRecording, Ring!RequestExit, Ring!demodVars, Together
<1>7. CASE SpuriousWakeup
  <2>1. CASE Ring!SpuriousWakeup /\ UNCHANGED audioOwn
    <3>1. /\ apc'[e] = apc[e]
          /\ dpc'[e] = dpc[e] \/ (dpc[e] = "wait" /\ dpc'[e] = "top")
      BY <1>0, <2>1 DEF Ring!SpuriousWakeup, audioOwn
    <3> QED
      BY <1>0, <3>1, ThreadFrame
  <2>2. CASE \E c \in Channels : Audio!SpuriousWakeup(c) /\ UNCHANGED ringOwn
    <3>1. /\ apc'[e] = apc[e] \/ (apc[e] = "wait" /\ apc'[e] = "top")
          /\ dpc'[e] = dpc[e]
      BY <1>0, <2>2 DEF Audio!SpuriousWakeup, ringOwn
    <3> QED
      BY <1>0, <3>1 DEF Together
  <2> QED
    BY <1>7, <2>1, <2>2 DEF SpuriousWakeup
<1> QED
  BY <1>1, <1>2, <1>3, <1>4, <1>5, <1>6, <1>7 DEF Next

-----------------------------------------------------------------------------
\* All that the two components and their composition keep.
WholeInv ==
  /\ LinkInv /\ ThreadInv
  /\ RP!WakeInv /\ RP!Drains /\ RP!HeardInOrder
  /\ AP!IInv /\ AP!WakeInv /\ AP!LateInv

LEMMA InitWholeInv == Init => WholeInv
<1> SUFFICES ASSUME Init PROVE WholeInv
  OBVIOUS
<1>1. RP!Init /\ AP!Init
  BY SameRing, SameAudio DEF Init
<1>2. LinkInv /\ AP!IInv /\ AP!LateInv
  BY <1>1, InitLinkInv, AP!InitIInv, AP!InitLateInv, Parameters
<1>3. RP!WakeInv /\ RP!Drains /\ RP!HeardInOrder
  BY <1>1 DEF RP!Init, RP!WakeInv, RP!NoLostWakeup, RP!Drains, RP!HeardInOrder
<1>4. AP!WakeInv
  BY <1>1 DEF AP!Init, AP!WakeInv, AP!NoLostWakeup
<1>5. ThreadInv
  BY <1>1 DEF AP!Init, RP!Init, ThreadInv, Together
<1> QED
  BY <1>2, <1>3, <1>4, <1>5 DEF WholeInv

LEMMA WholeInvStep == WholeInv /\ [Next]_vars => WholeInv'
<1> SUFFICES ASSUME WholeInv, [Next]_vars PROVE WholeInv'
  OBVIOUS
<1>1. LinkInv' /\ ThreadInv'
  BY LinkStep, ThreadStep DEF WholeInv
<1>2. [RP!Next]_(RP!ringVars) /\ RP!IInv
  BY RingStep, SameRing DEF WholeInv, LinkInv
<1>3. RP!WakeInv' /\ RP!Drains' /\ RP!HeardInOrder'
  BY <1>2, RP!WakeInvStep, RP!DrainsStep, RP!HeardInOrderStep, Parameters DEF WholeInv
<1>4. [AP!Next]_(AP!audioVars)
  BY AudioStep, SameAudio DEF WholeInv
<1>5. AP!IInv' /\ AP!WakeInv' /\ AP!LateInv'
  BY <1>4, AP!IInvStep, AP!WakeInvStep, AP!LateInvStep, Parameters DEF WholeInv
<1> QED
  BY <1>1, <1>3, <1>5 DEF WholeInv

\* No deadlock, for any number of channels, with every thread, lock and
\* condition variable of the three stages: somebody can always go on until
\* every demod has ended, and what may then stand still is the first finding.
THEOREM NeverStandsStill == Spec => []NoStandstill
<1>1. WholeInv => NoStandstill
  <2> SUFFICES ASSUME WholeInv, ppc \in {"wait", "done"}, ~TeardownRuns,
                      \A c \in Channels : ~DemodRuns(c) /\ ~OutputRuns(c),
                      NEW c \in Channels
               PROVE  /\ dpc[c] = "done"
                      /\ opc[c] = "wait" => seq_written[c] # seq_packed[c]
    BY DEF NoStandstill
  <2>1. ASSUME NEW d \in Channels PROVE dpc[d] \in {"wait", "done"}
    \* A demod that slept in the handoff would have an output that does not.
    <3>1. CASE dpc[d] = "audio"
      <4>1. apc[d] = "wait" /\ opc[d] \in {"wait", "done"}
        BY <3>1 DEF DemodRuns, OutputRuns
      <4>2. ~data_ready[d] \/ opc[d] # "wait"
        BY <4>1 DEF WholeInv, AP!WakeInv, AP!NoLostWakeup
      <4> QED
        BY <4>1, <4>2 DEF WholeInv, AP!LateInv, AP!Served, AP!Resting
    <3> QED
      BY <3>1 DEF DemodRuns
  <2>2. ppc = "done"
    <3>1. RP!IInv /\ RP!WakeInv /\ RP!Drains
      BY DEF WholeInv, LinkInv
    <3> QED
      BY <2>1, <3>1, RP!ProducerIsHeld, Parameters
  <2>3. woken = Channels
    BY <2>2 DEF TeardownRuns
  <2>4. \A d \in Channels : dpc[d] = "done"
    BY <2>1, <2>3 DEF WholeInv, RP!WakeInv, RP!NoLostWakeup
  <2>5. owoken = Channels
    BY <2>2, <2>4 DEF TeardownRuns
  <2> QED
    BY <2>4, <2>5 DEF WholeInv, AP!WakeInv, AP!NoLostWakeup
<1> QED
  BY InitWholeInv, WholeInvStep, <1>1, PTL DEF Spec

\* Until shutdown begins the sink has what was heard, but for two blocks.
LEMMA UpToDate ==
  ASSUME WholeInv, ~do_exit, NEW c \in Channels
  PROVE  /\ Len(emitted[c]) <= Len(heard[c])
         /\ \A i \in 1 .. Len(emitted[c]) : emitted[c][i] = heard[c][i]
         /\ Len(heard[c]) <= Len(emitted[c]) + 2
<1>1. /\ Len(posted[c]) \in Nat /\ Len(emitted[c]) \in Nat /\ Len(heard[c]) \in Nat
      /\ seq_packed[c] \in Nat /\ seq_written[c] \in Nat
  BY DEF WholeInv, AP!IInv, AP!TypeOK, LinkInv, RP!IInv, RP!TypeOK
<1>2. /\ Len(emitted[c]) <= seq_packed[c]
      /\ seq_packed[c] <= Len(emitted[c]) + 1
      /\ \A i \in 1 .. Len(emitted[c]) : emitted[c][i] = posted[c][i]
  <2>1. IF opc[c] = "bump" THEN Len(emitted[c]) = seq_written[c] + 1
                           ELSE Len(emitted[c]) = seq_written[c]
    BY DEF WholeInv, AP!IInv, AP!Counted
  <2>2. AP!InFlight(c)
    BY DEF WholeInv, AP!IInv
  <2>3. \/ seq_written[c] = seq_packed[c] /\ opc[c] # "bump"
        \/ seq_written[c] + 1 = seq_packed[c]
    BY <2>2 DEF AP!InFlight, AP!Phase, AP!Resting
  <2> QED
    BY <1>1, <2>1, <2>2, <2>3 DEF AP!InFlight
\* A demod with a chunk to announce is not in the handoff, so holds no block.
<1>3. /\ seq_packed[c] <= Len(posted[c]) /\ Len(posted[c]) <= Len(heard[c])
      /\ Len(heard[c]) <= seq_packed[c] + 1
  <2>1. CASE Entering(c)
    <3>1. apc[c] \notin AP!Holding
      BY <2>1 DEF Entering, WholeInv, ThreadInv, Together, AP!Holding
    <3>2. Len(posted[c]) = seq_packed[c]
      BY <3>1 DEF WholeInv, AP!IInv, AP!Counted
    <3>3. Len(posted[c]) = Len(heard[c]) - 1
      BY <2>1 DEF WholeInv, LinkInv, Linked
    <3> QED
      BY <1>1, <3>2, <3>3
  <2>2. CASE ~Entering(c)
    <3>1. Len(posted[c]) = seq_packed[c] \/ Len(posted[c]) = seq_packed[c] + 1
      BY DEF WholeInv, AP!IInv, AP!Counted
    <3>2. Len(posted[c]) = Len(heard[c])
      BY <2>2 DEF WholeInv, LinkInv, Linked
    <3> QED
      BY <1>1, <3>1, <3>2
  <2> QED
    BY <2>1, <2>2
<1>4. \A i \in 1 .. Len(posted[c]) : posted[c][i] = heard[c][i]
  BY DEF WholeInv, LinkInv, Linked
<1> QED
  BY <1>1, <1>2, <1>3, <1>4

\* End to end: a sink receives chunks its demod heard, in order, to the very
\* end; until shutdown begins each once, and at most two behind.
THEOREM ChunksReachTheSink == Spec => []EndToEnd
<1> DEFINE Sent(c) ==
      /\ \A i \in 1 .. Len(emitted[c]) :
           \E k \in 1 .. Len(heard[c]) : emitted[c][i] = heard[c][k]
      /\ \A i, j \in 1 .. Len(emitted[c]) : i <= j => emitted[c][i] <= emitted[c][j]
<1>1. ASSUME WholeInv, NEW c \in Channels PROVE Sent(c)
  <2>1. /\ Len(posted[c]) \in Nat /\ Len(emitted[c]) \in Nat /\ Len(heard[c]) \in Nat
        /\ seq_packed[c] \in Nat /\ heard[c] \in Seq(Int)
    BY <1>1 DEF WholeInv, AP!IInv, AP!TypeOK, LinkInv, RP!IInv, RP!TypeOK
  <2>2. PICK from \in [1 .. Len(emitted[c]) -> 1 .. seq_packed[c]] :
          /\ \A i \in 1 .. Len(emitted[c]) : emitted[c][i] = posted[c][from[i]]
          /\ \A i, j \in 1 .. Len(emitted[c]) : i <= j => from[i] <= from[j]
    BY <1>1 DEF WholeInv, AP!LateInv, AP!Ordered
  <2>3. seq_packed[c] <= Len(posted[c]) /\ Len(posted[c]) <= Len(heard[c])
    <3>1. Len(posted[c]) = seq_packed[c] \/ Len(posted[c]) = seq_packed[c] + 1
      BY <1>1 DEF WholeInv, AP!IInv, AP!Counted
    <3>2. Len(posted[c]) = Len(heard[c]) \/ Len(posted[c]) = Len(heard[c]) - 1
      BY <1>1 DEF WholeInv, LinkInv, Linked
    <3> QED
      BY <2>1, <3>1, <3>2
  <2>4. ASSUME NEW i \in 1 .. Len(emitted[c])
        PROVE  /\ from[i] \in 1 .. Len(heard[c])
               /\ emitted[c][i] = heard[c][from[i]]
               /\ heard[c][from[i]] \in Int
    <3>1. from[i] \in 1 .. seq_packed[c] /\ emitted[c][i] = posted[c][from[i]]
      BY <2>2
    <3>2. from[i] \in 1 .. Len(posted[c]) /\ from[i] \in 1 .. Len(heard[c])
      BY <2>1, <2>3, <3>1
    <3>3. posted[c][from[i]] = heard[c][from[i]]
      BY <1>1, <3>2 DEF WholeInv, LinkInv, Linked
    <3> QED
      BY <2>1, <3>1, <3>2, <3>3
  <2>5. ASSUME NEW i \in 1 .. Len(emitted[c]), NEW j \in 1 .. Len(emitted[c]), i <= j
        PROVE  emitted[c][i] <= emitted[c][j]
    <3>1. from[i] <= from[j]
      BY <2>2, <2>5
    <3>2. from[i] = from[j] \/ from[i] < from[j]
      BY <2>4, <3>1
    <3>3. CASE from[i] < from[j]
      <4>1. heard[c][from[i]] < heard[c][from[j]]
        BY <1>1, <2>4, <3>3 DEF WholeInv, RP!HeardInOrder
      <4> QED
        BY <2>4, <4>1
    <3> QED
      BY <2>4, <3>2, <3>3
  <2> QED
    BY <2>4, <2>5
<1>2. WholeInv => EndToEnd
  BY <1>1, UpToDate DEF EndToEnd
<1> QED
  BY InitWholeInv, WholeInvStep, <1>2, PTL DEF Spec

\* Shutdown costs a channel its last four chunks at most: nothing is taken in
\* once do_exit is set, and what was written stays written.
THEOREM ShutdownLosesLittle == Spec => []LosesAtMostFour
<1> DEFINE Intake == chunk_seq + (IF ppc = "publish" THEN 1 ELSE 0)
           Kept(c, n) == /\ n <= Len(heard[c])
                         /\ \A i \in 1 .. n : emitted[c][i] = heard[c][i]
                         /\ Len(heard[c]) + Intake - seq_processed[c] <= n + 4
           Four == \A c \in Channels : \E n \in 0 .. Len(emitted[c]) : Kept(c, n)
<1>0. ASSUME WholeInv, NEW c \in Channels
      PROVE  /\ Len(emitted[c]) \in Nat /\ Len(heard[c]) \in Nat
             /\ seq_processed[c] \in Nat /\ Intake \in Nat
             /\ Intake <= seq_processed[c] + 2
  <2>1. chunk_seq \in Nat /\ seq_processed \in [Channels -> Nat]
    BY <1>0, Parameters DEF WholeInv, LinkInv, RP!IInv, RP!TypeOK
  <2>2. seq_processed[c] \in Nat /\ Len(heard[c]) \in Nat /\ Len(emitted[c]) \in Nat
    BY <1>0, <2>1 DEF WholeInv, LinkInv, RP!IInv, RP!TypeOK, AP!IInv, AP!TypeOK
  <2>3. /\ chunk_seq <= seq_processed[c] + 2
        /\ ppc = "publish" => seq_processed[c] >= chunk_seq - 1
    BY <1>0 DEF WholeInv, LinkInv, RP!IInv, RP!Lookahead, RP!Filling
  <2> QED
    BY <2>1, <2>2, <2>3
<1>1. WholeInv /\ ~do_exit => Four
  <2> SUFFICES ASSUME WholeInv, ~do_exit, NEW c \in Channels
               PROVE  /\ Len(emitted[c]) \in 0 .. Len(emitted[c])
                      /\ Kept(c, Len(emitted[c]))
    OBVIOUS
  <2> QED
    BY <1>0, UpToDate
<1>2. Init => ~do_exit
  BY DEF Init, Ring!Init
<1>3. WholeInv /\ WholeInv' /\ Four /\ [Next]_vars /\ do_exit' => Four'
  <2> SUFFICES ASSUME WholeInv, WholeInv', [Next]_vars, do_exit', NEW c \in Channels,
                      NEW n \in 0 .. Len(emitted[c]), Kept(c, n)
               PROVE  /\ n \in 0 .. Len(emitted'[c])
                      /\ n <= Len(heard'[c])
                      /\ \A i \in 1 .. n : emitted'[c][i] = heard'[c][i]
                      /\ Len(heard'[c]) + Intake' - seq_processed'[c] <= n + 4
    OBVIOUS
  <2>1. /\ [RP!Next]_(RP!ringVars) /\ RP!IInv
        /\ [AP!Next]_(AP!audioVars) /\ AP!TypeOK
    BY RingStep, SameRing, AudioStep, SameAudio DEF WholeInv, LinkInv, AP!IInv
  <2>2. /\ Len(heard[c]) <= Len(heard'[c])
        /\ \A i \in 1 .. Len(heard[c]) : heard'[c][i] = heard[c][i]
        /\ Len(heard'[c]) + Intake' - seq_processed'[c]
             <= Len(heard[c]) + Intake - seq_processed[c]
    BY <2>1, RP!HeardGrows, RP!DueFalls, Parameters
  <2>3. /\ Len(emitted[c]) <= Len(emitted'[c])
        /\ \A i \in 1 .. Len(emitted[c]) : emitted'[c][i] = emitted[c][i]
    BY <2>1, AP!EmittedGrows, Parameters
  <2>4. RP!IInv' /\ AP!IInv'
    BY DEF WholeInv, LinkInv
  <2>5. chunk_seq' \in Nat /\ seq_processed' \in [Channels -> Nat]
    BY <2>4, Parameters DEF RP!IInv, RP!TypeOK
  <2>6. heard' \in [Channels -> Seq(Int)] /\ emitted' \in [Channels -> Seq(Nat)]
    BY <2>4 DEF RP!IInv, RP!TypeOK, AP!IInv, AP!TypeOK
  <2>7. seq_processed'[c] \in Nat
    BY <2>5
  <2>8. Len(heard'[c]) \in Nat
    BY <2>6
  <2>9. Len(emitted'[c]) \in Nat
    BY <2>6
  <2>10. PICK k \in Int : k = chunk_seq' + (IF ppc' = "publish" THEN 1 ELSE 0)
    <3>1. chunk_seq' + (IF ppc' = "publish" THEN 1 ELSE 0) \in Int
      BY <2>5
    <3> QED
      BY <3>1
  <2>11. PICK j \in Int : j = Len(heard'[c]) + k - seq_processed'[c]
    BY <2>7, <2>8, <2>10
  <2>12. /\ n <= Len(heard[c]) /\ j <= n + 4
         /\ \A i \in 1 .. n : emitted[c][i] = heard[c][i]
    BY <1>0, <2>2, <2>10, <2>11
  <2>13. n \in 0 .. Len(emitted'[c]) /\ n <= Len(heard'[c])
    BY <1>0, <2>2, <2>3, <2>8, <2>9, <2>12
  <2>14. ASSUME NEW i \in 1 .. n PROVE emitted'[c][i] = heard'[c][i]
    <3>1. i \in 1 .. Len(emitted[c]) /\ i \in 1 .. Len(heard[c])
      BY <1>0, <2>12
    <3> QED
      BY <2>2, <2>3, <2>12, <3>1
  <2> QED
    BY <2>10, <2>11, <2>12, <2>13, <2>14
<1>4. Four => LosesAtMostFour
  BY DEF LosesAtMostFour
<1> HIDE DEF Four
<1> QED
  BY InitWholeInv, WholeInvStep, <1>1, <1>2, <1>3, <1>4, PTL DEF Spec

\* The program keeps the two abstract promises: what it publishes and hears is
\* a behaviour of ChunkStream, what enters and leaves the handoff one of
\* BlockQueue.
THEOREM ReceiverKeepsPromises == Spec => RP!StreamSpec /\ AP!QueueSpec
<1>1. Spec => RP!Spec
  <2>1. Init => RP!Init
    BY SameRing DEF Init
  <2>2. [Next]_vars => [RP!Next]_(RP!ringVars)
    BY RingStep, SameRing
  <2> QED
    BY <2>1, <2>2, PTL DEF Spec, RP!Spec
<1>2. Spec => AP!Spec
  <2>1. Init => AP!Init
    BY SameAudio DEF Init
  <2>2. LinkInv /\ [Next]_vars => [AP!Next]_(AP!audioVars)
    BY AudioStep, SameAudio
  <2> QED
    BY InitLinkInv, LinkStep, <2>1, <2>2, PTL DEF Spec, AP!Spec
<1> QED
  BY <1>1, <1>2, RP!RingImplementsStream, AP!HandoffImplementsQueue, Parameters
=============================================================================
