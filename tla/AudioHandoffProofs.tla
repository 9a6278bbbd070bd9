------------------------- MODULE AudioHandoffProofs -------------------------
(***************************************************************************)
(* Safety of the audio handoff, for any number of channels and blocks.     *)
(*                                                                         *)
(* Until do_exit the two counters differ by at most one, and when they do  *)
(* exactly one of three holds: the demod has still to raise data_ready,    *)
(* data_ready is raised, or the output is writing.  The invariant says so, *)
(* and ties the counters to the blocks.                                    *)
(*                                                                         *)
(* LateInv is what remains of this during shutdown, when two packs may hide *)
(* behind one flag: the order of the writes, and a budget for them.        *)
(***************************************************************************)
EXTENDS AudioHandoff, TLAPS

\* The demod holds a block it has not packed; the output is not writing.
Holding == {"top", "enter_wait", "wait", "pack"}
Resting == {"top", "enter_wait", "wait", "announce"}

\* What the counters and buffers of channel c stand for, at all times.
Counted(c) ==
  /\ apc[c] \in Holding =>
       /\ Len(posted[c]) = seq_packed[c] + 1
       /\ pending[c] = posted[c][Len(posted[c])]
  /\ apc[c] \notin Holding => Len(posted[c]) = seq_packed[c]
  /\ seq_packed[c] > 0 => result[c] = posted[c][seq_packed[c]]
  /\ Len(emitted[c]) = IF opc[c] = "bump" THEN seq_written[c] + 1
                                          ELSE seq_written[c]
  /\ apc[c] = "quit" => do_exit

\* Nothing is written before something is packed.
Fresh(c) ==
  /\ seq_packed[c] = 0 =>
       /\ seq_written[c] = 0
       /\ ~data_ready[c]
       /\ apc[c] # "raise"
       /\ opc[c] \notin {"rdlock", "write", "bump"}
  /\ opc[c] = "test" => data_ready[c] \/ do_exit

\* Where the packed block is, until shutdown begins.
Phase(c) ==
  \/ /\ seq_written[c] = seq_packed[c]
     /\ ~data_ready[c]
     /\ opc[c] \in Resting
     /\ apc[c] # "raise"
  \/ /\ seq_written[c] + 1 = seq_packed[c]
     /\ apc[c] # "pack"
     /\ \/ ~data_ready[c] /\ apc[c] = "raise" /\ opc[c] \in Resting
        \/ data_ready[c] /\ apc[c] # "raise" /\ opc[c] \in Resting \cup {"test"}
        \/ ~data_ready[c] /\ apc[c] # "raise" /\ opc[c] \in {"rdlock", "write", "bump"}

InFlight(c) ==
  ~do_exit => /\ Phase(c)
              /\ \A i \in 1 .. Len(emitted[c]) : emitted[c][i] = posted[c][i]

IInv ==
  /\ TypeOK
  /\ \A c \in Channels : Counted(c) /\ Fresh(c) /\ InFlight(c)

THEOREM InitIInv == Init => IInv
<1> SUFFICES ASSUME Init PROVE IInv
  OBVIOUS
<1>1. /\ posted \in [Channels -> Seq(Nat)]
      /\ emitted \in [Channels -> Seq(Nat)]
  BY DEF Init
<1>2. TypeOK
  <2>1. /\ apc \in [Channels -> AStates]
        /\ opc \in [Channels -> OStates]
    BY DEF Init, AStates, OStates
  <2>2. /\ pending \in [Channels -> Blocks]
        /\ result \in [Channels -> Blocks]
    BY DEF Init, Blocks, None
  <2> QED
    BY <1>1, <2>1, <2>2 DEF Init, TypeOK
<1>3. ASSUME NEW c \in Channels PROVE Counted(c) /\ Fresh(c) /\ InFlight(c)
  <2>1. /\ apc[c] = "idle" /\ opc[c] = "top" /\ data_ready[c] = FALSE
        /\ seq_packed[c] = 0 /\ seq_written[c] = 0
        /\ Len(posted[c]) = 0 /\ Len(emitted[c]) = 0
    BY DEF Init
  <2>2. Counted(c)
    BY <2>1 DEF Counted, Holding
  <2>3. Fresh(c)
    BY <2>1 DEF Fresh
  <2>4. InFlight(c)
    BY <2>1 DEF InFlight, Phase, Resting
  <2> QED
    BY <2>2, <2>3, <2>4
<1> QED
  BY <1>2, <1>3 DEF IInv

\* What a step of one channel leaves alone in the others.
chan(c) == <<apc[c], pending[c], opc[c], data_ready[c], seq_packed[c],
             seq_written[c], result[c], posted[c], emitted[c], do_exit>>

ChannelStep(c) ==
  \/ \E b \in Nat : Begin(c, b)
  \/ Handover(c) \/ DemodEnds(c) \/ OutputLoop(c) \/ WakeOutput(c)
  \/ SpuriousWakeup(c)

LEMMA StepCases ==
  ASSUME TypeOK, [Next]_audioVars
  PROVE  \/ \E c \in Channels : ChannelStep(c)
         \/ RequestExit
         \/ UNCHANGED audioVars
  BY AudioAssumption DEF TypeOK, Next, ChannelStep, Stopped, AudioParameters

LEMMA Frame ==
  ASSUME TypeOK, NEW c \in Channels, NEW e \in Channels, c # e, ChannelStep(c)
  PROVE  chan(e)' = chan(e)
<1> USE DEF TypeOK, demodSide, outputSide, chan
<1>1. ASSUME NEW b \in Nat, Begin(c, b) PROVE chan(e)' = chan(e)
  BY <1>1 DEF Begin
<1>2. CASE Handover(c)
  BY <1>2 DEF Handover, HandoffCheck, HandoffSleep, Pack, Raise
<1>3. CASE DemodEnds(c)
  BY <1>3 DEF DemodEnds
<1>4. CASE OutputLoop(c)
  BY <1>4 DEF OutputLoop, OutputCheck, OutputSleep, OutputTest, OutputLock, Write,
     CountWritten, AnnounceWritten
<1>5. CASE WakeOutput(c)
  BY <1>5 DEF WakeOutput
<1>6. CASE SpuriousWakeup(c)
  BY <1>6 DEF SpuriousWakeup
<1> QED
  BY <1>1, <1>2, <1>3, <1>4, <1>5, <1>6 DEF ChannelStep

LEMMA TypeStep == IInv /\ [Next]_audioVars => TypeOK'
<1> SUFFICES ASSUME IInv, [Next]_audioVars PROVE TypeOK'
  OBVIOUS
<1>0. TypeOK
  BY DEF IInv
<1> USE <1>0 DEF TypeOK, AStates, OStates, Blocks, None, demodSide, outputSide
<1>1. ASSUME NEW c \in Channels, NEW b \in Nat, Begin(c, b) PROVE TypeOK'
  <2>1. posted' \in [Channels -> Seq(Nat)]
    BY <1>1 DEF Begin
  <2> QED
    BY <1>1, <2>1 DEF Begin
<1>2. ASSUME NEW c \in Channels, Write(c) PROVE TypeOK'
  <2>1. result[c] \in Nat
    <3>1. /\ seq_packed[c] \in Nat /\ seq_packed[c] > 0
          /\ result[c] = posted[c][seq_packed[c]]
          /\ Len(posted[c]) >= seq_packed[c]
      BY <1>2 DEF IInv, Fresh, Counted, Write
    <3>2. posted[c] \in Seq(Nat)
      OBVIOUS
    <3> HIDE DEF TypeOK
    <3> QED
      BY <3>1, <3>2
  <2>2. emitted' \in [Channels -> Seq(Nat)]
    BY <1>2, <2>1 DEF Write
  <2> QED
    BY <1>2, <2>2 DEF Write
<1>3. ASSUME NEW c \in Channels,
             HandoffCheck(c) \/ HandoffSleep(c) \/ Pack(c) \/ Raise(c) \/ DemodEnds(c)
      PROVE  TypeOK'
  <2>1. CASE HandoffCheck(c)
    BY <2>1 DEF HandoffCheck
  <2>2. CASE HandoffSleep(c)
    BY <2>2 DEF HandoffSleep
  <2>3. CASE Pack(c)
    BY <2>3 DEF Pack
  <2>4. CASE Raise(c)
    BY <2>4 DEF Raise
  <2>5. CASE DemodEnds(c)
    BY <2>5 DEF DemodEnds
  <2> QED
    BY <1>3, <2>1, <2>2, <2>3, <2>4, <2>5
<1>4. ASSUME NEW c \in Channels,
             OutputCheck(c) \/ OutputSleep(c) \/ OutputTest(c) \/ OutputLock(c)
             \/ CountWritten(c) \/ AnnounceWritten(c)
      PROVE  TypeOK'
  <2>1. CASE OutputCheck(c)
    BY <2>1 DEF OutputCheck
  <2>2. CASE OutputSleep(c)
    BY <2>2 DEF OutputSleep
  <2>3. CASE OutputTest(c)
    BY <2>3 DEF OutputTest
  <2>4. CASE OutputLock(c)
    BY <2>4 DEF OutputLock
  <2>5. CASE CountWritten(c)
    BY <2>5 DEF CountWritten
  <2>6. CASE AnnounceWritten(c)
    BY <2>6 DEF AnnounceWritten
  <2> QED
    BY <1>4, <2>1, <2>2, <2>3, <2>4, <2>5, <2>6
<1>5. ASSUME NEW c \in Channels, WakeOutput(c) \/ SpuriousWakeup(c) PROVE TypeOK'
  BY <1>5 DEF WakeOutput, SpuriousWakeup
<1>6. CASE RequestExit
  BY <1>6 DEF RequestExit, audioOwn
<1>7. CASE UNCHANGED audioVars
  BY <1>7 DEF audioVars, audioOwn
<1> QED
  BY <1>1, <1>2, <1>3, <1>4, <1>5, <1>6, <1>7, StepCases
     DEF ChannelStep, Handover, OutputLoop

LEMMA OwnStep ==
  ASSUME IInv, NEW c \in Channels, ChannelStep(c)
  PROVE  Counted(c)' /\ Fresh(c)' /\ InFlight(c)'
<1> DEFINE Good == Counted(c) /\ Fresh(c) /\ InFlight(c)
<1>0. /\ apc \in [Channels -> AStates]
      /\ pending \in [Channels -> Blocks]
      /\ opc \in [Channels -> OStates]
      /\ data_ready \in [Channels -> BOOLEAN]
      /\ seq_packed \in [Channels -> Nat]
      /\ seq_written \in [Channels -> Nat]
      /\ result \in [Channels -> Blocks]
      /\ posted \in [Channels -> Seq(Nat)]
      /\ emitted \in [Channels -> Seq(Nat)]
      /\ Good
  BY DEF IInv, TypeOK
<1> HIDE DEF IInv
<1> USE <1>0 DEF Counted, Fresh, InFlight, Phase, Holding, Resting, AStates, OStates,
        demodSide, outputSide
<1>1. ASSUME NEW b \in Nat, Begin(c, b) PROVE Good'
  <2>1. /\ Len(posted[c]') = Len(posted[c]) + 1
        /\ posted[c]'[Len(posted[c]) + 1] = b
        /\ \A i \in 1 .. Len(posted[c]) : posted[c]'[i] = posted[c][i]
    BY <1>1 DEF Begin
  <2>2. /\ apc[c] = "idle" /\ apc'[c] = "top" /\ pending'[c] = b
        /\ UNCHANGED <<do_exit, outputSide, data_ready, seq_packed, result>>
    BY <1>1 DEF Begin
  <2>3. Counted(c)'
    BY <2>1, <2>2
  <2>4. Fresh(c)'
    BY <2>1, <2>2
  <2>5. InFlight(c)'
    BY <2>1, <2>2
  <2> QED
    BY <2>3, <2>4, <2>5
<1>2. CASE HandoffCheck(c)
  BY <1>2 DEF HandoffCheck
<1>3. CASE HandoffSleep(c)
  BY <1>3 DEF HandoffSleep
<1>4. CASE Pack(c)
  BY <1>4 DEF Pack
<1>5. CASE Raise(c)
  BY <1>5 DEF Raise
<1>6. CASE DemodEnds(c)
  BY <1>6 DEF DemodEnds
<1>7. CASE OutputCheck(c)
  BY <1>7 DEF OutputCheck
<1>8. CASE OutputSleep(c)
  BY <1>8 DEF OutputSleep
<1>9. CASE OutputTest(c)
  BY <1>9 DEF OutputTest
<1>10. CASE OutputLock(c)
  BY <1>10 DEF OutputLock
<1>11. CASE Write(c)
  <2>1. /\ Len(emitted[c]') = Len(emitted[c]) + 1
        /\ emitted[c]'[Len(emitted[c]) + 1] = result[c]
        /\ \A i \in 1 .. Len(emitted[c]) : emitted[c]'[i] = emitted[c][i]
    BY <1>11 DEF Write
  <2>2. /\ opc[c] = "write" /\ opc'[c] = "bump"
        /\ UNCHANGED <<do_exit, demodSide, seq_written, data_ready, seq_packed, result>>
    BY <1>11 DEF Write
  <2>3. Counted(c)'
    BY <2>1, <2>2
  <2>4. Fresh(c)'
    BY <2>1, <2>2
  <2>5. InFlight(c)'
    <3> SUFFICES ASSUME ~do_exit PROVE InFlight(c)'
      BY <2>2
    <3>1. /\ Phase(c)'
          /\ Len(emitted[c]) + 1 = seq_packed[c]
          /\ seq_packed[c] > 0
      BY <2>2
    <3>2. emitted[c]'[Len(emitted[c]) + 1] = posted[c][Len(emitted[c]) + 1]
      BY <2>1, <3>1
    <3>3. ASSUME NEW i \in 1 .. Len(emitted[c]') PROVE emitted[c]'[i] = posted[c]'[i]
      <4>1. i \in 1 .. Len(emitted[c]) \/ i = Len(emitted[c]) + 1
        BY <2>1
      <4>2. posted[c]' = posted[c]
        BY <2>2
      <4> QED
        BY <2>1, <3>2, <4>1, <4>2
    <3> QED
      BY <3>1, <3>3
  <2> QED
    BY <2>3, <2>4, <2>5
<1>12. CASE CountWritten(c)
  BY <1>12 DEF CountWritten
<1>13. CASE AnnounceWritten(c)
  BY <1>13 DEF AnnounceWritten
<1>14. CASE WakeOutput(c)
  BY <1>14 DEF WakeOutput
<1>15. CASE SpuriousWakeup(c)
  BY <1>15 DEF SpuriousWakeup
<1> QED
  BY <1>1, <1>2, <1>3, <1>4, <1>5, <1>6, <1>7, <1>8, <1>9, <1>10, <1>11, <1>12, <1>13, <1>14, <1>15
     DEF ChannelStep, Handover, OutputLoop

LEMMA IInvStep == IInv /\ [Next]_audioVars => IInv'
<1> SUFFICES ASSUME IInv, [Next]_audioVars PROVE IInv'
  OBVIOUS
<1>1. TypeOK'
  BY TypeStep
<1>2. ASSUME NEW e \in Channels PROVE Counted(e)' /\ Fresh(e)' /\ InFlight(e)'
  <2>1. Counted(e) /\ Fresh(e) /\ InFlight(e)
    BY DEF IInv
  <2>2. ASSUME NEW c \in Channels, ChannelStep(c)
        PROVE  Counted(e)' /\ Fresh(e)' /\ InFlight(e)'
    <3>1. CASE c = e
      BY <2>2, <3>1, OwnStep
    <3>2. CASE c # e
      <4>1. chan(e)' = chan(e)
        BY <2>2, <3>2, Frame DEF IInv
      <4> QED
        BY <2>1, <4>1 DEF chan, Counted, Fresh, InFlight, Phase, Holding, Resting
    <3> QED
      BY <3>1, <3>2
  <2>3. CASE RequestExit
    BY <2>1, <2>3 DEF RequestExit, audioOwn, demodSide, outputSide, Counted, Fresh,
       InFlight, Phase, Holding, Resting
  <2>4. CASE UNCHANGED audioVars
    BY <2>1, <2>4 DEF audioVars, audioOwn, demodSide, outputSide, Counted, Fresh,
       InFlight, Phase, Holding, Resting
  <2> QED
    BY <2>2, <2>3, <2>4, StepCases DEF IInv
<1> QED
  BY <1>1, <1>2 DEF IInv

-----------------------------------------------------------------------------
\* Teardown signals an output only after every demod has ended, and then no
\* more blocks are packed.
WakeInv ==
  /\ NoLostWakeup
  /\ owoken # {} => do_exit /\ \A c \in Channels : apc[c] = "quit"

LEMMA WakeInvStep == IInv /\ WakeInv /\ [Next]_audioVars => WakeInv'
<1> SUFFICES ASSUME IInv, WakeInv, [Next]_audioVars PROVE WakeInv'
  OBVIOUS
<1>0. /\ apc \in [Channels -> AStates]
      /\ opc \in [Channels -> OStates]
      /\ data_ready \in [Channels -> BOOLEAN]
      /\ seq_packed \in [Channels -> Nat]
      /\ seq_written \in [Channels -> Nat]
      /\ owoken \subseteq Channels
      /\ \A c \in Channels : apc[c] = "quit" => do_exit
      /\ WakeInv
  BY DEF IInv, TypeOK, Counted
<1> HIDE DEF IInv
<1> USE <1>0 DEF WakeInv, NoLostWakeup, demodSide, outputSide
<1>1. ASSUME NEW c \in Channels, NEW b \in Nat, Begin(c, b) PROVE WakeInv'
  BY <1>1 DEF Begin
<1>2. ASSUME NEW c \in Channels, HandoffCheck(c) PROVE WakeInv'
  BY <1>2 DEF HandoffCheck
<1>3. ASSUME NEW c \in Channels, HandoffSleep(c) PROVE WakeInv'
  BY <1>3 DEF HandoffSleep
<1>4. ASSUME NEW c \in Channels, Pack(c) PROVE WakeInv'
  BY <1>4 DEF Pack
<1>5. ASSUME NEW c \in Channels, Raise(c) PROVE WakeInv'
  BY <1>5 DEF Raise
<1>6. ASSUME NEW c \in Channels, DemodEnds(c) PROVE WakeInv'
  BY <1>6 DEF DemodEnds
<1>7. ASSUME NEW c \in Channels, OutputCheck(c) PROVE WakeInv'
  BY <1>7 DEF OutputCheck
<1>8. ASSUME NEW c \in Channels, OutputSleep(c) PROVE WakeInv'
  BY <1>8 DEF OutputSleep
<1>9. ASSUME NEW c \in Channels, OutputTest(c) PROVE WakeInv'
  BY <1>9 DEF OutputTest
<1>10. ASSUME NEW c \in Channels, OutputLock(c) PROVE WakeInv'
  BY <1>10 DEF OutputLock
<1>11. ASSUME NEW c \in Channels, Write(c) PROVE WakeInv'
  BY <1>11 DEF Write
<1>12. ASSUME NEW c \in Channels, CountWritten(c) PROVE WakeInv'
  BY <1>12 DEF CountWritten
<1>13. ASSUME NEW c \in Channels, AnnounceWritten(c) PROVE WakeInv'
  BY <1>13 DEF AnnounceWritten
<1>14. ASSUME NEW c \in Channels, WakeOutput(c) PROVE WakeInv'
  BY <1>14 DEF WakeOutput
<1>15. ASSUME NEW c \in Channels, SpuriousWakeup(c) PROVE WakeInv'
  BY <1>15 DEF SpuriousWakeup
<1>16. CASE RequestExit
  BY <1>16 DEF RequestExit, audioOwn
<1>17. CASE UNCHANGED audioVars
  BY <1>17 DEF audioVars, audioOwn
<1> QED
  BY <1>1, <1>2, <1>3, <1>4, <1>5, <1>6, <1>7, <1>8, <1>9, <1>10, <1>11, <1>12, <1>13, <1>14, <1>15, <1>16, <1>17, StepCases
     DEF ChannelStep, Handover, OutputLoop, IInv

-----------------------------------------------------------------------------
(* What is left of the handoff's promise once the demod no longer waits.   *)

\* Every block written was packed, and later ones come from later packs.
Ordered(c) ==
  \E from \in [1 .. Len(emitted[c]) -> 1 .. seq_packed[c]] :
    /\ \A i \in 1 .. Len(emitted[c]) : emitted[c][i] = posted[c][from[i]]
    /\ \A i, j \in 1 .. Len(emitted[c]) : i <= j => from[i] <= from[j]

\* The writes made, begun and still flagged exceed the packs by at most one:
\* only an output that looked before a pack and tests after it writes unasked.
One(b) == IF b THEN 1 ELSE 0

Budget(c) ==
  /\ seq_written[c] + One(opc[c] \in {"rdlock", "write", "bump"})
       + One(data_ready[c]) + One(apc[c] = "raise") <= seq_packed[c] + 1
  /\ opc[c] = "test" /\ ~data_ready[c] => seq_written[c] <= seq_packed[c]

\* A demod waits only for an output that has a write to make, or to announce;
\* shutdown does not change that for one that waits already.
Served(c) ==
  apc[c] \in {"enter_wait", "wait"} =>
    \/ seq_written[c] = seq_packed[c] /\ opc[c] = "announce"
    \/ /\ seq_written[c] + 1 = seq_packed[c]
       /\ \/ data_ready[c] /\ opc[c] \in Resting \cup {"test"}
          \/ ~data_ready[c] /\ opc[c] \in {"rdlock", "write", "bump"}

LateInv == \A c \in Channels : Ordered(c) /\ Budget(c) /\ Served(c)

LEMMA OrderedStep ==
  ASSUME IInv, NEW c \in Channels, ChannelStep(c), Ordered(c)
  PROVE  Ordered(c)'
<1>0. /\ seq_packed \in [Channels -> Nat]
      /\ posted \in [Channels -> Seq(Nat)]
      /\ emitted \in [Channels -> Seq(Nat)]
      /\ Counted(c) /\ Fresh(c)
  BY DEF IInv, TypeOK
<1>1. PICK from \in [1 .. Len(emitted[c]) -> 1 .. seq_packed[c]] :
        /\ \A i \in 1 .. Len(emitted[c]) : emitted[c][i] = posted[c][from[i]]
        /\ \A i, j \in 1 .. Len(emitted[c]) : i <= j => from[i] <= from[j]
  BY DEF Ordered
<1>2. seq_packed[c] <= Len(posted[c])
  BY <1>0 DEF Counted
\* What was written stays written, from blocks that stay posted.
<1>3. ASSUME emitted[c]' = emitted[c], seq_packed[c]' \in Nat,
             seq_packed[c] <= seq_packed[c]',
             \A i \in 1 .. Len(posted[c]) : posted[c]'[i] = posted[c][i]
      PROVE  Ordered(c)'
  <2>1. from \in [1 .. Len(emitted[c]') -> 1 .. seq_packed[c]']
    BY <1>0, <1>3
  <2>2. ASSUME NEW i \in 1 .. Len(emitted[c]') PROVE emitted[c]'[i] = posted[c]'[from[i]]
    <3>1. i \in 1 .. Len(emitted[c]) /\ from[i] \in 1 .. seq_packed[c]
      BY <1>3
    <3>2. from[i] \in 1 .. Len(posted[c])
      BY <1>0, <1>2, <3>1
    <3> QED
      BY <1>1, <1>3, <3>1, <3>2
  <2>3. \A i, j \in 1 .. Len(emitted[c]') : i <= j => from[i] <= from[j]
    BY <1>1, <1>3
  <2> QED
    BY <2>1, <2>2, <2>3 DEF Ordered
<1>4. ASSUME NEW b \in Nat, Begin(c, b) PROVE Ordered(c)'
  BY <1>0, <1>3, <1>4 DEF Begin, outputSide
<1>5. CASE Pack(c)
  BY <1>0, <1>3, <1>5 DEF Pack, outputSide
<1>6. CASE Write(c)
  <2>1. /\ opc[c] = "write"
        /\ emitted[c]' = Append(emitted[c], result[c])
        /\ UNCHANGED <<posted, seq_packed>>
    BY <1>0, <1>6 DEF Write, demodSide
  <2>2. /\ Len(emitted[c]') = Len(emitted[c]) + 1
        /\ emitted[c]'[Len(emitted[c]) + 1] = result[c]
        /\ \A i \in 1 .. Len(emitted[c]) : emitted[c]'[i] = emitted[c][i]
        /\ Len(emitted[c]) \in Nat
    BY <1>0, <1>6 DEF Write
  <2>3. seq_packed[c] \in 1 .. seq_packed[c] /\ result[c] = posted[c][seq_packed[c]]
    BY <1>0, <2>1 DEF Counted, Fresh
  <2> DEFINE n == Len(emitted[c])
             next == [i \in 1 .. n + 1 |-> IF i <= n THEN from[i] ELSE seq_packed[c]]
  <2>4. \A i \in 1 .. n + 1 : IF i <= n THEN i \in 1 .. n ELSE i = n + 1
    BY <2>2
  <2>5. \A i \in 1 .. n + 1 : next[i] \in 1 .. seq_packed[c]
    BY <2>3, <2>4
  <2>6. \A i \in 1 .. n + 1 : emitted[c]'[i] = posted[c][next[i]]
    BY <1>1, <2>2, <2>3, <2>4
  <2>7. \A i, j \in 1 .. n + 1 : i <= j => next[i] <= next[j]
    <3> SUFFICES ASSUME NEW i \in 1 .. n + 1, NEW j \in 1 .. n + 1, i <= j
                 PROVE  next[i] <= next[j]
      OBVIOUS
    <3>1. CASE j <= n
      BY <1>1, <2>2, <2>4, <3>1
    <3>2. CASE ~(j <= n)
      <4>1. next[j] = seq_packed[c] /\ next[i] \in 1 .. seq_packed[c]
        BY <2>5, <3>2
      <4> QED
        BY <1>0, <4>1
    <3> QED
      BY <3>1, <3>2
  <2>8. next \in [1 .. n + 1 -> 1 .. seq_packed[c]]
    BY <2>5
  <2> HIDE DEF next
  <2> QED
    BY <2>1, <2>2, <2>6, <2>7, <2>8 DEF Ordered
<1>7. CASE HandoffCheck(c) \/ HandoffSleep(c) \/ Raise(c) \/ DemodEnds(c)
  <2>1. UNCHANGED <<posted, seq_packed, emitted>>
    BY <1>7 DEF HandoffCheck, HandoffSleep, Raise, DemodEnds, outputSide
  <2> QED
    BY <1>0, <1>3, <2>1
<1>8. CASE OutputCheck(c) \/ OutputSleep(c) \/ OutputTest(c) \/ OutputLock(c)
           \/ CountWritten(c) \/ AnnounceWritten(c)
  <2>1. UNCHANGED <<posted, seq_packed, emitted>>
    BY <1>8 DEF OutputCheck, OutputSleep, OutputTest, OutputLock, CountWritten,
       AnnounceWritten, demodSide
  <2> QED
    BY <1>0, <1>3, <2>1
<1>9. CASE WakeOutput(c) \/ SpuriousWakeup(c)
  <2>1. UNCHANGED <<posted, seq_packed, emitted>>
    BY <1>9 DEF WakeOutput, SpuriousWakeup, demodSide
  <2> QED
    BY <1>0, <1>3, <2>1
<1> QED
  BY <1>4, <1>5, <1>6, <1>7, <1>8, <1>9 DEF ChannelStep, Handover, OutputLoop

LEMMA BudgetStep ==
  ASSUME IInv, NEW c \in Channels, ChannelStep(c), Budget(c), Served(c)
  PROVE  Budget(c)' /\ Served(c)'
<1> DEFINE Good == Budget(c) /\ Served(c)
<1>0. /\ apc \in [Channels -> AStates]
      /\ opc \in [Channels -> OStates]
      /\ data_ready \in [Channels -> BOOLEAN]
      /\ seq_packed \in [Channels -> Nat]
      /\ seq_written \in [Channels -> Nat]
      /\ Good /\ InFlight(c) /\ Counted(c) /\ Fresh(c)
  BY DEF IInv, TypeOK
<1> HIDE DEF IInv
<1> USE <1>0 DEF Budget, Served, One, Resting, AStates, OStates, demodSide, outputSide
<1>1. ASSUME NEW b \in Nat, Begin(c, b) PROVE Good'
  BY <1>1 DEF Begin
<1>2. CASE HandoffCheck(c)
  BY <1>2 DEF HandoffCheck, InFlight, Phase
<1>3. CASE HandoffSleep(c)
  BY <1>3 DEF HandoffSleep
<1>4. CASE Pack(c)
  BY <1>4 DEF Pack
<1>5. CASE Raise(c)
  BY <1>5 DEF Raise
<1>6. CASE DemodEnds(c)
  BY <1>6 DEF DemodEnds
<1>7. CASE OutputCheck(c)
  BY <1>7 DEF OutputCheck
<1>8. CASE OutputSleep(c)
  BY <1>8 DEF OutputSleep
<1>9. CASE OutputTest(c)
  <2>1. CASE data_ready[c]
    BY <1>9, <2>1 DEF OutputTest
  <2>2. CASE ~data_ready[c]
    <3>1. apc[c] \notin {"enter_wait", "wait"} /\ seq_written[c] <= seq_packed[c]
      BY <1>9, <2>2 DEF OutputTest
    <3>2. CASE do_exit /\ seq_written[c] = seq_packed[c]
      BY <1>9, <2>2, <3>1, <3>2 DEF OutputTest
    <3>3. CASE ~(do_exit /\ seq_written[c] = seq_packed[c])
      <4>1. /\ opc'[c] = "rdlock" /\ data_ready'[c] = FALSE
            /\ UNCHANGED <<do_exit, demodSide, seq_written, seq_packed>>
        BY <1>9, <2>2, <3>3 DEF OutputTest
      <4>2. seq_written[c] < seq_packed[c]
        BY <1>9, <2>2, <3>1, <3>3 DEF OutputTest, Fresh
      <4> QED
        BY <3>1, <4>1, <4>2
    <3> QED
      BY <3>2, <3>3
  <2> QED
    BY <2>1, <2>2
<1>10. CASE OutputLock(c)
  BY <1>10 DEF OutputLock
<1>11. CASE Write(c)
  BY <1>11 DEF Write
<1>12. CASE CountWritten(c)
  BY <1>12 DEF CountWritten
<1>13. CASE AnnounceWritten(c)
  BY <1>13 DEF AnnounceWritten
<1>14. CASE WakeOutput(c)
  BY <1>14 DEF WakeOutput
<1>15. CASE SpuriousWakeup(c)
  BY <1>15 DEF SpuriousWakeup
<1> QED
  BY <1>1, <1>2, <1>3, <1>4, <1>5, <1>6, <1>7, <1>8, <1>9, <1>10, <1>11, <1>12, <1>13, <1>14, <1>15
     DEF ChannelStep, Handover, OutputLoop

LEMMA LateInvStep == IInv /\ LateInv /\ [Next]_audioVars => LateInv'
<1> SUFFICES ASSUME IInv, LateInv, [Next]_audioVars, NEW e \in Channels
             PROVE  Ordered(e)' /\ Budget(e)' /\ Served(e)'
  BY DEF LateInv
<1>1. Ordered(e) /\ Budget(e) /\ Served(e)
  BY DEF LateInv
<1>2. ASSUME NEW c \in Channels, ChannelStep(c)
      PROVE  Ordered(e)' /\ Budget(e)' /\ Served(e)'
  <2>1. CASE c = e
    BY <1>1, <1>2, <2>1, OrderedStep, BudgetStep
  <2>2. CASE c # e
    <3>1. chan(e)' = chan(e)
      BY <1>2, <2>2, Frame DEF IInv
    <3> QED
      BY <1>1, <3>1 DEF chan, Ordered, Budget, Served, One, Resting
  <2> QED
    BY <2>1, <2>2
<1>3. CASE RequestExit \/ UNCHANGED audioVars
  BY <1>1, <1>3 DEF RequestExit, audioVars, audioOwn, demodSide, outputSide, Ordered,
     Budget, Served, One, Resting
<1> QED
  BY <1>2, <1>3, StepCases DEF IInv

LEMMA InitLateInv == Init => LateInv
<1> SUFFICES ASSUME Init, NEW c \in Channels
             PROVE  Ordered(c) /\ Budget(c) /\ Served(c)
  BY DEF LateInv
<1>1. /\ apc[c] = "idle" /\ opc[c] = "top" /\ data_ready[c] = FALSE
      /\ seq_packed[c] = 0 /\ seq_written[c] = 0 /\ Len(emitted[c]) = 0
  BY DEF Init
<1>2. Budget(c) /\ Served(c)
  BY <1>1 DEF Budget, Served, One
<1>3. Ordered(c)
  <2> DEFINE none == [i \in 1 .. 0 |-> 0]
  <2>1. none \in [1 .. Len(emitted[c]) -> 1 .. seq_packed[c]]
    BY <1>1
  <2>2. \A i \in 1 .. Len(emitted[c]) : FALSE
    BY <1>1
  <2> QED
    BY <2>1, <2>2 DEF Ordered
<1> QED
  BY <1>2, <1>3

-----------------------------------------------------------------------------
\* Every variable keeps to its type; in particular the output never writes a
\* result buffer that was never filled.
THEOREM TypeCorrect == Spec => []TypeOK
  BY InitIInv, IInvStep, PTL DEF Spec, IInv

\* Until shutdown begins no block is lost, repeated or reordered on its way
\* from a demod to its sink, for any number of channels and blocks.
THEOREM HandoffLossless == Spec => []Lossless
<1>1. IInv => Lossless
  <2> SUFFICES ASSUME IInv, ~do_exit, NEW c \in Channels PROVE Delivered(c)
    BY DEF Lossless
  <2>1. /\ Len(posted[c]) \in Nat /\ Len(emitted[c]) \in Nat
        /\ seq_packed[c] \in Nat /\ seq_written[c] \in Nat
        /\ Counted(c) /\ InFlight(c) /\ apc[c] \in AStates
    BY DEF IInv, TypeOK
  <2> QED
    BY <2>1 DEF Counted, InFlight, Phase, Delivered, Holding, Resting
<1> QED
  BY InitIInv, IInvStep, <1>1, PTL DEF Spec

\* No thread of the handoff sleeps through the signal it is due, before or
\* during shutdown.
THEOREM NoWakeupLost == Spec => []NoLostWakeup
<1>1. Init => WakeInv
  BY DEF Init, WakeInv, NoLostWakeup
<1>2. WakeInv => NoLostWakeup
  BY DEF WakeInv
<1> QED
  BY InitIInv, IInvStep, WakeInvStep, <1>1, <1>2, PTL DEF Spec

\* What has been written stays written.
LEMMA EmittedGrows ==
  ASSUME TypeOK, [Next]_audioVars, NEW c \in Channels
  PROVE  /\ Len(emitted[c]) <= Len(emitted'[c])
         /\ \A i \in 1 .. Len(emitted[c]) : emitted'[c][i] = emitted[c][i]
<1>0. emitted \in [Channels -> Seq(Nat)] /\ emitted[c] \in Seq(Nat)
  BY DEF TypeOK
<1>1. \/ UNCHANGED emitted
      \/ \E d \in Channels : emitted' = [emitted EXCEPT ![d] = Append(@, result[d])]
  <2>1. CASE \E d \in Channels : Write(d)
    BY <2>1 DEF Write
  <2>2. CASE ~ \E d \in Channels : Write(d)
    BY <2>2, StepCases DEF ChannelStep, Begin, Handover, HandoffCheck, HandoffSleep, Pack,
       Raise, DemodEnds, OutputLoop, OutputCheck, OutputSleep, OutputTest, OutputLock,
       CountWritten, AnnounceWritten, WakeOutput, SpuriousWakeup, RequestExit,
       audioVars, audioOwn, demodSide, outputSide
  <2> QED
    BY <2>1, <2>2
<1>2. \/ emitted'[c] = emitted[c]
      \/ \E b : emitted'[c] = Append(emitted[c], b)
  BY <1>0, <1>1
<1> QED
  BY <1>0, <1>2

\* Blocks of p up to its n-th, in order, are blocks of p in order.
LEMMA PrefixFollows ==
  ASSUME NEW e, NEW p, NEW n \in Nat, Len(p) \in Nat, n <= Len(p),
         \E from \in [1 .. Len(e) -> 1 .. n] :
           /\ \A i \in 1 .. Len(e) : e[i] = p[from[i]]
           /\ \A i, j \in 1 .. Len(e) : i <= j => from[i] <= from[j]
  PROVE  Queue!Follows(e, p)
<1>1. 1 .. n \subseteq 1 .. Len(p)
  OBVIOUS
<1>2. PICK from \in [1 .. Len(e) -> 1 .. n] :
        /\ \A i \in 1 .. Len(e) : e[i] = p[from[i]]
        /\ \A i, j \in 1 .. Len(e) : i <= j => from[i] <= from[j]
  OBVIOUS
<1>3. from \in [1 .. Len(e) -> 1 .. Len(p)]
  BY <1>1, <1>2
<1> QED
  BY <1>2, <1>3 DEF Queue!Follows

LEMMA QueueWrite ==
  ASSUME IInv, LateInv, IInv', LateInv', NEW c \in Channels, Write(c)
  PROVE  Queue!Emit(c) \/ Queue!EmitLate(c)
<1>1. /\ opc[c] = "write"
      /\ emitted' = [emitted EXCEPT ![c] = Append(@, result[c])]
      /\ UNCHANGED <<do_exit, posted>>
  BY DEF Write, demodSide
<1>2. /\ seq_packed[c] \in Nat /\ Len(posted[c]) \in Nat
      /\ Len(emitted[c]) \in Nat /\ Len(emitted[c]) = seq_written[c]
      /\ result[c] = posted[c][seq_packed[c]]
      /\ 0 < seq_packed[c] /\ seq_packed[c] <= Len(posted[c])
  BY <1>1 DEF IInv, TypeOK, Counted, Fresh
<1>3. CASE ~do_exit
  <2>1. seq_packed[c] = Len(emitted[c]) + 1
    BY <1>1, <1>2, <1>3 DEF IInv, InFlight, Phase, Resting
  <2> QED
    BY <1>1, <1>2, <1>3, <2>1 DEF Queue!Emit
<1>4. CASE do_exit
  <2>1. Len(emitted[c]) <= Len(posted[c])
    <3>1. seq_written[c] + 1 <= seq_packed[c] + 1
      <4>1. /\ One(data_ready[c]) \in {0, 1} /\ One(apc[c] = "raise") \in {0, 1}
            /\ One(opc[c] \in {"rdlock", "write", "bump"}) = 1
        BY <1>1 DEF One
      <4> QED
        BY <1>2, <4>1 DEF LateInv, Budget
    <3> QED
      BY <1>2, <3>1
  <2>2. Ordered(c)'
    BY DEF LateInv
  <2>3. Queue!Follows(emitted'[c], posted[c])
    <3>1. \E from \in [1 .. Len(emitted'[c]) -> 1 .. seq_packed'[c]] :
            /\ \A i \in 1 .. Len(emitted'[c]) : emitted'[c][i] = posted[c][from[i]]
            /\ \A i, j \in 1 .. Len(emitted'[c]) : i <= j => from[i] <= from[j]
      BY <1>1, <2>2 DEF Ordered
    <3>2. seq_packed'[c] = seq_packed[c]
      BY DEF Write
    <3> QED
      BY <1>2, <3>1, <3>2, PrefixFollows
  <2>4. seq_packed[c] \in 1 .. Len(posted[c])
    BY <1>2
  <2> QED
    BY <1>1, <1>2, <1>4, <2>1, <2>3, <2>4 DEF Queue!EmitLate
<1> QED
  BY <1>3, <1>4

\* The handoff implements the abstract queue, through shutdown too: until it
\* begins each block reaches the sink once and in order, and afterwards the
\* double pack that the skipped wait allows never turns audio round.
THEOREM HandoffImplementsQueue == Spec => QueueSpec
<1>1. Init => Queue!Init
  BY DEF Init, Queue!Init
<1>2. IInv /\ LateInv /\ IInv' /\ LateInv' /\ [Next]_audioVars => [Queue!Next]_(Queue!vars)
  <2> SUFFICES ASSUME IInv, LateInv, IInv', LateInv', [Next]_audioVars
               PROVE  Queue!Next \/ UNCHANGED Queue!vars
    OBVIOUS
  <2>1. ASSUME NEW c \in Channels, NEW b \in Len(posted[c]) .. MaxBlocks - 1, Begin(c, b)
        PROVE  Queue!Next
    <3>1. b \in 0 .. MaxBlocks - 1
      BY AudioAssumption DEF AudioParameters, IInv, TypeOK
    <3>2. do_exit \/ Len(posted[c]) < Len(emitted[c]) + 2
      <4>1. apc[c] = "idle" /\ Len(posted[c]) = seq_packed[c]
        BY <2>1 DEF Begin, IInv, Counted, Holding
      <4>2. seq_written[c] \in Nat /\ Len(emitted[c]) >= seq_written[c]
        BY DEF IInv, TypeOK, Counted
      <4>3. do_exit \/ seq_packed[c] <= seq_written[c] + 1
        BY <4>2 DEF IInv, InFlight, Phase
      <4>4. seq_packed[c] \in Nat /\ Len(emitted[c]) \in Nat
        BY DEF IInv, TypeOK
      <4> QED
        BY <4>1, <4>2, <4>3, <4>4
    <3>3. /\ posted' = [posted EXCEPT ![c] = Append(@, b)]
          /\ UNCHANGED <<do_exit, emitted>>
      BY <2>1 DEF Begin, outputSide
    <3> QED
      BY <3>1, <3>2, <3>3 DEF Queue!Next, Queue!Post, Queue!Capacity
  <2>2. ASSUME NEW c \in Channels, Write(c) PROVE Queue!Next
    BY <2>2, QueueWrite DEF Queue!Next
  <2>3. ASSUME NEW c \in Channels,
               Handover(c) \/ DemodEnds(c) \/ WakeOutput(c) \/ SpuriousWakeup(c)
        PROVE  UNCHANGED Queue!vars
    BY <2>3 DEF Handover, HandoffCheck, HandoffSleep, Pack, Raise, DemodEnds, WakeOutput,
       SpuriousWakeup, demodSide, outputSide, Queue!vars
  <2>4. ASSUME NEW c \in Channels,
               \/ OutputCheck(c) \/ OutputSleep(c) \/ OutputTest(c) \/ OutputLock(c)
               \/ CountWritten(c) \/ AnnounceWritten(c)
        PROVE  UNCHANGED Queue!vars
    BY <2>4 DEF OutputCheck, OutputSleep, OutputTest, OutputLock, CountWritten,
       AnnounceWritten, demodSide, Queue!vars
  <2>5. CASE RequestExit
    BY <2>5 DEF RequestExit, audioOwn, demodSide, outputSide, Queue!Next, Queue!Close
  <2>6. CASE Stopped \/ UNCHANGED audioVars
    BY <2>6 DEF Stopped, audioVars, audioOwn, demodSide, outputSide, Queue!vars
  <2> QED
    BY <2>1, <2>2, <2>3, <2>4, <2>5, <2>6 DEF Next, OutputLoop
<1> QED
  BY InitIInv, IInvStep, InitLateInv, LateInvStep, <1>1, <1>2, PTL DEF Spec, QueueSpec, Queue!Spec
=============================================================================
