------------------------------ MODULE Receiver ------------------------------
(***************************************************************************)
(* The three pipeline stages together: the slot ring between the producer  *)
(* and the demods, the audio handoff between the demods and the outputs,   *)
(* the shared flag do_exit, and main's teardown over both.                 *)
(*                                                                         *)
(* A demod thread is one thread in both modules: when the ring's demod has *)
(* announced a demodulated chunk it enters the handoff with that chunk's   *)
(* audio, and it is back in the ring's loop once it has raised data_ready. *)
(***************************************************************************)
EXTENDS Integers, Sequences

CONSTANTS Channels, TcpChannels, MaxChunks, Sources, MayFail, Interrupts,
          Spurious

VARIABLES source, do_exit,
  chunk_seq, slots, ppc, pgoal, tosignal, dpc, status, seq_processed, heard,
  rec, taped, woken,
  apc, pending, opc, data_ready, seq_packed, seq_written, result, posted,
  emitted, owoken

Ring  == INSTANCE SlotRing
Audio == INSTANCE AudioHandoff WITH MaxBlocks <- MaxChunks

ASSUME ReceiverAssumption == Ring!RingParameters

ringOwn  == <<source, chunk_seq, slots, ppc, pgoal, tosignal, dpc, status,
              seq_processed, heard, rec, taped, woken>>
audioOwn == <<apc, pending, opc, data_ready, seq_packed, seq_written, result,
              posted, emitted, owoken>>
vars     == <<do_exit, ringOwn, audioOwn>>

Init == Ring!Init /\ Audio!Init

\* The producer does not touch the audio, nor does the recording.
ProducerStep == Ring!Producer /\ UNCHANGED audioOwn

SaveRecording == Ring!SaveRecording /\ UNCHANGED audioOwn
RequestExit == Ring!RequestExit /\ UNCHANGED audioOwn
WakeDemod(c) == Ring!WakeDemod(c) /\ UNCHANGED audioOwn

\* The demod's loop, except that a demodulated chunk enters the handoff and
\* that the end of the loop is the end of the thread in both modules.
DemodStep(c) ==
  \/ /\ Ring!DemodCheck(c)
     /\ IF dpc'[c] = "done" THEN Audio!DemodEnds(c) ELSE UNCHANGED audioOwn
  \/ /\ Ring!DemodSleep(c) \/ Ring!Consume(c) \/ Ring!DemodFail(c)
     /\ UNCHANGED audioOwn
  \/ /\ Ring!Announce(c)
     /\ IF status[c] = "ok"
        THEN Audio!Begin(c, heard[c][Len(heard[c])])
        ELSE UNCHANGED audioOwn

\* Mutant: the demod leaves the handoff without flagging its block.
HandoverStepUnraised(c) ==
  \/ /\ Audio!HandoffCheck(c) \/ Audio!HandoffSleep(c) \/ Audio!Pack(c)
     /\ UNCHANGED ringOwn
  \/ /\ apc[c] = "raise"
     /\ apc' = [apc EXCEPT ![c] = "idle"]
     /\ UNCHANGED <<do_exit, pending, opc, data_ready, seq_packed, seq_written,
                    result, posted, emitted, owoken>>
     /\ Ring!AudioReturn(c)

HandoverStep(c) ==
  \/ /\ Audio!HandoffCheck(c) \/ Audio!HandoffSleep(c) \/ Audio!Pack(c)
     /\ UNCHANGED ringOwn
  \/ Audio!Raise(c) /\ Ring!AudioReturn(c)

OutputStep(c) == Audio!OutputLoop(c) /\ UNCHANGED ringOwn

\* Mutant: the outputs are signalled before the demods are joined.
WakeOutputEarly(c) ==
  /\ woken = Channels
  /\ c \notin owoken
  /\ opc[c] \notin {"enter_wait", "test"}
  /\ opc' = [opc EXCEPT ![c] = IF @ = "wait" THEN "top" ELSE @]
  /\ owoken' = owoken \cup {c}
  /\ UNCHANGED <<do_exit, ringOwn, apc, pending, data_ready, seq_packed,
                 seq_written, result, posted, emitted>>

\* Teardown signals and joins the demods before it signals the outputs.
WakeOutput(c) ==
  /\ woken = Channels
  /\ Audio!WakeOutput(c)
  /\ UNCHANGED ringOwn

SpuriousWakeup ==
  \/ Ring!SpuriousWakeup /\ UNCHANGED audioOwn
  \/ \E c \in Channels : Audio!SpuriousWakeup(c) /\ UNCHANGED ringOwn

\* Every thread has ended and teardown has nothing left to signal.
Finished ==
  /\ ppc = "done"
  /\ owoken = Channels
  /\ \A c \in Channels : opc[c] = "done"
  /\ UNCHANGED vars

Next ==
  \/ ProducerStep
  \/ \E c \in Channels :
       DemodStep(c) \/ HandoverStep(c) \/ OutputStep(c) \/ WakeDemod(c)
       \/ WakeOutput(c)
  \/ SaveRecording
  \/ RequestExit
  \/ SpuriousWakeup
  \/ Finished

\* One weak fairness condition per thread; main's joins and signals are
\* fair, signals from outside are not.
Fairness ==
  /\ WF_vars(ProducerStep)
  /\ \A c \in Channels : /\ WF_vars(DemodStep(c) \/ HandoverStep(c))
                         /\ WF_vars(OutputStep(c))
                         /\ WF_vars(WakeDemod(c))
                         /\ WF_vars(WakeOutput(c))
  /\ WF_vars(SaveRecording)

Spec == Init /\ [][Next]_vars
FairSpec == Spec /\ Fairness

\* Spurious wakeups come, but do not go on for ever: each takes a mutex that
\* another thread may be waiting for.
CalmSpec == FairSpec /\ <>[][~SpuriousWakeup]_vars

-----------------------------------------------------------------------------
(* Properties.                                                             *)

\* The program keeps to the handoff as it was specified by itself: what enters
\* it is the next chunk heard, never one out of turn, and main signals the
\* outputs only when every demod has ended (main.c:368-371).
AudioSpec == Audio!Spec

\* End to end.  What a channel's sink receives its demod has heard, and never
\* out of order, whatever shutdown loses or repeats.  Until shutdown begins it
\* is all that was heard, chunk for chunk, and lags by at most the demod's
\* block and the one in the result buffer.
EndToEnd ==
  \A c \in Channels :
    /\ \A i \in 1 .. Len(emitted[c]) :
         \E k \in 1 .. Len(heard[c]) : emitted[c][i] = heard[c][k]
    /\ \A i, j \in 1 .. Len(emitted[c]) : i <= j => emitted[c][i] <= emitted[c][j]
    /\ ~do_exit =>
         /\ Len(emitted[c]) <= Len(heard[c])
         /\ \A i \in 1 .. Len(emitted[c]) : emitted[c][i] = heard[c][i]
         /\ Len(heard[c]) <= Len(emitted[c]) + 2

\* What shutdown may cost a channel, whenever it comes and however it repeats
\* or overwrites blocks: the sink has, each once and in place, all that the
\* demod heard and may still hear but for the last four chunks, two in the
\* ring and two in the handoff.
LosesAtMostFour ==
  \A c \in Channels : \E n \in 0 .. Len(emitted[c]) :
    /\ n <= Len(heard[c])
    /\ \A i \in 1 .. n : emitted[c][i] = heard[c][i]
    /\ Len(heard[c]) + (chunk_seq + (IF ppc = "publish" THEN 1 ELSE 0))
         - seq_processed[c] <= n + 4

\* Threads that neither sleep on a condition variable nor have ended.  The
\* locks they may have to wait for are held by such threads only.
DemodRuns(c) ==
  \/ dpc[c] \notin {"wait", "audio", "done"}
  \/ dpc[c] = "audio" /\ apc[c] # "wait"

OutputRuns(c) == opc[c] \notin {"wait", "done"}

\* main has a step of its teardown to take.
TeardownRuns ==
  /\ ppc = "done"
  /\ \/ rec = "on"
     \/ woken # Channels
     \/ owoken # Channels /\ \A c \in Channels : dpc[c] = "done"

\* No deadlock: there is always somebody who does not sleep, until every demod
\* has ended; and an output that then sleeps for good is one whose counters
\* the double pack has parted (CleanShutdown), never one that missed a signal.
NoStandstill ==
  \/ ppc \notin {"wait", "done"}
  \/ \E c \in Channels : DemodRuns(c) \/ OutputRuns(c)
  \/ TeardownRuns
  \/ \A c \in Channels : /\ dpc[c] = "done"
                         /\ opc[c] = "wait" => seq_written[c] # seq_packed[c]

\* Every published chunk is taken by its demod, unless the demod has ended:
\* backpressure from the audio stage delays a chunk and never starves it.
ChunksConsumed == Ring!ChunksConsumed

\* Playback comes to its end, and once do_exit is set, by that or by anything
\* else, the producer and the demods end.  Of the audio stage only this is
\* assumed, that every write to a sink returns.
StreamingStops == source = "file" \/ do_exit ~> Ring!AllDone

\* Shutdown ends: every output thread returns, so main's joins do.  README:
\* "exits cleanly at EOF"; thread.h:50: "sets do_exit for a clean shutdown".
CleanShutdown == do_exit ~> \A c \in Channels : opc[c] = "done"
=============================================================================
