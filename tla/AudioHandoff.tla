---------------------------- MODULE AudioHandoff ----------------------------
(***************************************************************************)
(* The handoff of packed audio from each demod thread to its output        *)
(* thread: one result buffer per channel, the flag data_ready, the         *)
(* counters seq_packed and seq_written, two condition variables, and the   *)
(* part of main's teardown that stops the output threads.                  *)
(*                                                                         *)
(* Locks.  written_m and ready_m are held across steps only between a      *)
(* failed wait test and the wait ("enter_wait"), and ready_m also between  *)
(* the output thread's wait loop and its exit test ("test"); rw is held    *)
(* for reading during the write ("write").  Every other critical section   *)
(* is one atomic step that needs its lock free.                            *)
(*                                                                         *)
(* A block of audio is a number, the chunk it was demodulated from.        *)
(***************************************************************************)
EXTENDS Integers, Sequences

CONSTANTS
  Channels,   \* one demod and one output thread each
  MaxBlocks,  \* bound: blocks a channel's pipeline produces
  Spurious    \* TRUE if pthread_cond_wait may return without a signal

AudioParameters ==
  /\ Channels # {}
  /\ MaxBlocks \in Nat
  /\ Spurious \in BOOLEAN

ASSUME AudioAssumption == AudioParameters

VARIABLES
  do_exit,      \* the global shutdown flag
  apc,          \* where each demod thread is in the handoff
  pending,      \* the block it has to hand over: demod_state.output
  opc,          \* where each output thread is
  data_ready,   \* output_state.data_ready
  seq_packed,   \* output_state.seq_packed
  seq_written,  \* output_state.seq_written
  result,       \* output_state.result: the block packed last
  posted,       \* history: blocks that entered the handoff
  emitted,      \* history: blocks written to the sink
  owoken        \* outputs that teardown has signalled

demodSide  == <<apc, pending, posted>>
outputSide == <<opc, seq_written, emitted>>
audioOwn   == <<demodSide, outputSide, data_ready, seq_packed, result, owoken>>
audioVars  == <<do_exit, audioOwn>>

None == -1   \* no block yet

AStates == {"idle", "top", "enter_wait", "wait", "pack", "raise", "quit"}
OStates == {"top", "enter_wait", "wait", "test", "rdlock", "write", "bump",
            "announce", "done"}
Blocks == Nat \cup {None}

TypeOK ==
  /\ do_exit \in BOOLEAN
  /\ apc \in [Channels -> AStates]
  /\ pending \in [Channels -> Blocks]
  /\ opc \in [Channels -> OStates]
  /\ data_ready \in [Channels -> BOOLEAN]
  /\ seq_packed \in [Channels -> Nat]
  /\ seq_written \in [Channels -> Nat]
  /\ result \in [Channels -> Blocks]
  /\ posted \in [Channels -> Seq(Nat)]
  /\ emitted \in [Channels -> Seq(Nat)]   \* the unset buffer is never written
  /\ owoken \subseteq Channels

Init ==
  /\ do_exit = FALSE
  /\ apc = [c \in Channels |-> "idle"]
  /\ pending = [c \in Channels |-> None]
  /\ opc = [c \in Channels |-> "top"]
  /\ data_ready = [c \in Channels |-> FALSE]
  /\ seq_packed = [c \in Channels |-> 0]
  /\ seq_written = [c \in Channels |-> 0]
  /\ result = [c \in Channels |-> None]
  /\ posted = [c \in Channels |-> <<>>]
  /\ emitted = [c \in Channels |-> <<>>]
  /\ owoken = {}

-----------------------------------------------------------------------------
(* The demod thread of channel c.                                          *)

\* The pipeline has produced block b.
Begin(c, b) ==
  /\ apc[c] = "idle"
  /\ Len(posted[c]) < MaxBlocks
  /\ apc' = [apc EXCEPT ![c] = "top"]
  /\ pending' = [pending EXCEPT ![c] = b]
  /\ posted' = [posted EXCEPT ![c] = Append(@, b)]
  /\ UNCHANGED <<do_exit, outputSide, data_ready, seq_packed, result, owoken>>

\* Mutant: the demod does not wait for the output at all.
HandoffCheckNever(c) ==
  /\ apc[c] = "top"
  /\ apc' = [apc EXCEPT ![c] = "pack"]
  /\ UNCHANGED <<do_exit, pending, posted, outputSide, data_ready, seq_packed,
                 result, owoken>>

\* The lossless handoff: test under written_m whether the output has written
\* everything packed so far.
HandoffCheck(c) ==
  /\ apc[c] = "top"
  /\ apc' = [apc EXCEPT ![c] =
               IF ~do_exit /\ seq_written[c] # seq_packed[c]
               THEN "enter_wait" ELSE "pack"]
  /\ UNCHANGED <<do_exit, pending, posted, outputSide, data_ready, seq_packed,
                 result, owoken>>

HandoffSleep(c) ==
  /\ apc[c] = "enter_wait"
  /\ apc' = [apc EXCEPT ![c] = "wait"]
  /\ UNCHANGED <<do_exit, pending, posted, outputSide, data_ready, seq_packed,
                 result, owoken>>

\* pack_output_samples and the bump of seq_packed, under the write lock.
Pack(c) ==
  /\ apc[c] = "pack"
  /\ opc[c] # "write"
  /\ result' = [result EXCEPT ![c] = pending[c]]
  /\ seq_packed' = [seq_packed EXCEPT ![c] = @ + 1]
  /\ apc' = [apc EXCEPT ![c] = "raise"]
  /\ UNCHANGED <<do_exit, pending, posted, outputSide, data_ready, owoken>>

\* Mutant: data_ready is raised and signalled without ready_m.
RaiseUnlocked(c) ==
  /\ apc[c] = "raise"
  /\ data_ready' = [data_ready EXCEPT ![c] = TRUE]
  /\ opc' = [opc EXCEPT ![c] = IF @ = "wait" THEN "top" ELSE @]
  /\ apc' = [apc EXCEPT ![c] = "idle"]
  /\ UNCHANGED <<do_exit, pending, posted, seq_written, emitted, seq_packed,
                 result, owoken>>

\* Flag the block to the output thread, under ready_m.
Raise(c) ==
  /\ apc[c] = "raise"
  /\ opc[c] \notin {"enter_wait", "test"}
  /\ data_ready' = [data_ready EXCEPT ![c] = TRUE]
  /\ opc' = [opc EXCEPT ![c] = IF @ = "wait" THEN "top" ELSE @]
  /\ apc' = [apc EXCEPT ![c] = "idle"]
  /\ UNCHANGED <<do_exit, pending, posted, seq_written, emitted, seq_packed,
                 result, owoken>>

\* The demod thread leaves its loop.
DemodEnds(c) ==
  /\ apc[c] = "idle"
  /\ do_exit
  /\ apc' = [apc EXCEPT ![c] = "quit"]
  /\ UNCHANGED <<do_exit, pending, posted, outputSide, data_ready, seq_packed,
                 result, owoken>>

-----------------------------------------------------------------------------
(* The output thread of channel c.                                         *)

\* The wait loop's test, under ready_m.
OutputCheck(c) ==
  /\ opc[c] = "top"
  /\ opc' = [opc EXCEPT ![c] =
               IF data_ready[c] \/ (do_exit /\ seq_written[c] = seq_packed[c])
               THEN "test" ELSE "enter_wait"]
  /\ UNCHANGED <<do_exit, demodSide, seq_written, emitted, data_ready,
                 seq_packed, result, owoken>>

OutputSleep(c) ==
  /\ opc[c] = "enter_wait"
  /\ opc' = [opc EXCEPT ![c] = "wait"]
  /\ UNCHANGED <<do_exit, demodSide, seq_written, emitted, data_ready,
                 seq_packed, result, owoken>>

\* Mutant: the output writes whatever the buffer holds before it ends.
OutputTestLate(c) ==
  /\ opc[c] = "test"
  /\ IF do_exit /\ ~data_ready[c] /\ seq_written[c] > seq_packed[c]
     THEN /\ opc' = [opc EXCEPT ![c] = "done"]
          /\ UNCHANGED data_ready
     ELSE /\ opc' = [opc EXCEPT ![c] = "rdlock"]
          /\ data_ready' = [data_ready EXCEPT ![c] = FALSE]
  /\ UNCHANGED <<do_exit, demodSide, seq_written, emitted, seq_packed, result,
                 owoken>>

\* The exit test after the loop reads the counters once more; seq_packed may
\* have moved, since the demod bumps it without ready_m.
OutputTest(c) ==
  /\ opc[c] = "test"
  /\ IF do_exit /\ ~data_ready[c] /\ seq_written[c] = seq_packed[c]
     THEN /\ opc' = [opc EXCEPT ![c] = "done"]
          /\ UNCHANGED data_ready
     ELSE /\ opc' = [opc EXCEPT ![c] = "rdlock"]
          /\ data_ready' = [data_ready EXCEPT ![c] = FALSE]
  /\ UNCHANGED <<do_exit, demodSide, seq_written, emitted, seq_packed, result,
                 owoken>>

OutputLock(c) ==
  /\ opc[c] = "rdlock"
  /\ opc' = [opc EXCEPT ![c] = "write"]
  /\ UNCHANGED <<do_exit, demodSide, seq_written, emitted, data_ready,
                 seq_packed, result, owoken>>

\* fwrite, tcp_broadcast or udp_write of the result buffer.
Write(c) ==
  /\ opc[c] = "write"
  /\ emitted' = [emitted EXCEPT ![c] = Append(@, result[c])]
  /\ opc' = [opc EXCEPT ![c] = "bump"]
  /\ UNCHANGED <<do_exit, demodSide, seq_written, data_ready, seq_packed,
                 result, owoken>>

\* Mutant: the write is announced but not counted.
CountNothing(c) ==
  /\ opc[c] = "bump"
  /\ opc' = [opc EXCEPT ![c] = "announce"]
  /\ UNCHANGED <<do_exit, demodSide, seq_written, emitted, data_ready,
                 seq_packed, result, owoken>>

CountWritten(c) ==
  /\ opc[c] = "bump"
  /\ seq_written' = [seq_written EXCEPT ![c] = @ + 1]
  /\ opc' = [opc EXCEPT ![c] = "announce"]
  /\ UNCHANGED <<do_exit, demodSide, emitted, data_ready, seq_packed, result,
                 owoken>>

\* Broadcast written, under written_m.
AnnounceWritten(c) ==
  /\ opc[c] = "announce"
  /\ apc[c] # "enter_wait"
  /\ apc' = [apc EXCEPT ![c] = IF @ = "wait" THEN "top" ELSE @]
  /\ opc' = [opc EXCEPT ![c] = "top"]
  /\ UNCHANGED <<do_exit, pending, posted, seq_written, emitted, data_ready,
                 seq_packed, result, owoken>>

-----------------------------------------------------------------------------
(* main and the rest of the program.                                       *)

RequestExit ==
  /\ do_exit' = TRUE
  /\ UNCHANGED audioOwn

\* teardown, once every demod is joined: signal each output thread.
WakeOutput(c) ==
  /\ \A d \in Channels : apc[d] = "quit"
  /\ c \notin owoken
  /\ opc[c] \notin {"enter_wait", "test"}
  /\ opc' = [opc EXCEPT ![c] = IF @ = "wait" THEN "top" ELSE @]
  /\ owoken' = owoken \cup {c}
  /\ UNCHANGED <<do_exit, demodSide, seq_written, emitted, data_ready,
                 seq_packed, result>>

SpuriousWakeup(c) ==
  /\ Spurious
  /\ \/ /\ apc[c] = "wait"
        /\ apc' = [apc EXCEPT ![c] = "top"]
        /\ UNCHANGED opc
     \/ /\ opc[c] = "wait"
        /\ opc' = [opc EXCEPT ![c] = "top"]
        /\ UNCHANGED apc
  /\ UNCHANGED <<do_exit, pending, posted, seq_written, emitted, data_ready,
                 seq_packed, result, owoken>>

-----------------------------------------------------------------------------
\* The handoff proper, from a produced block back to the demod loop.
Handover(c) == HandoffCheck(c) \/ HandoffSleep(c) \/ Pack(c) \/ Raise(c)

OutputLoop(c) ==
  \/ OutputCheck(c) \/ OutputSleep(c) \/ OutputTest(c) \/ OutputLock(c)
  \/ Write(c) \/ CountWritten(c) \/ AnnounceWritten(c)

\* Some outputs may never end: see CleanShutdown in module Receiver.
Stopped ==
  /\ owoken = Channels
  /\ \A c \in Channels : opc[c] \in {"wait", "done"}
  /\ UNCHANGED audioVars

Next ==
  \/ \E c \in Channels :
       \/ \E b \in Len(posted[c]) .. MaxBlocks - 1 : Begin(c, b)
       \/ Handover(c)
       \/ DemodEnds(c)
       \/ OutputLoop(c)
       \/ WakeOutput(c)
       \/ SpuriousWakeup(c)
  \/ RequestExit
  \/ Stopped

\* Both threads run.  Strong fairness, since a thread that keeps waking up
\* without a signal takes its mutex again and again: the other still gets it.
Fairness ==
  \A c \in Channels : /\ SF_audioVars(Handover(c))
                      /\ SF_audioVars(OutputLoop(c))
                      /\ WF_audioVars(WakeOutput(c))

Spec == Init /\ [][Next]_audioVars
FairSpec == Spec /\ Fairness

-----------------------------------------------------------------------------
(* Properties.                                                             *)

\* Until shutdown begins, the sink has received exactly the blocks posted,
\* each once and in order, except for the at most two still on their way:
\* one in the demod's hands and one in the result buffer.
Delivered(c) ==
  /\ Len(emitted[c]) <= Len(posted[c])
  /\ Len(posted[c]) <= Len(emitted[c]) + 2
  /\ \A i \in 1 .. Len(emitted[c]) : emitted[c][i] = posted[c][i]

Lossless == ~do_exit => \A c \in Channels : Delivered(c)

\* A demod that waits for the output has its broadcast still to come, and an
\* output sleeps neither on a flagged block nor, when it could end, past
\* teardown's signal ("the wait cannot miss a wakeup", thread_demod.c:106).
NoLostWakeup ==
  \A c \in Channels :
    /\ apc[c] \in {"enter_wait", "wait"} =>
         seq_written[c] # seq_packed[c] \/ opc[c] = "announce"
    /\ opc[c] \in {"enter_wait", "wait"} =>
         /\ ~data_ready[c]
         /\ c \in owoken => seq_written[c] # seq_packed[c]

Queue == INSTANCE BlockQueue WITH closing <- do_exit, Blocks <- 0 .. MaxBlocks - 1

\* The handoff is the queue of BlockQueue: nothing is lost before shutdown,
\* nothing overtakes or is written unasked for after it ("lossless handoff",
\* thread_demod.c:104, and what is left of it once do_exit cuts its wait).
QueueSpec == Queue!Spec

\* A posted block reaches the sink unless shutdown intervenes.
BlockEmitted ==
  \A c \in Channels : \A k \in 1 .. MaxBlocks :
    Len(posted[c]) >= k ~> (Len(emitted[c]) >= k \/ do_exit)
=============================================================================
