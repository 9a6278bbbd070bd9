------------------------------ MODULE SlotRing ------------------------------
(***************************************************************************)
(* The chunk handoff between the producer and the demod threads: the two   *)
(* ping-pong slots, the chunk counters, the condition variables around     *)
(* them, and the part of main's teardown that stops these threads.         *)
(*                                                                         *)
(* The producer is file_input_thread_fn (-I playback) or the hardware      *)
(* stream that enters rtlsdr_callback / sdrplay_stream_cb; both share      *)
(* acquire_fill_slot, deliver_buf and wait_demods_drained.                 *)
(*                                                                         *)
(* Locks.  A mutex is held across steps only between the failed test of a  *)
(* wait predicate and the wait that releases it (pc "enter_wait"), which   *)
(* is where a wakeup could be lost.  Every other critical section is one   *)
(* atomic step that needs the mutex free.  The counters and do_exit are    *)
(* volatile and are read and written without a lock, as in the code.       *)
(***************************************************************************)
EXTENDS Integers, Sequences

CONSTANTS
  Channels,     \* one demod thread per channel (freq_len of them)
  TcpChannels,  \* channels whose output is a TCP server: may skip chunks
  MaxChunks,    \* bound: chunks in the file, or delivered by the hardware
  Sources,      \* where chunks may come from: "file" (-I playback),
                \* "hardware", or "recorded" (a hardware stream with -R)
  MayFail,      \* TRUE if pipeline_process may return an error
  Interrupts,   \* TRUE if a signal, -x timeout or unplug may set do_exit
  Spurious      \* TRUE if pthread_cond_wait may return without a signal

RingParameters ==
  /\ Channels # {}
  /\ TcpChannels \subseteq Channels
  /\ MaxChunks \in Nat
  /\ Sources \subseteq {"file", "hardware", "recorded"}
  /\ MayFail \in BOOLEAN
  /\ Interrupts \in BOOLEAN
  /\ Spurious \in BOOLEAN

ASSUME RingAssumption == RingParameters

VARIABLES
  source,         \* what the options chose, one of Sources
  do_exit,        \* the global shutdown flag
  chunk_seq,      \* device.chunk_seq: chunks published so far
  slots,          \* device.slots: the number of the chunk a slot holds
  ppc,            \* where the producer is
  pgoal,          \* which wait it is in: "slot" (refill) or "eof" (drain)
  tosignal,       \* demods deliver_buf has still to signal
  dpc,            \* where each demod thread is
  status,         \* what the demod did with the chunk it last consumed
  seq_processed,  \* demod_state.seq_processed
  heard,          \* history: contents of the slots each demod demodulated
  rec,            \* device.record_file: "off", "on", "closed", "saved"
  taped,          \* history: chunks written to the recording
  woken           \* demods that teardown has signalled

ringVars == <<source, do_exit, chunk_seq, slots, ppc, pgoal, tosignal, dpc,
              status, seq_processed, heard, rec, taped, woken>>

prodVars  == <<chunk_seq, slots, ppc, pgoal, tosignal>>
demodVars == <<dpc, status, seq_processed, heard>>
mainVars  == <<source, rec, taped, woken>>

FileInput == source = "file"

Torn  == -1     \* a slot being overwritten
Empty == -2     \* a slot never filled
Slot(k) == k % 2

PStates == {"open", "top", "await", "enter_wait", "wait", "claim", "fill",
            "deliver", "publish", "signal", "eof", "done"}
DStates == {"top", "enter_wait", "wait", "read", "announce", "fail",
            "audio", "done"}

TypeOK ==
  /\ source \in Sources
  /\ do_exit \in BOOLEAN
  /\ chunk_seq \in 0 .. MaxChunks
  /\ slots \in [0 .. 1 -> Int]
  /\ ppc \in PStates
  /\ pgoal \in {"slot", "eof"}
  /\ tosignal \subseteq Channels
  /\ dpc \in [Channels -> DStates]
  /\ status \in [Channels -> {"ok", "skip", "fail"}]
  /\ seq_processed \in [Channels -> 0 .. MaxChunks]
  /\ heard \in [Channels -> Seq(Int)]
  /\ rec \in {"off", "on", "closed", "saved"}
  /\ taped \in 0 .. MaxChunks
  /\ woken \subseteq Channels

Init ==
  /\ source \in Sources
  /\ do_exit = FALSE
  /\ chunk_seq = 0
  /\ slots = [i \in 0 .. 1 |-> Empty]
  /\ ppc = IF FileInput THEN "open" ELSE "top"
  /\ pgoal = "slot"
  /\ tosignal = {}
  /\ dpc = [d \in Channels |-> "top"]
  /\ status = [d \in Channels |-> "ok"]
  /\ seq_processed = [d \in Channels |-> 0]
  /\ heard = [d \in Channels |-> <<>>]
  /\ rec = IF source = "recorded" THEN "on" ELSE "off"
  /\ taped = 0
  /\ woken = {}

-----------------------------------------------------------------------------
(* The producer.                                                           *)

\* fopen of the -I file: failing ends the run.
OpenInput ==
  /\ ppc = "open"
  /\ \/ /\ ppc' = "top"
        /\ UNCHANGED do_exit
     \/ /\ ppc' = "done"
        /\ do_exit' = TRUE
  /\ UNCHANGED <<chunk_seq, slots, pgoal, tosignal, demodVars, mainVars>>

\* The next chunk arrives: fread returned samples, or the library called back.
NextChunk ==
  /\ ppc = "top"
  /\ ~do_exit
  /\ chunk_seq < MaxChunks
  /\ ppc' = "await"
  /\ pgoal' = "slot"
  /\ UNCHANGED <<do_exit, chunk_seq, slots, tosignal, demodVars, mainVars>>

\* Playback leaves its loop: end of file, read error, or do_exit.
EndOfInput ==
  /\ ppc = "top"
  /\ FileInput
  /\ ppc' = "await"
  /\ pgoal' = "eof"
  /\ UNCHANGED <<do_exit, chunk_seq, slots, tosignal, demodVars, mainVars>>

\* The hardware stream ends: cancelled or uninitialised after do_exit, or
\* rtlsdr_read_async fails, or starting the RSP stream fails.
StreamEnds ==
  /\ ppc = "top"
  /\ ~FileInput
  /\ do_exit \/ Interrupts
  /\ do_exit' = TRUE
  /\ ppc' = "done"
  /\ UNCHANGED <<chunk_seq, slots, pgoal, tosignal, demodVars, mainVars>>

\* The RSP callback fills a slot across several calls and gives it up when
\* one of them sees do_exit.
AbandonFill ==
  /\ ppc = "fill"
  /\ ~FileInput
  /\ do_exit
  /\ ppc' = "top"
  /\ UNCHANGED <<do_exit, chunk_seq, slots, pgoal, tosignal, demodVars, mainVars>>

\* Mutant: the refill bar compares with the wrong chunk.
DrainedOneEarly ==
  \A d \in Channels :
    IF pgoal = "slot" THEN seq_processed[d] >= chunk_seq - 2
                      ELSE seq_processed[d] = chunk_seq

\* The predicate the producer waits for, over every demod's counter.
Drained ==
  \A d \in Channels :
    IF pgoal = "slot" THEN seq_processed[d] >= chunk_seq - 1
                      ELSE seq_processed[d] = chunk_seq

\* Test the predicate under slots_drained_m; a refill of chunks 0 and 1
\* does not test it at all.
AwaitCheck ==
  /\ ppc = "await"
  /\ ppc' = IF do_exit \/ Drained \/ (pgoal = "slot" /\ chunk_seq < 2)
            THEN IF pgoal = "slot" THEN "claim" ELSE "eof"
            ELSE "enter_wait"
  /\ UNCHANGED <<do_exit, chunk_seq, slots, pgoal, tosignal, demodVars, mainVars>>

AwaitSleep ==
  /\ ppc = "enter_wait"
  /\ ppc' = "wait"
  /\ UNCHANGED <<do_exit, chunk_seq, slots, pgoal, tosignal, demodVars, mainVars>>

\* acquire_fill_slot returns: NULL on do_exit, else the slot is overwritten.
ClaimSlot ==
  /\ ppc = "claim"
  /\ IF do_exit
     THEN /\ ppc' = "top"
          /\ UNCHANGED slots
     ELSE /\ ppc' = "fill"
          /\ slots' = [slots EXCEPT ![Slot(chunk_seq)] = Torn]
  /\ UNCHANGED <<do_exit, chunk_seq, pgoal, tosignal, demodVars, mainVars>>

FillSlot ==
  /\ ppc = "fill"
  /\ slots' = [slots EXCEPT ![Slot(chunk_seq)] = chunk_seq]
  /\ ppc' = "deliver"
  /\ UNCHANGED <<do_exit, chunk_seq, pgoal, tosignal, demodVars, mainVars>>

\* Mutant: a short write goes unnoticed.
RecordChunkRegardless ==
  IF rec = "on"
  THEN taped' \in {taped, taped + 1} /\ UNCHANGED rec
  ELSE UNCHANGED <<rec, taped>>

\* record_chunk: a short write closes the recording.
RecordChunk ==
  IF rec = "on"
  THEN \/ taped' = taped + 1 /\ UNCHANGED rec
       \/ rec' = "closed" /\ UNCHANGED taped
  ELSE UNCHANGED <<rec, taped>>

\* deliver_buf before the counter: dropped on do_exit, else recorded.
Deliver ==
  /\ ppc = "deliver"
  /\ IF do_exit
     THEN ppc' = "top" /\ UNCHANGED <<rec, taped>>
     ELSE ppc' = "publish" /\ RecordChunk
  /\ UNCHANGED <<source, do_exit, chunk_seq, slots, pgoal, tosignal, demodVars,
                 woken>>

\* The counter is bumped, before anyone is signalled.
Publish ==
  /\ ppc = "publish"
  /\ chunk_seq' = chunk_seq + 1
  /\ tosignal' = Channels
  /\ ppc' = "signal"
  /\ UNCHANGED <<do_exit, slots, pgoal, demodVars, mainVars>>

\* Mutant: the condition is signalled without taking ready_m.
SignalDemodUnlocked(d) ==
  /\ ppc = "signal"
  /\ d \in tosignal
  /\ dpc' = [dpc EXCEPT ![d] = IF @ = "wait" THEN "top" ELSE @]
  /\ tosignal' = tosignal \ {d}
  /\ ppc' = IF tosignal' = {} THEN "top" ELSE "signal"
  /\ UNCHANGED <<do_exit, chunk_seq, slots, pgoal, status, seq_processed,
                 heard, mainVars>>

\* safe_cond_signal of one demod; a demod about to wait holds the mutex.
SignalDemod(d) ==
  /\ ppc = "signal"
  /\ d \in tosignal
  /\ dpc[d] # "enter_wait"
  /\ dpc' = [dpc EXCEPT ![d] = IF @ = "wait" THEN "top" ELSE @]
  /\ tosignal' = tosignal \ {d}
  /\ ppc' = IF tosignal' = {} THEN "top" ELSE "signal"
  /\ UNCHANGED <<do_exit, chunk_seq, slots, pgoal, status, seq_processed,
                 heard, mainVars>>

\* file_input_thread_fn after its drain: ask for the shutdown and return.
InputExhausted ==
  /\ ppc = "eof"
  /\ do_exit' = TRUE
  /\ ppc' = "done"
  /\ UNCHANGED <<chunk_seq, slots, pgoal, tosignal, demodVars, mainVars>>

-----------------------------------------------------------------------------
(* A demod thread.                                                         *)

\* Mutant: an off-by-one lets a demod take a chunk not yet published.
DemodCheckEarly(d) ==
  /\ dpc[d] = "top"
  /\ dpc' = [dpc EXCEPT ![d] =
               IF chunk_seq >= seq_processed[d] THEN "read"
               ELSE IF do_exit THEN "done" ELSE "enter_wait"]
  /\ UNCHANGED <<do_exit, prodVars, status, seq_processed, heard, mainVars>>

\* Mutant: do_exit ends the thread before it has drained the ring.
DemodCheckExits(d) ==
  /\ dpc[d] = "top"
  /\ dpc' = [dpc EXCEPT ![d] =
               IF do_exit THEN "done"
               ELSE IF chunk_seq > seq_processed[d] THEN "read" ELSE "enter_wait"]
  /\ UNCHANGED <<do_exit, prodVars, status, seq_processed, heard, mainVars>>

\* Test the wait predicate under ready_m and take the branch it selects.
DemodCheck(d) ==
  /\ dpc[d] = "top"
  /\ dpc' = [dpc EXCEPT ![d] =
               IF chunk_seq > seq_processed[d] THEN "read"
               ELSE IF do_exit THEN "done" ELSE "enter_wait"]
  /\ UNCHANGED <<do_exit, prodVars, status, seq_processed, heard, mainVars>>

DemodSleep(d) ==
  /\ dpc[d] = "enter_wait"
  /\ dpc' = [dpc EXCEPT ![d] = "wait"]
  /\ UNCHANGED <<do_exit, prodVars, status, seq_processed, heard, mainVars>>

\* What may become of a chunk.
Outcomes(d) == {"ok"} \cup (IF MayFail THEN {"fail"} ELSE {})
                     \cup (IF d \in TcpChannels THEN {"skip"} ELSE {})

\* Mutant: the demod takes the newest chunk instead of its next one.
ConsumeNewest(d) ==
  /\ dpc[d] = "read"
  /\ \E s \in Outcomes(d) :
       /\ status' = [status EXCEPT ![d] = s]
       /\ heard' = IF s = "ok"
                   THEN [heard EXCEPT ![d] =
                           Append(@, slots[Slot(chunk_seq - 1)])]
                   ELSE heard
  /\ seq_processed' = [seq_processed EXCEPT ![d] = @ + 1]
  /\ dpc' = [dpc EXCEPT ![d] = "announce"]
  /\ UNCHANGED <<do_exit, prodVars, mainVars>>

\* The slot has been read (or skipped, for want of TCP clients) and the
\* chunk is counted as consumed, before its audio is handed on.
Consume(d) ==
  /\ dpc[d] = "read"
  /\ \E s \in Outcomes(d) :
       /\ status' = [status EXCEPT ![d] = s]
       /\ heard' = IF s = "ok"
                   THEN [heard EXCEPT ![d] =
                           Append(@, slots[Slot(seq_processed[d])])]
                   ELSE heard
  /\ seq_processed' = [seq_processed EXCEPT ![d] = @ + 1]
  /\ dpc' = [dpc EXCEPT ![d] = "announce"]
  /\ UNCHANGED <<do_exit, prodVars, mainVars>>

\* demod_signal_consumed: broadcast slots_drained.
Announce(d) ==
  /\ dpc[d] = "announce"
  /\ ppc # "enter_wait"
  /\ ppc' = IF ppc = "wait" THEN "await" ELSE ppc
  /\ dpc' = [dpc EXCEPT ![d] = CASE status[d] = "ok"   -> "audio"
                                 [] status[d] = "fail" -> "fail"
                                 [] status[d] = "skip" -> "top"]
  /\ UNCHANGED <<do_exit, chunk_seq, slots, pgoal, tosignal, status,
                 seq_processed, heard, mainVars>>

\* A failed pipeline_process ends the run.
DemodFail(d) ==
  /\ dpc[d] = "fail"
  /\ do_exit' = TRUE
  /\ dpc' = [dpc EXCEPT ![d] = "top"]
  /\ UNCHANGED <<prodVars, status, seq_processed, heard, mainVars>>

\* The audio stage (module AudioHandoff) gives the thread back to its loop.
AudioReturn(d) ==
  /\ dpc[d] = "audio"
  /\ dpc' = [dpc EXCEPT ![d] = "top"]
  /\ UNCHANGED <<do_exit, prodVars, status, seq_processed, heard, mainVars>>

-----------------------------------------------------------------------------
(* main, and the environment.                                              *)

\* sighandler, the -x timeout, or an RSP removal or failure event.
RequestExit ==
  /\ Interrupts
  /\ ~do_exit
  /\ do_exit' = TRUE
  /\ UNCHANGED <<prodVars, demodVars, mainVars>>

\* teardown: the producer is joined and stopped, then the file is closed ...
SaveRecording ==
  /\ do_exit
  /\ ppc = "done"
  /\ rec = "on"
  /\ rec' = "saved"
  /\ UNCHANGED <<source, do_exit, prodVars, demodVars, taped, woken>>

\* Mutant: teardown joins the demods without signalling them.
WakeNobody(d) ==
  /\ do_exit
  /\ ppc = "done"
  /\ rec # "on"
  /\ d \notin woken
  /\ woken' = woken \cup {d}
  /\ UNCHANGED <<source, do_exit, prodVars, demodVars, rec, taped>>

\* ... then every demod is signalled once.
WakeDemod(d) ==
  /\ do_exit
  /\ ppc = "done"
  /\ rec # "on"
  /\ d \notin woken
  /\ dpc[d] # "enter_wait"
  /\ dpc' = [dpc EXCEPT ![d] = IF @ = "wait" THEN "top" ELSE @]
  /\ woken' = woken \cup {d}
  /\ UNCHANGED <<source, do_exit, prodVars, status, seq_processed, heard, rec,
                 taped>>

SpuriousWakeup ==
  /\ Spurious
  /\ \/ /\ ppc = "wait"
        /\ ppc' = "await"
        /\ UNCHANGED dpc
     \/ /\ \E d \in Channels :
             /\ dpc[d] = "wait"
             /\ dpc' = [dpc EXCEPT ![d] = "top"]
        /\ UNCHANGED ppc
  /\ UNCHANGED <<do_exit, chunk_seq, slots, pgoal, tosignal, status,
                 seq_processed, heard, mainVars>>

-----------------------------------------------------------------------------
Producer ==
  \/ OpenInput \/ NextChunk \/ EndOfInput \/ StreamEnds \/ AbandonFill
  \/ AwaitCheck \/ AwaitSleep \/ ClaimSlot \/ FillSlot \/ Deliver \/ Publish
  \/ \E d \in Channels : SignalDemod(d)
  \/ InputExhausted

\* A demod thread up to the handover of its audio.
DemodLoop(d) ==
  \/ DemodCheck(d) \/ DemodSleep(d) \/ Consume(d) \/ Announce(d)
  \/ DemodFail(d)

Teardown == SaveRecording \/ \E d \in Channels : WakeDemod(d)

\* Every thread joined: the program is over, not deadlocked.
Finished ==
  /\ ppc = "done"
  /\ \A d \in Channels : dpc[d] = "done"
  /\ woken = Channels
  /\ UNCHANGED ringVars

Next ==
  \/ Producer
  \/ \E d \in Channels : DemodLoop(d) \/ AudioReturn(d)
  \/ Teardown
  \/ RequestExit
  \/ SpuriousWakeup
  \/ Finished

\* Every thread is scheduled.  The arrival of a chunk is fair only so that
\* playback reaches the end of its file; signals are not fair.
Fairness ==
  /\ WF_ringVars(Producer)
  /\ \A d \in Channels : WF_ringVars(DemodLoop(d) \/ AudioReturn(d))
  /\ \A d \in Channels : WF_ringVars(WakeDemod(d))
  /\ WF_ringVars(SaveRecording)

Spec == Init /\ [][Next]_ringVars
FairSpec == Spec /\ Fairness

-----------------------------------------------------------------------------
(* Safety.                                                                 *)

\* Tearing: while a demod reads a slot in place, the slot holds exactly the
\* chunk that demod is due, never one the producer has begun to overwrite.
\* This is what the refill bar of acquire_fill_slot and the bump of
\* seq_processed after the read are for: no lock covers the samples.
SlotIntact ==
  \A d \in Channels :
    dpc[d] = "read" => slots[Slot(seq_processed[d])] = seq_processed[d]

\* Lost wakeups: a demod sleeps on an unconsumed chunk, or past teardown's
\* signal, only while the signal it needs is still to come; the producer
\* sleeps on free slots only while a broadcast is still to come.
NoLostWakeup ==
  /\ \A d \in Channels :
       dpc[d] \in {"enter_wait", "wait"} =>
         /\ chunk_seq > seq_processed[d] => ppc = "signal" /\ d \in tosignal
         /\ d \notin woken
  /\ ppc \in {"enter_wait", "wait"} /\ Drained =>
       \E d \in Channels : dpc[d] = "announce"

\* A recording that was never closed for a short write holds every chunk
\* published, in particular every chunk any demod heard, once teardown has
\* reported it saved (record_chunk in deliver_buf, main.c:359-364).
RecordingComplete ==
  rec \in {"on", "saved"} =>
    taped = IF ppc = "publish" THEN chunk_seq + 1 ELSE chunk_seq

\* Shutdown drains: a demod that has ended has taken every chunk published,
\* except the one that was past deliver_buf's test of do_exit at the time.
\* That chunk may be in the recording, and no channel's audio has it.
ShutdownLosesOne ==
  \A d \in Channels :
    dpc[d] = "done" => chunk_seq <= seq_processed[d] + 1

\* The ring is a two-place queue to every demod: chunks are demodulated in
\* order, each at most once, from intact samples.
Stream == INSTANCE ChunkStream WITH published <- chunk_seq,
                                    next <- seq_processed
StreamSpec == Stream!Spec

-----------------------------------------------------------------------------
(* Liveness.                                                               *)

AllDone == ppc = "done" /\ \A d \in Channels : dpc[d] = "done"

\* Every published chunk is taken by every demod that is still running: a
\* demod that is behind the producer catches up.
ChunksConsumed ==
  \A d \in Channels :
    seq_processed[d] < chunk_seq ~>
      (seq_processed[d] = chunk_seq \/ dpc[d] = "done")
=============================================================================
