----------------------------- MODULE BlockQueue -----------------------------
(***************************************************************************)
(* What the audio handoff promises: for each channel a queue of blocks     *)
(* from the demod to the sink, at most two of them on their way, that      *)
(* loses nothing until shutdown begins.  From then on the demod no longer  *)
(* waits: blocks may be lost, or written again in place of a lost one.     *)
(* But none overtakes another, none is written that was not handed over,   *)
(* and the sink receives at most one block more than were handed over.     *)
(***************************************************************************)
EXTENDS Integers, Sequences

CONSTANTS
  Channels,
  Blocks     \* what may be handed over

VARIABLES
  closing,  \* shutdown has begun
  posted,   \* per channel: the blocks handed over
  emitted   \* per channel: the blocks written to the sink

vars == <<closing, posted, emitted>>

Capacity == 2

\* The blocks of e are blocks of p in the order of p: e's block i is p's
\* block from[i].
Follows(e, p) ==
  \E from \in [1 .. Len(e) -> 1 .. Len(p)] :
    /\ \A i \in 1 .. Len(e) : e[i] = p[from[i]]
    /\ \A i, j \in 1 .. Len(e) : i <= j => from[i] <= from[j]

Init ==
  /\ closing = FALSE
  /\ posted = [c \in Channels |-> <<>>]
  /\ emitted = [c \in Channels |-> <<>>]

Post(c) ==
  /\ closing \/ Len(posted[c]) < Len(emitted[c]) + Capacity
  /\ \E b \in Blocks : posted' = [posted EXCEPT ![c] = Append(@, b)]
  /\ UNCHANGED <<closing, emitted>>

\* The sink receives the next block.
Emit(c) ==
  /\ ~closing
  /\ Len(emitted[c]) < Len(posted[c])
  /\ emitted' = [emitted EXCEPT ![c] = Append(@, posted[c][Len(@) + 1])]
  /\ UNCHANGED <<closing, posted>>

\* Once shutdown has begun the sink receives any block that no later one
\* has overtaken, the last one again included.
EmitLate(c) ==
  /\ closing
  /\ Len(emitted[c]) <= Len(posted[c])
  /\ \E k \in 1 .. Len(posted[c]) :
       emitted' = [emitted EXCEPT ![c] = Append(@, posted[c][k])]
  /\ Follows(emitted'[c], posted[c])
  /\ UNCHANGED <<closing, posted>>

Close == closing' = TRUE /\ UNCHANGED <<posted, emitted>>

Next ==
  \/ \E c \in Channels : Post(c) \/ Emit(c) \/ EmitLate(c)
  \/ Close

Spec == Init /\ [][Next]_vars
=============================================================================
