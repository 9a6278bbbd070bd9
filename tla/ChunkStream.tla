---------------------------- MODULE ChunkStream ----------------------------
(***************************************************************************)
(* What the slot ring promises: one stream of chunks 0, 1, 2, ... fanned   *)
(* out to every channel.  A channel takes the chunks in order, and         *)
(* demodulates each at most once, or drops it (TCP output without clients, *)
(* failed pipeline).  The stream is never more than Capacity chunks ahead  *)
(* of any channel: nothing is overwritten before it is taken.              *)
(***************************************************************************)
EXTENDS Integers, Sequences

CONSTANT Channels

VARIABLES
  published,  \* chunks published so far
  next,       \* per channel: the chunk it takes next
  heard       \* per channel: the chunks it demodulated

vars == <<published, next, heard>>

Capacity == 2

Init ==
  /\ published = 0
  /\ next = [d \in Channels |-> 0]
  /\ heard = [d \in Channels |-> <<>>]

Publish ==
  /\ \A d \in Channels : published - next[d] < Capacity
  /\ published' = published + 1
  /\ UNCHANGED <<next, heard>>

Take(d) ==
  /\ next[d] < published
  /\ next' = [next EXCEPT ![d] = @ + 1]
  /\ UNCHANGED published

Demodulate(d) == Take(d) /\ heard' = [heard EXCEPT ![d] = Append(@, next[d])]

Drop(d) == Take(d) /\ UNCHANGED heard

Next == Publish \/ \E d \in Channels : Demodulate(d) \/ Drop(d)

Spec == Init /\ [][Next]_vars
=============================================================================
