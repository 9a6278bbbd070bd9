------------------------------ MODULE TcpServer ------------------------------
(***************************************************************************)
(* The TCP output of one channel: a listening socket and a table of        *)
(* clients shared by two threads.  The demod thread accepts connections    *)
(* before every chunk and skips the chunk when no client is connected; the *)
(* output thread accepts connections and sends every block to every        *)
(* client.  Both sockets are blocking; do_exit and main's teardown end the *)
(* two threads and close the table.                                        *)
(*                                                                         *)
(* clients_m is held across steps only by the output thread, from the lock *)
(* to the unlock of a broadcast (pc "send"); every other critical section  *)
(* is one atomic step that needs it free.  The scan for a free slot and    *)
(* the test before a broadcast read the table and the counter without it,  *)
(* as in the code.  A client stands for its socket on either side.         *)
(***************************************************************************)
EXTENDS Integers, Sequences, FiniteSets

CONSTANTS
  Clients,     \* bound: every client connects at most once
  MaxClients,  \* MAX_TCP_CLIENTS
  NoFd         \* the -1 of an empty slot

TcpParameters ==
  /\ IsFiniteSet(Clients)
  /\ MaxClients \in Nat \ {0}
  /\ NoFd \notin Clients

ASSUME TcpAssumption == TcpParameters

Slots   == 1 .. MaxClients
Threads == {"demod", "output"}
Held    == "send"   \* the pc at which the output thread holds clients_m

VARIABLES
  listening,     \* tcp_state.listen_fd is open
  client_fd,     \* tcp_state.client_fd
  client_count,  \* tcp_state.client_count
  pc,            \* where each thread is
  slot,          \* available_slot, per thread
  conn,          \* fd, per thread: the connection it has just accepted
  next,          \* i, the slot a broadcast has come to
  flag,          \* the handoff: no block, one, or two behind one data_ready
  do_exit,
  backlog,       \* kernel: connections that wait to be accepted
  sock,          \* kernel: each client's connection as the server sees it
  peer           \* each client: "reading", "stalled" (its window is full) or
                 \* "gone"

table   == <<client_fd, client_count>>
locals  == <<slot, conn, next>>
network == <<listening, backlog, sock, peer>>
vars    == <<table, pc, locals, flag, do_exit, network>>

\* "behind": data_ready is down but seq_written will not meet seq_packed
\* again, since two blocks were packed behind one flag ("twice").
Flags  == {"down", "up", "twice", "behind"}
States == {"idle", "scan", "select", "accept", "store", "count", "handoff",
           "test", "lock", Held, "done"}

TypeOK ==
  /\ listening \in BOOLEAN
  /\ client_fd \in [Slots -> Clients \cup {NoFd}]
  /\ client_count \in Int
  /\ pc \in [Threads -> States]
  /\ slot \in [Threads -> Slots]
  /\ conn \in [Threads -> Clients \cup {NoFd}]
  /\ next \in 1 .. MaxClients + 1
  /\ flag \in Flags
  /\ do_exit \in BOOLEAN
  /\ backlog \in Seq(Clients)
  /\ sock \in [Clients -> {"new", "queued", "open", "closed"}]
  /\ peer \in [Clients -> {"reading", "stalled", "gone"}]

\* tcp_init
Init ==
  /\ listening = TRUE
  /\ client_fd = [s \in Slots |-> NoFd]
  /\ client_count = 0
  /\ pc = [t \in Threads |-> "idle"]
  /\ slot = [t \in Threads |-> 1]
  /\ conn = [t \in Threads |-> NoFd]
  /\ next = 1
  /\ flag = "down"
  /\ do_exit = FALSE
  /\ backlog = <<>>
  /\ sock = [c \in Clients |-> "new"]
  /\ peer = [c \in Clients |-> "reading"]

Goto(t, l) == pc' = [pc EXCEPT ![t] = l]
LockFree   == pc["output"] # Held

\* Where tcp_accept_clients returns to.
AfterAccept(t) == IF t = "demod" THEN "count" ELSE "test"

-----------------------------------------------------------------------------
(* tcp_accept_clients, run by either thread.                               *)

FirstFree(s) ==
  /\ client_fd[s] = NoFd
  /\ \A r \in Slots : client_fd[r] = NoFd => s <= r

\* Mutant: a full table is not noticed, and -1 is taken for a slot.
ScanFull(t) ==
  /\ pc[t] = "scan"
  /\ \/ \E s \in Slots : FirstFree(s) /\ slot' = [slot EXCEPT ![t] = s]
     \/ /\ \A s \in Slots : client_fd[s] # NoFd
        /\ slot' = [slot EXCEPT ![t] = -1]
  /\ Goto(t, "select")
  /\ UNCHANGED <<table, conn, next, flag, do_exit, network>>

\* Look for room, without the lock.
Scan(t) ==
  /\ pc[t] = "scan"
  /\ \/ /\ \E s \in Slots : FirstFree(s) /\ slot' = [slot EXCEPT ![t] = s]
        /\ Goto(t, "select")
     \/ /\ \A s \in Slots : client_fd[s] # NoFd
        /\ Goto(t, AfterAccept(t))
        /\ UNCHANGED slot
  /\ UNCHANGED <<table, conn, next, flag, do_exit, network>>

\* select with a zero timeout.
Select(t) ==
  /\ pc[t] = "select"
  /\ Goto(t, IF backlog = <<>> THEN AfterAccept(t) ELSE "accept")
  /\ UNCHANGED <<table, locals, flag, do_exit, network>>

\* accept blocks until a connection is there: the other thread may have
\* taken the one that select saw.
Accept(t) ==
  /\ pc[t] = "accept"
  /\ backlog # <<>>
  /\ conn' = [conn EXCEPT ![t] = Head(backlog)]
  /\ sock' = [sock EXCEPT ![Head(backlog)] = "open"]
  /\ backlog' = Tail(backlog)
  /\ Goto(t, "store")
  /\ UNCHANGED <<table, slot, next, flag, do_exit, listening, peer>>

\* Mutant: the table is written without the lock.
StoreUnlocked(t) ==
  /\ pc[t] = "store"
  /\ client_fd' = [client_fd EXCEPT ![slot[t]] = conn[t]]
  /\ client_count' = client_count + 1
  /\ conn' = [conn EXCEPT ![t] = NoFd]
  /\ Goto(t, "scan")
  /\ UNCHANGED <<slot, next, flag, do_exit, network>>

\* The slot is not looked at again: what another thread has put there since
\* the scan is overwritten.
Store(t) ==
  /\ pc[t] = "store"
  /\ LockFree
  /\ client_fd' = [client_fd EXCEPT ![slot[t]] = conn[t]]
  /\ client_count' = client_count + 1
  /\ conn' = [conn EXCEPT ![t] = NoFd]
  /\ Goto(t, "scan")
  /\ UNCHANGED <<slot, next, flag, do_exit, network>>

-----------------------------------------------------------------------------
(* The demod thread.                                                       *)

\* Mutant: the fast path skips chunks without accepting anyone.
ChunkUnaccepted ==
  /\ pc["demod"] = "idle"
  /\ Goto("demod", "count")
  /\ UNCHANGED <<table, locals, flag, do_exit, network>>

\* A chunk is there.
Chunk ==
  /\ pc["demod"] = "idle"
  /\ Goto("demod", "scan")
  /\ UNCHANGED <<table, locals, flag, do_exit, network>>

\* Without clients the chunk is dropped.
CountClients ==
  /\ pc["demod"] = "count"
  /\ LockFree
  /\ Goto("demod", IF client_count = 0 THEN "idle" ELSE "handoff")
  /\ UNCHANGED <<table, locals, flag, do_exit, network>>

\* Pack a block and flag it, the last one written or do_exit set.  The pack
\* takes rw, which the output thread holds while it broadcasts.  (The steps
\* of this handoff are those of AudioHandoff.)
HandOver ==
  /\ pc["demod"] = "handoff"
  /\ pc["output"] \in {"idle", "done"}
  /\ do_exit \/ flag = "down"
  /\ flag' = IF flag = "down" THEN "up" ELSE "twice"
  /\ Goto("demod", "idle")
  /\ UNCHANGED <<table, locals, do_exit, network>>

DemodEnds ==
  /\ pc["demod"] = "idle"
  /\ do_exit
  /\ Goto("demod", "done")
  /\ UNCHANGED <<table, locals, flag, do_exit, network>>

-----------------------------------------------------------------------------
(* The output thread: tcp_broadcast.                                       *)

Broadcast ==
  /\ pc["output"] = "idle"
  /\ flag \in {"up", "twice"}
  /\ flag' = IF flag = "up" THEN "down" ELSE "behind"
  /\ Goto("output", "scan")
  /\ UNCHANGED <<table, locals, do_exit, network>>

\* Anyone connected?  Read without the lock.
TestCount ==
  /\ pc["output"] = "test"
  /\ Goto("output", IF client_count = 0 THEN "idle" ELSE "lock")
  /\ UNCHANGED <<table, locals, flag, do_exit, network>>

Lock ==
  /\ pc["output"] = "lock"
  /\ next' = 1
  /\ Goto("output", Held)
  /\ UNCHANGED <<table, slot, conn, flag, do_exit, network>>

Sending == pc["output"] = Held /\ next \in Slots

\* On to the next slot, and out of the lock after the last.
Advance ==
  /\ next' = next + 1
  /\ Goto("output", IF next = MaxClients THEN "idle" ELSE Held)

\* Mutant: the step to the next slot is left out for an empty one.
SkipEmptyStays ==
  /\ Sending
  /\ client_fd[next] = NoFd
  /\ UNCHANGED vars

SkipEmpty ==
  /\ Sending
  /\ client_fd[next] = NoFd
  /\ Advance
  /\ UNCHANGED <<table, slot, conn, flag, do_exit, network>>

\* The whole block fits in the socket; to a client that has gone it may
\* still seem to, or fail with an error that keeps the client.
SendAll ==
  /\ Sending
  /\ client_fd[next] # NoFd
  /\ peer[client_fd[next]] # "stalled"
  /\ Advance
  /\ UNCHANGED <<table, slot, conn, flag, do_exit, network>>

\* Mutant: the descriptor is closed but stays in the table.
DropKept ==
  /\ sock' = [sock EXCEPT ![client_fd[next]] = "closed"]
  /\ client_count' = client_count - 1
  /\ UNCHANGED client_fd

\* Mutant: the client is closed but still counted.
DropCounted ==
  /\ sock' = [sock EXCEPT ![client_fd[next]] = "closed"]
  /\ client_fd' = [client_fd EXCEPT ![next] = NoFd]
  /\ UNCHANGED client_count

\* close, and free the slot.
Drop ==
  /\ sock' = [sock EXCEPT ![client_fd[next]] = "closed"]
  /\ client_fd' = [client_fd EXCEPT ![next] = NoFd]
  /\ client_count' = client_count - 1

\* EPIPE or ECONNRESET, or a send cut short by the reset.
SendFails ==
  /\ Sending
  /\ client_fd[next] # NoFd
  /\ peer[client_fd[next]] = "gone"
  /\ Drop
  /\ Advance
  /\ UNCHANGED <<slot, conn, flag, do_exit, listening, backlog, peer>>

\* Nothing flagged, and everything packed is written.
OutputEnds ==
  /\ pc["output"] = "idle"
  /\ do_exit
  /\ flag = "down"
  /\ Goto("output", "done")
  /\ UNCHANGED <<table, locals, flag, do_exit, network>>

-----------------------------------------------------------------------------
(* main and the kernel.                                                    *)

\* SIGINT or SIGTERM.  The handler, installed without SA_RESTART, sets
\* do_exit and runs in any thread: a thread blocked in accept returns with
\* an error, one blocked in send with an error or having sent a part.
Signal ==
  /\ do_exit' = TRUE
  /\ \/ UNCHANGED <<table, pc, next, sock>>
     \/ \E t \in Threads :
          /\ pc[t] = "accept"
          /\ backlog = <<>>
          /\ Goto(t, AfterAccept(t))
          /\ UNCHANGED <<table, next, sock>>
     \/ /\ Sending
        /\ client_fd[next] # NoFd
        /\ peer[client_fd[next]] = "stalled"
        /\ Advance
        /\ Drop \/ UNCHANGED <<table, sock>>
  /\ UNCHANGED <<slot, conn, flag, listening, backlog, peer>>

\* tcp_close, once both threads are joined.
Close ==
  /\ pc = [t \in Threads |-> "done"]
  /\ listening
  /\ listening' = FALSE
  /\ client_count' = 0
  /\ client_fd' = [s \in Slots |-> NoFd]
  /\ sock' = [c \in Clients |->
                IF (\E s \in Slots : client_fd[s] = c) \/ sock[c] = "queued"
                THEN "closed" ELSE sock[c]]
  /\ backlog' = <<>>
  /\ UNCHANGED <<pc, locals, flag, do_exit, peer>>

Connect(c) ==
  /\ sock[c] = "new"
  /\ listening
  /\ sock' = [sock EXCEPT ![c] = "queued"]
  /\ backlog' = Append(backlog, c)
  /\ UNCHANGED <<table, pc, locals, flag, do_exit, listening, peer>>

\* The client stops reading until its window is full, reads again, or goes.
Stall(c) ==
  /\ sock[c] = "open"
  /\ peer[c] = "reading"
  /\ peer' = [peer EXCEPT ![c] = "stalled"]
  /\ UNCHANGED <<table, pc, locals, flag, do_exit, listening, backlog,
                 sock>>

Resume(c) ==
  /\ peer[c] = "stalled"
  /\ peer' = [peer EXCEPT ![c] = "reading"]
  /\ UNCHANGED <<table, pc, locals, flag, do_exit, listening, backlog,
                 sock>>

Leave(c) ==
  /\ sock[c] \in {"queued", "open"}
  /\ peer[c] # "gone"
  /\ peer' = [peer EXCEPT ![c] = "gone"]
  /\ UNCHANGED <<table, pc, locals, flag, do_exit, listening, backlog,
                 sock>>

-----------------------------------------------------------------------------
AcceptClients(t) == Scan(t) \/ Select(t) \/ Accept(t) \/ Store(t)

DemodStep ==
  AcceptClients("demod") \/ Chunk \/ CountClients \/ HandOver \/ DemodEnds

OutputStep ==
  \/ AcceptClients("output") \/ Broadcast \/ TestCount \/ Lock
  \/ SkipEmpty \/ SendAll \/ SendFails \/ OutputEnds

Next ==
  \/ DemodStep
  \/ OutputStep
  \/ Signal
  \/ Close
  \/ \E c \in Clients : Connect(c) \/ Stall(c) \/ Resume(c) \/ Leave(c)

\* Both threads run, and chunks keep coming.  A send that finds room again
\* and again gets through: strong fairness of the output thread.
Fairness == WF_vars(DemodStep) /\ SF_vars(OutputStep)

Spec == Init /\ [][Next]_vars
FairSpec == Spec /\ Fairness

\* In addition no client stops reading for good.
ReadingSpec == FairSpec /\ \A c \in Clients : WF_vars(Resume(c))

-----------------------------------------------------------------------------
(* Properties.                                                             *)

\* The connections a thread has accepted and not yet stored.
InHand   == {c \in Clients : \E t \in Threads : conn[t] = c}
Table    == {c \in Clients : \E s \in Slots : client_fd[s] = c}
Open     == {c \in Clients : sock[c] = "open"}
Orphans  == Open \ (Table \cup InHand)

\* A descriptor in the table, or in a thread's hand, is open and there once:
\* nothing is sent on, nor closes, a descriptor that was closed before and
\* may be another connection's by now (output_tcp.c:176-209).
TableSound ==
  /\ Table \cup InHand \subseteq Open
  /\ Table \cap InHand = {}
  /\ \A r, s \in Slots :
       client_fd[r] = client_fd[s] /\ client_fd[r] # NoFd => r = s

\* The counter may run ahead of the table, by the connections that two
\* racing accepts stored over one another, but never behind it: a channel
\* with a connected client is never taken for one without
\* (thread_demod.c:79-83, output_tcp.c:166).
CountAccounts ==
  listening => client_count = Cardinality(Table) + Cardinality(Orphans)

\* While a broadcast holds clients_m nobody else changes the table.
BroadcastExclusive ==
  [][Sending /\ Sending' =>
       \A s \in Slots \ {next} : client_fd'[s] = client_fd[s]]_vars

\* A client that connects is accepted as long as chunks keep coming, the
\* table has room and nobody asks for the shutdown ("Accept pending
\* connections so new clients can connect while demodulation is skipped",
\* thread_demod.c:75).
Accepted(c) ==
  sock[c] = "queued" ~>
    (sock[c] # "queued" \/ do_exit \/ \A s \in Slots : client_fd[s] # NoFd)

\* client_count is the "Active client count" (types.h:221) whenever no
\* thread is at work on the table.
CountExact ==
  pc = [t \in Threads |-> "idle"] => client_count = Cardinality(Table)

\* What the race costs.  A connection is lost only to a store over it; a lost
\* one is never sent to and never closed, not even by tcp_close; and while it
\* is open the demod takes the channel for one with clients.
LossIsPermanent ==
  [][/\ Orphans \subseteq Orphans'
     /\ \A c \in Orphans' \ Orphans :
          \E t \in Threads : pc[t] = "store" /\ client_fd[slot[t]] = c
     /\ Orphans # {} /\ pc["demod"] = "count" => pc'["demod"] \in {"count", "handoff"}]_vars

\* tcp_accept_clients never waits for a connection: "tcp_accept_clients is
\* non-blocking" (thread_demod.c:76), "Returns immediately when nothing is
\* pending" (output.h:27-28).
AcceptReturns ==
  \A t \in Threads : pc[t] = "accept" ~> pc[t] # "accept"

\* When it does wait, it is one of the two threads, not both: a connection
\* that select saw is there for one of them.
OneAcceptWaits ==
  backlog = <<>> => \E t \in Threads : pc[t] # "accept"

\* A broadcast ends, so that clients_m is given back and the demod gets its
\* handoff, whichever clients go or stall for a time meanwhile.  A client that
\* stalls for good is outside ReadingSpec: its socket is blocking.
BroadcastEnds == pc["output"] = Held ~> pc["output"] # Held
=============================================================================
